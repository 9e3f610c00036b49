--------------------------- MODULE PrimaryBackup ---------------------------
(***************************************************************************)
(* Lab 2: PBServers and PBClients over the view service.                   *)
(*                                                                         *)
(* The view server is what it promises to be (ViewService, which           *)
(* ViewServer implements); operating[s] of that service is the view_num of *)
(* PBServer s.  The network is a set that only grows: a message may arrive *)
(* any number of times, in any order, late or never.  So                   *)
(*   - a retry that repeats a message already sent changes nothing;        *)
(*   - a view that was ever current may reach any server and any client,   *)
(*     whose pings and GetViews may have been answered with it;            *)
(*   - a BackupTimer may fire whenever its request has been sent: one that *)
(*     has been let go cannot be told from one that has yet to fire.       *)
(*                                                                         *)
(* Definitions introduced by "Slip:" stand for plausible mistakes in the   *)
(* code (see ViewServerCore).                                              *)
(***************************************************************************)
EXTENDS AtMostOnce, Integers, FiniteSets

CONSTANTS
  Servers,
  Null,        \* Java's null, as an address
  Accurate,    \* TRUE: only crashed servers are left out of a view
  MaxCrashes,  \* bound: the servers that stop for good
  MaxView,     \* bound: no view with a higher number is formed
  MaxCommands, \* bound: the commands a client's workload holds
  MaxList      \* bound: the length of a primary's cmd_list

ASSUME PrimaryBackupAssumption ==
  /\ Null \notin Servers \cup Clients
  /\ Accurate \in BOOLEAN /\ MaxCrashes \in Nat
  /\ MaxView \in Nat /\ MaxCommands \in Nat /\ MaxList \in Nat

VARIABLES
  view,     \* the newest view
  issued,   \* every view so far
  srv,      \* the fields of each PBServer
  cl,       \* the fields of each PBClient
  net,      \* every message sent
  crashed,  \* the servers that have stopped for good
  accepted  \* history: the results clients have been given

vars == <<view, issued, srv, cl, net, crashed, accepted>>

Service == INSTANCE ViewService
             WITH operating <- [s \in Servers |-> srv[s].view_num]

ServerOrNull == Servers \cup {Null}
ClientOrNull == Clients \cup {Null}
Role == {"PRIMARY", "BACKUP", "IDLE"}

View == [viewNum : Nat, primary : ServerOrNull, backup : ServerOrNull]

\* BackupRequest and BackupReply without the fields no handler reads (viewNum,
\* sequenceNum, err).
BackupRequest ==
  [command : AMOCommand, client : ClientOrNull, currentNum : Nat \ {0},
   past : BOOLEAN, last : BOOLEAN]
BackupReply ==
  [done : BOOLEAN, currentNum : Nat \cup {-1}, client : ClientOrNull,
   past : BOOLEAN, rcv : Nat]

\* A Reply with err set is left out: it can only make a client ask for the view
\* again, and so is needNewView, which decides whether a GetView is repeated.
Message ==
  [type : {"Request"}, to : Servers, command : AMOCommand]
    \cup [type : {"Reply"}, from : Servers, to : Clients, result : AMOResult]
    \cup [type : {"BackupRequest"}, from : Servers, to : Servers,
          body : BackupRequest]
    \cup [type : {"BackupReply"}, from : Servers, to : Servers,
          body : BackupReply]

ServerState ==
  [ role : Role, app : AMOApplication, view_num : Nat,
    current_view : View, backupRcv : Nat, newBackup : ServerOrNull,
    cmd_list : Log, able2Execute : BOOLEAN, viewChange : BOOLEAN ]

\* received is req_rcv.get(sequenceNum) = 1.
ClientState ==
  [ server : ServerOrNull, sequenceNum : Nat, viewNum : Nat,
    received : BOOLEAN ]

TypeOK ==
  /\ view \in View
  /\ issued \in SUBSET View
  /\ srv \in [Servers -> ServerState]
  /\ cl \in [Clients -> ClientState]
  /\ net \in SUBSET Message
  /\ crashed \in SUBSET Servers
  /\ accepted \in SUBSET AMOResult

-----------------------------------------------------------------------------

Request(cmd, s) == [type |-> "Request", to |-> s, command |-> cmd]
Reply(s, c, res) ==
  [type |-> "Reply", from |-> s, to |-> c, result |-> res]
ToBackup(p, b, br) ==
  [type |-> "BackupRequest", from |-> p, to |-> b, body |-> br]
ToPrimary(b, p, br) ==
  [type |-> "BackupReply", from |-> b, to |-> p, body |-> br]

\* The framework drops a message to a null address.
Send(msgs) == net' = net \cup {m \in msgs : m.to # Null}

StartupView == [viewNum |-> 0, primary |-> Null, backup |-> Null]

\* A PBServer's current_view is null, here StartupView, until it learns of a
\* first view; no handler looks into it before that.
ServerInit ==
  [ role |-> "IDLE", app |-> NewApplication, view_num |-> 0,
    current_view |-> StartupView, backupRcv |-> 0, newBackup |-> Null,
    cmd_list |-> <<>>, able2Execute |-> FALSE, viewChange |-> FALSE ]

ClientInit ==
  [server |-> Null, sequenceNum |-> 0, viewNum |-> 0, received |-> TRUE]

Init ==
  /\ view = StartupView
  /\ issued = {StartupView}
  /\ srv = [s \in Servers |-> ServerInit]
  /\ cl = [c \in Clients |-> ClientInit]
  /\ net = {}
  /\ crashed = {}
  /\ accepted = {}

-----------------------------------------------------------------------------
(* The view service and the failures it reacts to *)

\* The view service forms a view.  When Accurate, it leaves out a server of the
\* view before only if that has crashed.
FormView ==
  /\ view.viewNum < MaxView
  /\ UNCHANGED srv
  /\ Service!Advance
  /\ Accurate => {view.primary, view.backup} \ {view'.primary, view'.backup}
                   \subseteq crashed \cup {Null}
  /\ issued' = issued \cup {view'}
  /\ UNCHANGED <<cl, net, crashed, accepted>>

Crash(s) ==
  /\ s \notin crashed /\ Cardinality(crashed) < MaxCrashes
  /\ crashed' = crashed \cup {s}
  /\ UNCHANGED <<view, issued, srv, cl, net, accepted>>

-----------------------------------------------------------------------------
(* Servers *)

\* Slip: what the old backup confirmed is counted for the new one.
ResetFlagOnly(x) == [x EXCEPT !.able2Execute = FALSE]

ResetStates(x) == [x EXCEPT !.able2Execute = FALSE, !.backupRcv = 0]

\* backupNext: what becomes of the server, and the command it sends, the first
\* of cmd_list that the new backup has not confirmed.
Transferred(x) == x.backupRcv = Len(x.cmd_list)
AfterBackupNext(x) ==
  IF Transferred(x) THEN [x EXCEPT !.able2Execute = TRUE] ELSE x
\* Slip: commands are counted from zero.
TransfersFromZero(x) ==
  LET num == x.backupRcv + 1
  IN  IF Transferred(x) THEN {}
      ELSE {[command |-> x.cmd_list[num], client |-> Null,
             currentNum |-> x.backupRcv, past |-> TRUE,
             last |-> num = Len(x.cmd_list)]}

Transfers(x) ==
  LET num == x.backupRcv + 1
  IN  IF Transferred(x) THEN {}
      ELSE {[command |-> x.cmd_list[num], client |-> Null, currentNum |-> num,
             past |-> TRUE, last |-> num = Len(x.cmd_list)]}

Serves(x) == x.role = "PRIMARY" /\ x.able2Execute

\* What a primary in state x forwards for a command.
Forward(x, cmd) ==
  IF x.current_view.backup = Null THEN {}
  ELSE {[command |-> cmd, client |-> cmd.addr,
         currentNum |-> Len(x.cmd_list) + 1, past |-> FALSE, last |-> TRUE]}

\* handleRequest.  A server that is not primary, or not able to execute,
\* answers with an error and does nothing else.  With a backup the command is
\* forwarded and the next one refused until it is confirmed.
HandleRequest(m) ==
  /\ m.type = "Request"
  /\ LET s == m.to
         c == m.command.addr
         x == srv[s]
         y == [x EXCEPT !.cmd_list = Append(@, m.command)]
         backup == x.current_view.backup
     IN  /\ s \notin crashed /\ Serves(x)
         /\ Len(x.cmd_list) < MaxList
         /\ \/ /\ backup # Null
               /\ srv' = [srv EXCEPT ![s] = [y EXCEPT !.able2Execute = FALSE]]
               /\ Send({ToBackup(s, backup, br) : br \in Forward(x, m.command)})
            \/ /\ backup = Null
               /\ srv' = [srv EXCEPT ![s] =
                           [y EXCEPT !.app = Execute(@, m.command)]]
               /\ Send({Reply(s, c, Answer(x.app, m.command))})
  /\ UNCHANGED <<view, issued, cl, crashed, accepted>>

\* A backup that has not been told it is up to date does not take over.
Refuses(s, v) ==
  srv[s].role = "BACKUP" /\ v.primary = s /\ ~srv[s].able2Execute

\* View v gives its primary a backup other than the one it is serving with.
NewBackup(s, v) ==
  /\ v.primary = s /\ v.backup # Null
  /\ ~(srv[s].role = "PRIMARY" /\ v.backup = srv[s].current_view.backup)

\* Slip: a server that is left out keeps its role.
RoleKept(s, v) ==
  IF v.primary = s THEN "PRIMARY"
  ELSE IF v.backup = s THEN "BACKUP" ELSE srv[s].role

RoleIn(s, v) ==
  IF v.primary = s THEN "PRIMARY"
  ELSE IF v.backup = s THEN "BACKUP" ELSE "IDLE"

\* What entering v makes of a server's role and transfer state.
Enter(s, v) ==
  LET x == [srv[s] EXCEPT !.role = RoleIn(s, v)]
  IN  IF v.primary # s THEN ResetStates(x)
      ELSE IF v.backup = Null
           THEN [ResetStates(x) EXCEPT !.able2Execute = TRUE]
           ELSE IF NewBackup(s, v)
                THEN ResetStates([x EXCEPT !.newBackup = v.backup])
                ELSE x

\* Slip: a late ViewReply takes the server back.
Differs(s, v) == v.viewNum # srv[s].view_num

Newer(s, v) == v.viewNum > srv[s].view_num

\* What is left of the handler once the server has entered the view v as x.
\* Slip: viewChange stays set.
EnteredChanging(x, v) ==
  [x EXCEPT !.viewChange = TRUE, !.current_view = v, !.view_num = v.viewNum]

\* Slip: a server starts each view with a new application.
EnteredAnew(x, v) ==
  [x EXCEPT !.viewChange = FALSE, !.current_view = v, !.view_num = v.viewNum,
            !.app = NewApplication]

Entered(x, v) ==
  [x EXCEPT !.viewChange = FALSE, !.current_view = v, !.view_num = v.viewNum]

\* A new backup is sent the first command at once.
Starts(s, v) ==
  IF NewBackup(s, v) /\ ~Refuses(s, v) THEN Transfers(Enter(s, v)) ELSE {}

\* handleViewReply
HandleViewReply(s, v) ==
  /\ s \notin crashed
  /\ v \in issued /\ Newer(s, v)
  /\ LET x == Enter(s, v)
         y == IF NewBackup(s, v) THEN AfterBackupNext(x) ELSE x
     IN  \/ /\ Refuses(s, v)
            /\ srv' = [srv EXCEPT ![s].viewChange = TRUE]
            /\ UNCHANGED net
         \/ /\ ~Refuses(s, v)
            /\ srv' = [srv EXCEPT ![s] = Entered(y, v)]
            /\ Send({ToBackup(s, x.newBackup, br) : br \in Starts(s, v)})
  /\ UNCHANGED <<view, issued, cl, crashed, accepted>>

Rejects(b, p) == srv[b].role # "BACKUP" \/ srv[b].current_view.primary # p

LeavesGap(x, num) == num > Len(x.cmd_list) + 1

\* Slip: a repeated request for the last command is taken for a new one.
AlreadyHeldBefore(x, num) == num < Len(x.cmd_list)

AlreadyHeld(x, num) == num <= Len(x.cmd_list)

\* Slip: the backup does not remember what it executes.
ExecuteOnly(x, cmd) == [x EXCEPT !.app = Execute(@, cmd)]

Store(x, cmd) ==
  [x EXCEPT !.cmd_list = Append(@, cmd), !.app = Execute(@, cmd)]

\* handleBackupRequest.  A request from a server that is not its primary, or
\* that leaves a gap in cmd_list, is refused; one at or below the end of
\* cmd_list is taken for a retry and confirmed without a look at its command.
Refusal == [done |-> FALSE, currentNum |-> -1, client |-> Null,
            past |-> FALSE, rcv |-> 0]

HandleBackupRequest(m) ==
  /\ m.type = "BackupRequest"
  /\ LET b == m.to
         p == m.from
         r == m.body
         x == srv[b]
         refused == Rejects(b, p) \/ LeavesGap(x, r.currentNum)
         y == IF AlreadyHeld(x, r.currentNum) THEN x ELSE Store(x, r.command)
     IN  /\ b \notin crashed
         /\ \/ /\ refused
               /\ Send({ToPrimary(b, p, Refusal)})
               /\ UNCHANGED srv
            \/ /\ ~refused
               /\ srv' = [srv EXCEPT ![b] =
                           [y EXCEPT !.able2Execute = @ \/ r.last]]
               /\ Send({ToPrimary(b, p,
                          [done |-> TRUE, currentNum |-> r.currentNum,
                           client |-> r.client, past |-> r.past,
                           rcv |-> Len(y.cmd_list)])})
  /\ UNCHANGED <<view, issued, cl, crashed, accepted>>

\* handleBackupReply.  Any reply but a confirmation by the new backup resets
\* the transfer.  A confirmation of the command after backupRcv moves backupRcv
\* on, further if the backup says it has more; then the transfer goes on, or
\* ends, or the forwarded command is executed and answered.
Confirm(x, r) == [x EXCEPT !.backupRcv = IF r.rcv > @ THEN r.rcv ELSE @ + 1]

Confirms(m, x) == x.role = "PRIMARY" /\ m.from = x.newBackup /\ m.body.done

\* What the confirmation m makes the primary send next.
Continues(m) ==
  LET x == Confirm(srv[m.to], m.body)
  IN  IF /\ Confirms(m, srv[m.to]) /\ m.body.past /\ ~x.viewChange
         /\ m.body.currentNum - 1 = srv[m.to].backupRcv
         /\ x.backupRcv < Len(x.cmd_list)
      THEN Transfers(x) ELSE {}

HandleBackupReply(m) ==
  /\ m.type = "BackupReply"
  /\ LET p == m.to
         r == m.body
         confirmed == Confirms(m, srv[p])
         awaited == confirmed /\ r.currentNum - 1 = srv[p].backupRcv
         x == Confirm(srv[p], r)
         more == x.backupRcv < Len(x.cmd_list)
         cmd == x.cmd_list[r.currentNum]
     IN  /\ p \notin crashed
         /\ \/ /\ ~confirmed
               /\ srv' = [srv EXCEPT ![p] = ResetStates(@)]
               /\ UNCHANGED net
            \/ /\ awaited /\ r.past /\ more
               /\ srv' = [srv EXCEPT ![p] = IF x.viewChange
                                            THEN ResetStates(x)
                                            ELSE AfterBackupNext(x)]
               /\ Send({ToBackup(p, x.newBackup, br) : br \in Continues(m)})
            \/ /\ awaited /\ r.past /\ ~more
               /\ srv' = [srv EXCEPT ![p] = [x EXCEPT !.able2Execute = TRUE]]
               /\ UNCHANGED net
            \/ /\ awaited /\ ~r.past
               /\ srv' = [srv EXCEPT ![p] =
                           [x EXCEPT !.app = Execute(@, cmd),
                                     !.able2Execute = TRUE]]
               /\ Send({Reply(p, r.client, Answer(x.app, cmd))})
  /\ UNCHANGED <<view, issued, cl, crashed, accepted>>

\* onBackupTimer: every request to a backup has set one, and what it sends goes
\* to the backup of the day.
Resends(x, br) ==
  x.role = "PRIMARY" /\ x.backupRcv < br.currentNum /\ ~x.viewChange

OnBackupTimer(s, br) ==
  /\ s \notin crashed /\ Resends(srv[s], br)
  /\ Send({ToBackup(s, srv[s].newBackup, br)})
  /\ UNCHANGED <<view, issued, srv, cl, crashed, accepted>>

-----------------------------------------------------------------------------
(* Clients *)

\* sendCommand, called by the worker when the last command has its result.
SendCommand(c) ==
  LET n == cl[c].sequenceNum + 1
  IN  /\ cl[c].received /\ n <= MaxCommands
      /\ cl' = [cl EXCEPT ![c].sequenceNum = n, ![c].received = FALSE]
      /\ Send({Request([addr |-> c, sequenceNum |-> n], cl[c].server)})
      /\ UNCHANGED <<view, issued, srv, crashed, accepted>>

\* onClientTimer while the result is missing: the request goes to the server
\* known now.
OnClientTimer(c) ==
  /\ ~cl[c].received
  /\ Send({Request([addr |-> c, sequenceNum |-> cl[c].sequenceNum],
                   cl[c].server)})
  /\ UNCHANGED <<view, issued, srv, cl, crashed, accepted>>

\* handleViewReply
ClientHandleViewReply(c, v) ==
  /\ v \in issued /\ v.viewNum > cl[c].viewNum
  /\ cl' = [cl EXCEPT ![c].viewNum = v.viewNum, ![c].server = v.primary]
  /\ UNCHANGED <<view, issued, srv, net, crashed, accepted>>

\* handleReply: only the server the client takes for primary is believed, and
\* only the first result of the outstanding command.
HandleReply(m) ==
  /\ m.type = "Reply"
  /\ LET c == m.to
     IN  /\ m.from = cl[c].server
         /\ ~cl[c].received
         /\ m.result.sequenceNum = cl[c].sequenceNum
         /\ cl' = [cl EXCEPT ![c].received = TRUE]
  /\ accepted' = accepted \cup {m.result}
  /\ UNCHANGED <<view, issued, srv, net, crashed>>

-----------------------------------------------------------------------------

Next ==
  \/ FormView
  \/ \E m \in net :
       \/ HandleRequest(m) \/ HandleBackupRequest(m)
       \/ HandleBackupReply(m) \/ HandleReply(m)
       \/ m.type = "BackupRequest" /\ OnBackupTimer(m.from, m.body)
  \/ \E s \in Servers :
       Crash(s) \/ \E v \in issued : HandleViewReply(s, v)
  \/ \E c \in Clients :
       \/ SendCommand(c) \/ OnClientTimer(c)
       \/ \E v \in issued : ClientHandleViewReply(c, v)

Spec == Init /\ [][Next]_vars

\* Pings are answered, messages repeated until they arrive, timers run.
EnterNewest(s) == HandleViewReply(s, view)
Deliver ==
  \E m \in net :
    \/ HandleRequest(m) \/ HandleBackupRequest(m)
    \/ HandleBackupReply(m) \/ HandleReply(m)
    \/ m.type = "BackupRequest" /\ OnBackupTimer(m.from, m.body)
ClientStep(c) ==
  SendCommand(c) \/ OnClientTimer(c) \/ ClientHandleViewReply(c, view)

Fairness ==
  /\ WF_vars(FormView)
  /\ WF_vars(Deliver)
  /\ \A s \in Servers : WF_vars(EnterNewest(s))
  /\ \A c \in Clients : WF_vars(ClientStep(c))

FairSpec == Spec /\ Fairness

-----------------------------------------------------------------------------

IsPrefixOf(u, w) == Len(u) <= Len(w) /\ \A i \in DOMAIN u : u[i] = w[i]
Contents(u) == {u[i] : i \in DOMAIN u}
IsPrimary(s) == srv[s].role = "PRIMARY"
Backup(s) == srv[s].current_view.backup

\* Two servers that both know of view (p, b) and act in it.
Paired(p, b) ==
  /\ IsPrimary(p) /\ srv[b].role = "BACKUP"
  /\ srv[p].current_view = srv[b].current_view

\* lab2 README: "It's crucial that only one primary be active".  Once the
\* primary of the newest view has entered it, any other server that still takes
\* itself for primary has a backup, and is refused by it.
OnePrimaryActive ==
  \A p, q \in Servers :
    (p # q /\ IsPrimary(p) /\ IsPrimary(q) /\ srv[q].view_num = view.viewNum)
      => Backup(p) # Null /\ Rejects(Backup(p), p)

\* Whatever confirmations are repeated, late or from an earlier view, the
\* primary never counts more commands as confirmed than its backup holds.
ConfirmedIsHeld ==
  \A p \in Servers : IsPrimary(p) /\ srv[p].newBackup # Null =>
    srv[p].backupRcv <= Len(srv[srv[p].newBackup].cmd_list)

\* viewChange stays set only in a backup that refuses to take over: the tests
\* of it in handleBackupReply and onBackupTimer, made by primaries, never fire.
ViewChangeOnlyInBackup ==
  \A s \in Servers : srv[s].viewChange => srv[s].role = "BACKUP"

\* A new backup is brought up to date from cmd_list alone: whoever may come to
\* send it, as the list of a primary or of a backup that is promoted, has
\* executed no command that it would not send.
ListHoldsLog ==
  \A s \in Servers :
    Contents(srv[s].app.log) \subseteq Contents(srv[s].cmd_list)

\* Servers enter views as the view service assumes its clients to.
ImplementsService == Service!Spec

\* What b holds is the beginning of what p holds.
Begins(b, p) == IsPrefixOf(srv[b].cmd_list, srv[p].cmd_list)

\* Server b was in a view before the one it is in.
Returned(b) ==
  \E v \in issued :
    v.viewNum < srv[b].view_num /\ b \in {v.primary, v.backup}

\* A backup confirms a number that it holds without a look at the command, so
\* its list has to be its primary's.  It is, from the beginning and in order,
\* whatever is forwarded, transferred, resent, late or from an earlier view, and
\* no step changes that.  The code does not see to it that a server which comes
\* back from an earlier view brings such a list: it may differ from the step on
\* by which it returns.
BackupFollows ==
  [][\A p, b \in Servers :
       (srv'[b].role = "BACKUP" /\ srv'[b].current_view.primary = p)
         => \/ Begins(b, p)'
            \/ Returned(b)' /\ ~Begins(b, p)]_vars

\* Commands are forwarded, resent and transferred under their numbers in
\* cmd_list, and a confirmation tells which client to answer: what the client
\* is sent is the history up to a command of its own, under that command's
\* number.
AnswersAreOwn ==
  \A m \in net : m.type = "Reply" =>
    LET log == m.result.result
    IN  /\ log # <<>>
        /\ log[Len(log)] =
             [addr |-> m.to, sequenceNum |-> m.result.sequenceNum]

\* cmd_list holds a command once for each time it was requested; however it was
\* replicated, and whoever leads, no server executes one twice, or after a
\* later one of its client.
ExecutedOnce ==
  \A s \in Servers :
    LET log == srv[s].app.log
    IN  \A i, j \in DOMAIN log :
          i < j /\ log[i].addr = log[j].addr
            => log[i].sequenceNum < log[j].sequenceNum

-----------------------------------------------------------------------------

\* lab2 README: "operations are executed linearizably".  The results clients
\* have been given are histories of one growing log.
Linearizable ==
  \A r, t \in accepted :
    IsPrefixOf(r.result, t.result) \/ IsPrefixOf(t.result, r.result)

\* So they are as long as one server has led every view: retries, transfers to
\* any number of backups and confirmations from any of them lose or reorder
\* nothing that a client has been told.
LinearizableUntilTakeover ==
  (\A v, w \in issued :
     Null \notin {v.primary, w.primary} => v.primary = w.primary)
    => Linearizable

\* lab2 README: the backup has to see "every update to the application in the
\* same order as the primary".
SameOrder ==
  \A p, b \in Servers : Paired(p, b) /\ srv[p].able2Execute =>
    IsPrefixOf(srv[p].app.log, srv[b].app.log)

\* lab2 README: "If the primary fails, the ViewServer will promote the backup
\* to be primary".  The primary of the newest view enters it, unless it
\* crashes.
PrimaryTakesOver ==
  []<>(view.primary \in crashed \cup {Null}
         \/ srv[view.primary].view_num = view.viewNum)

=============================================================================

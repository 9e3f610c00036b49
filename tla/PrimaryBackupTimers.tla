------------------------ MODULE PrimaryBackupTimers ------------------------
(***************************************************************************)
(* Lab 2 with its timers: PrimaryBackup, in which a retry may come at any  *)
(* time, together with what decides in the code whether it comes at all.   *)
(*                                                                         *)
(*   - A server holds the BackupTimers it has set.  They all run for       *)
(*     BACKUP_RETRY_MILLIS, so the one set first fires first; it sends its *)
(*     request and is set again, or is let go.                             *)
(*   - A client wants the view (needNewView), has some ViewServer timers   *)
(*     set, and has a GetView under way, which may be lost.  Its Server    *)
(*     timer is set exactly while a result is missing: that of an earlier  *)
(*     command does nothing when it fires.                                 *)
(*   - Replies that a client does not believe make it ask for the view.    *)
(*                                                                         *)
(* Definitions introduced by "Slip:" stand for plausible mistakes in the   *)
(* code (see ViewServerCore).                                              *)
(***************************************************************************)
EXTENDS PrimaryBackup

CONSTANTS
  MaxTimers,  \* bound: the BackupTimers a server has set at a time
  MaxAsks     \* bound: the ViewServer timers a client has set at a time

ASSUME TimersAssumption == MaxTimers \in Nat \ {0} /\ MaxAsks \in Nat \ {0}

VARIABLES
  timers,  \* the requests of the BackupTimers each server has set, in order
  asking   \* what each client does to learn of the view

own == <<timers, asking>>
timedVars == <<vars, own>>

Asking == [needNewView : BOOLEAN, viewTimers : Nat, underWay : BOOLEAN]

TimersTypeOK ==
  /\ timers \in [Servers -> Seq(BackupRequest)]
  /\ asking \in [Clients -> Asking]

-----------------------------------------------------------------------------
(* Asking for the view *)

\* askForNewView
AskForNewView(a) ==
  [needNewView |-> TRUE, viewTimers |-> a.viewTimers + 1, underWay |-> TRUE]

NotAsking == [needNewView |-> FALSE, viewTimers |-> 0, underWay |-> FALSE]

TimedInit ==
  /\ Init
  /\ timers = [s \in Servers |-> <<>>]
  /\ asking = [c \in Clients |-> AskForNewView(NotAsking)]

\* Slip: a reply with the view already known leaves the flag set.
AskUntilNewer(c, v) == v.viewNum > cl[c].viewNum

\* The replies that clear needNewView.
Satisfies(c, v) == v.viewNum >= cl[c].viewNum

\* handleViewReply, of a client whose asking has become a.
LearnView(c, v, a) ==
  /\ \/ ClientHandleViewReply(c, v)
     \/ v.viewNum <= cl[c].viewNum /\ UNCHANGED vars
  /\ asking' = [asking EXCEPT ![c] =
                 [a EXCEPT !.needNewView = @ /\ ~Satisfies(c, v)]]
  /\ UNCHANGED timers

\* The GetView under way arrives, and so does its answer.
GetView(c) ==
  /\ asking[c].underWay
  /\ LearnView(c, view, [asking[c] EXCEPT !.underWay = FALSE])

LoseGetView(c) ==
  /\ asking[c].underWay
  /\ asking' = [asking EXCEPT ![c].underWay = FALSE]
  /\ UNCHANGED <<vars, timers>>

\* An answer to an earlier GetView, late or repeated.
LateViewReply(c, v) == v \in issued /\ LearnView(c, v, asking[c])

\* onClientTimer, case ViewServer
OnViewTimer(c) ==
  /\ asking[c].viewTimers > 0
  /\ \/ /\ asking[c].needNewView
        /\ asking' = [asking EXCEPT ![c].underWay = TRUE]
     \/ /\ ~asking[c].needNewView
        /\ asking' = [asking EXCEPT ![c].viewTimers = @ - 1]
  /\ UNCHANGED <<vars, timers>>

\* Slip: the request is repeated but the view is not asked for.
OnServerTimerBlind(c) == OnClientTimer(c) /\ UNCHANGED own

\* onClientTimer, case Server: the server may be dead.
OnServerTimer(c) ==
  /\ OnClientTimer(c)
  /\ asking' = [asking EXCEPT ![c].underWay = TRUE]
  /\ UNCHANGED timers

\* handleReply, of a reply from another server than the one the client knows,
\* or from that one while it was not primary.  Any server that the client has
\* sent a request to may have sent one.
AskOnReply(c) ==
  /\ \E m \in net : m.type = "Request" /\ m.command.addr = c
  /\ asking[c].viewTimers < MaxAsks
  /\ asking' = [asking EXCEPT ![c] = AskForNewView(@)]
  /\ UNCHANGED <<vars, timers>>

-----------------------------------------------------------------------------
(* Servers *)

\* Server s sets a timer for each request of brs, which is one or none.
Arm(s, brs) ==
  /\ \/ brs = {} /\ UNCHANGED timers
     \/ /\ Len(timers[s]) < MaxTimers
        /\ \E br \in brs :
             timers' = [timers EXCEPT ![s] = Append(@, br)]
  /\ UNCHANGED asking

ServeRequest(m) ==
  HandleRequest(m) /\ Arm(m.to, Forward(srv[m.to], m.command))

TakeViewReply(s, v) == HandleViewReply(s, v) /\ Arm(s, Starts(s, v))

TakeBackupReply(m) == HandleBackupReply(m) /\ Arm(m.to, Continues(m))

\* Slip: a timer fires once.
FireBackupTimerOnce(s) ==
  /\ timers[s] # <<>> /\ s \notin crashed
  /\ \/ OnBackupTimer(s, Head(timers[s]))
     \/ ~Resends(srv[s], Head(timers[s])) /\ UNCHANGED vars
  /\ timers' = [timers EXCEPT ![s] = Tail(@)]
  /\ UNCHANGED asking

\* onBackupTimer
FireBackupTimer(s) ==
  /\ timers[s] # <<>>
  /\ LET br == Head(timers[s])
     IN  \/ /\ OnBackupTimer(s, br)
            /\ timers' = [timers EXCEPT ![s] = Append(Tail(@), br)]
         \/ /\ s \notin crashed /\ ~Resends(srv[s], br)
            /\ timers' = [timers EXCEPT ![s] = Tail(@)]
            /\ UNCHANGED vars
  /\ UNCHANGED asking

-----------------------------------------------------------------------------

TimedNext ==
  \/ FormView /\ UNCHANGED own
  \/ \E m \in net :
       \/ ServeRequest(m) \/ TakeBackupReply(m)
       \/ (HandleBackupRequest(m) \/ HandleReply(m)) /\ UNCHANGED own
  \/ \E s \in Servers :
       \/ Crash(s) /\ UNCHANGED own
       \/ \E v \in issued : TakeViewReply(s, v)
       \/ FireBackupTimer(s)
  \/ \E c \in Clients :
       \/ SendCommand(c) /\ UNCHANGED own
       \/ OnServerTimer(c) \/ OnViewTimer(c) \/ AskOnReply(c)
       \/ GetView(c) \/ LoseGetView(c)
       \/ \E v \in issued : LateViewReply(c, v)

TimedSpec == TimedInit /\ [][TimedNext]_timedVars

\* The timers of a client run, and of its GetViews, sent again and again, some
\* are answered.  Nothing is assumed of the servers.
ClientFairness ==
  \A c \in Clients :
    /\ WF_timedVars(OnViewTimer(c)) /\ WF_timedVars(OnServerTimer(c))
    /\ SF_timedVars(GetView(c))

FairTimedSpec == TimedSpec /\ ClientFairness

-----------------------------------------------------------------------------

\* What the timers do is part of what PrimaryBackup allows.
ImplementsPrimaryBackup == Spec

\* A primary that waits for its backup has a timer that will ask again.
Retries(p) ==
  (IsPrimary(p) /\ ~srv[p].able2Execute)
    => \E br \in Contents(timers[p]) : Resends(srv[p], br)

\* Its backup has confirmed more commands than p holds.
Overtaken(p) == srv[p].backupRcv > Len(srv[p].cmd_list)

\* The only steps that leave a primary waiting with no timer to ask again are
\* two: it takes a reply that is not a confirmation by its backup (a refusal,
\* or a late one of an earlier backup), or a request when its backup, a server
\* that has come back with more commands, has confirmed beyond its own list.
RetriedUnlessRefused ==
  [][\A p \in Servers : Retries(p) /\ ~Retries(p)' =>
       \/ \E m \in net : /\ m.type = "BackupReply" /\ m.to = p
                         /\ ~Confirms(m, srv[p]) /\ TakeBackupReply(m)
       \/ \E m \in net : m.to = p /\ Overtaken(p) /\ ServeRequest(m)]_timedVars

\* A client that wants the view gets it.
AskingEnds ==
  \A c \in Clients : asking[c].needNewView ~> ~asking[c].needNewView

\* A client whose request is not answered turns to the primary of the newest
\* view, whoever it has taken for the primary.
ClientFindsPrimary ==
  \A c \in Clients :
    ~cl[c].received ~> cl[c].received \/ cl[c].server = view.primary
=============================================================================

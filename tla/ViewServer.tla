----------------------------- MODULE ViewServer -----------------------------
(***************************************************************************)
(* The view server of lab 2 among servers that only ping.                  *)
(*                                                                         *)
(* A server enters any view that has been issued and announces it with a   *)
(* ping.  The network may lose, repeat, reorder and delay pings: sent[s]   *)
(* holds every number s has pinged with, and any of them may arrive at any *)
(* time, after s has crashed too.                                          *)
(***************************************************************************)
EXTENDS ViewServerCore, Sequences

CONSTANTS
  KeyOrders, \* the orders in which the hash map may yield its keys
  MayCrash,  \* the servers that may stop for good
  MaxView,   \* bound: no view with a higher number is formed
  MaxLate    \* bound: pings of crashed servers that still arrive

ASSUME BoundsAssumption ==
  MayCrash \subseteq Servers /\ MaxView \in Nat /\ MaxLate \in Nat

\* Each order lists every server once, and FirstOf is what comes first.
ASSUME KeyOrdersAssumption ==
  \A o \in KeyOrders :
    /\ o \in Seq(Servers)
    /\ \A i, j \in DOMAIN o : i # j => o[i] # o[j]
    /\ \A a \in Servers : \E i \in DOMAIN o : o[i] = a
    /\ \A S \in SUBSET Servers, i \in DOMAIN o :
         o[i] \in S => \E j \in 1..i : o[j] = FirstOf[S]

VARIABLES
  vs,         \* the fields of the ViewServer
  operating,  \* the view number each server operates in (its newest ping)
  sent,       \* the view numbers each server has pinged with
  crashed,    \* the servers that have stopped for good
  late        \* how many pings of crashed servers have arrived

vars == <<vs, operating, sent, crashed, late>>

TypeOK ==
  /\ vs \in ViewServerState
  /\ operating \in [Servers -> Nat]
  /\ sent \in [Servers -> SUBSET Nat]
  /\ crashed \in SUBSET Servers
  /\ late \in Nat

Init ==
  /\ vs = ViewServerInit
  /\ operating = [s \in Servers |-> 0]
  /\ sent = [s \in Servers |-> {0}]
  /\ crashed = {}
  /\ late = 0

-----------------------------------------------------------------------------

\* A server learns of a newer view from a ViewReply and pings with its number.
Enter(s, n) ==
  /\ s \notin crashed
  /\ n > operating[s] /\ n <= vs.view_num
  /\ operating' = [operating EXCEPT ![s] = n]
  /\ sent' = [sent EXCEPT ![s] = @ \cup {n}]
  /\ UNCHANGED <<vs, crashed, late>>

\* handlePing: a ping of s with number n arrives.
ReceivePing(s, n) ==
  /\ n \in sent[s]
  /\ s \in crashed => late < MaxLate
  /\ vs' = HandlePing(vs, s, n)
  /\ vs'.view_num <= MaxView
  /\ late' = IF s \in crashed THEN late + 1 ELSE late
  /\ UNCHANGED <<operating, sent, crashed>>

\* onPingCheckTimer, every PING_CHECK_MILLIS.
PingCheck ==
  /\ vs' = OnPingCheckTimer(vs)
  /\ vs'.view_num <= MaxView
  /\ UNCHANGED <<operating, sent, crashed, late>>

Crash(s) ==
  /\ s \in MayCrash \ crashed
  /\ crashed' = crashed \cup {s}
  /\ UNCHANGED <<vs, operating, sent, late>>

Next ==
  \/ \E s \in Servers, n \in 0..MaxView : Enter(s, n) \/ ReceivePing(s, n)
  \/ PingCheck
  \/ \E s \in Servers : Crash(s)

Spec == Init /\ [][Next]_vars

\* The view server's timer re-arms itself, and a live server pings every
\* PING_MILLIS with the number of the view it operates in, one of which gets
\* through again and again.  That it enters a view is not assumed: a promoted
\* backup may refuse each ViewReply (PBServer, viewChange).
ReceiveNewest(s) == s \notin crashed /\ ReceivePing(s, operating[s])

Fairness ==
  /\ WF_vars(PingCheck)
  /\ \A s \in Servers : WF_vars(ReceiveNewest(s))

FairSpec == Spec /\ Fairness

-----------------------------------------------------------------------------

\* No handler dereferences null: the entries that changeRightNowIfPossible
\* (ack_list.get(PRIMARY)) and checkServerCounts (ping_list.get(BACKUP)) unbox
\* exist whenever those handlers can run.
NoNullUnboxing ==
  {vs.PRIMARY, vs.BACKUP} \ {Null} \subseteq
     {a \in Known(vs) : vs.ack_list[a] # Absent}

\* A pending view could be entered: it is a legal successor of the current
\* view, however long ago it was computed and whatever arrived since.
PendingIsLegal ==
  vs.needs_update =>
    /\ vs.NEXT_PRI \in {vs.PRIMARY, vs.BACKUP} \ {Null}
    /\ vs.NEXT_BACKUP # vs.NEXT_PRI
    /\ <<vs.NEXT_PRI, vs.NEXT_BACKUP>> # <<vs.PRIMARY, vs.BACKUP>>

\* What the view server believes acknowledged was sent by that server, about a
\* view that exists.
AcksAreReal ==
  \A a \in Servers : vs.ack_list[a] # Absent =>
    /\ vs.ack_list[a] \in sent[a]
    /\ vs.ack_list[a] <= vs.view_num

\* The second loop of onPingCheckTimer as the code has it: the state after each
\* server.
Loop(s, order) ==
  LET upTo[n \in 0..Len(order)] ==
        IF n = 0 THEN s
        ELSE IF order[n] \in Known(s) THEN CheckServerCounts(upTo[n - 1], order[n])
        ELSE upTo[n - 1]
  IN  upTo

\* The loop visits the primary and the backup it starts with to the same effect
\* as every known server in the map's order, from every state the countdown can
\* leave: no server promoted halfway through the loop is acted on again.
SweepIsLoop ==
  LET s == CountDown(vs)
  IN  \A order \in KeyOrders : Sweep(s) = Loop(s, order)[Len(order)]

\* A step that makes another server primary has heard from that server since
\* the timer before last: a silent backup is never promoted.
PromotedIsLive ==
  [][vs'.PRIMARY # vs.PRIMARY => vs'.ping_list[vs'.PRIMARY] > 0]_vars

\* The view server implements the abstract view service: numbers advance by
\* one, a primary comes from the view before, and no view follows one that its
\* primary has not entered, whatever pings are lost, repeated or late.
Service == INSTANCE ViewService
             WITH view <- CurrentView(vs), operating <- operating
ImplementsService == Service!Spec

\* Below the bound on views, the view server never stays for good in a view:
\* ... that is acknowledged, with a crashed primary and a live backup;
BelowBound == vs.view_num \in 1..(MaxView - 1)

DeadPrimaryReplaced ==
  []<>~(/\ BelowBound /\ PrimaryAcked(vs) /\ vs.PRIMARY \in crashed
        /\ vs.BACKUP \notin crashed \cup {Null})

\* The primary lives and operates in the view, whether or not a ping with its
\* number has arrived.
PrimaryLeads ==
  vs.PRIMARY \notin crashed /\ operating[vs.PRIMARY] = vs.view_num

\* ... with a crashed backup, and a live primary that has entered it;
DeadBackupReplaced ==
  []<>~(BelowBound /\ vs.BACKUP \in crashed /\ PrimaryLeads)

\* ... with no backup, a live primary that has entered it, and an idle server
\* that lives, in whatever view that operates.
VacancyFilled ==
  []<>~(/\ BelowBound /\ vs.BACKUP = Null /\ PrimaryLeads
        /\ Servers \ (crashed \cup {vs.PRIMARY}) # {})

-----------------------------------------------------------------------------

\* lab2 README, "Valid views": the service proceeds to a new view when the
\* primary or backup has been silent, or to add an idle server "that's been
\* pinging".  ViewServerTest, test11: "Dead idle server shouldn't become
\* backup".  A step that takes an idle server in as backup has heard from it
\* since the timer before last.
DeadIdleNotMadeBackup ==
  [][vs'.BACKUP \notin {Null, vs.PRIMARY, vs.BACKUP}
       => vs'.ping_list[vs'.BACKUP] > 0]_vars

=============================================================================

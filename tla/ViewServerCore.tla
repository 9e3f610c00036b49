--------------------------- MODULE ViewServerCore ---------------------------
(***************************************************************************)
(* The handlers of dslabs.primarybackup.ViewServer as functions from the   *)
(* server's state to its next state.  The handlers of a node run one at a  *)
(* time, so a handler is one function; ViewServer.tla drives them.         *)
(*                                                                         *)
(* The field current_view of the code is not stored: change2NewView always *)
(* sets it together with view_num, PRIMARY and BACKUP (see CurrentView).   *)
(*                                                                         *)
(* Definitions introduced by "Slip:" are what the next definition would be *)
(* with a plausible mistake in the code.  Nothing uses them; the checks    *)
(* are known to fail when one takes the definition's place.                *)
(***************************************************************************)
EXTENDS Integers

CONSTANTS
  Servers,  \* the addresses of the key/value servers
  Null,     \* Java's null, as an address
  FirstOf   \* the key of a set that a HashMap's iteration reaches first

ASSUME ServersAssumption ==
  /\ Null \notin Servers
  /\ \A S \in SUBSET Servers : S # {} => FirstOf[S] \in S

Absent == -1                       \* no entry for a key of ping_list / ack_list
ServerOrNull == Servers \cup {Null}

View == [viewNum : Nat, primary : ServerOrNull, backup : ServerOrNull]

\* The fields of a ViewServer.  ping_list counts the PingCheckTimers a server
\* may still miss; ack_list holds the view number of its newest ping.
ViewServerState ==
  [ view_num     : Nat,
    PRIMARY      : ServerOrNull,
    BACKUP       : ServerOrNull,
    NEXT_PRI     : ServerOrNull,
    NEXT_BACKUP  : ServerOrNull,
    needs_update : BOOLEAN,
    ping_list    : [Servers -> Absent..2],
    ack_list     : [Servers -> Nat \cup {Absent}] ]

ViewServerInit ==
  [ view_num |-> 0, PRIMARY |-> Null, BACKUP |-> Null,
    NEXT_PRI |-> Null, NEXT_BACKUP |-> Null, needs_update |-> FALSE,
    ping_list |-> [a \in Servers |-> Absent],
    ack_list  |-> [a \in Servers |-> Absent] ]

CurrentView(s) ==
  [viewNum |-> s.view_num, primary |-> s.PRIMARY, backup |-> s.BACKUP]

Known(s) == {a \in Servers : s.ping_list[a] # Absent}

-----------------------------------------------------------------------------

\* Slip: a view is left without waiting for its primary.
PrimaryAckedAlways(s) == TRUE

\* The primary of the current view has pinged with the current view number.
PrimaryAcked(s) == s.PRIMARY = Null \/ s.ack_list[s.PRIMARY] = s.view_num

Change2NewView(s) ==
  [s EXCEPT !.view_num = @ + 1,
            !.PRIMARY = s.NEXT_PRI,
            !.BACKUP = s.NEXT_BACKUP,
            !.NEXT_PRI = Null,
            !.NEXT_BACKUP = Null,
            !.needs_update = FALSE]

ChangeRightNowIfPossible(s) ==
  IF s.needs_update /\ PrimaryAcked(s) THEN Change2NewView(s) ELSE s

\* Records the pending view (replacing an older one) and enters it if the
\* current view is acknowledged.
MakeNewView(s, nextPri, nextBackup, needsUpdate) ==
  ChangeRightNowIfPossible(
    [s EXCEPT !.NEXT_PRI = nextPri,
              !.NEXT_BACKUP = nextBackup,
              !.needs_update = needsUpdate])

\* Slip: a server that has been silent counts as live.
LiveIdleOrSilent(s) ==
  {a \in Servers \ {s.PRIMARY, s.BACKUP} : s.ping_list[a] >= 0}

\* Slip: the backup may be chosen among the primary and the backup.
LiveAny(s) == {a \in Servers : s.ping_list[a] > 0}

LiveIdle(s) ==
  {a \in Servers \ {s.PRIMARY, s.BACKUP} : s.ping_list[a] > 0}

GetIdleForBackup(s) == IF LiveIdle(s) = {} THEN Null ELSE FirstOf[LiveIdle(s)]

\* Slip: the backup takes over though it is silent too.
CheckServerCountsBlind(s, a) ==
  IF s.ping_list[a] > 0 \/ a \notin {s.PRIMARY, s.BACKUP}
  THEN s
  ELSE IF a = s.PRIMARY /\ s.BACKUP # Null
       THEN MakeNewView(s, s.BACKUP, GetIdleForBackup(s), TRUE)
       ELSE MakeNewView(s, s.PRIMARY, GetIdleForBackup(s), TRUE)

\* One server of the timer's second loop: only a silent primary or backup
\* makes a difference.
CheckServerCounts(s, a) ==
  IF s.ping_list[a] > 0 \/ a \notin {s.PRIMARY, s.BACKUP}
  THEN s
  ELSE IF a # s.PRIMARY
       THEN MakeNewView(s, s.PRIMARY, GetIdleForBackup(s), TRUE)
       ELSE IF s.BACKUP # Null /\ s.ping_list[s.BACKUP] > 0
            THEN MakeNewView(s, s.BACKUP, GetIdleForBackup(s), TRUE)
            ELSE MakeNewView(s, s.PRIMARY, Null, FALSE)

-----------------------------------------------------------------------------

\* Slip: a missing backup is not filled.
FillPrimaryOnly(s, sender) ==
  IF s.PRIMARY = Null THEN MakeNewView(s, sender, Null, TRUE) ELSE s

\* handlePing, first part: the first ping makes a primary, and a ping from a
\* server that is not the primary makes a backup when there is none.
FillView(s, sender) ==
  IF s.PRIMARY = Null
  THEN MakeNewView(s, sender, Null, TRUE)
  ELSE IF s.BACKUP = Null /\ sender # s.PRIMARY
       THEN MakeNewView(s, s.PRIMARY, sender, TRUE)
       ELSE s

\* Slip: only pings with the current view number are counted.
RecordCurrentPing(s, sender, n) ==
  IF n # s.view_num
  THEN s
  ELSE [s EXCEPT !.ping_list[sender] = 2, !.ack_list[sender] = n]

\* Slip: any ping acknowledges the current view.
RecordPingAsAck(s, sender, n) ==
  [s EXCEPT !.ping_list[sender] = 2, !.ack_list[sender] = s.view_num]

\* handlePing, second part: a ping older than the newest one is not counted.
RecordPing(s, sender, n) ==
  IF n < s.ack_list[sender]
  THEN s
  ELSE [s EXCEPT !.ping_list[sender] = 2, !.ack_list[sender] = n]

HandlePing(s, sender, n) ==
  LET t == RecordPing(FillView(s, sender), sender, n)
  IN  IF sender = t.NEXT_PRI THEN ChangeRightNowIfPossible(t) ELSE t

\* Slip: counts go on below zero.
CountDownAll(s) ==
  [s EXCEPT !.ping_list = [a \in Servers |-> @[a] - 1]]

\* Slip: a count never reaches zero.
CountDownToOne(s) ==
  [s EXCEPT !.ping_list =
     [a \in Servers |-> IF @[a] > 1 THEN @[a] - 1 ELSE @[a]]]

CountDown(s) ==
  [s EXCEPT !.ping_list =
     [a \in Servers |-> IF @[a] > 0 THEN @[a] - 1 ELSE @[a]]]

\* The second loop visits every known server in the map's order.  A visit
\* changes nothing unless the server is a silent primary or backup, and every
\* server a visit promotes is live, so the loop is the visits to the primary
\* and the backup it starts with (SweepIsLoop in ViewServer compares the two).
Sweep(s) ==
  LET pair   == {s.PRIMARY, s.BACKUP} \ {Null}
      first  == FirstOf[pair]
      second == FirstOf[pair \ {first}]
      t      == CheckServerCounts(s, first)
  IN  IF pair = {} THEN s
      ELSE IF pair = {first} THEN t ELSE CheckServerCounts(t, second)

OnPingCheckTimer(s) == Sweep(CountDown(s))

=============================================================================

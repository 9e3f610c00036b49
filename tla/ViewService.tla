---------------------------- MODULE ViewService ----------------------------
(***************************************************************************)
(* What the view service promises, without pings, counters or timers: a    *)
(* sequence of views numbered one after the other, each with a primary     *)
(* taken from the view before it, and no new view until the primary of the *)
(* current one operates in it.                                             *)
(***************************************************************************)
EXTENDS Naturals

CONSTANTS Servers, Null

VARIABLES
  view,       \* the newest view
  operating   \* the number of the view each server operates in

vars == <<view, operating>>

Init ==
  /\ view = [viewNum |-> 0, primary |-> Null, backup |-> Null]
  /\ operating = [s \in Servers |-> 0]

\* A server enters a view that exists and is newer than its own.
Enter(s) ==
  /\ \E n \in (operating[s] + 1)..view.viewNum :
       operating' = [operating EXCEPT ![s] = n]
  /\ UNCHANGED view

\* The views that may follow v.  Any server may be the primary of the first
\* one.  Later, the primary stays or the backup takes its place, a backup that
\* comes in is neither of the two, and something has to change.
Newcomers(v) == (Servers \cup {Null}) \ ({v.primary, v.backup} \ {Null})

Successors(v) ==
  LET new(p, b) == [viewNum |-> v.viewNum + 1, primary |-> p, backup |-> b]
  IN  IF v.viewNum = 0
      THEN {new(p, Null) : p \in Servers}
      ELSE {new(p, b) : p \in {v.primary, v.backup} \ {Null},
                        b \in Newcomers(v)}
             \ {new(v.primary, v.backup)}

\* A started view is left only once its primary operates in it.
Advance ==
  /\ view.viewNum > 0 => operating[view.primary] = view.viewNum
  /\ view' \in Successors(view)
  /\ UNCHANGED operating

Next == Advance \/ \E s \in Servers : Enter(s)

Spec == Init /\ [][Next]_vars
=============================================================================

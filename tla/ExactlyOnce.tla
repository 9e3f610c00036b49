---------------------------- MODULE ExactlyOnce ----------------------------
(***************************************************************************)
(* What clients are promised: commands are executed one at a time, each    *)
(* once, between the step that invokes it and the step that returns its    *)
(* result.  There is no network, no retry and no server state but the      *)
(* order of execution.                                                     *)
(***************************************************************************)
EXTENDS Naturals, Sequences

CONSTANT Clients

VARIABLES
  log,      \* the commands executed, in order
  issued,   \* how many commands each client has invoked
  returned  \* the results each client has been given, in order

vars == <<log, issued, returned>>

Current(c) == [addr |-> c, sequenceNum |-> issued[c]]
Waiting(c) == Len(returned[c]) < issued[c]

Init ==
  /\ log = <<>>
  /\ issued = [c \in Clients |-> 0]
  /\ returned = [c \in Clients |-> <<>>]

Invoke(c) ==
  /\ ~Waiting(c)
  /\ issued' = [issued EXCEPT ![c] = @ + 1]
  /\ UNCHANGED <<log, returned>>

Perform(c) ==
  /\ Waiting(c)
  /\ \A i \in DOMAIN log : log[i] # Current(c)
  /\ log' = Append(log, Current(c))
  /\ UNCHANGED <<issued, returned>>

\* The result is what the application was when it had executed the command.
Return(c) ==
  /\ Waiting(c)
  /\ \E i \in DOMAIN log :
       /\ log[i] = Current(c)
       /\ returned' = [returned EXCEPT ![c] = Append(@, SubSeq(log, 1, i))]
  /\ UNCHANGED <<log, issued>>

Next == \E c \in Clients : Invoke(c) \/ Perform(c) \/ Return(c)

Spec == Init /\ [][Next]_vars
=============================================================================

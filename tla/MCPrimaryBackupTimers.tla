----------------------- MODULE MCPrimaryBackupTimers -----------------------
(* A small instance of PrimaryBackupTimers for TLC. *)
EXTENDS PrimaryBackupTimers

CONSTANTS s1, s2, c1

\* The servers are interchangeable until the first view is formed, and TLC's
\* symmetry reduction is unsound for liveness: the first primary is s1.
FirstIsS1 == view.viewNum = 0 => view'.primary \in {Null, s1}

\* A server that lives has been left out of a view.
LeftOut ==
  \E v, w \in issued :
    /\ w.viewNum = v.viewNum + 1
    /\ ~({v.primary, v.backup} \ {w.primary, w.backup}
           \subseteq crashed \cup {Null})

\* Bound: once a live server has been left out, no server crashes, the client
\* sends no second command, and the first arrives once at a server.  Before
\* that, a server has one timer set at a time once the second has been sent.
Scope ==
  \/ /\ crashed = {}
     /\ \A c \in Clients : cl[c].sequenceNum <= 1
     /\ \A s \in Servers : Len(srv[s].cmd_list) <= 1
  \/ /\ ~LeftOut
     /\ \/ \A c \in Clients : cl[c].sequenceNum <= 1
        \/ \A s \in Servers : Len(timers[s]) <= 1

MCSpec ==
  /\ TimedInit /\ [][TimedNext /\ FirstIsS1 /\ Scope']_timedVars
  /\ ClientFairness
=============================================================================

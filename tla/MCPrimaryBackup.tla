-------------------------- MODULE MCPrimaryBackup --------------------------
(* Small instances of PrimaryBackup for TLC. *)
EXTENDS PrimaryBackup, TLC

CONSTANTS s1, s2, s3, c1, c2

Symmetry == Permutations(Servers) \cup Permutations(Clients)

\* The servers that have had a part in some view, and the clients at work.
Members ==
  {s \in Servers : \/ srv[s] # ServerInit
                   \/ \E v \in issued : s \in {v.primary, v.backup}}
Active == {c \in Clients : cl[c] # ClientInit}

\* Bound: two servers form three views for two clients, or four for one; three
\* servers form four while one client sends its command, which arrives once at a
\* server, and has not heard of the last two views when the fourth is formed.
Scope ==
  \/ Cardinality(Members) <= 2 /\ view.viewNum <= 3
  \/ Cardinality(Members) <= 2 /\ Cardinality(Active) <= 1
  \/ /\ Cardinality(Active) <= 1
     /\ \A s \in Servers : Len(srv[s].cmd_list) <= 1
     /\ view.viewNum = 4 => \A c \in Clients : cl[c].viewNum <= 2

ScopedSpec == Init /\ [][Next /\ Scope']_vars
=============================================================================

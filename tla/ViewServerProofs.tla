-------------------------- MODULE ViewServerProofs --------------------------
(***************************************************************************)
(* Theorems about the view server, for any set of servers, any order of    *)
(* the hash map, any pattern of crashes and any bounds.                    *)
(***************************************************************************)
EXTENDS ViewServer, WellFoundedInduction, TLAPS

\* p and b may be the primary and the backup of the view after that of s, and
\* when they have been heard of, of its pending view.
MayFollow(s, p, b) ==
  IF s.PRIMARY = Null
  THEN p \in Servers /\ b = Null
  ELSE /\ p \in {s.PRIMARY, s.BACKUP} \ {Null}
       /\ b \in ServerOrNull /\ b \notin {s.PRIMARY, s.BACKUP} \ {Null}
       /\ ~(p = s.PRIMARY /\ b = s.BACKUP)

Legal(s, p, b) ==
  MayFollow(s, p, b) /\ \A a \in {p, b} \ {Null} : s.ack_list[a] # Absent

\* What every handler leaves true of the view server's fields.
Sound(s) ==
  /\ s \in ViewServerState
  /\ s.view_num = 0 <=> s.PRIMARY = Null
  /\ s.PRIMARY = Null => s.BACKUP = Null /\ ~s.needs_update
  /\ s.PRIMARY # Null => s.PRIMARY # s.BACKUP
  /\ \A a \in {s.PRIMARY, s.BACKUP} \ {Null} : s.ack_list[a] # Absent
  /\ \A a \in Servers : s.ping_list[a] = Absent <=> s.ack_list[a] = Absent
  /\ \A a \in Servers : s.ack_list[a] <= s.view_num
  /\ s.needs_update => Legal(s, s.NEXT_PRI, s.NEXT_BACKUP)

\* A pending promotion is of a backup that is not silent.
PendingIsLive(s) ==
  s.needs_update /\ s.NEXT_PRI # s.PRIMARY => s.ping_list[s.NEXT_PRI] > 0

\* From s to t the view stays, or one legal view follows an acknowledged one.
SameView(s, t) ==
  t.view_num = s.view_num /\ t.PRIMARY = s.PRIMARY /\ t.BACKUP = s.BACKUP

NextView(s, t) ==
  /\ t.view_num = s.view_num + 1
  /\ PrimaryAcked(s)
  /\ Legal(s, t.PRIMARY, t.BACKUP)
  /\ ~t.needs_update

\* The same as one whole handler sees it: the acknowledgement may be the ping
\* it handles.
Follows(s, t) ==
  \/ SameView(s, t)
  \/ /\ t.view_num = s.view_num + 1
     /\ s.PRIMARY # Null => t.ack_list[s.PRIMARY] = s.view_num
     /\ MayFollow(s, t.PRIMARY, t.BACKUP)

\* A server that t makes primary has not been silent.
Promotes(s, t) == t.PRIMARY # s.PRIMARY => t.ping_list[t.PRIMARY] > 0

SameLists(s, t) == t.ping_list = s.ping_list /\ t.ack_list = s.ack_list

-----------------------------------------------------------------------------

\* change2NewView, field by field.
LEMMA Change2NewViewFields ==
  ASSUME NEW s \in ViewServerState
  PROVE  LET t == Change2NewView(s)
         IN  /\ t \in ViewServerState
             /\ t.view_num = s.view_num + 1
             /\ t.PRIMARY = s.NEXT_PRI /\ t.BACKUP = s.NEXT_BACKUP
             /\ t.needs_update = FALSE
             /\ SameLists(s, t)
<1>1. /\ s.view_num + 1 \in Nat
      /\ s.NEXT_PRI \in ServerOrNull /\ s.NEXT_BACKUP \in ServerOrNull
      /\ Null \in ServerOrNull /\ FALSE \in BOOLEAN
  BY DEF ViewServerState, ServerOrNull
<1>2. Change2NewView(s) \in ViewServerState
  BY <1>1, Zenon DEF Change2NewView, ViewServerState
<1> QED BY <1>2 DEF Change2NewView, ViewServerState, SameLists

\* A pending view that is legal takes effect as one step to the next view, or
\* not at all.
LEMMA ChangeKeeps ==
  ASSUME NEW s, Sound(s)
  PROVE  LET t == ChangeRightNowIfPossible(s)
         IN  /\ Sound(t) /\ SameLists(s, t)
             /\ t = s \/ NextView(s, t)
             /\ NextView(s, t) => t.PRIMARY = s.NEXT_PRI /\ s.needs_update
<1> DEFINE t == ChangeRightNowIfPossible(s)
<1>1. CASE ~(s.needs_update /\ PrimaryAcked(s))
  BY <1>1 DEF ChangeRightNowIfPossible, SameLists, NextView, Sound, ViewServerState
<1>2. CASE s.needs_update /\ PrimaryAcked(s)
  <2>1. t = Change2NewView(s)
    BY <1>2 DEF ChangeRightNowIfPossible
  <2>2. /\ t \in ViewServerState
        /\ t.view_num = s.view_num + 1
        /\ t.PRIMARY = s.NEXT_PRI /\ t.BACKUP = s.NEXT_BACKUP
        /\ t.needs_update = FALSE
        /\ SameLists(s, t)
    BY <2>1, Change2NewViewFields DEF Sound
  <2>3. Legal(s, t.PRIMARY, t.BACKUP) /\ s.PRIMARY # Null
    BY <1>2, <2>2 DEF Sound
  <2>4. Sound(t)
    BY <2>2, <2>3, ServersAssumption
       DEF Sound, Legal, MayFollow, SameLists, ViewServerState, ServerOrNull, Absent
  <2> QED BY <1>2, <2>2, <2>3, <2>4 DEF NextView
<1> QED BY <1>1, <1>2

\* t is what makeNewView(p, b, u) makes of s: the view is pending or formed.
Made(s, t, p, b, u) ==
  /\ Sound(t) /\ SameLists(s, t)
  /\ \/ /\ SameView(s, t) /\ s.PRIMARY # Null
        /\ t.NEXT_PRI = p /\ t.needs_update = u
     \/ NextView(s, t) /\ t.PRIMARY = p /\ t.BACKUP = b

\* makeNewView with a legal view, or with no view at all (needsUpdate FALSE).
LEMMA MakeNewViewKeeps ==
  ASSUME NEW s, Sound(s),
         NEW p \in ServerOrNull, NEW b \in ServerOrNull, NEW u \in BOOLEAN,
         u => Legal(s, p, b), u \/ s.PRIMARY # Null
  PROVE  Made(s, MakeNewView(s, p, b, u), p, b, u)
<1> DEFINE r == [s EXCEPT !.NEXT_PRI = p, !.NEXT_BACKUP = b,
                          !.needs_update = u]
           t == MakeNewView(s, p, b, u)
<1>1. t = ChangeRightNowIfPossible(r)
  BY DEF MakeNewView
<1>2. /\ r \in ViewServerState
      /\ SameView(s, r) /\ SameLists(s, r)
      /\ r.NEXT_PRI = p /\ r.NEXT_BACKUP = b /\ r.needs_update = u
  BY DEF Sound, ViewServerState, SameView, SameLists, ServerOrNull
<1>3. PrimaryAcked(r) <=> PrimaryAcked(s)
  BY <1>2 DEF PrimaryAcked, SameView, SameLists
<1>4. ASSUME NEW q, NEW d PROVE Legal(r, q, d) <=> Legal(s, q, d)
  BY <1>2 DEF Legal, MayFollow, SameView, SameLists
<1>5. CASE s.PRIMARY # Null
  <2>1. Sound(r)
    BY <1>2, <1>4, <1>5 DEF Sound, SameView, SameLists
  <2>2. /\ Sound(t) /\ SameLists(r, t)
        /\ t = r \/ NextView(r, t)
    BY <1>1, <2>1, ChangeKeeps
  <2>3. CASE t = r
    BY <1>2, <1>5, <2>2, <2>3 DEF Made
  <2>4. CASE t # r
    <3>1. u /\ PrimaryAcked(r) /\ t = Change2NewView(r)
      BY <1>1, <1>2, <2>4 DEF ChangeRightNowIfPossible
    <3>2. t.PRIMARY = p /\ t.BACKUP = b /\ NextView(r, t)
      BY <1>2, <2>2, <2>4, <3>1, Change2NewViewFields
    <3> QED BY <1>2, <1>3, <1>4, <2>2, <3>2 DEF Made, NextView, SameView, SameLists
  <2> QED BY <2>3, <2>4
<1>6. CASE s.PRIMARY = Null
  <2>1. u /\ p \in Servers /\ b = Null /\ Legal(s, p, b)
    BY <1>6 DEF Legal, MayFollow
  <2>2. t = Change2NewView(r)
    BY <1>1, <1>2, <1>6, <2>1 DEF ChangeRightNowIfPossible, PrimaryAcked, SameView
  <2>3. /\ t \in ViewServerState /\ t.view_num = s.view_num + 1
        /\ t.PRIMARY = p /\ t.BACKUP = b /\ t.needs_update = FALSE
        /\ SameLists(s, t)
    BY <1>2, <2>2, Change2NewViewFields DEF SameView, SameLists
  <2>4. Sound(t)
    <3>1. p # Null /\ s.ack_list[p] # Absent
      BY <2>1, ServersAssumption DEF Legal
    <3>2. \A a \in Servers : s.ack_list[a] <= s.view_num
      BY DEF Sound
    <3>3. s.view_num \in Nat /\ s.ack_list \in [Servers -> Nat \cup {Absent}]
      BY DEF Sound, ViewServerState
    <3>4. \A a \in Servers : t.ack_list[a] <= t.view_num
      <4>1. ASSUME NEW a \in Servers
            PROVE  s.ack_list[a] <= s.view_num + 1
        <5>1. s.ack_list[a] \in Int
          BY <3>3 DEF Absent
        <5> QED BY <3>2, <3>3, <5>1
      <4> QED BY <2>3, <4>1 DEF SameLists
    <3>5. t.view_num # 0
      BY <2>3, <3>3
    <3> QED BY <2>1, <2>3, <3>1, <3>4, <3>5 DEF Sound, SameLists
  <2> QED BY <1>6, <2>1, <2>3, <2>4 DEF Made, NextView, PrimaryAcked
<1> QED BY <1>5, <1>6

-----------------------------------------------------------------------------

\* Only recordPing touches the two lists, and they matter to makeNewView only
\* as far as the primary's acknowledgement goes.
WithLists(s, pings, acks) ==
  [s EXCEPT !.ping_list = pings, !.ack_list = acks]

LEMMA MakeNewViewCommutes ==
  ASSUME NEW s \in ViewServerState, NEW pings, NEW acks,
         NEW p, NEW b, NEW u,
         s.PRIMARY # Null => acks[s.PRIMARY] = s.ack_list[s.PRIMARY]
  PROVE  MakeNewView(WithLists(s, pings, acks), p, b, u) =
           WithLists(MakeNewView(s, p, b, u), pings, acks)
<1> DEFINE pending(x) == [x EXCEPT !.NEXT_PRI = p, !.NEXT_BACKUP = b,
                                   !.needs_update = u]
           r == pending(s)
           w == WithLists(r, pings, acks)
<1>1. pending(WithLists(s, pings, acks)) = w
  BY Zenon DEF WithLists, ViewServerState
<1>2. /\ r.needs_update = u /\ r.PRIMARY = s.PRIMARY
      /\ r.view_num = s.view_num /\ r.ack_list = s.ack_list
  BY DEF ViewServerState
<1>3. /\ w.needs_update = u /\ w.PRIMARY = s.PRIMARY
      /\ w.view_num = s.view_num /\ w.ack_list = acks
  BY DEF ViewServerState, WithLists
<1>4. PrimaryAcked(w) <=> PrimaryAcked(r)
  BY <1>2, <1>3 DEF PrimaryAcked
<1>5. Change2NewView(w) = WithLists(Change2NewView(r), pings, acks)
  BY Zenon DEF Change2NewView, WithLists, ViewServerState
<1>6. ChangeRightNowIfPossible(w)
        = WithLists(ChangeRightNowIfPossible(r), pings, acks)
  BY <1>2, <1>3, <1>4, <1>5 DEF ChangeRightNowIfPossible
<1> QED BY <1>1, <1>6 DEF MakeNewView

\* A ping is recorded before or after the vacancies it fills, to the same
\* effect.
LEMMA RecordFirst ==
  ASSUME NEW s, Sound(s), NEW a \in Servers, NEW n \in Nat
  PROVE  RecordPing(FillView(s, a), a, n) = FillView(RecordPing(s, a, n), a)
<1> DEFINE r == RecordPing(s, a, n)
           f == FillView(s, a)
           P == [s.ping_list EXCEPT ![a] = 2]
           K == [s.ack_list EXCEPT ![a] = n]
<1>1. s \in ViewServerState /\ (s.PRIMARY = Null => s.BACKUP = Null)
  BY DEF Sound
<1>2. ASSUME NEW p, NEW b, NEW u
      PROVE  SameLists(s, MakeNewView(s, p, b, u))
  BY <1>1 DEF MakeNewView, ChangeRightNowIfPossible, Change2NewView,
              SameLists, ViewServerState
<1>3. SameLists(s, f)
  BY <1>2 DEF FillView, SameLists
<1>4. CASE n < s.ack_list[a]
  BY <1>3, <1>4 DEF RecordPing, SameLists
<1>5. CASE ~(n < s.ack_list[a])
  <2>1. r = WithLists(s, P, K) /\ RecordPing(f, a, n) = WithLists(f, P, K)
    BY <1>3, <1>5 DEF RecordPing, WithLists, SameLists
  <2>2. r.PRIMARY = s.PRIMARY /\ r.BACKUP = s.BACKUP
    BY <1>1, <2>1 DEF WithLists, ViewServerState
  <2>3. CASE s.PRIMARY = Null
    <3>1. /\ FillView(r, a) = MakeNewView(r, a, Null, TRUE)
          /\ f = MakeNewView(s, a, Null, TRUE)
      BY <2>2, <2>3 DEF FillView
    <3>2. MakeNewView(WithLists(s, P, K), a, Null, TRUE)
            = WithLists(MakeNewView(s, a, Null, TRUE), P, K)
      <4> HIDE DEF P, K
      <4>1. ASSUME NEW u
            PROVE  MakeNewView(WithLists(s, P, K), a, Null, u)
                     = WithLists(MakeNewView(s, a, Null, u), P, K)
        BY <1>1, <2>3, MakeNewViewCommutes
      <4> QED BY <4>1, Zenon
    <3> QED BY <2>1, <3>1, <3>2
  <2>4. CASE s.PRIMARY # Null /\ s.BACKUP = Null /\ a # s.PRIMARY
    <3>1. K[s.PRIMARY] = s.ack_list[s.PRIMARY]
      BY <1>1, <2>4 DEF ViewServerState, ServerOrNull
    <3>2. /\ FillView(r, a) = MakeNewView(r, s.PRIMARY, a, TRUE)
          /\ f = MakeNewView(s, s.PRIMARY, a, TRUE)
      BY <2>2, <2>4 DEF FillView
    <3>3. MakeNewView(WithLists(s, P, K), s.PRIMARY, a, TRUE)
            = WithLists(MakeNewView(s, s.PRIMARY, a, TRUE), P, K)
      <4> HIDE DEF P, K
      <4>1. ASSUME NEW u
            PROVE  MakeNewView(WithLists(s, P, K), s.PRIMARY, a, u)
                     = WithLists(MakeNewView(s, s.PRIMARY, a, u), P, K)
        BY <1>1, <3>1, MakeNewViewCommutes
      <4> QED BY <4>1, Zenon
    <3> QED BY <2>1, <3>2, <3>3
  <2>5. CASE s.PRIMARY # Null /\ ~(s.BACKUP = Null /\ a # s.PRIMARY)
    BY <2>1, <2>2, <2>5 DEF FillView
  <2> QED BY <2>3, <2>4, <2>5
<1> QED BY <1>4, <1>5

\* The ping of a server counts, and is acknowledged, or is older than one that
\* was.
LEMMA RecordPingKeeps ==
  ASSUME NEW s, Sound(s), PendingIsLive(s),
         NEW a \in Servers, NEW n \in Nat, n <= s.view_num
  PROVE  LET r == RecordPing(s, a, n)
         IN  /\ Sound(r) /\ PendingIsLive(r) /\ SameView(s, r)
             /\ r.ack_list[a] # Absent
             /\ s.PRIMARY = Null => r.ping_list[a] > 0
             /\ \A c \in Servers : r.ack_list[c] = s.ack_list[c] \/ (c = a /\ r.ack_list[c] = n)
<1> DEFINE r == RecordPing(s, a, n)
<1>1. /\ s.ack_list \in [Servers -> Nat \cup {-1}]
      /\ s.ping_list \in [Servers -> (-1)..2]
      /\ s.view_num \in Nat /\ s.ack_list[a] \in Int
      /\ s.ack_list[a] <= s.view_num
  BY DEF Sound, ViewServerState, Absent
<1>2. CASE n < s.ack_list[a]
  BY <1>1, <1>2 DEF RecordPing, SameView, Sound, Absent
<1>3. CASE ~(n < s.ack_list[a])
  <2>1. r = [s EXCEPT !.ping_list = [s.ping_list EXCEPT ![a] = 2],
                      !.ack_list = [s.ack_list EXCEPT ![a] = n]]
    BY <1>3 DEF RecordPing
  <2>2. [s.ping_list EXCEPT ![a] = 2] \in [Servers -> Absent..2]
    BY <1>1 DEF Absent
  <2>3. [s.ack_list EXCEPT ![a] = n] \in [Servers -> Nat \cup {Absent}]
    BY <1>1 DEF Absent
  <2>4. /\ r \in ViewServerState /\ SameView(s, r)
        /\ r.NEXT_PRI = s.NEXT_PRI /\ r.NEXT_BACKUP = s.NEXT_BACKUP
        /\ r.needs_update = s.needs_update
        /\ r.ping_list = [s.ping_list EXCEPT ![a] = 2]
        /\ r.ack_list = [s.ack_list EXCEPT ![a] = n]
    BY <2>1, <2>2, <2>3 DEF Sound, ViewServerState, SameView
  <2>5. \A c \in Servers :
          /\ r.ping_list[c] = IF c = a THEN 2 ELSE s.ping_list[c]
          /\ r.ack_list[c] = IF c = a THEN n ELSE s.ack_list[c]
    BY <1>1, <2>4
  <2>6. s.needs_update => s.NEXT_PRI \in Servers
    BY DEF Sound, Legal, MayFollow, ViewServerState, ServerOrNull
  <2>7. PendingIsLive(r)
    BY <2>4, <2>5, <2>6 DEF PendingIsLive, SameView
  <2>8. \A c \in Servers : r.ack_list[c] <= r.view_num
    BY <2>4, <2>5 DEF Sound, SameView
  <2>9. \A c \in Servers :
          s.ack_list[c] # Absent => r.ack_list[c] # Absent
    BY <2>5 DEF Absent
  <2>10. \A c \in Servers :
           r.ping_list[c] = Absent <=> r.ack_list[c] = Absent
    <3>1. \A c \in Servers :
            s.ping_list[c] = Absent <=> s.ack_list[c] = Absent
      BY DEF Sound
    <3>2. 2 # Absent /\ n # Absent
      BY DEF Absent
    <3> QED BY <2>5, <3>1, <3>2
  <2>11. r.needs_update => Legal(r, r.NEXT_PRI, r.NEXT_BACKUP)
    BY <2>4, <2>9 DEF Sound, Legal, MayFollow, SameView, ViewServerState, ServerOrNull
  <2>12. Sound(r)
    BY <2>4, <2>8, <2>9, <2>10, <2>11
       DEF Sound, SameView, ViewServerState, ServerOrNull
  <2> QED BY <2>4, <2>5, <2>7, <2>12 DEF Absent
<1> QED BY <1>2, <1>3

\* The two ways handlers call makeNewView.
LEMMA MakeLegalView ==
  ASSUME NEW s, Sound(s),
         NEW p \in ServerOrNull, NEW b \in ServerOrNull, Legal(s, p, b)
  PROVE  Made(s, MakeNewView(s, p, b, TRUE), p, b, TRUE)
<1>1. ASSUME NEW u \in BOOLEAN, u
      PROVE  Made(s, MakeNewView(s, p, b, u), p, b, u)
  BY <1>1, MakeNewViewKeeps
<1>2. TRUE \in BOOLEAN
  OBVIOUS
<1> QED BY <1>1, <1>2, Zenon

LEMMA MakeNoView ==
  ASSUME NEW s, Sound(s), s.PRIMARY # Null,
         NEW p \in ServerOrNull, NEW b \in ServerOrNull
  PROVE  Made(s, MakeNewView(s, p, b, FALSE), p, b, FALSE)
<1>1. ASSUME NEW u \in BOOLEAN, ~u
      PROVE  Made(s, MakeNewView(s, p, b, u), p, b, u)
  BY <1>1, MakeNewViewKeeps
<1>2. FALSE \in BOOLEAN
  OBVIOUS
<1> QED BY <1>1, <1>2, Zenon

\* The vacancies a recorded ping fills.
LEMMA FillViewKeeps ==
  ASSUME NEW s, Sound(s), PendingIsLive(s),
         NEW a \in Servers, s.ack_list[a] # Absent,
         s.PRIMARY = Null => s.ping_list[a] > 0
  PROVE  LET t == FillView(s, a)
         IN  /\ Sound(t) /\ PendingIsLive(t) /\ SameLists(s, t)
             /\ Promotes(s, t)
             /\ SameView(s, t) \/ NextView(s, t)
<1> DEFINE t == FillView(s, a)
<1>1. s \in ViewServerState /\ Null \notin Servers /\ a \in ServerOrNull
      /\ s.PRIMARY \in ServerOrNull /\ Null \in ServerOrNull
  BY ServersAssumption DEF Sound, ViewServerState, ServerOrNull
<1>2. CASE s.PRIMARY = Null
  <2>1. Legal(s, a, Null) /\ t = MakeNewView(s, a, Null, TRUE)
    BY <1>1, <1>2 DEF Legal, MayFollow, FillView
  <2>2. Made(s, t, a, Null, TRUE)
    BY <1>1, <2>1, MakeLegalView
  <2> QED BY <1>2, <2>2 DEF Made, Promotes, PendingIsLive, NextView, SameLists
<1>3. CASE s.PRIMARY # Null /\ s.BACKUP = Null /\ a # s.PRIMARY
  <2>1. s.ack_list[s.PRIMARY] # Absent
    BY <1>3 DEF Sound
  <2>2. Legal(s, s.PRIMARY, a) /\ t = MakeNewView(s, s.PRIMARY, a, TRUE)
    BY <1>1, <1>3, <2>1 DEF Legal, MayFollow, FillView
  <2>3. Made(s, t, s.PRIMARY, a, TRUE)
    BY <1>1, <2>2, MakeLegalView
  <2> QED BY <2>3 DEF Made, Promotes, PendingIsLive, NextView, SameView
<1>4. CASE s.PRIMARY # Null /\ ~(s.BACKUP = Null /\ a # s.PRIMARY)
  BY <1>4 DEF FillView, SameLists, SameView, Promotes
<1> QED BY <1>2, <1>3, <1>4

\* handlePing as a whole.
LEMMA HandlePingKeeps ==
  ASSUME NEW s, Sound(s), PendingIsLive(s),
         NEW a \in Servers, NEW n \in Nat, n <= s.view_num
  PROVE  LET t == HandlePing(s, a, n)
         IN  /\ Sound(t) /\ PendingIsLive(t)
             /\ Follows(s, t) /\ Promotes(s, t)
             /\ \A c \in Servers : \/ t.ack_list[c] = s.ack_list[c]
                                   \/ c = a /\ t.ack_list[c] = n
<1> DEFINE r == RecordPing(s, a, n)
           f == FillView(r, a)
           t == HandlePing(s, a, n)
<1>1. /\ Sound(r) /\ PendingIsLive(r) /\ SameView(s, r)
      /\ r.ack_list[a] # Absent
      /\ r.PRIMARY = Null => r.ping_list[a] > 0
      /\ \A c \in Servers : \/ r.ack_list[c] = s.ack_list[c]
                            \/ c = a /\ r.ack_list[c] = n
  BY RecordPingKeeps DEF SameView
<1>2. /\ Sound(f) /\ PendingIsLive(f) /\ SameLists(r, f) /\ Promotes(r, f)
      /\ SameView(r, f) \/ NextView(r, f)
  BY <1>1, FillViewKeeps
<1>3. t = f \/ t = ChangeRightNowIfPossible(f)
  BY RecordFirst DEF HandlePing
<1>4. /\ Sound(t) /\ SameLists(f, t)
      /\ \/ t = f
         \/ NextView(f, t) /\ t.PRIMARY = f.NEXT_PRI /\ f.needs_update
  BY <1>2, <1>3, ChangeKeeps DEF SameLists
<1>5. PendingIsLive(t)
  BY <1>2, <1>4 DEF PendingIsLive, NextView
<1>6. CASE t = f
  BY <1>1, <1>2, <1>4, <1>5, <1>6
     DEF SameView, NextView, SameLists, Follows, Promotes, PrimaryAcked, Legal, MayFollow
<1>7. CASE NextView(f, t) /\ t.PRIMARY = f.NEXT_PRI /\ f.needs_update
  <2>1. SameView(r, f)
    BY <1>2, <1>7 DEF NextView
  <2> QED BY <1>1, <1>2, <1>4, <1>5, <1>7, <2>1
          DEF SameView, NextView, SameLists, Follows, Promotes, PrimaryAcked,
              PendingIsLive, Legal, MayFollow
<1> QED BY <1>4, <1>6, <1>7

-----------------------------------------------------------------------------

\* The first loop of the timer leaves everything but the counts alone.
LEMMA CountDownKeeps ==
  ASSUME NEW s, Sound(s)
  PROVE  LET t == CountDown(s)
         IN  /\ Sound(t) /\ SameView(s, t) /\ t.ack_list = s.ack_list
<1> DEFINE P == [a \in Servers |->
                   IF s.ping_list[a] > 0 THEN s.ping_list[a] - 1
                   ELSE s.ping_list[a]]
           t == CountDown(s)
<1>1. s \in ViewServerState /\ s.ping_list \in [Servers -> (-1)..2]
  BY DEF Sound, ViewServerState, Absent
<1>2. P \in [Servers -> Absent..2]
  BY <1>1 DEF Absent
<1>3. t = [s EXCEPT !.ping_list = P]
  BY DEF CountDown
<1>4. /\ t \in ViewServerState /\ SameView(s, t)
      /\ t.NEXT_PRI = s.NEXT_PRI /\ t.NEXT_BACKUP = s.NEXT_BACKUP
      /\ t.needs_update = s.needs_update
      /\ t.ping_list = P /\ t.ack_list = s.ack_list
  <2> HIDE DEF P
  <2> QED BY <1>1, <1>2, <1>3 DEF ViewServerState, SameView
<1>5. \A a \in Servers : P[a] = Absent <=> s.ping_list[a] = Absent
  BY <1>1 DEF Absent
<1>6. ASSUME NEW p, NEW b PROVE Legal(t, p, b) <=> Legal(s, p, b)
  BY <1>4 DEF Legal, MayFollow, SameView
<1>7. Sound(t)
  <2> HIDE DEF P
  <2> QED BY <1>4, <1>5, <1>6 DEF Sound, SameView
<1> QED BY <1>4, <1>7

\* A visit of the second loop leaves the server as it is, or makes a view
\* whose primary is the old one or a live backup.
Visited(s, t, a) ==
  /\ Sound(t) /\ SameLists(s, t) /\ Promotes(s, t)
  /\ SameView(s, t) \/ NextView(s, t)
  /\ \/ PendingIsLive(t)
     \/ t = s /\ (s.ping_list[a] > 0 \/ a \notin {s.PRIMARY, s.BACKUP})

LEMMA CheckServerCountsKeeps ==
  ASSUME NEW s, Sound(s), NEW a \in Servers
  PROVE  Visited(s, CheckServerCounts(s, a), a)
<1> DEFINE t == CheckServerCounts(s, a)
           idle == GetIdleForBackup(s)
<1>1. /\ s \in ViewServerState /\ Null \notin Servers
      /\ s.PRIMARY \in ServerOrNull /\ s.BACKUP \in ServerOrNull
      /\ Null \in ServerOrNull
  BY ServersAssumption DEF Sound, ViewServerState, ServerOrNull
<1>2. /\ idle \in ServerOrNull
      /\ idle \notin {s.PRIMARY, s.BACKUP} \ {Null}
      /\ idle # Null => s.ack_list[idle] # Absent
  <2>1. CASE LiveIdle(s) = {}
    BY <1>1, <2>1 DEF GetIdleForBackup
  <2>2. CASE LiveIdle(s) # {}
    <3>1. LiveIdle(s) \in SUBSET Servers
      BY DEF LiveIdle
    <3>2. idle \in LiveIdle(s)
      BY <2>2, <3>1, ServersAssumption DEF GetIdleForBackup
    <3>3. /\ idle \in Servers \ {s.PRIMARY, s.BACKUP}
          /\ s.ping_list[idle] > 0
      BY <3>2 DEF LiveIdle
    <3>4. s.ping_list[idle] # Absent
      BY <3>3 DEF Absent
    <3> QED BY <3>3, <3>4 DEF Sound, ServerOrNull
  <2> QED BY <2>1, <2>2
<1>3. CASE s.ping_list[a] > 0 \/ a \notin {s.PRIMARY, s.BACKUP}
  BY <1>3 DEF CheckServerCounts, Visited, SameLists, SameView, Promotes
<1>4. CASE ~(s.ping_list[a] > 0) /\ a = s.BACKUP /\ a # s.PRIMARY
  <2>1. s.PRIMARY # Null
    BY <1>1, <1>4 DEF Sound
  <2>2. Legal(s, s.PRIMARY, idle)
    BY <1>1, <1>2, <1>4, <2>1 DEF Legal, MayFollow, Sound
  <2>3. t = MakeNewView(s, s.PRIMARY, idle, TRUE)
    BY <1>4 DEF CheckServerCounts
  <2>4. Made(s, t, s.PRIMARY, idle, TRUE)
    BY <1>1, <1>2, <2>2, <2>3, MakeLegalView
  <2> QED BY <2>4
          DEF Made, Visited, Promotes, PendingIsLive, NextView, SameView
<1>5. CASE /\ ~(s.ping_list[a] > 0) /\ a = s.PRIMARY
           /\ s.BACKUP # Null /\ s.ping_list[s.BACKUP] > 0
  <2>1. s.PRIMARY # Null /\ s.BACKUP # s.PRIMARY
    BY <1>1, <1>5 DEF Sound
  <2>2. Legal(s, s.BACKUP, idle)
    BY <1>1, <1>2, <1>5, <2>1 DEF Legal, MayFollow, Sound
  <2>3. t = MakeNewView(s, s.BACKUP, idle, TRUE)
    BY <1>5 DEF CheckServerCounts
  <2>4. Made(s, t, s.BACKUP, idle, TRUE)
    BY <1>1, <1>2, <2>2, <2>3, MakeLegalView
  <2> QED BY <1>5, <2>4
          DEF Made, Visited, Promotes, PendingIsLive, NextView, SameView,
              SameLists
<1>6. CASE /\ ~(s.ping_list[a] > 0) /\ a = s.PRIMARY
           /\ ~(s.BACKUP # Null /\ s.ping_list[s.BACKUP] > 0)
  <2>1. s.PRIMARY # Null
    BY <1>1, <1>6
  <2>2. t = MakeNewView(s, s.PRIMARY, Null, FALSE)
    BY <1>6 DEF CheckServerCounts
  <2>3. Made(s, t, s.PRIMARY, Null, FALSE)
    BY <1>1, <2>1, <2>2, MakeNoView
  <2> QED BY <2>3
          DEF Made, Visited, Promotes, PendingIsLive, NextView, SameView
<1> QED BY <1>3, <1>4, <1>5, <1>6

\* After a visit that formed a view, none is formed: the new view cannot have
\* been acknowledged yet.
LEMMA OneViewPerSweep ==
  ASSUME NEW s, Sound(s), NEW t, Sound(t), NEW u,
         SameLists(s, t), NextView(s, t), NextView(t, u)
  PROVE  FALSE
<1>1. t.PRIMARY \in Servers /\ t.view_num = s.view_num + 1
  BY DEF Sound, ViewServerState, ServerOrNull, NextView
<1>2. s.view_num \in Nat /\ s.ack_list[t.PRIMARY] <= s.view_num
  BY <1>1 DEF Sound, ViewServerState
<1>3. s.ack_list[t.PRIMARY] = s.view_num + 1
  BY <1>1, ServersAssumption DEF NextView, PrimaryAcked, SameLists
<1> QED BY <1>2, <1>3

\* onPingCheckTimer as a whole.
LEMMA PingCheckTimerKeeps ==
  ASSUME NEW s, Sound(s), PendingIsLive(s)
  PROVE  LET t == OnPingCheckTimer(s)
         IN  /\ Sound(t) /\ PendingIsLive(t)
             /\ Follows(s, t) /\ Promotes(s, t)
             /\ t.ack_list = s.ack_list
<1> DEFINE c == CountDown(s)
           pair == {c.PRIMARY, c.BACKUP} \ {Null}
           first == FirstOf[pair]
           second == FirstOf[pair \ {first}]
           t == CheckServerCounts(c, first)
           u == CheckServerCounts(t, second)
           w == OnPingCheckTimer(s)
<1>1. Sound(c) /\ SameView(s, c) /\ c.ack_list = s.ack_list
  BY CountDownKeeps
<1>2. pair \in SUBSET Servers
  BY <1>1 DEF Sound, ViewServerState, ServerOrNull
<1>3. w = IF pair = {} THEN c ELSE IF pair = {first} THEN t ELSE u
  BY DEF OnPingCheckTimer, Sweep
<1>4. CASE pair = {}
  <2>1. c.PRIMARY = Null /\ ~c.needs_update
    BY <1>1, <1>4 DEF Sound
  <2> QED BY <1>1, <1>3, <1>4, <2>1
          DEF PendingIsLive, Follows, Promotes, SameView
<1>5. CASE pair # {}
  <2>1. first \in pair /\ first \in Servers
    BY <1>2, <1>5, ServersAssumption
  <2>2. Visited(c, t, first)
    <3> HIDE DEF first, c
    <3> QED BY <1>1, <2>1, CheckServerCountsKeeps
  <2>3. CASE pair = {first}
    <3>1. w = t
      BY <1>3, <1>5, <2>3
    <3>2. c.needs_update => c.NEXT_PRI \in pair
      BY <1>1, <1>2 DEF Sound, Legal, MayFollow
    <3>3. PendingIsLive(t)
      BY <2>2, <2>3, <3>2 DEF Visited, PendingIsLive
    <3> QED BY <1>1, <2>2, <3>1, <3>3
            DEF Visited, Follows, Promotes, SameView, NextView, SameLists,
                PrimaryAcked, Legal, MayFollow
  <2>4. CASE pair # {first}
    <3>1. w = u
      BY <1>3, <1>5, <2>4
    <3>2. second \in pair \ {first} /\ second \in Servers
      BY <1>2, <2>1, <2>4, ServersAssumption
    <3>3. Visited(t, u, second)
      <4> HIDE DEF second, t
      <4> QED BY <2>2, <3>2, CheckServerCountsKeeps DEF Visited
    <3>4. pair = {first, second}
      BY <2>1, <3>2
    <3>5. PendingIsLive(u)
      <4>1. CASE PendingIsLive(t)
        BY <3>3, <4>1 DEF Visited
      <4>2. CASE ~PendingIsLive(t) /\ ~PendingIsLive(u)
        <5>1. t = c /\ u = c
          BY <2>2, <3>3, <4>2 DEF Visited
        <5>2. c.ping_list[first] > 0 /\ c.ping_list[second] > 0
          BY <2>1, <2>2, <3>2, <3>3, <4>2, <5>1 DEF Visited
        <5>3. c.needs_update => c.NEXT_PRI \in pair
          BY <1>1, <1>2 DEF Sound, Legal, MayFollow
        <5> QED BY <3>4, <5>1, <5>2, <5>3 DEF PendingIsLive
      <4> QED BY <4>1, <4>2
    <3>6. Sound(t) /\ Sound(u) /\ SameLists(c, t) /\ SameLists(t, u)
      BY <2>2, <3>3 DEF Visited
    <3>7. \/ SameView(c, t) /\ SameView(t, u)
          \/ NextView(c, t) /\ SameView(t, u)
          \/ SameView(c, t) /\ NextView(t, u)
      BY <1>1, <2>2, <3>3, <3>6, OneViewPerSweep DEF Visited
    <3>8. Promotes(c, u) /\ Follows(c, u)
      <4> HIDE DEF c, t, u
      <4> QED BY <2>2, <3>3, <3>6, <3>7
              DEF Visited, Follows, Promotes, SameView, NextView, SameLists,
                  PrimaryAcked, Legal, MayFollow
    <3>9. Promotes(s, u) /\ Follows(s, u) /\ u.ack_list = s.ack_list
      <4> HIDE DEF c, t, u
      <4> QED BY <1>1, <3>6, <3>8
              DEF Follows, Promotes, SameView, SameLists, MayFollow
    <3> QED BY <3>1, <3>5, <3>6, <3>9
  <2> QED BY <2>3, <2>4
<1> QED BY <1>4, <1>5

-----------------------------------------------------------------------------

\* The inductive invariant: nobody is ahead of the view server, and what it has
\* of a server was sent by that server.
PingsAreHonest ==
  \A a \in Servers :
    /\ operating[a] <= vs.view_num
    /\ \A n \in sent[a] : n <= operating[a]
    /\ vs.ack_list[a] # Absent => vs.ack_list[a] \in sent[a]

IInv == TypeOK /\ Sound(vs) /\ PendingIsLive(vs) /\ PingsAreHonest

LEMMA InitEstablishes == Init => IInv
<1> SUFFICES ASSUME Init PROVE IInv
  OBVIOUS
<1>1. /\ vs.view_num = 0 /\ vs.PRIMARY = Null /\ vs.BACKUP = Null
      /\ vs.needs_update = FALSE
      /\ vs.ping_list = [a \in Servers |-> -1]
      /\ vs.ack_list = [a \in Servers |-> -1]
      /\ vs \in ViewServerState
  BY DEF Init, ViewServerInit, ViewServerState, ServerOrNull, Absent
<1>2. Sound(vs) /\ PendingIsLive(vs)
  BY <1>1 DEF Sound, PendingIsLive, Absent
<1>3. TypeOK
  BY <1>1 DEF TypeOK, Init
<1>4. PingsAreHonest
  <2> SUFFICES ASSUME NEW a \in Servers
               PROVE  /\ operating[a] <= vs.view_num
                      /\ \A n \in sent[a] : n <= operating[a]
                      /\ vs.ack_list[a] = Absent
    BY DEF PingsAreHonest
  <2>1. operating[a] = 0 /\ sent[a] = {0}
    BY DEF Init
  <2> QED BY <1>1, <2>1 DEF Absent
<1> QED BY <1>2, <1>3, <1>4 DEF IInv

\* The steps of the view server, and how it sees them.
LEMMA ReceivePingKeeps ==
  ASSUME IInv, NEW a \in Servers, NEW n, ReceivePing(a, n)
  PROVE  IInv' /\ Follows(vs, vs') /\ Promotes(vs, vs')
<1>1. n \in Nat /\ n <= vs.view_num /\ n \in sent[a]
  BY DEF IInv, PingsAreHonest, TypeOK, ReceivePing, ViewServerState
<1>2. /\ Sound(vs') /\ PendingIsLive(vs')
      /\ Follows(vs, vs') /\ Promotes(vs, vs')
      /\ \A c \in Servers : \/ vs'.ack_list[c] = vs.ack_list[c]
                            \/ c = a /\ vs'.ack_list[c] = n
  BY <1>1, HandlePingKeeps DEF IInv, ReceivePing
<1>3. TypeOK'
  BY <1>2 DEF IInv, TypeOK, ReceivePing, Sound
<1>4. vs.view_num \in Nat /\ vs'.view_num \in {vs.view_num, vs.view_num + 1}
  BY <1>2 DEF Follows, SameView, IInv, TypeOK, ViewServerState
<1>5. PingsAreHonest'
  <2> SUFFICES ASSUME NEW c \in Servers
               PROVE  /\ operating[c] <= vs'.view_num
                      /\ \A k \in sent[c] : k <= operating[c]
                      /\ vs'.ack_list[c] # Absent => vs'.ack_list[c] \in sent[c]
    BY DEF PingsAreHonest, ReceivePing
  <2>1. /\ operating[c] <= vs.view_num /\ operating[c] \in Nat
        /\ \A k \in sent[c] : k <= operating[c]
        /\ vs.ack_list[c] # Absent => vs.ack_list[c] \in sent[c]
    BY DEF IInv, PingsAreHonest, TypeOK
  <2>2. operating[c] <= vs'.view_num
    BY <1>4, <2>1
  <2> QED BY <1>1, <1>2, <2>1, <2>2
<1> QED BY <1>2, <1>3, <1>5 DEF IInv

LEMMA PingCheckKeeps ==
  ASSUME IInv, PingCheck
  PROVE  IInv' /\ Follows(vs, vs') /\ Promotes(vs, vs')
<1>1. /\ Sound(vs') /\ PendingIsLive(vs')
      /\ Follows(vs, vs') /\ Promotes(vs, vs')
      /\ vs'.ack_list = vs.ack_list
  BY PingCheckTimerKeeps DEF IInv, PingCheck
<1>2. TypeOK'
  BY <1>1 DEF IInv, TypeOK, PingCheck, Sound
<1>3. vs.view_num \in Nat /\ vs'.view_num \in {vs.view_num, vs.view_num + 1}
  BY <1>1 DEF Follows, SameView, IInv, TypeOK, ViewServerState
<1>4. PingsAreHonest'
  BY <1>1, <1>3 DEF IInv, PingsAreHonest, PingCheck, TypeOK
<1> QED BY <1>1, <1>2, <1>4 DEF IInv

\* The steps of the servers, which leave the view server alone.
LEMMA EnterKeeps ==
  ASSUME IInv, NEW a \in Servers, NEW n \in 0..MaxView, Enter(a, n)
  PROVE  IInv' /\ vs' = vs
<1>1. /\ vs' = vs /\ n \in Nat /\ n > operating[a] /\ n <= vs.view_num
      /\ crashed' = crashed /\ late' = late
  BY BoundsAssumption DEF Enter
<1>2. /\ operating \in [Servers -> Nat] /\ sent \in [Servers -> SUBSET Nat]
      /\ operating' = [operating EXCEPT ![a] = n]
      /\ sent' = [sent EXCEPT ![a] = @ \cup {n}]
  BY DEF IInv, TypeOK, Enter
<1>3. TypeOK'
  BY <1>1, <1>2 DEF IInv, TypeOK
<1>4. PingsAreHonest'
  <2> SUFFICES ASSUME NEW c \in Servers
               PROVE  /\ operating'[c] <= vs.view_num
                      /\ \A k \in sent'[c] : k <= operating'[c]
                      /\ vs.ack_list[c] # Absent => vs.ack_list[c] \in sent'[c]
    BY <1>1 DEF PingsAreHonest
  <2>1. /\ operating[c] <= vs.view_num
        /\ \A k \in sent[c] : k <= operating[c]
        /\ vs.ack_list[c] # Absent => vs.ack_list[c] \in sent[c]
    BY DEF IInv, PingsAreHonest
  <2>2. CASE c = a
    BY <1>1, <1>2, <2>1, <2>2
  <2>3. CASE c # a
    BY <1>2, <2>1, <2>3
  <2> QED BY <2>2, <2>3
<1> QED BY <1>1, <1>3, <1>4 DEF IInv

LEMMA CrashKeeps ==
  ASSUME IInv, NEW a \in Servers, Crash(a)
  PROVE  IInv' /\ vs' = vs
  BY DEF IInv, TypeOK, PingsAreHonest, Crash

LEMMA NextKeeps == IInv /\ [Next]_vars => IInv'
<1> SUFFICES ASSUME IInv, [Next]_vars PROVE IInv'
  OBVIOUS
<1>1. ASSUME NEW a \in Servers, NEW n \in 0..MaxView, Enter(a, n) PROVE IInv'
  BY <1>1, EnterKeeps
<1>2. ASSUME NEW a \in Servers, NEW n \in 0..MaxView, ReceivePing(a, n)
      PROVE  IInv'
  BY <1>2, ReceivePingKeeps
<1>3. CASE PingCheck
  BY <1>3, PingCheckKeeps
<1>4. ASSUME NEW a \in Servers, Crash(a) PROVE IInv'
  BY <1>4, CrashKeeps
<1>5. CASE UNCHANGED vars
  BY <1>5 DEF vars, IInv, TypeOK, PingsAreHonest
<1> QED BY <1>1, <1>2, <1>3, <1>4, <1>5 DEF Next

\* The inductive invariant holds, for any number of servers.
THEOREM Inductive == Spec => []IInv
  BY InitEstablishes, NextKeeps, PTL DEF Spec

\* The fields keep their types, ping_list never leaving Absent..2.
THEOREM TypeCorrect == Spec => []TypeOK
<1>1. IInv => TypeOK
  BY DEF IInv
<1> QED BY <1>1, Inductive, PTL

\* changeRightNowIfPossible and checkServerCounts never unbox a missing entry.
THEOREM NullSafe == Spec => []NoNullUnboxing
<1>1. IInv => NoNullUnboxing
  <2> SUFFICES ASSUME IInv, NEW a \in {vs.PRIMARY, vs.BACKUP} \ {Null}
               PROVE  a \in Known(vs) /\ vs.ack_list[a] # Absent
    BY DEF NoNullUnboxing
  <2>1. a \in Servers
    BY DEF IInv, Sound, ViewServerState, ServerOrNull
  <2> QED BY <2>1 DEF IInv, Sound, Known
<1> QED BY <1>1, Inductive, PTL

\* A pending view stays a legal successor of the current one until it is
\* entered or replaced.
THEOREM PendingLegal == Spec => []PendingIsLegal
<1>1. IInv => PendingIsLegal
  <2> SUFFICES ASSUME IInv, vs.needs_update
               PROVE  /\ vs.NEXT_PRI \in {vs.PRIMARY, vs.BACKUP} \ {Null}
                      /\ vs.NEXT_BACKUP # vs.NEXT_PRI
                      /\ ~(vs.NEXT_PRI = vs.PRIMARY /\ vs.NEXT_BACKUP = vs.BACKUP)
    BY DEF PendingIsLegal
  <2>1. vs.PRIMARY # Null /\ MayFollow(vs, vs.NEXT_PRI, vs.NEXT_BACKUP)
    BY DEF IInv, Sound, Legal
  <2> QED BY <2>1 DEF MayFollow
<1> QED BY <1>1, Inductive, PTL

\* The view server acknowledges nothing that was not sent.
THEOREM AcksReal == Spec => []AcksAreReal
<1>1. IInv => AcksAreReal
  BY DEF IInv, Sound, PingsAreHonest, AcksAreReal
<1> QED BY <1>1, Inductive, PTL

\* No handler promotes a silent backup.
THEOREM PromotionIsLive == Spec => PromotedIsLive
<1>1. ASSUME IInv, [Next]_vars
      PROVE  [vs'.PRIMARY # vs.PRIMARY => vs'.ping_list[vs'.PRIMARY] > 0]_vars
  <2>1. CASE UNCHANGED vars
    BY <2>1
  <2>2. ASSUME NEW a \in Servers, NEW n \in 0..MaxView, Enter(a, n)
        PROVE  Promotes(vs, vs')
    BY <1>1, <2>2 DEF Promotes, Enter
  <2>3. ASSUME NEW a \in Servers, NEW n \in 0..MaxView, ReceivePing(a, n)
        PROVE  Promotes(vs, vs')
    BY <1>1, <2>3, ReceivePingKeeps
  <2>4. CASE PingCheck
    BY <1>1, <2>4, PingCheckKeeps DEF Promotes
  <2>5. ASSUME NEW a \in Servers, Crash(a)
        PROVE  Promotes(vs, vs')
    BY <1>1, <2>5 DEF Promotes, Crash
  <2>6. Next => Promotes(vs, vs')
    BY <1>1, <2>2, <2>3, <2>4, <2>5, PingCheckKeeps DEF Next
  <2> QED BY <1>1, <2>1, <2>6 DEF Promotes
<1> QED BY <1>1, Inductive, PTL DEF Spec, PromotedIsLive

-----------------------------------------------------------------------------

\* A handler that follows from an acknowledged view is one step of the abstract
\* service.
LEMMA FollowsIsAdvance ==
  ASSUME IInv, Sound(vs'), Follows(vs, vs'), operating' = operating,
         PingsAreHonest'
  PROVE  Service!Advance \/ UNCHANGED Service!vars
<1>1. CASE SameView(vs, vs')
  BY <1>1 DEF SameView, CurrentView, Service!vars
<1>2. CASE /\ vs'.view_num = vs.view_num + 1
           /\ vs.PRIMARY # Null => vs'.ack_list[vs.PRIMARY] = vs.view_num
           /\ MayFollow(vs, vs'.PRIMARY, vs'.BACKUP)
  <2>1. CurrentView(vs)' = [viewNum |-> vs.view_num + 1,
                            primary |-> vs'.PRIMARY, backup |-> vs'.BACKUP]
    BY <1>2 DEF CurrentView
  <2>2. vs.view_num = 0 <=> vs.PRIMARY = Null
    BY DEF IInv, Sound
  <2>3. CurrentView(vs)' \in Service!Successors(CurrentView(vs))
    <3>1. CASE vs.PRIMARY = Null
      BY <1>2, <2>1, <2>2, <3>1
         DEF Service!Successors, CurrentView, MayFollow
    <3>2. CASE vs.PRIMARY # Null
      BY <1>2, <2>1, <2>2, <3>2
         DEF Service!Successors, Service!Newcomers, CurrentView, MayFollow,
             ServerOrNull
    <3> QED BY <3>1, <3>2
  <2>4. ASSUME vs.view_num > 0
        PROVE  operating[vs.PRIMARY] = vs.view_num
    <3>1. vs.PRIMARY # Null /\ vs.PRIMARY \in Servers
      BY <2>2, <2>4 DEF IInv, Sound, ViewServerState, ServerOrNull
    <3>2. /\ vs.view_num \in Nat /\ operating[vs.PRIMARY] \in Nat
          /\ operating[vs.PRIMARY] <= vs.view_num
      BY <3>1 DEF IInv, TypeOK, ViewServerState, PingsAreHonest
    <3>3. vs'.ack_list[vs.PRIMARY] = vs.view_num
      BY <1>2, <3>1
    <3>4. /\ vs'.ack_list[vs.PRIMARY] \in sent'[vs.PRIMARY]
          /\ \A n \in sent'[vs.PRIMARY] : n <= operating'[vs.PRIMARY]
      BY <3>1, <3>2, <3>3 DEF PingsAreHonest, Absent
    <3> QED BY <3>2, <3>3, <3>4
  <2> QED BY <2>3, <2>4 DEF Service!Advance, CurrentView
<1> QED BY <1>1, <1>2 DEF Follows

\* The view server implements the view service: it skips no view number,
\* takes no primary from outside the view before, and leaves no view that its
\* primary has not entered.
THEOREM Refinement == Spec => ImplementsService
<1>1. Init => Service!Init
  BY DEF Init, ViewServerInit, Service!Init, CurrentView
<1>2. ASSUME IInv, IInv', [Next]_vars
      PROVE  [Service!Next]_(Service!vars)
  <2>1. CASE UNCHANGED vars
    BY <2>1 DEF vars, Service!vars
  <2>2. ASSUME NEW a \in Servers, NEW n \in 0..MaxView, Enter(a, n)
        PROVE  Service!Enter(a)
    <3>1. /\ n \in Nat /\ n > operating[a] /\ n <= vs.view_num
          /\ operating' = [operating EXCEPT ![a] = n] /\ vs' = vs
      BY <2>2, BoundsAssumption DEF Enter
    <3>2. operating[a] \in Nat /\ vs.view_num \in Nat
      BY <1>2 DEF IInv, TypeOK, ViewServerState
    <3>3. n \in (operating[a] + 1)..vs.view_num
      BY <3>1, <3>2
    <3> QED BY <3>1, <3>3 DEF Service!Enter, CurrentView
  <2>3. ASSUME NEW a \in Servers, NEW n \in 0..MaxView, ReceivePing(a, n)
        PROVE  Service!Advance \/ UNCHANGED Service!vars
    <3>1. Follows(vs, vs') /\ operating' = operating
      BY <1>2, <2>3, ReceivePingKeeps DEF ReceivePing
    <3> QED BY <1>2, <3>1, FollowsIsAdvance DEF IInv
  <2>4. CASE PingCheck
    <3>1. Follows(vs, vs') /\ operating' = operating
      BY <1>2, <2>4, PingCheckKeeps DEF PingCheck
    <3> QED BY <1>2, <3>1, FollowsIsAdvance DEF IInv, Service!Next
  <2>5. ASSUME NEW a \in Servers, Crash(a) PROVE UNCHANGED Service!vars
    BY <2>5 DEF Crash, Service!vars
  <2> QED BY <1>2, <2>1, <2>2, <2>3, <2>4, <2>5 DEF Next, Service!Next
<1> QED BY <1>1, <1>2, Inductive, PTL DEF Spec, ImplementsService, Service!Spec

-----------------------------------------------------------------------------
(* Induction *)

\* Every set of naturals that is not empty has a least element.
LEMMA LeastNatural ==
  ASSUME NEW T, T \subseteq Nat, T # {}
  PROVE  \E m \in T : \A n \in T : m <= n
<1>1. \A x, y \in Nat : x < y => <<x, y>> \in OpToRel(<, Nat)
  BY DEF OpToRel
<1>2. PICK R : /\ IsWellFoundedOn(R, Nat)
               /\ \A x, y \in Nat : x < y => <<x, y>> \in R
  BY <1>1, NatLessThanWellFounded, Zenon
<1>3. PICK x \in T : \A y \in T : ~ (<<y, x>> \in R)
  <2>1. IsWellFoundedOn(R, Nat)
    BY <1>2
  <2> QED
    BY <2>1, WFMin, Zenon
<1>4. \A y \in T : ~ (y < x)
  BY <1>2, <1>3
<1> QED
  BY <1>4

\* A set that has 0, and with a number up to N the next one, has them all.
LEMMA UpTo ==
  ASSUME NEW N \in Nat, NEW T, 0 \in T,
         \A n \in 0..(N - 1) : n \in T => n + 1 \in T
  PROVE  \A n \in 0..N : n \in T
<1> SUFFICES ASSUME (0..N) \ T # {} PROVE FALSE
  OBVIOUS
<1>1. PICK m \in (0..N) \ T : \A n \in (0..N) \ T : m <= n
  <2>1. (0..N) \ T \subseteq Nat
    OBVIOUS
  <2> QED
    BY <2>1, LeastNatural, Zenon
<1>2. m - 1 \in 0..(N - 1) /\ m - 1 \in T
  BY <1>1
<1> QED
  BY <1>1, <1>2

-----------------------------------------------------------------------------
(* The loop of the timer *)

Pair(s) == {s.PRIMARY, s.BACKUP} \ {Null}

\* The servers with roles in t had them in s or are live.
RolesFrom(s, t) ==
  /\ t.ping_list = s.ping_list
  /\ Pair(t) \subseteq Pair(s) \cup {a \in Servers : s.ping_list[a] > 0}

LEMMA MakeRoles ==
  ASSUME NEW s \in ViewServerState, NEW p \in ServerOrNull,
         NEW b \in ServerOrNull, NEW u \in BOOLEAN,
         {p, b} \ {Null} \subseteq
            Pair(s) \cup {a \in Servers : s.ping_list[a] > 0}
  PROVE  RolesFrom(s, MakeNewView(s, p, b, u))
<1> DEFINE r == [s EXCEPT !.NEXT_PRI = p, !.NEXT_BACKUP = b,
                          !.needs_update = u]
           t == MakeNewView(s, p, b, u)
<1>1. t = ChangeRightNowIfPossible(r)
  BY DEF MakeNewView
<1>2. /\ r \in ViewServerState
      /\ SameView(s, r) /\ SameLists(s, r)
      /\ r.NEXT_PRI = p /\ r.NEXT_BACKUP = b
  BY DEF ViewServerState, SameView, SameLists, ServerOrNull
<1> HIDE DEF r
<1>3. CASE t = r
  BY <1>2, <1>3 DEF RolesFrom, Pair, SameView, SameLists
<1>4. CASE t = Change2NewView(r)
  <2>1. t.PRIMARY = p /\ t.BACKUP = b /\ SameLists(r, t)
    BY <1>2, <1>4, Change2NewViewFields
  <2> QED
    BY <1>2, <2>1 DEF RolesFrom, Pair, SameLists
<1> QED
  BY <1>1, <1>3, <1>4 DEF ChangeRightNowIfPossible

LEMMA VisitRoles ==
  ASSUME NEW s \in ViewServerState, NEW a \in Servers
  PROVE  RolesFrom(s, CheckServerCounts(s, a))
<1> DEFINE t == CheckServerCounts(s, a)
           idle == GetIdleForBackup(s)
           Live == {x \in Servers : s.ping_list[x] > 0}
<1>1. /\ s.PRIMARY \in ServerOrNull /\ s.BACKUP \in ServerOrNull
      /\ Null \in ServerOrNull
  BY DEF ViewServerState, ServerOrNull
<1>2. idle \in ServerOrNull /\ {idle} \ {Null} \subseteq Live
  <2>1. CASE LiveIdle(s) = {}
    BY <1>1, <2>1 DEF GetIdleForBackup
  <2>2. CASE LiveIdle(s) # {}
    <3>1. LiveIdle(s) \in SUBSET Servers
      BY DEF LiveIdle
    <3>2. idle \in LiveIdle(s)
      BY <2>2, <3>1, ServersAssumption DEF GetIdleForBackup
    <3> QED BY <3>2 DEF LiveIdle, ServerOrNull
  <2> QED BY <2>1, <2>2
<1>3. ASSUME NEW p \in {s.PRIMARY, s.BACKUP}, NEW b \in {idle, Null},
             NEW u \in BOOLEAN
      PROVE  RolesFrom(s, MakeNewView(s, p, b, u))
  <2> HIDE DEF idle
  <2>1. {p, b} \ {Null} \subseteq Pair(s) \cup Live
    BY <1>2 DEF Pair
  <2>2. p \in ServerOrNull /\ b \in ServerOrNull
    BY <1>1, <1>2
  <2> QED BY <2>1, <2>2, MakeRoles
<1>4. \/ t = s
      \/ t = MakeNewView(s, s.PRIMARY, idle, TRUE)
      \/ t = MakeNewView(s, s.BACKUP, idle, TRUE)
      \/ t = MakeNewView(s, s.PRIMARY, Null, FALSE)
  BY Zenon DEF CheckServerCounts
<1>5. RolesFrom(s, s)
  BY DEF RolesFrom
<1> HIDE DEF t, idle
<1>6. ASSUME NEW p \in {s.PRIMARY, s.BACKUP}, NEW b \in {idle, Null}
      PROVE  /\ RolesFrom(s, MakeNewView(s, p, b, TRUE))
             /\ RolesFrom(s, MakeNewView(s, p, b, FALSE))
  <2>1. TRUE \in BOOLEAN /\ FALSE \in BOOLEAN
    OBVIOUS
  <2> QED BY <1>3, <2>1, Zenon
<1>7. RolesFrom(s, t)
  BY <1>4, <1>5, <1>6, Zenon
<1> QED
  BY <1>7 DEF t


\* A visit to a server without a role, when every server with one had a role in
\* s or is live, changes nothing.
LEMMA VisitOther ==
  ASSUME NEW s, NEW x, RolesFrom(s, x), NEW a \in Servers \ Pair(s)
  PROVE  CheckServerCounts(x, a) = x
<1>1. CASE x.ping_list[a] > 0 \/ a \notin {x.PRIMARY, x.BACKUP}
  BY <1>1 DEF CheckServerCounts
<1>2. CASE ~(x.ping_list[a] > 0) /\ a \in {x.PRIMARY, x.BACKUP}
  <2>1. a \in Pair(x)
    BY <1>2, ServersAssumption DEF Pair
  <2>2. s.ping_list[a] > 0
    BY <2>1 DEF RolesFrom
  <2> QED
    BY <1>2, <2>2 DEF RolesFrom
<1> QED
  BY <1>1, <1>2

\* What the loop has made of s after the servers in seen: nothing until it
\* meets the first of the pair, and nothing else until it meets the second.
AfterVisits(s, seen) ==
  LET first  == FirstOf[Pair(s)]
      second == FirstOf[Pair(s) \ {first}]
      t      == CheckServerCounts(s, first)
  IN  IF Pair(s) = {} \/ first \notin seen THEN s
      ELSE IF Pair(s) = {first} \/ second \notin seen THEN t
      ELSE CheckServerCounts(t, second)

\* One more visit.  By KeyOrdersAssumption the first of the pair is met before
\* the second.
LEMMA OneMoreVisit ==
  ASSUME NEW s, Sound(s), NEW seen \in SUBSET Servers,
         NEW a \in Servers \ seen,
         a \in Pair(s) => FirstOf[Pair(s)] \in seen \cup {a},
         seen \cap Pair(s) # {} => FirstOf[Pair(s)] \in seen
  PROVE  AfterVisits(s, seen \cup {a}) =
           IF a \in Known(s) THEN CheckServerCounts(AfterVisits(s, seen), a)
           ELSE AfterVisits(s, seen)
<1> DEFINE P == Pair(s)
           first == FirstOf[P]
           second == FirstOf[P \ {first}]
           t == CheckServerCounts(s, first)
           u == CheckServerCounts(t, second)
           x == AfterVisits(s, seen)
           y == AfterVisits(s, seen \cup {a})
<1>1. P \in SUBSET Servers /\ P \subseteq Known(s)
  <2>1. P \in SUBSET Servers
    BY DEF Pair, Sound, ViewServerState, ServerOrNull
  <2>2. \A c \in P : s.ack_list[c] # Absent
    BY DEF Pair, Sound
  <2> QED
    BY <2>1, <2>2 DEF Sound, Known
<1>2. P # {} => first \in P
  BY <1>1, ServersAssumption
<1>3. P # {} /\ P # {first} => second \in P \ {first}
  BY <1>1, <1>2, ServersAssumption
<1>4. P # {} /\ P # {first} => P = {first, second}
  BY <1>2, <1>3 DEF Pair
<1>5. x = IF P = {} \/ first \notin seen THEN s
          ELSE IF P = {first} \/ second \notin seen THEN t ELSE u
  BY DEF AfterVisits
<1>6. y = IF P = {} \/ first \notin seen \cup {a} THEN s
          ELSE IF P = {first} \/ second \notin seen \cup {a} THEN t ELSE u
  BY DEF AfterVisits
<1>7. CASE a \notin P
  <2>1. y = x
    BY <1>2, <1>3, <1>5, <1>6, <1>7
  <2>2. RolesFrom(s, x)
    <3>1. s \in ViewServerState /\ RolesFrom(s, s)
      BY DEF Sound, RolesFrom
    <3>2. ASSUME P # {} PROVE RolesFrom(s, t) /\ t \in ViewServerState
      <4>1. first \in Servers
        BY <1>1, <1>2, <3>2
      <4> HIDE DEF first
      <4> QED BY <3>1, <4>1, VisitRoles, CheckServerCountsKeeps
              DEF Visited, Sound
    <3>3. ASSUME P # {}, P # {first} PROVE RolesFrom(s, u)
      <4>1. second \in Servers
        BY <1>1, <1>3, <3>3
      <4>2. RolesFrom(t, u)
        <5> HIDE DEF first, second, t
        <5> QED BY <3>2, <3>3, <4>1, VisitRoles
      <4> HIDE DEF first, second, t, u
      <4> QED BY <3>2, <3>3, <4>2 DEF RolesFrom
    <3> HIDE DEF t, u, first, second, x
    <3> QED BY <1>5, <3>1, <3>2, <3>3
  <2>3. CheckServerCounts(x, a) = x
    <3> HIDE DEF x
    <3> QED BY <1>7, <2>2, VisitOther
  <2> QED
    BY <2>1, <2>3
<1>8. CASE a \in P
  <2>1. a \in Known(s) /\ P # {} /\ first \in P /\ first \in seen \cup {a}
    BY <1>1, <1>2, <1>8
  <2>2. CASE a = first
    <3>1. P # {first} => second \notin seen \cup {a}
      BY <1>3, <2>1, <2>2
    <3>2. x = s /\ y = t
      BY <1>5, <1>6, <2>1, <2>2, <3>1
    <3> QED
      BY <2>1, <2>2, <3>2
  <2>3. CASE a # first
    BY <1>3, <1>4, <1>5, <1>6, <1>8, <2>1, <2>3
  <2> QED
    BY <2>2, <2>3
<1> QED
  BY <1>7, <1>8


Seen(order, n) == {order[i] : i \in 1..n}

LEMMA OrderFacts ==
  ASSUME NEW s, Sound(s), NEW order \in KeyOrders, NEW n \in 1..Len(order)
  PROVE  /\ Len(order) \in Nat /\ order[n] \in Servers \ Seen(order, n - 1)
         /\ Seen(order, n - 1) \in SUBSET Servers
         /\ Seen(order, n) = Seen(order, n - 1) \cup {order[n]}
         /\ order[n] \in Pair(s) => FirstOf[Pair(s)] \in Seen(order, n)
         /\ Seen(order, n - 1) \cap Pair(s) # {}
              => FirstOf[Pair(s)] \in Seen(order, n - 1)
<1>1. /\ order \in Seq(Servers) /\ DOMAIN order = 1..Len(order)
      /\ Len(order) \in Nat
      /\ \A i \in 1..Len(order) : order[i] \in Servers
  BY KeyOrdersAssumption
<1>2. \A i, j \in 1..Len(order) : i # j => order[i] # order[j]
  BY <1>1, KeyOrdersAssumption
<1>3. Pair(s) \in SUBSET Servers
  BY DEF Pair, Sound, ViewServerState, ServerOrNull
<1>4. ASSUME NEW i \in 1..Len(order), order[i] \in Pair(s)
      PROVE  \E j \in 1..i : order[j] = FirstOf[Pair(s)]
  BY <1>1, <1>3, <1>4, KeyOrdersAssumption
<1>5. order[n] \in Servers \ Seen(order, n - 1)
  BY <1>1, <1>2 DEF Seen
<1>6. Seen(order, n - 1) \in SUBSET Servers
  BY <1>1 DEF Seen
<1>7. Seen(order, n) = Seen(order, n - 1) \cup {order[n]}
  <2>1. 1..n = 1..(n - 1) \cup {n}
    BY <1>1
  <2> QED
    BY <2>1 DEF Seen
<1>8. order[n] \in Pair(s) => FirstOf[Pair(s)] \in Seen(order, n)
  BY <1>4 DEF Seen
<1>9. ASSUME Seen(order, n - 1) \cap Pair(s) # {}
      PROVE  FirstOf[Pair(s)] \in Seen(order, n - 1)
  <2>1. PICK i \in 1..(n - 1) : order[i] \in Pair(s)
    BY <1>9 DEF Seen
  <2>2. PICK j \in 1..i : order[j] = FirstOf[Pair(s)]
    BY <1>1, <1>4, <2>1
  <2>3. j \in 1..(n - 1)
    BY <2>1, <2>2
  <2> QED
    BY <2>2, <2>3 DEF Seen
<1> QED
  BY <1>1, <1>5, <1>6, <1>7, <1>8, <1>9

\* The function Loop defines, by its equation.
IsLoop(f, s, order) ==
  f = [n \in 0..Len(order) |->
         IF n = 0 THEN s
         ELSE IF order[n] \in Known(s) THEN CheckServerCounts(f[n - 1], order[n])
         ELSE f[n - 1]]

\* What the loop has made of s after n servers.
LEMMA LoopVisits ==
  ASSUME NEW s, Sound(s), NEW order \in KeyOrders
  PROVE  \A n \in 0..Len(order) :
           Loop(s, order)[n] = AfterVisits(s, Seen(order, n))
<1> DEFINE N == Len(order)
           G(n) == AfterVisits(s, Seen(order, n))
           g == [n \in 0..N |-> G(n)]
           h == Loop(s, order)
<1>1. N \in Nat
  BY KeyOrdersAssumption
<1>2. G(0) = s
  <2>1. Seen(order, 0) = {}
    BY DEF Seen
  <2> QED
    BY <2>1 DEF AfterVisits
<1>3. ASSUME NEW n \in 1..N
      PROVE  G(n) = IF order[n] \in Known(s)
                    THEN CheckServerCounts(G(n - 1), order[n]) ELSE G(n - 1)
  <2> DEFINE a == order[n]
             seen == Seen(order, n - 1)
  <2>1. /\ a \in Servers \ seen /\ seen \in SUBSET Servers
        /\ Seen(order, n) = seen \cup {a}
        /\ a \in Pair(s) => FirstOf[Pair(s)] \in seen \cup {a}
        /\ seen \cap Pair(s) # {} => FirstOf[Pair(s)] \in seen
    BY OrderFacts
  <2> HIDE DEF a, seen
  <2>2. AfterVisits(s, seen \cup {a}) =
           IF a \in Known(s) THEN CheckServerCounts(AfterVisits(s, seen), a)
           ELSE AfterVisits(s, seen)
    BY <2>1, OneMoreVisit
  <2> QED
    BY <2>1, <2>2 DEF a, seen
<1>4. IsLoop(g, s, order)
  <2> HIDE DEF G
  <2>1. ASSUME NEW n \in 0..N
        PROVE  G(n) = IF n = 0 THEN s
                      ELSE IF order[n] \in Known(s)
                           THEN CheckServerCounts(g[n - 1], order[n])
                           ELSE g[n - 1]
    <3>1. CASE n = 0
      BY <1>2, <3>1
    <3>2. CASE n # 0
      <4>1. n \in 1..N /\ n - 1 \in 0..N
        BY <1>1, <3>2
      <4>2. g[n - 1] = G(n - 1)
        BY <4>1
      <4> HIDE DEF g
      <4> QED
        BY <1>3, <3>2, <4>1, <4>2
    <3> QED
      BY <3>1, <3>2
  <2> QED
    BY <2>1, Zenon DEF IsLoop
<1>5. h = CHOOSE f : IsLoop(f, s, order)
  BY DEF Loop, IsLoop
<1>6. IsLoop(h, s, order)
  <2> HIDE DEF g, h
  <2> QED
    BY <1>4, <1>5, Zenon
<1> HIDE DEF h, G
<1>7. h[0] = G(0)
  BY <1>1, <1>2, <1>6 DEF IsLoop
<1>8. ASSUME NEW n \in 0..(N - 1), h[n] = G(n)
      PROVE  h[n + 1] = G(n + 1)
  <2>1. n + 1 \in 1..N /\ n + 1 \in 0..N /\ (n + 1) - 1 = n /\ n + 1 # 0
    BY <1>1
  <2>2. h[n + 1] = IF order[n + 1] \in Known(s)
                   THEN CheckServerCounts(h[n], order[n + 1]) ELSE h[n]
    BY <1>6, <2>1 DEF IsLoop
  <2> QED
    BY <1>3, <1>8, <2>1, <2>2
<1> DEFINE T == {n \in 0..N : h[n] = G(n)}
<1>9. 0 \in T /\ \A n \in 0..(N - 1) : n \in T => n + 1 \in T
  BY <1>1, <1>7, <1>8
<1>10. \A n \in 0..N : n \in T
  <2> HIDE DEF T
  <2> QED
    BY <1>1, <1>9, UpTo
<1> QED
  BY <1>10 DEF h, G

\* The loop, in any order, is the visits to the primary and the backup it
\* starts with.
LEMMA LoopSweeps ==
  ASSUME NEW s, Sound(s), NEW order \in KeyOrders
  PROVE  Sweep(s) = Loop(s, order)[Len(order)]
<1> DEFINE seen == Seen(order, Len(order))
<1>1. Servers \subseteq seen /\ Len(order) \in Nat
  BY KeyOrdersAssumption DEF Seen
<1>2. Pair(s) \in SUBSET Servers
  BY DEF Pair, Sound, ViewServerState, ServerOrNull
<1>3. AfterVisits(s, seen) = Sweep(s)
  <2> DEFINE P == Pair(s)
             first == FirstOf[P]
             second == FirstOf[P \ {first}]
  <2>1. P # {} => first \in P
    BY <1>2, ServersAssumption
  <2>2. P # {} /\ P # {first} => second \in P
    BY <1>2, <2>1, ServersAssumption
  <2> HIDE DEF seen
  <2> QED
    BY <1>1, <1>2, <2>1, <2>2 DEF AfterVisits, Sweep, Pair
<1>4. Loop(s, order)[Len(order)] = AfterVisits(s, seen)
  BY <1>1, LoopVisits
<1> QED
  BY <1>3, <1>4

\* The second loop of onPingCheckTimer acts on a silent primary or backup only,
\* and never on a server it has itself promoted, in whatever order the map has
\* its keys.
THEOREM LoopIsSweep == Spec => []SweepIsLoop
<1>1. IInv => SweepIsLoop
  <2> SUFFICES ASSUME IInv, NEW order \in KeyOrders
               PROVE  Sweep(CountDown(vs))
                        = Loop(CountDown(vs), order)[Len(order)]
    BY DEF SweepIsLoop
  <2>1. Sound(CountDown(vs))
    BY CountDownKeeps DEF IInv
  <2> QED
    BY <2>1, LoopSweeps
<1> QED
  BY <1>1, Inductive, PTL

=============================================================================

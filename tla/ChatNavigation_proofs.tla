------------------------ MODULE ChatNavigation_proofs ------------------------
(***************************************************************************)
(* Proofs about ChatNavigation: one menu acts for each user, /start leaves *)
(* a single one, a message recorded as deleted is not shown, and the chat  *)
(* implements ActingMenus, for every number of users, messages and         *)
(* failures.                                                               *)
(***************************************************************************)
EXTENDS ChatNavigation, Extrema, TLAPS

Rows == [user: Users, label: Labels, active: BOOLEAN, status: Statuses,
         version: Nat]

\* A table after n messages: later messages have no record, what is active is
\* a menu, and only the users of dbl have two.
GoodTable(rec, n, dbl) ==
    /\ rec \in [Messages -> {NoRecord} \cup Rows]
    /\ \A m \in Messages : m > n => rec[m] = NoRecord
    /\ \A m \in Messages : rec[m].active =>
           rec[m].label = "temporary_navigation" /\ rec[m].status = "active"
    /\ \A m, k \in Messages :
           rec[m].active /\ rec[k].active /\ rec[m].user = rec[k].user
               => m = k \/ rec[m].user \in dbl

\* The chat shows only messages that were sent and are not recorded as gone.
GoodChat(rec, seen, n) ==
    /\ seen \subseteq 1 .. n
    /\ \A m \in Messages : rec[m].status \in {"deleted", "already_missing"} => m \notin seen

\* The last screen of a user is an active menu of that user, and the only one.
GoodScreens(rec, scr, dbl) ==
    /\ scr \in [Users -> Messages \cup {None}]
    /\ \A u \in Users : scr[u] # None =>
           rec[scr[u]].active /\ rec[scr[u]].user = u /\ u \notin dbl

Sound(rec, seen, n, scr, dbl) ==
    /\ n \in 0 .. MaxMessages /\ dbl \subseteq Users
    /\ GoodTable(rec, n, dbl) /\ GoodChat(rec, seen, n) /\ GoodScreens(rec, scr, dbl)

\* A press in hand is on a message that was sent.
GoodPress(p, n) ==
    \/ p = {}
    \/ \E u \in Users, m \in Messages, stage \in PressStages :
          m <= n /\ p = {InHand(u, m, stage)}

IInv ==
    /\ Sound(record, shown, sent, screen, doubled)
    /\ GoodPress(press, sent)
    /\ plain \subseteq Messages
    /\ cleanOn \in [Users -> BOOLEAN]
    /\ failures \in 0 .. MaxFailures

-----------------------------------------------------------------------------
(* The operators on the table.                                             *)

\* Every row has the fields of a record.
LEMMA RowFields ==
    ASSUME NEW rec, NEW n, NEW dbl, GoodTable(rec, n, dbl), NEW m \in Messages
    PROVE  /\ rec[m] = NoRecord \/ rec[m] \in Rows
           /\ rec[m].active \in BOOLEAN
           /\ rec[m].version \in Nat
           /\ rec[m].user \in Users \cup {None}
<1>1. rec[m] = NoRecord \/ rec[m] \in Rows
  BY DEF GoodTable
<1>2. CASE rec[m] = NoRecord
  BY <1>2, ChatAssumption DEF NoRecord
<1>3. CASE rec[m] \in Rows
  BY <1>3 DEF Rows
<1> QED
  BY <1>1, <1>2, <1>3

LEMMA SameField ==
    ASSUME NEW a, NEW b, NEW x, NEW c, NEW d
    PROVE  LET r == [user |-> a, label |-> b, active |-> x, status |-> c, version |-> d]
           IN  [r EXCEPT !.active = x] = r
OBVIOUS

\* No record stays no record when it is made inactive.
LEMMA NothingToClear == [NoRecord EXCEPT !.active = FALSE] = NoRecord
<1> DEFINE x == NoRecord.active
<1>1. NoRecord = [user |-> None, label |-> "none", active |-> x, status |-> "none", version |-> 0]
  BY Zenon DEF NoRecord
<1>2. x = FALSE
  BY DEF NoRecord
<1> HIDE DEF x
<1>3. [NoRecord EXCEPT !.active = x] = NoRecord
  BY <1>1, SameField
<1> QED
  BY <1>2, <1>3

\* A row that is made inactive keeps everything else.
LEMMA Deactivated ==
    ASSUME NEW r \in {NoRecord} \cup Rows, NEW s, s = [r EXCEPT !.active = FALSE]
    PROVE  /\ s \in {NoRecord} \cup Rows
           /\ r = NoRecord => s = NoRecord
           /\ r # NoRecord => s \in Rows
           /\ s.active = FALSE
           /\ s.user = r.user /\ s.label = r.label /\ s.status = r.status
           /\ s.version = r.version
<1>1. CASE r = NoRecord
  <2>1. s = NoRecord
    BY <1>1, NothingToClear
  <2>2. NoRecord.active = FALSE
    BY DEF NoRecord
  <2> QED
    BY <1>1, <2>1, <2>2
<1>2. CASE r # NoRecord
  <2>1. r \in Rows
    BY <1>2
  <2>2. s \in Rows /\ s.active = FALSE
    BY <2>1 DEF Rows
  <2>3. /\ s.user = r.user /\ s.label = r.label /\ s.status = r.status
        /\ s.version = r.version
    BY <2>1 DEF Rows
  <2> QED
    BY <1>2, <2>2, <2>3
<1> QED
  BY <1>1, <1>2

\* Clear makes rows inactive and changes nothing else.
LEMMA ClearRows ==
    ASSUME NEW rec, NEW n, NEW dbl, GoodTable(rec, n, dbl), NEW u, NEW m \in Messages
    PROVE  /\ Clear(rec, u)[m] \in {NoRecord} \cup Rows
           /\ rec[m] = NoRecord => Clear(rec, u)[m] = NoRecord
           /\ rec[m] # NoRecord => Clear(rec, u)[m] \in Rows
           /\ Clear(rec, u)[m].user = rec[m].user
           /\ Clear(rec, u)[m].label = rec[m].label
           /\ Clear(rec, u)[m].status = rec[m].status
           /\ Clear(rec, u)[m].version = rec[m].version
           /\ (u = None \/ rec[m].user = u) => ~Clear(rec, u)[m].active
           /\ ~(u = None \/ rec[m].user = u) => Clear(rec, u)[m] = rec[m]
<1>1. rec[m] \in {NoRecord} \cup Rows
  BY DEF GoodTable
<1>2. CASE u = None \/ rec[m].user = u
  <2>1. Clear(rec, u)[m] = [rec[m] EXCEPT !.active = FALSE]
    BY <1>2 DEF Clear
  <2> QED
    BY <1>1, <1>2, <2>1, Deactivated
<1>3. CASE ~(u = None \/ rec[m].user = u)
  <2>1. Clear(rec, u)[m] = rec[m]
    BY <1>3 DEF Clear
  <2> QED
    BY <1>1, <1>3, <2>1
<1> QED
  BY <1>2, <1>3

LEMMA ClearGood ==
    ASSUME NEW rec, NEW n, NEW dbl, GoodTable(rec, n, dbl), NEW u, NEW dbl2,
           u = None \/ dbl \ {u} \subseteq dbl2
    PROVE  GoodTable(Clear(rec, u), n, dbl2)
<1> DEFINE c == Clear(rec, u)
<1>1. c \in [Messages -> {NoRecord} \cup Rows]
  <2>1. c = [m \in Messages |-> c[m]]
    BY DEF Clear
  <2>2. \A m \in Messages : c[m] \in {NoRecord} \cup Rows
    BY ClearRows
  <2> HIDE DEF c
  <2> QED
    BY <2>1, <2>2
<1>2. \A m \in Messages : c[m].active => rec[m] = c[m] /\ u # None /\ rec[m].user # u
  BY ClearRows
<1>3. \A m \in Messages : m > n => c[m] = NoRecord
  BY ClearRows DEF GoodTable
<1> HIDE DEF c
<1>4. \A m, k \in Messages :
        c[m].active /\ c[k].active /\ c[m].user = c[k].user => m = k \/ c[m].user \in dbl2
  <2> SUFFICES ASSUME NEW m \in Messages, NEW k \in Messages, c[m].active, c[k].active,
                      c[m].user = c[k].user, m # k
               PROVE  c[m].user \in dbl2
    OBVIOUS
  <2>1. c[m].user \in dbl
    BY <1>2 DEF GoodTable
  <2> QED
    BY <1>2, <2>1
<1>5. GoodTable(c, n, dbl2)
  BY <1>1, <1>2, <1>3, <1>4 DEF GoodTable
<1> QED
  BY <1>5 DEF c

\* The table with the new menu of a user: the other menus of that user are
\* inactive, and what is active beside it was active before.
LEMMA TrackRows ==
    ASSUME NEW rec, NEW n, NEW dbl, GoodTable(rec, n, dbl), NEW u \in Users,
           NEW m \in Messages, NEW v \in Nat
    PROVE  LET t == Track(rec, u, m, v) IN
           /\ t \in [Messages -> {NoRecord} \cup Rows]
           /\ t[m] \in Rows /\ t[m].user = u /\ t[m].version = v
           /\ t[m].label = "temporary_navigation" /\ t[m].status = "active"
           /\ t[m].active
           /\ \A k \in Messages \ {m} : t[k] = Clear(rec, u)[k]
<1> DEFINE t == Track(rec, u, m, v)
           c == Clear(rec, u)
           new == MenuRecord(u, v)
<1>1. c \in [Messages -> {NoRecord} \cup Rows]
  <2>1. dbl \ {u} \subseteq dbl
    OBVIOUS
  <2> QED
    BY <2>1, ClearGood DEF GoodTable
<1>2. new \in Rows
  BY DEF Rows, Labels, Statuses, MenuRecord
<1>3. t = [c EXCEPT ![m] = new]
  BY DEF Track
<1>4. /\ new.user = u /\ new.version = v /\ new.label = "temporary_navigation"
      /\ new.status = "active" /\ new.active
  BY DEF MenuRecord
<1> HIDE DEF new, c
<1>5. t[m] = new /\ \A k \in Messages \ {m} : t[k] = c[k]
  BY <1>1, <1>3
<1>6. t \in [Messages -> {NoRecord} \cup Rows]
  BY <1>1, <1>2, <1>3
<1> HIDE DEF t
<1>7. /\ t[m] \in Rows /\ t[m].user = u /\ t[m].version = v
      /\ t[m].label = "temporary_navigation" /\ t[m].status = "active"
      /\ t[m].active
  BY <1>2, <1>4, <1>5
<1> QED
  BY <1>5, <1>6, <1>7 DEF t, c

LEMMA TrackGood ==
    ASSUME NEW rec, NEW n \in 0 .. MaxMessages, NEW dbl, GoodTable(rec, n, dbl),
           NEW u \in Users, NEW m \in 1 .. n, NEW v \in Nat
    PROVE  GoodTable(Track(rec, u, m, v), n, dbl \ {u})
<1> DEFINE t == Track(rec, u, m, v)
           c == Clear(rec, u)
<1>1. m \in Messages
  BY ChatAssumption DEF Messages
<1>2. /\ t \in [Messages -> {NoRecord} \cup Rows]
      /\ t[m].user = u
      /\ t[m].label = "temporary_navigation" /\ t[m].status = "active"
      /\ \A i \in Messages \ {m} : t[i] = c[i]
  BY <1>1, TrackRows
<1>3. GoodTable(c, n, dbl \ {u})
  BY ClearGood
<1>4. \A i \in Messages : c[i].active => c[i].user # u
  BY ClearRows
<1> HIDE DEF t, c
<1>5. \A i \in Messages : i > n => t[i] = NoRecord
  BY <1>2, <1>3, ChatAssumption DEF GoodTable, Messages
<1>6. \A i \in Messages : t[i].active =>
          t[i].label = "temporary_navigation" /\ t[i].status = "active"
  BY <1>2, <1>3 DEF GoodTable
<1>7. \A i, j \in Messages :
          t[i].active /\ t[j].active /\ t[i].user = t[j].user
              => i = j \/ t[i].user \in dbl \ {u}
  <2> SUFFICES ASSUME NEW i \in Messages, NEW j \in Messages, t[i].active, t[j].active,
                      t[i].user = t[j].user, i # j
               PROVE  t[i].user \in dbl \ {u}
    OBVIOUS
  <2>1. i # m /\ j # m
    BY <1>2, <1>4
  <2>2. t[i] = c[i] /\ t[j] = c[j]
    BY <1>2, <2>1
  <2> QED
    BY <1>3, <2>2 DEF GoodTable
<1>8. GoodTable(t, n, dbl \ {u})
  BY <1>2, <1>5, <1>6, <1>7 DEF GoodTable
<1> QED
  BY <1>8 DEF t

\* A row put in the place of another: no menu, or one of a user who may have
\* two.
LEMMA PutGood ==
    ASSUME NEW rec, NEW n \in 0 .. MaxMessages, NEW dbl, GoodTable(rec, n, dbl),
           NEW m \in 1 .. n, NEW r \in Rows, NEW dbl2, dbl \subseteq dbl2,
           r.active => /\ r.label = "temporary_navigation" /\ r.status = "active"
                       /\ r.user \in dbl2
    PROVE  GoodTable([rec EXCEPT ![m] = r], n, dbl2)
<1> DEFINE t == [rec EXCEPT ![m] = r]
<1>1. m \in Messages
  BY ChatAssumption DEF Messages
<1>2. /\ t \in [Messages -> {NoRecord} \cup Rows]
      /\ t[m] = r /\ \A i \in Messages \ {m} : t[i] = rec[i]
  BY <1>1 DEF GoodTable
<1> HIDE DEF t
<1>3. \A i \in Messages : i > n => t[i] = NoRecord
  BY <1>2, ChatAssumption DEF GoodTable, Messages
<1>4. \A i \in Messages : t[i].active =>
          t[i].label = "temporary_navigation" /\ t[i].status = "active"
  BY <1>2 DEF GoodTable
<1>5. \A i, j \in Messages :
          t[i].active /\ t[j].active /\ t[i].user = t[j].user => i = j \/ t[i].user \in dbl2
  <2> SUFFICES ASSUME NEW i \in Messages, NEW j \in Messages, t[i].active, t[j].active,
                      t[i].user = t[j].user, i # j
               PROVE  t[i].user \in dbl2
    OBVIOUS
  <2>1. CASE i = m \/ j = m
    BY <1>2, <2>1
  <2>2. CASE i # m /\ j # m
    BY <1>2, <2>2 DEF GoodTable
  <2> QED
    BY <2>1, <2>2
<1>6. GoodTable(t, n, dbl2)
  BY <1>2, <1>3, <1>4, <1>5 DEF GoodTable
<1> QED
  BY <1>6 DEF t

\* What one cleanup does to the records of an inactive table.
LEMMA CleanedRows ==
    ASSUME NEW rec, NEW n, NEW dbl, GoodTable(rec, n, dbl),
           \A m \in Messages : ~rec[m].active,
           NEW batch, batch \subseteq Tracked(rec), NEW refused, refused \subseteq shown,
           NEW m \in Messages
    PROVE  LET c == Cleaned(rec, batch, refused) IN
           /\ c[m] \in {NoRecord} \cup Rows
           /\ rec[m] = NoRecord => c[m] = NoRecord
           /\ ~c[m].active
           /\ m \notin batch => c[m] = rec[m]
           /\ m \in batch /\ m \in refused => c[m].status = "refused"
<1> DEFINE c == Cleaned(rec, batch, refused)
           st == IF m \in refused THEN "refused"
                 ELSE IF m \notin shown THEN "already_missing" ELSE "deleted"
<1>1. CASE m \notin batch
  <2>1. c[m] = rec[m]
    BY <1>1 DEF Cleaned
  <2>2. rec[m] \in {NoRecord} \cup Rows
    BY DEF GoodTable
  <2> HIDE DEF c
  <2>3. /\ c[m] \in {NoRecord} \cup Rows
        /\ rec[m] = NoRecord => c[m] = NoRecord
        /\ ~c[m].active
        /\ c[m] = rec[m]
    BY <2>1, <2>2
  <2> QED
    BY <1>1, <2>3 DEF c
<1>2. CASE m \in batch
  <2>1. rec[m] \in Rows /\ rec[m] # NoRecord
    BY <1>2, RowFields DEF Tracked
  <2>2. c[m] = [rec[m] EXCEPT !.active = FALSE, !.status = st]
    BY <1>2 DEF Cleaned
  <2>3. st \in Statuses /\ (m \in refused => st = "refused")
    <3>1. CASE m \in refused
      BY <3>1 DEF Statuses
    <3>2. CASE m \notin refused /\ m \notin shown
      BY <3>2 DEF Statuses
    <3>3. CASE m \notin refused /\ m \in shown
      BY <3>3 DEF Statuses
    <3> QED
      BY <3>1, <3>2, <3>3
  <2> HIDE DEF c, st
  <2>4. c[m] \in Rows /\ c[m].status = st
    BY <2>1, <2>2, <2>3 DEF Rows
  <2>5. ~c[m].active
    BY <2>1, <2>2 DEF Rows
  <2> QED
    BY <1>2, <2>1, <2>3, <2>4, <2>5 DEF c
<1> QED
  BY <1>1, <1>2

LEMMA CleanedGood ==
    ASSUME NEW rec, NEW n, NEW dbl, GoodTable(rec, n, dbl),
           \A m \in Messages : ~rec[m].active,
           NEW batch, batch \subseteq Tracked(rec), NEW refused, refused \subseteq shown
    PROVE  GoodTable(Cleaned(rec, batch, refused), n, {})
<1> DEFINE c == Cleaned(rec, batch, refused)
<1>1. \A m \in Messages :
        /\ c[m] \in {NoRecord} \cup Rows
        /\ rec[m] = NoRecord => c[m] = NoRecord
        /\ ~c[m].active
  BY CleanedRows
<1>2. c = [m \in Messages |-> c[m]]
  BY DEF Cleaned
<1> HIDE DEF c
<1>3. c \in [Messages -> {NoRecord} \cup Rows]
  BY <1>1, <1>2
<1>4. GoodTable(c, n, {})
  BY <1>1, <1>3 DEF GoodTable
<1> QED
  BY <1>4 DEF c

-----------------------------------------------------------------------------
(* Versions.                                                               *)

\* The versions of a table have an upper bound: the first message behind
\* which they had none would have one.
LEMMA VersionsAreBounded ==
    ASSUME NEW f, \A i \in Messages : f[i] \in Nat
    PROVE  \E b \in Nat : \A i \in Messages : f[i] <= b
<1> DEFINE bounded(k) == \E b \in Nat : \A i \in 1 .. k : f[i] <= b
           bad == {k \in 0 .. MaxMessages : ~bounded(k)}
<1>1. ASSUME bad # {}
      PROVE  FALSE
  <2>1. PICK x \in bad : \A y \in bad : x <= y
    <3>1. bad \subseteq Nat
      BY ChatAssumption
    <3> HIDE DEF bad
    <3> QED
      BY <1>1, <3>1, HasLeast
  <2>2. x \in 0 .. MaxMessages /\ ~bounded(x)
    BY <2>1
  <2>3. x # 0
    <3>1. bounded(0)
      <4>1. 0 \in Nat /\ \A i \in 1 .. 0 : f[i] <= 0
        OBVIOUS
      <4> QED
        BY <4>1
    <3> QED
      BY <2>2, <3>1
  <2>4. x - 1 \in 0 .. MaxMessages /\ x - 1 < x
    BY <2>2, <2>3, ChatAssumption
  <2>5. x - 1 \notin bad
    <3> HIDE DEF bad
    <3>1. ASSUME x - 1 \in bad
          PROVE  FALSE
      BY <2>1, <2>2, <2>4, <3>1, ChatAssumption
    <3> QED
      BY <3>1
  <2>6. bounded(x - 1)
    BY <2>4, <2>5
  <2>7. PICK b \in Nat : \A i \in 1 .. (x - 1) : f[i] <= b
    BY <2>6
  <2>8. x \in Messages /\ f[x] \in Nat
    BY <2>2, <2>3, ChatAssumption DEF Messages
  <2>9. \A i \in 1 .. x : f[i] <= b + f[x]
    <3> SUFFICES ASSUME NEW i \in 1 .. x
                 PROVE  f[i] <= b + f[x]
      OBVIOUS
    <3>1. i \in Messages /\ f[i] \in Nat
      BY <2>2, ChatAssumption DEF Messages
    <3>2. CASE i = x
      BY <2>8, <3>2
    <3>3. CASE i # x
      <4>1. i \in 1 .. (x - 1)
        BY <2>2, <3>3, ChatAssumption
      <4> QED
        BY <2>7, <2>8, <3>1, <4>1
    <3> QED
      BY <3>2, <3>3
  <2>10. bounded(x)
    <3>1. b + f[x] \in Nat
      BY <2>8
    <3> QED
      BY <2>9, <3>1
  <2> QED
    BY <2>2, <2>10
<1>2. MaxMessages \notin bad
  <2> HIDE DEF bad
  <2> QED
    BY <1>1
<1>3. bounded(MaxMessages)
  <2>1. MaxMessages \in 0 .. MaxMessages
    BY ChatAssumption
  <2> QED
    BY <1>2, <2>1
<1> QED
  BY <1>3 DEF Messages

LEMMA NextVersionTyped ==
    ASSUME NEW rec, NEW n, NEW dbl, GoodTable(rec, n, dbl), NEW u
    PROVE  NextVersion(rec, u) \in Nat
<1> DEFINE menus == {m \in Tracked(rec) : u = None \/ rec[m].user = u}
           versions == {rec[m].version : m \in menus} \cup {0}
           f == [m \in Messages |-> rec[m].version]
<1>1. \A m \in Messages : rec[m].version \in Nat
  BY RowFields
<1>2. PICK b \in Nat : \A m \in Messages : f[m] <= b
  <2>1. \A m \in Messages : f[m] \in Nat
    BY <1>1
  <2> HIDE DEF f
  <2> QED
    BY <2>1, VersionsAreBounded
<1>3. \A m \in menus : rec[m].version \in 0 .. b
  BY <1>1, <1>2 DEF Tracked
<1>4. versions \subseteq 0 .. b /\ versions # {}
  BY <1>3
<1>5. NextVersion(rec, u) = Max(versions) + 1
  BY DEF NextVersion, MaxVersion
<1> HIDE DEF versions
<1>6. PICK m \in versions : \A s \in versions : s <= m
  BY <1>4, HasGreatest
<1>7. Max(versions) \in versions
  <2>1. \A s \in versions : m >= s
    BY <1>4, <1>6
  <2> QED
    BY <2>1 DEF Max
<1>8. Max(versions) \in Nat
  <2>1. \A x \in versions : x \in Nat
    BY <1>4
  <2> QED
    BY <1>7, <2>1, Zenon
<1> QED
  BY <1>5, <1>8

LEMMA InheritedTyped ==
    ASSUME NEW rec, NEW n, NEW dbl, GoodTable(rec, n, dbl), NEW u
    PROVE  InheritedVersions(rec, u) \subseteq Nat
<1>1. Current(rec, u) \subseteq Messages
  BY DEF Current, Newest, ActiveMenus
<1>2. \A m \in Messages : rec[m].version \in Nat
  BY RowFields
<1>3. NextVersion(rec, u) \in Nat
  BY NextVersionTyped
<1> QED
  BY <1>1, <1>2, <1>3 DEF InheritedVersions

\* A press that may act meets a current menu.
LEMMA ActingHasCurrent ==
    ASSUME NEW rec, NEW u, NEW m, FALSE \in IsStale(rec, u, m)
    PROVE  Current(rec, u) # {}
BY DEF IsStale

-----------------------------------------------------------------------------
(* What the steps do to table, chat and screens together.                  *)

LEMMA ClearSound ==
    ASSUME NEW rec, NEW seen, NEW n, NEW scr, NEW dbl, Sound(rec, seen, n, scr, dbl),
           NEW u \in Users \cup {None}, NEW scr2 \in [Users -> Messages \cup {None}],
           \A w \in Users : scr2[w] = None \/ (u # None /\ w # u /\ scr2[w] = scr[w]),
           NEW dbl2, dbl2 \subseteq dbl, u = None \/ dbl \ {u} \subseteq dbl2
    PROVE  Sound(Clear(rec, u), seen, n, scr2, dbl2)
<1> DEFINE c == Clear(rec, u)
<1>1. n \in 0 .. MaxMessages /\ GoodTable(rec, n, dbl) /\ dbl2 \subseteq Users
  BY DEF Sound
<1>2. GoodTable(c, n, dbl2)
  BY <1>1, ClearGood
<1>3. \A m \in Messages : c[m].status = rec[m].status
  BY <1>1, ClearRows
<1>4. \A m \in Messages : u # None /\ rec[m].user # u => c[m] = rec[m]
  BY <1>1, ClearRows
<1> HIDE DEF c
<1>5. GoodChat(c, seen, n)
  BY <1>3 DEF Sound, GoodChat
<1>6. GoodScreens(c, scr2, dbl2)
  BY <1>4 DEF Sound, GoodScreens
<1>7. Sound(c, seen, n, scr2, dbl2)
  BY <1>1, <1>2, <1>5, <1>6 DEF Sound
<1> QED
  BY <1>7 DEF c

\* The user's menu goes into a message that was sent.
LEMMA TrackSound ==
    ASSUME NEW rec, NEW seen, NEW n, NEW scr, NEW dbl, Sound(rec, seen, n, scr, dbl),
           NEW u \in Users, NEW m \in 1 .. n,
           NEW v \in Nat, NEW scr2 \in [Users -> Messages \cup {None}],
           \A w \in Users : \/ scr2[w] = None
                            \/ w = u /\ scr2[w] = m
                            \/ w # u /\ scr2[w] = scr[w] /\ scr[w] # m
    PROVE  Sound(Track(rec, u, m, v), seen, n, scr2, dbl \ {u})
<1> DEFINE t == Track(rec, u, m, v)
           c == Clear(rec, u)
<1>1. /\ n \in 0 .. MaxMessages /\ m \in Messages /\ GoodTable(rec, n, dbl)
      /\ dbl \ {u} \subseteq Users
  BY ChatAssumption DEF Sound, Messages
<1>2. GoodTable(t, n, dbl \ {u})
  BY <1>1, TrackGood
<1>3. /\ t[m].user = u /\ t[m].status = "active" /\ t[m].active
      /\ \A i \in Messages \ {m} : t[i] = c[i]
  BY <1>1, TrackRows
<1>4. \A i \in Messages : c[i].status = rec[i].status
  BY <1>1, ClearRows
<1>5. \A i \in Messages : rec[i].user # u => c[i] = rec[i]
  <2> SUFFICES ASSUME NEW i \in Messages, rec[i].user # u
               PROVE  c[i] = rec[i]
    OBVIOUS
  <2>1. u # None
    BY ChatAssumption
  <2> QED
    BY <1>1, <2>1, ClearRows
<1> HIDE DEF t, c
<1>6. GoodChat(t, seen, n)
  <2>1. \A i \in Messages \ {m} :
           t[i].status \in {"deleted", "already_missing"} => i \notin seen
    BY <1>3, <1>4 DEF Sound, GoodChat
  <2>2. t[m].status \notin {"deleted", "already_missing"}
    BY <1>3
  <2> QED
    BY <2>1, <2>2 DEF Sound, GoodChat
<1>7. GoodScreens(t, scr2, dbl \ {u})
  <2> SUFFICES ASSUME NEW w \in Users, scr2[w] # None
               PROVE  t[scr2[w]].active /\ t[scr2[w]].user = w /\ w \notin dbl \ {u}
    BY DEF GoodScreens
  <2>1. CASE w = u
    BY <1>3, <2>1
  <2>2. CASE w # u
    <3>1. scr2[w] = scr[w] /\ scr[w] # m /\ scr[w] \in Messages
      BY <2>2
    <3>2. rec[scr[w]].active /\ rec[scr[w]].user = w /\ w \notin dbl
      BY <3>1 DEF Sound, GoodScreens
    <3>3. t[scr[w]] = rec[scr[w]]
      BY <1>3, <1>5, <2>2, <3>1, <3>2
    <3> QED
      BY <3>1, <3>2, <3>3
  <2> QED
    BY <2>1, <2>2
<1>8. Sound(t, seen, n, scr2, dbl \ {u})
  BY <1>1, <1>2, <1>6, <1>7 DEF Sound
<1> QED
  BY <1>8 DEF t

\* A row is put in the place of another, which is nobody's screen.
LEMMA PutSound ==
    ASSUME NEW rec, NEW seen, NEW n, NEW scr, NEW dbl, Sound(rec, seen, n, scr, dbl),
           NEW m \in 1 .. n, NEW r \in Rows, r.status = "active",
           NEW dbl2, dbl \subseteq dbl2, dbl2 \subseteq Users,
           r.active => r.label = "temporary_navigation" /\ r.user \in dbl2,
           NEW scr2 \in [Users -> Messages \cup {None}],
           \A w \in Users : \/ scr2[w] = None
                            \/ w \notin dbl2 /\ scr2[w] = scr[w] /\ scr[w] # m
    PROVE  Sound([rec EXCEPT ![m] = r], seen, n, scr2, dbl2)
<1> DEFINE t == [rec EXCEPT ![m] = r]
<1>1. n \in 0 .. MaxMessages /\ m \in Messages /\ GoodTable(rec, n, dbl)
  BY ChatAssumption DEF Sound, Messages
<1>2. GoodTable(t, n, dbl2)
  BY <1>1, PutGood
<1>3. t[m] = r /\ \A i \in Messages \ {m} : t[i] = rec[i]
  BY <1>1 DEF GoodTable
<1> HIDE DEF t
<1>4. GoodChat(t, seen, n)
  <2>1. \A i \in Messages \ {m} :
           t[i].status \in {"deleted", "already_missing"} => i \notin seen
    BY <1>3 DEF Sound, GoodChat
  <2>2. t[m].status \notin {"deleted", "already_missing"}
    BY <1>3
  <2> QED
    BY <2>1, <2>2 DEF Sound, GoodChat
<1>5. GoodScreens(t, scr2, dbl2)
  <2> SUFFICES ASSUME NEW w \in Users, scr2[w] # None
               PROVE  t[scr2[w]].active /\ t[scr2[w]].user = w /\ w \notin dbl2
    BY DEF GoodScreens
  <2>1. scr2[w] = scr[w] /\ scr[w] # m /\ scr[w] \in Messages /\ w \notin dbl2
    OBVIOUS
  <2>2. rec[scr[w]].active /\ rec[scr[w]].user = w
    BY <2>1 DEF Sound, GoodScreens
  <2> QED
    BY <1>3, <2>1, <2>2
<1>6. Sound(t, seen, n, scr2, dbl2)
  BY <1>1, <1>2, <1>4, <1>5 DEF Sound
<1> QED
  BY <1>6 DEF t

\* More messages reach the chat and leave no record.
LEMMA GrowSound ==
    ASSUME NEW rec, NEW seen, NEW n, NEW scr, NEW dbl, Sound(rec, seen, n, scr, dbl),
           NEW k \in n .. MaxMessages, NEW more, more \subseteq n + 1 .. k
    PROVE  Sound(rec, seen \cup more, k, scr, dbl)
<1>1. n \in 0 .. MaxMessages /\ k \in 0 .. MaxMessages
  BY ChatAssumption DEF Sound
<1>2. GoodTable(rec, k, dbl)
  <2>1. \A m \in Messages : m > k => m > n
    BY <1>1, ChatAssumption DEF Messages
  <2> QED
    BY <2>1 DEF Sound, GoodTable
<1>3. GoodChat(rec, seen \cup more, k)
  <2>1. seen \cup more \subseteq 1 .. k
    BY <1>1, ChatAssumption DEF Sound, GoodChat
  <2>2. ASSUME NEW m \in Messages, m \in more
        PROVE  rec[m].status \notin {"deleted", "already_missing"}
    <3>1. m > n
      BY <1>1, <2>2, ChatAssumption DEF Messages
    <3>2. rec[m] = NoRecord
      BY <3>1 DEF Sound, GoodTable
    <3> QED
      BY <3>2 DEF NoRecord
  <2> QED
    BY <2>1, <2>2 DEF Sound, GoodChat
<1> QED
  BY <1>1, <1>2, <1>3 DEF Sound

\* Messages leave the chat, screens are given up.
LEMMA FewerSound ==
    ASSUME NEW rec, NEW seen, NEW n, NEW scr, NEW dbl, Sound(rec, seen, n, scr, dbl),
           NEW seen2, seen2 \subseteq seen,
           NEW scr2 \in [Users -> Messages \cup {None}],
           \A w \in Users : scr2[w] = None \/ scr2[w] = scr[w]
    PROVE  Sound(rec, seen2, n, scr2, dbl)
<1>1. GoodChat(rec, seen2, n)
  BY DEF Sound, GoodChat
<1>2. GoodScreens(rec, scr2, dbl)
  BY DEF Sound, GoodScreens
<1> QED
  BY <1>1, <1>2 DEF Sound

\* No screen is a message that was not sent yet.
LEMMA UnsentIsNoScreen ==
    ASSUME NEW rec, NEW seen, NEW n, NEW scr, NEW dbl, Sound(rec, seen, n, scr, dbl),
           NEW m \in Messages, m > n, NEW w \in Users
    PROVE  scr[w] # m
<1>1. rec[m] = NoRecord
  BY DEF Sound, GoodTable
<1>2. ~rec[m].active /\ m # None
  BY <1>1, ChatAssumption DEF NoRecord, Messages
<1> QED
  BY <1>2 DEF Sound, GoodScreens

\* What a cleanup leaves: an inactive table that agrees with the chat.
LEMMA OutcomeSound ==
    ASSUME IInv, NEW u, NEW outcome \in CleanupOutcomes(u),
           NEW scr, scr = [w \in Users |-> None]
    PROVE  /\ Sound(outcome.record, outcome.shown, sent, scr, {})
           /\ \A m \in Messages : ~outcome.record[m].active
<1> DEFINE c == ResetChat(record, u)
<1>1. sent \in Nat /\ GoodTable(record, sent, doubled) /\ scr \in [Users -> Messages \cup {None}]
  BY ChatAssumption DEF IInv, Sound
<1>2. Sound(c, shown, sent, scr, {})
  BY <1>1, ClearSound DEF IInv, ResetChat
<1>3. \A m \in Messages : ~c[m].active
  BY <1>1, ClearRows DEF ResetChat
<1>4. \A m \in Messages : record[m] # NoRecord => c[m] # NoRecord
  <2> SUFFICES ASSUME NEW m \in Messages, record[m] # NoRecord
               PROVE  c[m] # NoRecord
    OBVIOUS
  <2>1. c[m] \in Rows
    BY <1>1, ClearRows DEF ResetChat
  <2>2. c[m].user \in Users
    BY <2>1 DEF Rows
  <2> QED
    BY <2>2, ChatAssumption DEF NoRecord
<1> HIDE DEF c
<1>5. CASE outcome = [record |-> c, shown |-> shown]
  BY <1>2, <1>3, <1>5
<1>6. CASE \E batch \in Batches(record) : \E refused \in SUBSET (batch \cap shown) :
              outcome = [record |-> Cleaned(c, batch, refused),
                         shown |-> shown \ (batch \ refused)]
  <2>0. PICK batch \in Batches(record) : \E refused \in SUBSET (batch \cap shown) :
              outcome = [record |-> Cleaned(c, batch, refused),
                         shown |-> shown \ (batch \ refused)]
    BY <1>6
  <2>1. PICK refused \in SUBSET (batch \cap shown) :
              outcome = [record |-> Cleaned(c, batch, refused),
                         shown |-> shown \ (batch \ refused)]
    BY <2>0
  <2> DEFINE after == Cleaned(c, batch, refused)
  <2>2. batch \subseteq Tracked(c) /\ refused \subseteq shown
    BY <1>4, <2>1 DEF Batches, Candidates, Tracked
  <2>3. GoodTable(c, sent, {})
    BY <1>2 DEF Sound
  <2>4. GoodTable(after, sent, {})
    BY <1>1, <1>3, <2>2, <2>3, CleanedGood
  <2>5. \A m \in Messages :
           /\ ~after[m].active
           /\ m \notin batch => after[m] = c[m]
           /\ m \in batch /\ m \in refused => after[m].status = "refused"
    BY <1>1, <1>3, <2>2, <2>3, CleanedRows
  <2> HIDE DEF after
  <2>6. GoodChat(after, shown \ (batch \ refused), sent)
    <3>1. shown \ (batch \ refused) \subseteq 1 .. sent
      BY <1>2 DEF Sound, GoodChat
    <3>2. ASSUME NEW m \in Messages, after[m].status \in {"deleted", "already_missing"},
                 m \in shown, m \notin batch \/ m \in refused
          PROVE  FALSE
      <4>1. CASE m \in batch
        BY <2>5, <3>2, <4>1
      <4>2. CASE m \notin batch
        BY <1>2, <2>5, <3>2, <4>2 DEF Sound, GoodChat
      <4> QED
        BY <4>1, <4>2
    <3> QED
      BY <3>1, <3>2 DEF GoodChat
  <2>7. GoodScreens(after, scr, {})
    BY <1>1 DEF GoodScreens
  <2>8. Sound(after, shown \ (batch \ refused), sent, scr, {})
    BY <1>2, <2>4, <2>6, <2>7 DEF Sound
  <2>9. outcome.record = after /\ outcome.shown = shown \ (batch \ refused)
    BY <2>1 DEF after
  <2> QED
    BY <2>5, <2>8, <2>9
<1> QED
  BY <1>5, <1>6 DEF CleanupOutcomes, c

-----------------------------------------------------------------------------
(* The steps.                                                              *)

LEMMA InitIInv ==
    ASSUME Init
    PROVE  IInv
<1>1. record = [m \in Messages |-> NoRecord] /\ shown = {} /\ sent = 0
      /\ screen = [u \in Users |-> None] /\ doubled = {}
  BY DEF Init
<1>2. \A m \in Messages : ~record[m].active /\ record[m].status = "none"
  BY <1>1 DEF NoRecord
<1>3. GoodTable(record, 0, {})
  BY <1>1, <1>2 DEF GoodTable
<1>4. GoodChat(record, shown, 0) /\ GoodScreens(record, screen, {})
  BY <1>1 DEF GoodChat, GoodScreens
<1>5. Sound(record, shown, sent, screen, doubled)
  BY <1>1, <1>3, <1>4, ChatAssumption DEF Sound
<1> QED
  BY <1>5, ChatAssumption DEF Init, IInv, GoodPress

\* The invariant's parts, as facts on numbers and sets.
LEMMA Facts ==
    ASSUME IInv
    PROVE  /\ Sound(record, shown, sent, screen, doubled)
           /\ GoodTable(record, sent, doubled)
           /\ sent \in 0 .. MaxMessages /\ sent \in Nat /\ MaxMessages \in Nat
           /\ shown \subseteq 1 .. sent /\ plain \subseteq Messages
           /\ screen \in [Users -> Messages \cup {None}]
           /\ doubled \subseteq Users
BY ChatAssumption DEF IInv, Sound, GoodChat, GoodScreens

LEMMA FailsCounts ==
    ASSUME IInv, Fails \/ Succeeds
    PROVE  failures' \in 0 .. MaxFailures
BY ChatAssumption DEF IInv, Fails, Succeeds

\* A press in hand stays on a message that was sent.
LEMMA PressStays ==
    ASSUME IInv, press' \in {press, {}}, sent' \in Nat, sent' >= sent
    PROVE  GoodPress(press', sent')
<1>1. CASE press' = {}
  BY <1>1 DEF GoodPress
<1>2. CASE press' = press /\ press # {}
  <2>1. PICK u \in Users, m \in Messages, stage \in PressStages :
           m <= sent /\ press = {InHand(u, m, stage)}
    BY <1>2 DEF IInv, GoodPress
  <2>2. m <= sent'
    BY <2>1, Facts DEF Messages
  <2> QED
    BY <1>2, <2>1, <2>2 DEF GoodPress
<1> QED
  BY <1>1, <1>2

LEMMA PressedMessage ==
    ASSUME IInv, NEW u \in Users, NEW m \in Messages, NEW stage,
           press = {InHand(u, m, stage)}
    PROVE  m \in 1 .. sent
<1>1. PICK w \in Users, k \in Messages, g \in PressStages :
         k <= sent /\ press = {InHand(w, k, g)}
  BY DEF IInv, GoodPress
<1>2. InHand(u, m, stage) = InHand(w, k, g)
  BY <1>1
<1>3. m = k
  BY <1>2 DEF InHand
<1> QED
  BY <1>1, <1>3, Facts DEF Messages

\* What remains to be shown of a step that keeps the press or ends it.
LEMMA Assembles ==
    ASSUME IInv, Sound(record', shown', sent', screen', doubled'),
           press' \in {press, {}}, sent' >= sent, plain' \in {plain, plain \cup {sent'}},
           sent' # sent \/ plain' = plain,
           cleanOn' = cleanOn, Fails \/ Succeeds
    PROVE  IInv'
<1>1. sent' \in 0 .. MaxMessages /\ sent' \in Nat
  BY ChatAssumption DEF Sound
<1>2. GoodPress(press', sent')
  BY <1>1, PressStays
<1>3. plain' \subseteq Messages
  BY <1>1, Facts DEF Messages
<1>4. failures' \in 0 .. MaxFailures
  BY FailsCounts
<1> QED
  BY <1>2, <1>3, <1>4 DEF IInv

\* A sent menu: the next message, which no screen can be yet.
LEMMA SendSound ==
    ASSUME NEW rec, NEW seen, NEW n, NEW scr, NEW dbl, Sound(rec, seen, n, scr, dbl),
           NEW u \in Users, n + 1 <= MaxMessages, NEW v \in Nat,
           NEW scr2, scr2 = [scr EXCEPT ![u] = n + 1]
    PROVE  Sound(Track(rec, u, n + 1, v), seen \cup {n + 1}, n + 1, scr2, dbl \ {u})
<1>1. n \in Nat /\ n + 1 \in n .. MaxMessages /\ n + 1 \in 1 .. n + 1 /\ n + 1 \in Messages
      /\ {n + 1} \subseteq n + 1 .. n + 1
  BY ChatAssumption DEF Sound, Messages
<1>2. scr \in [Users -> Messages \cup {None}]
  BY DEF Sound, GoodScreens
<1>3. \A w \in Users : scr[w] # n + 1
  BY <1>1, UnsentIsNoScreen
<1>4. scr2 \in [Users -> Messages \cup {None}] /\ scr2[u] = n + 1
      /\ \A w \in Users \ {u} : scr2[w] = scr[w] /\ scr[w] # n + 1
  BY <1>1, <1>2, <1>3
<1>5. Sound(rec, seen \cup {n + 1}, n + 1, scr, dbl)
  BY <1>1, GrowSound
<1> QED
  BY <1>1, <1>4, <1>5, TrackSound

LEMMA MenuKeeps ==
    ASSUME IInv, NEW u \in Users, Menu(u)
    PROVE  IInv'
<1> DEFINE none == [w \in Users |-> None]
<1>1. press' \in {press, {}} /\ plain' = plain /\ cleanOn' = cleanOn /\ (Fails \/ Succeeds)
  BY DEF Menu
<1>2. ASSUME CanSend(1), sent' = sent + 1, doubled' = {},
             \E outcome \in CleanupOutcomes(u) :
                /\ record' = Track(outcome.record, u, sent + 1, NextVersion(record, None))
                /\ shown' = outcome.shown \cup {sent + 1},
             screen' = [v \in Users |-> IF v = u THEN sent + 1 ELSE None]
      PROVE  IInv'
  <2>1. PICK outcome \in CleanupOutcomes(u) :
                /\ record' = Track(outcome.record, u, sent + 1, NextVersion(record, None))
                /\ shown' = outcome.shown \cup {sent + 1}
    BY <1>2
  <2>2. Sound(outcome.record, outcome.shown, sent, none, {})
    BY OutcomeSound
  <2>3. NextVersion(record, None) \in Nat
    BY Facts, NextVersionTyped
  <2>4. screen' = [none EXCEPT ![u] = sent + 1]
    BY <1>2
  <2>5. sent + 1 <= MaxMessages /\ sent' >= sent
    BY <1>2, Facts DEF CanSend
  <2>6. {} \ {u} = {}
    OBVIOUS
  <2> HIDE DEF none
  <2>7. Sound(record', shown', sent', screen', {} \ {u})
    BY <1>2, <2>1, <2>2, <2>3, <2>4, <2>5, SendSound
  <2>8. Sound(record', shown', sent', screen', doubled')
    BY <1>2, <2>6, <2>7
  <2> QED
    BY <1>1, <2>5, <2>8, Assembles
<1>3. ASSUME UNCHANGED <<record, doubled>>, screen' = [v \in Users |-> None],
             \E outcome \in CleanupOutcomes(u) :
                \/ shown' = outcome.shown /\ UNCHANGED sent
                \/ /\ CanSend(1)
                   /\ shown' = outcome.shown \cup {sent + 1} /\ sent' = sent + 1
      PROVE  IInv'
  <2>1. PICK outcome \in CleanupOutcomes(u) :
                \/ shown' = outcome.shown /\ UNCHANGED sent
                \/ /\ CanSend(1)
                   /\ shown' = outcome.shown \cup {sent + 1} /\ sent' = sent + 1
    BY <1>3
  <2>2. outcome.shown \subseteq shown
    BY DEF CleanupOutcomes
  <2>3. Sound(record, outcome.shown, sent, screen', doubled)
    BY <1>3, <2>2, Facts, FewerSound
  <2>4. CASE shown' = outcome.shown /\ UNCHANGED sent
    BY <1>1, <1>3, <2>3, <2>4, Facts, Assembles
  <2>5. CASE CanSend(1) /\ shown' = outcome.shown \cup {sent + 1} /\ sent' = sent + 1
    <3>1. sent + 1 \in sent .. MaxMessages /\ {sent + 1} \subseteq sent + 1 .. sent + 1
      BY <2>5, Facts DEF CanSend
    <3>2. Sound(record, outcome.shown \cup {sent + 1}, sent + 1, screen', doubled)
      BY <2>3, <3>1, GrowSound
    <3>3. sent' >= sent
      BY <2>5, Facts
    <3> QED
      BY <1>1, <1>3, <2>5, <3>2, <3>3, Assembles
  <2> QED
    BY <2>1, <2>4, <2>5
<1> QED
  BY <1>2, <1>3 DEF Menu

\* A handler whose session is reset first sends its fresh menu.
LEMMA FreshKeeps ==
    ASSUME IInv, NEW u \in Users, UNCHANGED <<cleanOn, press>>, Succeeds, Sends(1),
           record' = Track(Clear(record, u), u, sent + 1, NextVersion(record, u)),
           screen' = [screen EXCEPT ![u] = sent + 1], doubled' = doubled \ {u}
    PROVE  IInv'
<1> DEFINE scr == [screen EXCEPT ![u] = None]
           next == NextVersion(record, u)
<1>1. next \in Nat /\ sent + 1 <= MaxMessages /\ sent' = sent + 1 /\ sent' >= sent
      /\ shown' = shown \cup {sent + 1} /\ plain' = plain
  BY Facts, NextVersionTyped DEF Sends, CanSend
<1>2. Sound(Clear(record, u), shown, sent, scr, doubled \ {u})
  <2>1. scr \in [Users -> Messages \cup {None}] /\ scr[u] = None
        /\ \A w \in Users \ {u} : scr[w] = screen[w]
    BY Facts
  <2>2. u # None /\ doubled \ {u} \subseteq doubled
    BY ChatAssumption
  <2> HIDE DEF scr
  <2> QED
    BY <2>1, <2>2, Facts, ClearSound
<1>3. screen' = [scr EXCEPT ![u] = sent + 1]
  BY Facts
<1> HIDE DEF scr, next
<1>4. (doubled \ {u}) \ {u} = doubled \ {u}
  OBVIOUS
<1>5. Sound(Track(Clear(record, u), u, sent + 1, next), shown \cup {sent + 1},
            sent + 1, screen', (doubled \ {u}) \ {u})
  BY <1>1, <1>2, <1>3, SendSound
<1>6. Sound(record', shown', sent', screen', doubled')
  BY <1>1, <1>4, <1>5 DEF next
<1> QED
  BY <1>1, <1>6, Assembles

\* A send that fails, or that leaves no record, changes the chat at most.
LEMMA ChatKeeps ==
    ASSUME IInv, UNCHANGED chat \/ Sends(1),
           Sound(record', shown, sent, screen', doubled')
    PROVE  /\ Sound(record', shown', sent', screen', doubled')
           /\ sent' >= sent /\ plain' = plain
<1>1. CASE UNCHANGED chat
  BY <1>1, Facts DEF chat
<1>2. CASE Sends(1)
  <2>1. /\ sent' = sent + 1 /\ shown' = shown \cup {sent + 1} /\ plain' = plain
        /\ sent + 1 \in sent .. MaxMessages /\ {sent + 1} \subseteq sent + 1 .. sent + 1
    BY <1>2, Facts DEF Sends, CanSend
  <2>2. Sound(record', shown \cup {sent + 1}, sent + 1, screen', doubled')
    BY <2>1, GrowSound
  <2> QED
    BY <2>1, <2>2, Facts
<1> QED
  BY <1>1, <1>2

LEMMA StalePressKeeps ==
    ASSUME IInv, NEW u \in Users, NEW m \in Messages, StalePress(u, m)
    PROVE  IInv'
<1>1. doubled' = doubled \ {u} /\ UNCHANGED <<cleanOn, press>>
  BY DEF StalePress
<1>2. CASE Sends(1) /\ Succeeds
           /\ record' = Track(Clear(record, u), u, sent + 1, NextVersion(record, u))
           /\ screen' = [screen EXCEPT ![u] = sent + 1]
  BY <1>1, <1>2, FreshKeeps
<1>3. CASE /\ FailsToSend
           /\ record' = Clear(record, u)
           /\ screen' = [screen EXCEPT ![u] = None]
  <2>1. u # None /\ screen' \in [Users -> Messages \cup {None}] /\ screen'[u] = None
        /\ \A w \in Users \ {u} : screen'[w] = screen[w]
    BY <1>3, Facts, ChatAssumption
  <2>2. doubled \ {u} \subseteq doubled
    OBVIOUS
  <2>3. Sound(Clear(record, u), shown, sent, screen', doubled \ {u})
    BY <2>1, <2>2, Facts, ClearSound
  <2>4. Sound(record', shown, sent, screen', doubled')
    BY <1>1, <1>3, <2>3
  <2>5. (UNCHANGED chat \/ Sends(1)) /\ Fails
    BY <1>3 DEF FailsToSend
  <2> QED
    BY <1>1, <2>4, <2>5, ChatKeeps, Assembles
<1> QED
  BY <1>2, <1>3 DEF StalePress

\* Two messages appear; both become menus of the user, the second beside the
\* first.
LEMMA PairSound ==
    ASSUME NEW rec, NEW seen, NEW n \in Nat, NEW scr, NEW dbl, Sound(rec, seen, n, scr, dbl),
           n + 2 <= MaxMessages, NEW u \in Users, NEW new \in {n + 1, n + 2},
           NEW v \in Nat, NEW v2 \in Nat,
           NEW scr2, scr2 = [scr EXCEPT ![u] = None]
    PROVE  Sound([Track(rec, u, new, v) EXCEPT ![2 * n + 3 - new] = MenuRecord(u, v2)],
                 seen \cup {new, 2 * n + 3 - new}, n + 2, scr2, dbl \cup {u})
<1> DEFINE home == 2 * n + 3 - new
           two == seen \cup {new, home}
           first == Track(rec, u, new, v)
<1>1. /\ new \in 1 .. n + 2 /\ home \in 1 .. n + 2 /\ n + 2 \in n .. MaxMessages
      /\ {new, home} \subseteq n + 1 .. n + 2
      /\ new \in Messages /\ home \in Messages /\ new > n /\ home > n
  BY ChatAssumption DEF Messages
<1>2. /\ scr \in [Users -> Messages \cup {None}] /\ dbl \subseteq Users
      /\ scr2 \in [Users -> Messages \cup {None}] /\ scr2[u] = None
      /\ \A w \in Users \ {u} : scr2[w] = scr[w]
  BY DEF Sound, GoodScreens
<1>3. \A w \in Users : scr[w] # new /\ scr[w] # home
  BY <1>1, UnsentIsNoScreen
<1>4. Sound(rec, two, n + 2, scr, dbl)
  <2> DEFINE more == {new, home}
  <2>1. more \subseteq n + 1 .. n + 2 /\ n + 2 \in n .. MaxMessages
    BY <1>1
  <2> HIDE DEF more, home
  <2>2. Sound(rec, seen \cup more, n + 2, scr, dbl)
    BY <2>1, GrowSound
  <2> QED
    BY <2>2 DEF more
<1> HIDE DEF two
<1>5. Sound(first, two, n + 2, scr2, dbl \ {u})
  BY <1>1, <1>2, <1>3, <1>4, TrackSound
<1>6. /\ MenuRecord(u, v2) \in Rows /\ MenuRecord(u, v2).status = "active"
      /\ MenuRecord(u, v2).label = "temporary_navigation" /\ MenuRecord(u, v2).user = u
  BY DEF MenuRecord, Rows, Labels, Statuses
<1>7. dbl \ {u} \subseteq dbl \cup {u} /\ dbl \cup {u} \subseteq Users /\ u \in dbl \cup {u}
  BY <1>2
<1>8. \A w \in Users : scr2[w] # home
  BY <1>1, <1>2, <1>3, ChatAssumption
<1>9. \A w \in Users : scr2[w] = None \/ (w \notin dbl \cup {u} /\ scr2[w] = scr2[w] /\ scr2[w] # home)
  <2> SUFFICES ASSUME NEW w \in Users, scr2[w] # None
               PROVE  w \notin dbl \cup {u} /\ scr2[w] # home
    OBVIOUS
  <2>1. w # u /\ scr2[w] = scr[w]
    BY <1>2
  <2>2. w \notin dbl
    BY <2>1 DEF Sound, GoodScreens
  <2> QED
    BY <1>8, <2>1, <2>2
<1> HIDE DEF first, home
<1>10. Sound([first EXCEPT ![home] = MenuRecord(u, v2)], two, n + 2, scr2, dbl \cup {u})
  BY <1>1, <1>2, <1>5, <1>6, <1>7, <1>9, PutSound
<1> QED
  BY <1>10 DEF first, two, home

LEMMA CrossKeeps ==
    ASSUME IInv, NEW u \in Users, NEW m \in Messages, Cross(u, m)
    PROVE  IInv'
<1> DEFINE none == [w \in Users |-> None]
           home(new) == 2 * sent + 3 - new
           paired(rec, new, v) ==
               [Track(rec, u, new, v) EXCEPT ![home(new)] = MenuRecord(u, NextVersion(record, u))]
<1>1. /\ sent' = sent + 2 /\ sent + 2 <= MaxMessages /\ sent' >= sent
      /\ plain' = plain /\ cleanOn' = cleanOn /\ press' \in {press, {}} /\ Succeeds
  BY Facts DEF Cross, CanSend
<1>2. NextVersion(record, u) \in Nat /\ NextVersion(record, None) \in Nat
  BY Facts, NextVersionTyped
<1>3. PICK new \in {sent + 1, sent + 2} :
        \/ /\ \E outcome \in CleanupOutcomes(u) :
                /\ record' = paired(outcome.record, new, NextVersion(record, None))
                /\ shown' = outcome.shown \cup {new, home(new)}
           /\ screen' = none /\ doubled' = {u}
        \/ /\ record' = paired(record, new, NextVersion(record, u))
           /\ shown' = shown \cup {new, home(new)}
           /\ screen' = [screen EXCEPT ![u] = None]
           /\ doubled' = doubled \cup {u}
  BY DEF Cross
<1>4. ASSUME NEW outcome \in CleanupOutcomes(u),
             record' = paired(outcome.record, new, NextVersion(record, None)),
             shown' = outcome.shown \cup {new, home(new)},
             screen' = none, doubled' = {u}
      PROVE  Sound(record', shown', sent', screen', doubled')
  <2>1. Sound(outcome.record, outcome.shown, sent, none, {})
    BY OutcomeSound
  <2>2. none = [none EXCEPT ![u] = None]
    OBVIOUS
  <2> HIDE DEF none
  <2>3. Sound(paired(outcome.record, new, NextVersion(record, None)),
              outcome.shown \cup {new, home(new)}, sent + 2, none, {} \cup {u})
    BY <1>1, <1>2, <2>1, <2>2, Facts, PairSound
  <2>4. {} \cup {u} = {u}
    OBVIOUS
  <2> HIDE DEF paired, home
  <2> QED
    BY <1>1, <1>4, <2>3, <2>4
<1>5. ASSUME record' = paired(record, new, NextVersion(record, u)),
             shown' = shown \cup {new, home(new)},
             screen' = [screen EXCEPT ![u] = None],
             doubled' = doubled \cup {u}
      PROVE  Sound(record', shown', sent', screen', doubled')
  <2>1. Sound(paired(record, new, NextVersion(record, u)),
              shown \cup {new, home(new)}, sent + 2, screen', doubled \cup {u})
    BY <1>1, <1>2, <1>5, Facts, PairSound
  <2> HIDE DEF paired, home
  <2> QED
    BY <1>1, <1>5, <2>1
<1>6. Sound(record', shown', sent', screen', doubled')
  <2> HIDE DEF paired, home, none
  <2> QED
    BY <1>3, <1>4, <1>5
<1> QED
  BY <1>1, <1>6, Facts, Assembles

LEMMA PressBeginsKeeps ==
    ASSUME IInv, NEW u \in Users, NEW m \in Messages, PressBegins(u, m)
    PROVE  IInv'
<1>1. /\ UNCHANGED <<record, shown, sent, plain, screen, doubled, cleanOn, failures>>
      /\ press' = {InHand(u, m, "accepted")} /\ m \in shown
  BY DEF PressBegins, Pressable, chat, history
<1>2. m <= sent' /\ "accepted" \in PressStages
  BY <1>1, Facts DEF PressStages
<1>3. GoodPress(press', sent')
  BY <1>1, <1>2 DEF GoodPress
<1> QED
  BY <1>1, <1>3 DEF IInv

LEMMA PressShownKeeps ==
    ASSUME IInv, NEW u \in Users, NEW m \in Messages, PressShown(u, m)
    PROVE  IInv'
<1>1. /\ UNCHANGED <<shown, sent, plain, cleanOn, failures>> /\ Succeeds
      /\ press' = {} /\ m \in 1 .. sent /\ sent' >= sent
  BY Facts, PressedMessage DEF PressShown, chat, Succeeds
<1>2. CASE UNCHANGED <<record, history>>
  <2>1. Sound(record', shown', sent', screen', doubled')
    BY <1>1, <1>2, Facts DEF history
  <2> QED
    BY <1>1, <2>1, Assembles
<1>3. CASE /\ \E version \in InheritedVersions(record, u) :
                 record' = Track(record, u, m, version)
           /\ screen' = GivenScreen(u, m)
           /\ doubled' = doubled \ {u}
  <2>1. PICK version \in InheritedVersions(record, u) :
                 record' = Track(record, u, m, version)
    BY <1>3
  <2>2. version \in Nat
    BY Facts, InheritedTyped
  <2>3. screen' \in [Users -> Messages \cup {None}]
        /\ \A w \in Users : \/ screen'[w] = None
                            \/ w = u /\ screen'[w] = m
                            \/ w # u /\ screen'[w] = screen[w] /\ screen[w] # m
    BY <1>3, Facts DEF GivenScreen
  <2>4. Sound(Track(record, u, m, version), shown, sent, screen', doubled \ {u})
    BY <1>1, <2>2, <2>3, Facts, TrackSound
  <2>5. Sound(record', shown', sent', screen', doubled')
    BY <1>1, <1>3, <2>1, <2>4
  <2> QED
    BY <1>1, <2>5, Assembles
<1> QED
  BY <1>2, <1>3 DEF PressShown

LEMMA PressResentKeeps ==
    ASSUME IInv, NEW u \in Users, NEW m \in Messages, PressResent(u, m)
    PROVE  IInv'
<1>1. /\ Fails /\ press' = {} /\ cleanOn' = cleanOn /\ doubled' = doubled \ {u}
  BY DEF PressResent
<1>2. PICK n \in 1 .. 2, version \in InheritedVersions(record, u) :
        LET first == Track(record, u, sent + 1, version) IN
        /\ Sends(n)
        /\ record' = IF n = 1 THEN first ELSE Track(first, u, sent + 2, version)
        /\ screen' = [screen EXCEPT ![u] = sent + n]
  BY DEF PressResent
<1>3. /\ sent + n <= MaxMessages /\ sent' = sent + n /\ sent' >= sent
      /\ shown' = shown \cup (sent + 1 .. sent + n) /\ plain' = plain
  BY <1>2, Facts DEF Sends, CanSend
<1>4. version \in Nat
  BY Facts, InheritedTyped
<1> DEFINE first == Track(record, u, sent + 1, version)
           scr == [screen EXCEPT ![u] = sent + 1]
<1>5. Sound(first, shown \cup {sent + 1}, sent + 1, scr, doubled \ {u})
  <2>1. sent + 1 <= MaxMessages
    BY <1>3, Facts
  <2> QED
    BY <1>4, <2>1, Facts, SendSound
<1>6. CASE n = 1
  <2>1. record' = first /\ shown' = shown \cup {sent + 1} /\ sent' = sent + 1
        /\ screen' = scr
    BY <1>2, <1>3, <1>6, Facts
  <2> HIDE DEF first, scr
  <2>2. Sound(record', shown', sent', screen', doubled')
    BY <1>1, <1>5, <2>1
  <2> QED
    BY <1>1, <1>3, <2>2, Assembles
<1>7. CASE n = 2
  <2> DEFINE second == Track(first, u, (sent + 1) + 1, version)
  <2>1. screen' = [scr EXCEPT ![u] = (sent + 1) + 1]
    BY <1>2, <1>7, Facts
  <2>2. (sent + 1) + 1 <= MaxMessages
    BY <1>3, <1>7, Facts
  <2>3. record' = second
    <3>1. sent + 2 = (sent + 1) + 1
      BY Facts
    <3> QED
      BY <1>2, <1>7, <3>1
  <2>4. shown' = (shown \cup {sent + 1}) \cup {(sent + 1) + 1} /\ sent' = (sent + 1) + 1
    BY <1>3, <1>7, Facts
  <2>5. (doubled \ {u}) \ {u} = doubled \ {u}
    OBVIOUS
  <2> HIDE DEF first, scr
  <2>6. Sound(second, (shown \cup {sent + 1}) \cup {(sent + 1) + 1}, (sent + 1) + 1,
              screen', (doubled \ {u}) \ {u})
    BY <1>4, <1>5, <2>1, <2>2, SendSound
  <2>7. Sound(record', shown', sent', screen', doubled')
    BY <1>1, <2>3, <2>4, <2>5, <2>6
  <2> QED
    BY <1>1, <1>3, <2>7, Assembles
<1> QED
  BY <1>6, <1>7

LEMMA PressFailsKeeps ==
    ASSUME IInv, NEW u \in Users, NEW m \in Messages, PressFails(u, m)
    PROVE  IInv'
<1>1. /\ UNCHANGED <<record, shown, sent, plain, screen, doubled, cleanOn>>
      /\ press' = {InHand(u, m, "failed")} /\ m \in 1 .. sent
      /\ failures' \in 0 .. MaxFailures
  BY PressedMessage, FailsCounts DEF PressFails, chat, history
<1>2. m <= sent' /\ "failed" \in PressStages
  BY <1>1, Facts DEF PressStages
<1>3. GoodPress(press', sent')
  BY <1>1, <1>2 DEF GoodPress
<1> QED
  BY <1>1, <1>3 DEF IInv

\* A message that is recorded and no menu.
LEMMA StatusRows ==
    ASSUME NEW u \in Users, NEW label \in Labels
    PROVE  LET r == StatusRecord(u, label) IN
           r \in Rows /\ ~r.active /\ r.status = "active"
BY DEF StatusRecord, Rows, Statuses

\* The next message is recorded and no menu.
LEMMA StatusSound ==
    ASSUME IInv, NEW u \in Users, NEW label \in Labels, CanSend(1)
    PROVE  Sound([record EXCEPT ![sent + 1] = StatusRecord(u, label)],
                 shown \cup {sent + 1}, sent + 1, screen, doubled)
<1> DEFINE r == StatusRecord(u, label)
<1>1. /\ sent + 1 \in sent .. MaxMessages /\ sent + 1 \in 1 .. sent + 1
      /\ {sent + 1} \subseteq sent + 1 .. sent + 1 /\ sent + 1 \in Messages /\ sent + 1 > sent
  BY Facts DEF CanSend, Messages
<1>2. Sound(record, shown \cup {sent + 1}, sent + 1, screen, doubled)
  BY <1>1, Facts, GrowSound
<1>3. r \in Rows /\ ~r.active /\ r.status = "active"
  BY StatusRows
<1>4. \A w \in Users : screen[w] = None \/ (w \notin doubled /\ screen[w] = screen[w] /\ screen[w] # sent + 1)
  <2> SUFFICES ASSUME NEW w \in Users, screen[w] # None
               PROVE  w \notin doubled /\ screen[w] # sent + 1
    OBVIOUS
  <2>1. w \notin doubled
    BY Facts DEF Sound, GoodScreens
  <2> QED
    BY <1>1, <2>1, Facts, UnsentIsNoScreen
<1> HIDE DEF r
<1>5. Sound([record EXCEPT ![sent + 1] = r], shown \cup {sent + 1}, sent + 1, screen, doubled)
  BY <1>1, <1>2, <1>3, <1>4, Facts, PutSound
<1> QED
  BY <1>5 DEF r

LEMMA FallbackKeeps ==
    ASSUME IInv, NEW u \in Users, NEW m \in Messages, Fallback(u, m)
    PROVE  IInv'
<1>1. /\ UNCHANGED <<cleanOn, doubled, failures>> /\ Succeeds
      /\ press' = {} /\ m \in 1 .. sent
  BY PressedMessage DEF Fallback, Succeeds
<1> DEFINE r == StatusRecord(u, "temporary_error")
<1>2. r \in Rows /\ ~r.active /\ r.status = "active"
  BY StatusRows DEF Labels
<1>3. CASE /\ record' = [record EXCEPT ![m] = r]
           /\ screen' = [v \in Users |-> IF screen[v] = m THEN None ELSE screen[v]]
           /\ UNCHANGED chat
  <2>1. screen' \in [Users -> Messages \cup {None}]
    BY <1>3, Facts
  <2>2. \A w \in Users : screen'[w] = None \/ (w \notin doubled /\ screen'[w] = screen[w] /\ screen[w] # m)
    <3> SUFFICES ASSUME NEW w \in Users, screen'[w] # None
                 PROVE  w \notin doubled /\ screen'[w] = screen[w] /\ screen[w] # m
      OBVIOUS
    <3>1. screen'[w] = screen[w] /\ screen[w] # m /\ screen[w] # None
      BY <1>3
    <3>2. w \notin doubled
      BY <3>1, Facts DEF Sound, GoodScreens
    <3> QED
      BY <3>1, <3>2
  <2> HIDE DEF r
  <2>3. Sound([record EXCEPT ![m] = r], shown, sent, screen', doubled)
    BY <1>1, <1>2, <2>1, <2>2, Facts, PutSound
  <2>4. /\ Sound(record', shown', sent', screen', doubled')
        /\ sent' >= sent /\ plain' = plain
    BY <1>1, <1>3, <2>3, Facts DEF chat
  <2> QED
    BY <1>1, <2>4, Assembles
<1>4. CASE /\ Sends(1)
           /\ record' = [record EXCEPT ![sent + 1] = r]
           /\ UNCHANGED screen
  <2>1. "temporary_error" \in Labels
    BY DEF Labels
  <2>2. /\ CanSend(1) /\ sent' = sent + 1 /\ shown' = shown \cup {sent + 1} /\ plain' = plain
        /\ sent' >= sent
    BY <1>4, Facts DEF Sends
  <2>3. Sound(record', shown', sent', screen', doubled')
    BY <1>1, <1>4, <2>1, <2>2, StatusSound
  <2> QED
    BY <1>1, <2>2, <2>3, Assembles
<1>5. CASE UNCHANGED <<record, screen, chat>>
  <2>1. /\ Sound(record', shown', sent', screen', doubled')
        /\ sent' >= sent /\ plain' = plain
    BY <1>1, <1>5, Facts DEF chat
  <2> QED
    BY <1>1, <2>1, Assembles
<1> QED
  BY <1>3, <1>4, <1>5 DEF Fallback

LEMMA CommandWorkingKeeps ==
    ASSUME IInv, NEW u \in Users, CommandWorking(u)
    PROVE  IInv'
<1>1. /\ CanSend(1) /\ sent' = sent + 1 /\ shown' = shown \cup {sent + 1}
      /\ plain' = plain \cup {sent'} /\ sent' >= sent /\ sent' # sent
      /\ UNCHANGED <<cleanOn, press, screen, doubled, failures>> /\ Succeeds
      /\ record' = [record EXCEPT ![sent + 1] = StatusRecord(u, "temporary_status")]
  BY Facts DEF CommandWorking, history, Succeeds
<1>2. "temporary_status" \in Labels
  BY DEF Labels
<1>3. Sound(record', shown', sent', screen', doubled')
  BY <1>1, <1>2, StatusSound
<1> QED
  BY <1>1, <1>3, Assembles

LEMMA CommandStatusKeeps ==
    ASSUME IInv, CommandStatus
    PROVE  IInv'
<1>1. /\ Sends(1) /\ sent' = sent + 1 /\ shown' = shown \cup {sent + 1}
      /\ plain' = plain /\ sent' >= sent /\ CanSend(1)
      /\ UNCHANGED <<cleanOn, press, screen, doubled, failures>> /\ Succeeds
  BY Facts DEF CommandStatus, Sends, history, Succeeds
<1>2. CASE record' = [record EXCEPT ![sent + 1] = StatusRecord(Owner, "temporary_status")]
  <2>1. "temporary_status" \in Labels /\ Owner \in Users
    BY ChatAssumption DEF Labels
  <2>2. Sound(record', shown', sent', screen', doubled')
    BY <1>1, <1>2, <2>1, StatusSound
  <2> QED
    BY <1>1, <2>2, Assembles
<1>3. CASE UNCHANGED record
  <2>1. Sound(record', shown, sent, screen', doubled')
    BY <1>1, <1>3, Facts
  <2>2. Sound(record', shown', sent', screen', doubled')
    BY <1>1, <2>1, ChatKeeps
  <2> QED
    BY <1>1, <2>2, Assembles
<1> QED
  BY <1>2, <1>3 DEF CommandStatus

LEMMA CommandScreenKeeps ==
    ASSUME IInv, NEW u \in Users, CommandScreen(u)
    PROVE  IInv'
<1>1. UNCHANGED <<cleanOn, press>>
  BY DEF CommandScreen
<1>2. CASE Sends(1) /\ Succeeds
           /\ record' = Track(Clear(record, u), u, sent + 1, NextVersion(record, u))
           /\ screen' = [screen EXCEPT ![u] = sent + 1]
           /\ doubled' = doubled \ {u}
  BY <1>1, <1>2, FreshKeeps
<1>3. CASE FailsToSend /\ UNCHANGED <<record, history>>
  <2>1. (UNCHANGED chat \/ Sends(1)) /\ Fails /\ UNCHANGED <<screen, doubled>>
    BY <1>3 DEF FailsToSend, history
  <2>2. Sound(record', shown, sent, screen', doubled')
    BY <1>3, <2>1, Facts
  <2> QED
    BY <1>1, <2>1, <2>2, ChatKeeps, Assembles
<1> QED
  BY <1>2, <1>3 DEF CommandScreen

LEMMA VanishKeeps ==
    ASSUME IInv, NEW m \in Messages, Vanish(m)
    PROVE  IInv'
<1>1. /\ UNCHANGED <<record, sent, plain, cleanOn, press, screen, doubled, failures>>
      /\ shown' \subseteq shown
  BY DEF Vanish, history
<1>2. Sound(record, shown', sent, screen, doubled)
  BY <1>1, Facts, FewerSound
<1> QED
  BY <1>1, <1>2 DEF IInv, GoodPress

LEMMA StepKeeps ==
    ASSUME IInv, [Next]_vars
    PROVE  IInv'
<1>1. CASE \E u \in Users : Menu(u)
  BY <1>1, MenuKeeps
<1>2. CASE \E u \in Users : CommandWorking(u)
  BY <1>2, CommandWorkingKeeps
<1>3. CASE \E u \in Users : CommandScreen(u)
  BY <1>3, CommandScreenKeeps
<1>4. CASE \E u \in Users : ToggleCleanup(u)
  BY <1>4 DEF ToggleCleanup, IInv, chat, history
<1>5. CASE \E u \in Users, m \in Messages : StalePress(u, m)
  BY <1>5, StalePressKeeps
<1>6. CASE \E u \in Users, m \in Messages : Cross(u, m)
  BY <1>6, CrossKeeps
<1>7. CASE \E u \in Users, m \in Messages : PressBegins(u, m)
  BY <1>7, PressBeginsKeeps
<1>8. CASE \E u \in Users, m \in Messages : PressShown(u, m)
  BY <1>8, PressShownKeeps
<1>9. CASE \E u \in Users, m \in Messages : PressResent(u, m)
  BY <1>9, PressResentKeeps
<1>10. CASE \E u \in Users, m \in Messages : PressFails(u, m)
  BY <1>10, PressFailsKeeps
<1>11. CASE \E u \in Users, m \in Messages : Fallback(u, m)
  BY <1>11, FallbackKeeps
<1>12. CASE CommandStatus
  BY <1>12, CommandStatusKeeps
<1>13. CASE \E m \in Messages : Vanish(m)
  BY <1>13, VanishKeeps
<1>14. CASE UNCHANGED vars
  BY <1>14 DEF vars, chat, history, IInv
<1> QED
  BY <1>1, <1>2, <1>3, <1>4, <1>5, <1>6, <1>7, <1>8, <1>9, <1>10, <1>11, <1>12, <1>13, <1>14
  DEF Next

\* The tables, the chat and the screens agree in every state.
THEOREM Invariance == Spec => []IInv
<1>1. Init => IInv
  BY InitIInv
<1>2. IInv /\ [Next]_vars => IInv'
  BY StepKeeps
<1> QED
  BY <1>1, <1>2, PTL DEF Spec

\* Every variable keeps its type, also the press in hand and its message.
THEOREM TypeCorrect == Spec => []TypeOK
<1>1. ASSUME IInv
      PROVE  TypeOK
  <2>1. record \in [Messages -> {NoRecord} \cup Rows]
    BY <1>1, Facts DEF GoodTable
  <2>2. shown \subseteq Messages
    BY <1>1, Facts DEF Messages
  <2>3. press \in {{}} \cup
           {{InHand(u, m, stage)} : u \in Users, m \in Messages, stage \in PressStages}
    BY <1>1 DEF IInv, GoodPress
  <2> QED
    BY <1>1, <2>1, <2>2, <2>3, Facts DEF IInv, TypeOK, Rows
<1> QED
  BY <1>1, Invariance, PTL

\* A message the table calls deleted or missing is not shown any more.
THEOREM DeletionsAreReal == Spec => []RecordedDeletionIsReal
<1>1. IInv => RecordedDeletionIsReal
  BY DEF IInv, Sound, GoodChat, RecordedDeletionIsReal
<1> QED
  BY <1>1, Invariance, PTL

-----------------------------------------------------------------------------
(* Which menu acts.                                                        *)

\* The last screen of a user is the only current menu of that user.
LEMMA ScreenIsCurrent ==
    ASSUME IInv, NEW u \in Users, screen[u] # None
    PROVE  /\ screen[u] \in Messages
           /\ record[screen[u]].active /\ record[screen[u]] # NoRecord
           /\ Current(record, u) = {screen[u]}
<1> DEFINE s == screen[u]
           own == {m \in ActiveMenus(record) : record[m].user = u}
<1>1. s \in Messages /\ record[s].active /\ record[s].user = u /\ u \notin doubled
  BY DEF IInv, Sound, GoodScreens
<1>2. s \in own
  BY <1>1, Facts DEF GoodTable, ActiveMenus
<1>3. own = {s}
  BY <1>1, <1>2, Facts DEF GoodTable, ActiveMenus
<1>4. record[s].version \in Nat
  BY <1>1, Facts, RowFields
<1>5. Newest(record, {s}) = {s}
  BY <1>4 DEF Newest
<1>6. Current(record, u) = {s}
  <2>1. Current(record, u) = Newest(record, own)
    BY <1>2 DEF Current
  <2> QED
    BY <1>3, <1>5, <2>1
<1>7. record[s] # NoRecord
  BY <1>1 DEF NoRecord
<1> QED
  BY <1>1, <1>6, <1>7

LEMMA LastActs ==
    ASSUME IInv, NEW u \in Users, screen[u] # None, NEW m \in Messages
    PROVE  (FALSE \in IsStale(record, u, m)) <=> m = screen[u]
<1> DEFINE s == screen[u]
           old == IF record[m] = NoRecord THEN s # m
                  ELSE ~record[m].active \/ record[m].version # record[s].version \/ m # s
<1>1. IsStale(record, u, m) = {old}
  BY ScreenIsCurrent DEF IsStale
<1>2. old <=> m # s
  <2>1. CASE m = s
    BY <2>1, ScreenIsCurrent
  <2>2. CASE m # s
    BY <2>2
  <2> QED
    BY <2>1, <2>2
<1>3. old \in BOOLEAN
  OBVIOUS
<1> HIDE DEF old
<1>4. (FALSE \in {old}) <=> ~old
  BY <1>3
<1> QED
  BY <1>1, <1>2, <1>4

\* A user has one menu that acts, the one that was given last, and no other,
\* but for a user whose handlers crossed, until that user's next screen.
THEOREM OneMenu == Spec => []OneMenuActs
<1>1. IInv => OneActivePerUser
  BY DEF IInv, Sound, GoodTable, OneActivePerUser, ActiveMenus
<1>2. IInv => LastScreenActs
  BY LastActs DEF LastScreenActs
<1> QED
  BY <1>1, <1>2, Invariance, PTL DEF OneMenuActs

-----------------------------------------------------------------------------
(* What /start leaves.                                                     *)

\* A cleanup and a fresh Home leave the fresh one.
LEMMA FreshIsOnlyMenu ==
    ASSUME IInv, NEW u \in Users, Menu(u), screen'[u] = sent + 1
    PROVE  ActiveMenus(record') = {sent'}
<1>1. CASE screen' = [v \in Users |-> None]
  <2>1. None \notin Nat /\ sent + 1 \in Nat
    BY Facts, ChatAssumption
  <2> QED
    BY <1>1, <2>1
<1>2. CASE /\ CanSend(1) /\ sent' = sent + 1
           /\ \E outcome \in CleanupOutcomes(u) :
                 record' = Track(outcome.record, u, sent + 1, NextVersion(record, None))
  <2>1. PICK outcome \in CleanupOutcomes(u) :
                 record' = Track(outcome.record, u, sent + 1, NextVersion(record, None))
    BY <1>2
  <2>2. /\ GoodTable(outcome.record, sent, {})
        /\ \A m \in Messages : ~outcome.record[m].active
    BY OutcomeSound DEF Sound
  <2>3. sent + 1 \in Messages /\ NextVersion(record, None) \in Nat
    BY <1>2, Facts, NextVersionTyped DEF CanSend, Messages
  <2> DEFINE c == Clear(outcome.record, u)
  <2>4. /\ record'[sent + 1].active
        /\ record'[sent + 1].label = "temporary_navigation"
        /\ record'[sent + 1].status = "active"
        /\ \A k \in Messages \ {sent + 1} : record'[k] = c[k]
    BY <2>1, <2>2, <2>3, TrackRows
  <2>5. \A k \in Messages : ~c[k].active
    <3> SUFFICES ASSUME NEW k \in Messages, c[k].active
                 PROVE  FALSE
      OBVIOUS
    <3>1. c[k] = outcome.record[k]
      BY <2>2, ClearRows
    <3> QED
      BY <2>2, <3>1
  <2> HIDE DEF c
  <2> QED
    BY <1>2, <2>3, <2>4, <2>5 DEF ActiveMenus
<1> QED
  BY <1>1, <1>2 DEF Menu

\* After a /start that crosses no other handler the chat has a single active
\* menu, the fresh one.
THEOREM FreshStart == Spec => StartLeavesOneMenu
<1>1. ASSUME IInv, [Next]_vars
      PROVE  [\A u \in Users : screen'[u] = sent + 1 /\ Menu(u)
                => ActiveMenus(record') = {sent'}]_vars
  BY <1>1, FreshIsOnlyMenu
<1> QED
  BY <1>1, Invariance, PTL DEF Spec, StartLeavesOneMenu

-----------------------------------------------------------------------------
(* The abstract specification.                                             *)

\* The active menus of a user, in any table.
MenusOf(rec, u) == {m \in Messages : rec[m].active /\ rec[m].user = u}

LEMMA ActingIs ==
    ASSUME IInv, NEW u \in Users
    PROVE  Acting[u] = MenusOf(record, u)
<1>1. \A m \in Messages : record[m].active =>
          record[m].label = "temporary_navigation" /\ record[m].status = "active"
  BY DEF IInv, Sound, GoodTable
<1> QED
  BY <1>1 DEF Acting, ActiveMenus, MenusOf

LEMMA ActingBecomes ==
    ASSUME IInv'
    PROVE  Acting' = [u \in Users |-> MenusOf(record', u)]
<1>1. \A m \in Messages : record'[m].active =>
          record'[m].label = "temporary_navigation" /\ record'[m].status = "active"
  BY DEF IInv, Sound, GoodTable
<1>2. \A u \in Users : {m \in ActiveMenus(record)' : record'[m].user = u} = MenusOf(record', u)
  BY <1>1 DEF ActiveMenus, MenusOf
<1> QED
  BY <1>2 DEF Acting

LEMMA ClearTakes ==
    ASSUME NEW rec, NEW n, NEW dbl, GoodTable(rec, n, dbl), NEW u \in Users
    PROVE  /\ MenusOf(Clear(rec, u), u) = {}
           /\ \A w \in Users \ {u} : MenusOf(Clear(rec, u), w) = MenusOf(rec, w)
<1> DEFINE c == Clear(rec, u)
<1>1. \A m \in Messages :
        /\ c[m].user = rec[m].user
        /\ rec[m].user = u => ~c[m].active
        /\ rec[m].user # u => c[m] = rec[m]
  <2> SUFFICES ASSUME NEW m \in Messages
               PROVE  /\ c[m].user = rec[m].user
                      /\ rec[m].user = u => ~c[m].active
                      /\ rec[m].user # u => c[m] = rec[m]
    OBVIOUS
  <2>1. u # None
    BY ChatAssumption
  <2> QED
    BY <2>1, ClearRows
<1> HIDE DEF c
<1>2. MenusOf(c, u) = {} /\ \A w \in Users \ {u} : MenusOf(c, w) = MenusOf(rec, w)
  BY <1>1 DEF MenusOf
<1> QED
  BY <1>2 DEF c

\* A user's new menu is his only one, and nobody else keeps it.
LEMMA TrackGives ==
    ASSUME NEW rec, NEW n, NEW dbl, GoodTable(rec, n, dbl), NEW u \in Users,
           NEW m \in Messages, NEW v \in Nat
    PROVE  /\ MenusOf(Track(rec, u, m, v), u) = {m}
           /\ \A w \in Users \ {u} : MenusOf(Track(rec, u, m, v), w) = MenusOf(rec, w) \ {m}
<1> DEFINE t == Track(rec, u, m, v)
           c == Clear(rec, u)
<1>1. /\ t[m].user = u /\ t[m].active
      /\ \A k \in Messages \ {m} : t[k] = c[k]
  BY TrackRows
<1>2. /\ MenusOf(c, u) = {}
      /\ \A w \in Users \ {u} : MenusOf(c, w) = MenusOf(rec, w)
  BY ClearTakes
<1> HIDE DEF t, c
<1>3. MenusOf(t, u) = {m}
  BY <1>1, <1>2 DEF MenusOf
<1>4. \A w \in Users \ {u} : MenusOf(t, w) = MenusOf(c, w) \ {m}
  BY <1>1 DEF MenusOf
<1> QED
  BY <1>2, <1>3, <1>4 DEF t

\* A message that was not sent yet is nobody's menu.
LEMMA UnsentIsNobodys ==
    ASSUME NEW rec, NEW n, NEW dbl, GoodTable(rec, n, dbl), NEW m \in Messages, m > n, NEW u
    PROVE  m \notin MenusOf(rec, u)
<1>1. rec[m] = NoRecord
  BY DEF GoodTable
<1> QED
  BY <1>1 DEF MenusOf, NoRecord

\* A step that changes nobody's menus sends something at most.
LEMMA SameMenus ==
    ASSUME IInv, IInv', \A w \in Users : MenusOf(record', w) = MenusOf(record, w),
           sent' >= sent, Pressed' \in {Pressed, {}}
    PROVE  AM!Send
<1>1. \A w \in Users : Acting[w] = MenusOf(record, w)
  BY ActingIs
<1>2. Acting' = [w \in Users |-> MenusOf(record', w)] /\ Acting = [w \in Users |-> Acting[w]]
  BY ActingBecomes DEF Acting
<1>3. Acting' = Acting
  BY <1>1, <1>2
<1> QED
  BY <1>3 DEF AM!Send, AM!MayEnd

LEMMA ChatGrows ==
    ASSUME IInv, UNCHANGED chat \/ Sends(1)
    PROVE  sent' \in {sent, sent + 1} /\ sent' >= sent
BY Facts DEF chat, Sends

LEMMA PressedStays ==
    ASSUME press' \in {press, {}}
    PROVE  Pressed' \in {Pressed, {}}
BY DEF Pressed

LEMMA PressedIs ==
    ASSUME NEW u, NEW m, NEW stage, press = {InHand(u, m, stage)}
    PROVE  Pressed = {<<u, m>>}
<1>1. InHand(u, m, stage).user = u /\ InHand(u, m, stage).message = m
  BY DEF InHand
<1> QED
  BY <1>1 DEF Pressed

\* A menu that is sent is a fresh one of its user, when nobody else's changed.
LEMMA SentIsGiven ==
    ASSUME IInv, IInv', NEW u \in Users, NEW rec, NEW k \in sent + 1 .. MaxMessages,
           NEW dbl, GoodTable(rec, k - 1, dbl), NEW v \in Nat,
           \A w \in Users \ {u} : MenusOf(rec, w) = MenusOf(record, w),
           record' = Track(rec, u, k, v), sent' = k, press' \in {press, {}}
    PROVE  AM!Give(u)
<1>1. k \in Messages /\ k > sent
  BY Facts DEF Messages
<1>2. /\ MenusOf(record', u) = {k}
      /\ \A w \in Users \ {u} : MenusOf(record', w) = MenusOf(rec, w) \ {k}
  BY <1>1, TrackGives
<1>3. \A w \in Users \ {u} : MenusOf(record', w) = MenusOf(record, w)
  <2>1. \A w \in Users : k \notin MenusOf(record, w)
    BY <1>1, Facts, UnsentIsNobodys
  <2> QED
    BY <1>2, <2>1
<1>4. Acting' = [w \in Users |-> MenusOf(record', w)]
  BY ActingBecomes
<1>5. \A w \in Users : Acting[w] = MenusOf(record, w)
  BY ActingIs
<1>6. Acting = [w \in Users |-> Acting[w]]
  BY DEF Acting
<1>7. Acting' = [Acting EXCEPT ![u] = {k}]
  BY <1>2, <1>3, <1>4, <1>5, <1>6
<1> QED
  BY <1>1, <1>7, PressedStays DEF AM!Give, AM!MayEnd

LEMMA MenuIsStart ==
    ASSUME IInv, IInv', NEW u \in Users, Menu(u)
    PROVE  AM!Start(u) \/ AM!Send
<1>1. press' = press /\ Pressed' = Pressed
  BY DEF Menu, Pressed
<1>2. CASE UNCHANGED record /\ sent' \in {sent, sent + 1}
  <2>1. sent' >= sent
    BY <1>2, Facts
  <2> QED
    BY <1>1, <1>2, <2>1, SameMenus
<1>3. CASE /\ CanSend(1) /\ sent' = sent + 1
           /\ \E outcome \in CleanupOutcomes(u) :
                 record' = Track(outcome.record, u, sent + 1, NextVersion(record, None))
  <2>1. PICK outcome \in CleanupOutcomes(u) :
                 record' = Track(outcome.record, u, sent + 1, NextVersion(record, None))
    BY <1>3
  <2>2. /\ GoodTable(outcome.record, sent, {})
        /\ \A m \in Messages : ~outcome.record[m].active
    BY OutcomeSound DEF Sound
  <2>3. sent + 1 \in Messages /\ NextVersion(record, None) \in Nat /\ sent' > sent
    BY <1>3, Facts, NextVersionTyped DEF CanSend, Messages
  <2>4. /\ MenusOf(record', u) = {sent + 1}
        /\ \A w \in Users \ {u} : MenusOf(record', w) = MenusOf(outcome.record, w) \ {sent + 1}
    BY <2>1, <2>2, <2>3, TrackGives
  <2>5. \A w \in Users : MenusOf(outcome.record, w) = {}
    BY <2>2 DEF MenusOf
  <2>6. Acting' = [w \in Users |-> IF w = u THEN {sent + 1} ELSE {}]
    BY <2>4, <2>5, ActingBecomes
  <2> QED
    BY <1>1, <1>3, <2>3, <2>6 DEF AM!Start
<1> QED
  BY <1>2, <1>3 DEF Menu

\* A fresh menu after the session was reset.
LEMMA ResetIsGiven ==
    ASSUME IInv, IInv', NEW u \in Users, Sends(1), press' = press,
           record' = Track(Clear(record, u), u, sent + 1, NextVersion(record, u))
    PROVE  AM!Give(u)
<1>1. /\ sent + 1 \in sent + 1 .. MaxMessages /\ (sent + 1) - 1 = sent /\ sent' = sent + 1
      /\ NextVersion(record, u) \in Nat
  BY Facts, NextVersionTyped DEF Sends, CanSend
<1>2. GoodTable(Clear(record, u), sent, doubled)
  <2>1. doubled \ {u} \subseteq doubled
    OBVIOUS
  <2> QED
    BY <2>1, Facts, ClearGood
<1>3. \A w \in Users \ {u} : MenusOf(Clear(record, u), w) = MenusOf(record, w)
  BY Facts, ClearTakes
<1> QED
  BY <1>1, <1>2, <1>3, SentIsGiven

LEMMA StalePressGives ==
    ASSUME IInv, IInv', NEW u \in Users, NEW m \in Messages, StalePress(u, m)
    PROVE  AM!Give(u) \/ AM!Withdraw(u)
<1>1. press' = press /\ Pressed' = Pressed
  BY DEF StalePress, Pressed
<1>2. CASE /\ Sends(1)
           /\ record' = Track(Clear(record, u), u, sent + 1, NextVersion(record, u))
  BY <1>1, <1>2, ResetIsGiven
<1>3. CASE record' = Clear(record, u) /\ (UNCHANGED chat \/ Sends(1))
  <2>1. /\ MenusOf(record', u) = {}
        /\ \A w \in Users \ {u} : MenusOf(record', w) = MenusOf(record, w)
    BY <1>3, Facts, ClearTakes
  <2>2. \A w \in Users : Acting[w] = MenusOf(record, w)
    BY ActingIs
  <2>3. Acting' = [w \in Users |-> MenusOf(record', w)] /\ Acting = [w \in Users |-> Acting[w]]
    BY ActingBecomes DEF Acting
  <2>4. Acting' = [Acting EXCEPT ![u] = {}]
    BY <2>1, <2>2, <2>3
  <2> QED
    BY <1>1, <1>3, <2>4, ChatGrows DEF AM!Withdraw
<1> QED
  BY <1>2, <1>3 DEF StalePress, FailsToSend

\* A fresh screen tracked as new, and the other one of the two messages that
\* are sent as a menu beside it.
Paired(rec, u, new, v, v2) ==
    [Track(rec, u, new, v) EXCEPT ![2 * sent + 3 - new] = MenuRecord(u, v2)]

\* The user has both menus, and nobody else's change.
LEMMA PairGives ==
    ASSUME NEW rec, NEW dbl, GoodTable(rec, sent, dbl), sent \in Nat, sent + 2 <= MaxMessages,
           NEW u \in Users, NEW new \in {sent + 1, sent + 2}, NEW v \in Nat, NEW v2 \in Nat
    PROVE  /\ MenusOf(Paired(rec, u, new, v, v2), u) = {sent + 1, sent + 2}
           /\ \A w \in Users \ {u} : MenusOf(Paired(rec, u, new, v, v2), w) = MenusOf(rec, w)
<1> DEFINE rec2 == Paired(rec, u, new, v, v2)
           home == 2 * sent + 3 - new
           t == Track(rec, u, new, v)
           r == MenuRecord(u, v2)
<1>1. /\ new \in Messages /\ home \in Messages /\ new > sent /\ home > sent
      /\ {new, home} = {sent + 1, sent + 2}
  BY ChatAssumption DEF Messages
<1>2. /\ MenusOf(t, u) = {new}
      /\ \A w \in Users \ {u} : MenusOf(t, w) = MenusOf(rec, w) \ {new}
  BY <1>1, TrackGives
<1>3. \A w \in Users : new \notin MenusOf(rec, w) /\ home \notin MenusOf(rec, w)
  BY <1>1, UnsentIsNobodys
<1>4. t \in [Messages -> {NoRecord} \cup Rows]
  BY <1>1, TrackRows
<1>5. r.active /\ r.user = u
  BY DEF MenuRecord
<1>6. rec2 = [t EXCEPT ![home] = r]
  BY DEF Paired
<1> HIDE DEF rec2, t, r, home
<1>7. rec2[home] = r /\ \A i \in Messages \ {home} : rec2[i] = t[i]
  BY <1>1, <1>4, <1>6
<1>8. MenusOf(rec2, u) = MenusOf(t, u) \cup {home}
  BY <1>1, <1>5, <1>7 DEF MenusOf
<1>9. \A w \in Users \ {u} : MenusOf(rec2, w) = MenusOf(t, w) \ {home}
  BY <1>5, <1>7 DEF MenusOf
<1>10. \A w \in Users \ {u} : MenusOf(rec2, w) = MenusOf(rec, w)
  <2> SUFFICES ASSUME NEW w \in Users \ {u}
               PROVE  MenusOf(rec2, w) = MenusOf(rec, w)
    OBVIOUS
  <2>1. MenusOf(rec2, w) = (MenusOf(rec, w) \ {new}) \ {home}
    BY <1>2, <1>9
  <2>2. new \notin MenusOf(rec, w) /\ home \notin MenusOf(rec, w)
    BY <1>3
  <2> QED
    BY <2>1, <2>2
<1>11. MenusOf(rec2, u) = {sent + 1, sent + 2}
  BY <1>1, <1>2, <1>8
<1> QED
  BY <1>10, <1>11 DEF rec2

LEMMA CrossGivesTwo ==
    ASSUME IInv, IInv', NEW u \in Users, NEW m \in Messages, Cross(u, m)
    PROVE  AM!GiveTwo(u)
<1>1. /\ sent' = sent + 2 /\ sent + 2 <= MaxMessages /\ press' = press /\ Pressed' = Pressed
      /\ \A n \in Messages : record[n].active => record[n].user # u
  BY Facts DEF Cross, CanSend, Pressed
<1>2. NextVersion(record, u) \in Nat /\ NextVersion(record, None) \in Nat
  BY Facts, NextVersionTyped
<1>3. Acting[u] = {}
  BY <1>1, ActingIs DEF MenusOf
<1> DEFINE paired(rec, new, v) == Paired(rec, u, new, v, NextVersion(record, u))
<1>4. PICK new \in {sent + 1, sent + 2} :
        \/ \E outcome \in CleanupOutcomes(u) :
              record' = paired(outcome.record, new, NextVersion(record, None))
        \/ record' = paired(record, new, NextVersion(record, u))
  BY DEF Cross, Paired
<1>5. Acting' = [w \in Users |-> MenusOf(record', w)] /\ Acting = [w \in Users |-> Acting[w]]
  BY ActingBecomes DEF Acting
<1>6. ASSUME NEW outcome \in CleanupOutcomes(u),
             record' = paired(outcome.record, new, NextVersion(record, None))
      PROVE  Acting' = [w \in Users |-> IF w = u THEN {sent + 1, sent + 2} ELSE {}]
  <2>1. /\ GoodTable(outcome.record, sent, {})
        /\ \A k \in Messages : ~outcome.record[k].active
    BY OutcomeSound DEF Sound
  <2>2. \A w \in Users : MenusOf(outcome.record, w) = {}
    BY <2>1 DEF MenusOf
  <2> DEFINE after == paired(outcome.record, new, NextVersion(record, None))
  <2>3. /\ MenusOf(after, u) = {sent + 1, sent + 2}
        /\ \A w \in Users \ {u} : MenusOf(after, w) = MenusOf(outcome.record, w)
    BY <1>1, <1>2, <2>1, Facts, PairGives
  <2>4. record' = after
    BY <1>6
  <2> HIDE DEF paired, after
  <2> QED
    BY <1>5, <2>2, <2>3, <2>4
<1>7. ASSUME record' = paired(record, new, NextVersion(record, u))
      PROVE  Acting' = [Acting EXCEPT ![u] = {sent + 1, sent + 2}]
  <2> DEFINE after == paired(record, new, NextVersion(record, u))
  <2>1. /\ MenusOf(after, u) = {sent + 1, sent + 2}
        /\ \A w \in Users \ {u} : MenusOf(after, w) = MenusOf(record, w)
    <3>1. GoodTable(record, sent, doubled) /\ sent \in Nat /\ sent + 2 <= MaxMessages
      BY <1>1, Facts
    <3> QED
      BY <1>2, <3>1, PairGives
  <2>2. \A w \in Users : Acting[w] = MenusOf(record, w)
    BY ActingIs
  <2>3. record' = after
    BY <1>7
  <2> HIDE DEF paired, after
  <2> QED
    BY <1>5, <2>1, <2>2, <2>3
<1> HIDE DEF paired
<1>8. \/ Acting' = [Acting EXCEPT ![u] = {sent + 1, sent + 2}]
      \/ Acting' = [w \in Users |-> IF w = u THEN {sent + 1, sent + 2} ELSE {}]
  BY <1>4, <1>6, <1>7
<1> QED
  BY <1>1, <1>3, <1>8 DEF AM!GiveTwo

\* The menu that a user's press may act on: an own one, or somebody else's
\* when the user has none.
LEMMA PressedActs ==
    ASSUME IInv, NEW u \in Users, NEW m \in Messages, FALSE \in IsStale(record, u, m)
    PROVE  /\ record[m].user \in Users /\ m \in MenusOf(record, record[m].user)
           /\ u = record[m].user \/ MenusOf(record, u) = {}
<1>1. m \in Current(record, u)
  <2>1. Current(record, u) # {}
    BY ActingHasCurrent
  <2>2. PICK c \in Current(record, u) :
          FALSE = (IF record[m] = NoRecord THEN c # m
                   ELSE ~record[m].active \/ record[m].version # record[c].version \/ m # c)
    BY <2>1 DEF IsStale
  <2>3. c = m
    BY <2>2
  <2> QED
    BY <2>2, <2>3
<1>2. m \in ActiveMenus(record) /\ (MenusOf(record, u) # {} => record[m].user = u)
  <2>1. {k \in ActiveMenus(record) : record[k].user = u} = MenusOf(record, u)
    BY Facts DEF ActiveMenus, MenusOf, GoodTable
  <2> QED
    BY <1>1, <2>1 DEF Current, Newest
<1>3. record[m].active /\ record[m].user \in Users
  <2>1. record[m].active
    BY <1>2 DEF ActiveMenus
  <2>2. record[m] # NoRecord
    BY <2>1 DEF NoRecord
  <2>3. record[m] \in Rows
    BY Facts, <2>2, RowFields
  <2> QED
    BY <2>1, <2>3 DEF Rows
<1> QED
  BY <1>2, <1>3 DEF MenusOf

LEMMA PressBeginsPresses ==
    ASSUME IInv, IInv', NEW u \in Users, NEW m \in Messages, PressBegins(u, m)
    PROVE  AM!Press(u)
<1>1. /\ press = {} /\ press' = {InHand(u, m, "accepted")} /\ UNCHANGED <<record, sent>>
      /\ FALSE \in IsStale(record, u, m)
  BY DEF PressBegins, chat
<1>2. Pressed = {} /\ Pressed' = {<<u, m>>}
  <2>1. Pressed = {}
    BY <1>1 DEF Pressed
  <2>2. InHand(u, m, "accepted").user = u /\ InHand(u, m, "accepted").message = m
    BY DEF InHand
  <2>3. Pressed' = {<<u, m>>}
    BY <1>1, <2>2 DEF Pressed
  <2> QED
    BY <2>1, <2>3
<1>3. Acting' = Acting
  BY <1>1 DEF Acting, ActiveMenus
<1>4. \A w \in Users : Acting[w] = MenusOf(record, w)
  BY ActingIs
<1>5. \E v \in Users : m \in Acting[v] /\ (u = v \/ Acting[u] = {})
  <2>1. PICK v \in Users : v = record[m].user
    BY <1>1, PressedActs
  <2>2. m \in MenusOf(record, v) /\ (u = v \/ MenusOf(record, u) = {})
    BY <1>1, <2>1, PressedActs
  <2> QED
    BY <1>4, <2>2
<1> QED
  BY <1>1, <1>2, <1>3, <1>5 DEF AM!Press

LEMMA PressShownKeepsMenu ==
    ASSUME IInv, IInv', NEW u \in Users, NEW m \in Messages, PressShown(u, m)
    PROVE  AM!Keep(u) \/ AM!Send
<1>1. press' = {} /\ Pressed' = {} /\ sent' = sent /\ sent' >= sent /\ Pressed = {<<u, m>>}
  BY PressedIs, Facts DEF PressShown, Pressed, chat
<1>2. CASE UNCHANGED record
  BY <1>1, <1>2, SameMenus
<1>3. CASE \E version \in InheritedVersions(record, u) : record' = Track(record, u, m, version)
  <2>1. PICK version \in InheritedVersions(record, u) : record' = Track(record, u, m, version)
    BY <1>3
  <2>2. version \in Nat
    BY Facts, InheritedTyped
  <2>3. /\ MenusOf(record', u) = {m}
        /\ \A w \in Users \ {u} : MenusOf(record', w) = MenusOf(record, w) \ {m}
    BY <2>1, <2>2, Facts, TrackGives
  <2>4. \A w \in Users : Acting[w] = MenusOf(record, w)
    BY ActingIs
  <2>5. Acting' = [w \in Users |-> MenusOf(record', w)]
    BY ActingBecomes
  <2>6. Acting' = [w \in Users |-> IF w = u THEN {m} ELSE Acting[w] \ {m}]
    BY <2>3, <2>4, <2>5
  <2> DEFINE p == <<u, m>>
  <2>7. p \in Pressed /\ p[1] = u /\ p[2] = m
    BY <1>1
  <2> HIDE DEF p
  <2>8. Acting' = [w \in Users |-> IF w = u THEN {p[2]} ELSE Acting[w] \ {p[2]}]
    BY <2>6, <2>7
  <2> QED
    BY <1>1, <2>7, <2>8 DEF AM!Keep
<1> QED
  BY <1>2, <1>3 DEF PressShown

LEMMA PressResentGives ==
    ASSUME IInv, IInv', NEW u \in Users, NEW m \in Messages, PressResent(u, m)
    PROVE  AM!Give(u)
<1>1. PICK n \in 1 .. 2, version \in InheritedVersions(record, u) :
        LET first == Track(record, u, sent + 1, version) IN
        /\ Sends(n)
        /\ record' = IF n = 1 THEN first ELSE Track(first, u, sent + 2, version)
  BY DEF PressResent
<1>2. version \in Nat /\ press' \in {press, {}}
  BY Facts, InheritedTyped DEF PressResent
<1>3. sent + n <= MaxMessages /\ sent' = sent + n
  BY <1>1, Facts DEF Sends, CanSend
<1>4. CASE n = 1
  <2>1. record' = Track(record, u, sent + 1, version) /\ sent' = sent + 1
    BY <1>1, <1>3, <1>4
  <2>2. sent + 1 \in sent + 1 .. MaxMessages /\ (sent + 1) - 1 = sent
    BY <1>3, <1>4, Facts
  <2> QED
    BY <1>2, <2>1, <2>2, Facts, SentIsGiven
<1>5. CASE n = 2
  <2> DEFINE first == Track(record, u, sent + 1, version)
  <2>1. record' = Track(first, u, sent + 2, version) /\ sent' = sent + 2
    BY <1>1, <1>3, <1>5
  <2>2. /\ sent + 2 \in sent + 1 .. MaxMessages /\ (sent + 2) - 1 = sent + 1
        /\ sent + 1 \in Messages /\ sent + 1 \in 0 .. MaxMessages
        /\ sent + 1 \in 1 .. sent + 1 /\ sent + 1 > sent
    BY <1>3, <1>5, Facts DEF Messages
  <2>3. GoodTable(first, sent + 1, doubled \ {u})
    <3>1. GoodTable(record, sent + 1, doubled)
      BY <2>2, Facts DEF GoodTable, Messages
    <3> QED
      BY <1>2, <2>2, <3>1, TrackGood
  <2>4. \A w \in Users \ {u} : MenusOf(first, w) = MenusOf(record, w) \ {sent + 1}
    BY <1>2, <2>2, Facts, TrackGives
  <2>5. \A w \in Users : sent + 1 \notin MenusOf(record, w)
    BY <2>2, Facts, UnsentIsNobodys
  <2>6. \A w \in Users \ {u} : MenusOf(first, w) = MenusOf(record, w)
    BY <2>4, <2>5
  <2> HIDE DEF first
  <2> QED
    BY <1>2, <2>1, <2>2, <2>3, <2>6, SentIsGiven
<1> QED
  BY <1>4, <1>5

LEMMA PressFailsSends ==
    ASSUME IInv, IInv', NEW u \in Users, NEW m \in Messages, PressFails(u, m)
    PROVE  AM!Send
<1>1. /\ UNCHANGED <<record, sent>> /\ press = {InHand(u, m, "accepted")}
      /\ press' = {InHand(u, m, "failed")}
  BY DEF PressFails, chat
<1>2. Pressed = {<<u, m>>}
  BY <1>1, PressedIs
<1>3. InHand(u, m, "failed").user = u /\ InHand(u, m, "failed").message = m
  BY DEF InHand
<1>4. Pressed' = {<<u, m>>}
  BY <1>1, <1>3 DEF Pressed
<1> QED
  BY <1>1, <1>2, <1>4, Facts, SameMenus

\* A record that is no menu takes a menu from its user, if it was one.
LEMMA StatusDrops ==
    ASSUME IInv, NEW m \in Messages, NEW v \in Users, NEW label \in Labels,
           record' = [record EXCEPT ![m] = StatusRecord(v, label)]
    PROVE  \A w \in Users : MenusOf(record', w) = MenusOf(record, w) \ {m}
<1>1. record \in [Messages -> {NoRecord} \cup Rows]
  BY Facts DEF GoodTable
<1>2. ~StatusRecord(v, label).active
  BY StatusRows
<1>3. ~record'[m].active /\ \A i \in Messages \ {m} : record'[i] = record[i]
  BY <1>1, <1>2
<1> QED
  BY <1>3 DEF MenusOf

\* The record of a new message that is no menu changes nobody's menus.
LEMMA StatusSends ==
    ASSUME IInv, IInv', NEW v \in Users, NEW label \in Labels, CanSend(1), sent' = sent + 1,
           record' = [record EXCEPT ![sent + 1] = StatusRecord(v, label)],
           press' \in {press, {}}
    PROVE  AM!Send
<1>1. sent + 1 \in Messages /\ sent + 1 > sent /\ sent' >= sent
  BY Facts DEF CanSend, Messages
<1>2. \A w \in Users : MenusOf(record', w) = MenusOf(record, w) \ {sent + 1}
  BY <1>1, StatusDrops
<1>3. \A w \in Users : sent + 1 \notin MenusOf(record, w)
  BY <1>1, Facts, UnsentIsNobodys
<1>4. \A w \in Users : MenusOf(record', w) = MenusOf(record, w)
  BY <1>2, <1>3
<1> QED
  BY <1>1, <1>4, PressedStays, SameMenus

LEMMA FallbackDrops ==
    ASSUME IInv, IInv', NEW u \in Users, NEW m \in Messages, Fallback(u, m)
    PROVE  AM!Drop \/ AM!Send
<1>1. press' = {} /\ Pressed' = {} /\ Pressed = {<<u, m>>}
  BY PressedIs DEF Fallback, Pressed
<1>2. CASE record' = [record EXCEPT ![m] = StatusRecord(u, "temporary_error")] /\ UNCHANGED chat
  <2>1. "temporary_error" \in Labels
    BY DEF Labels
  <2>2. \A w \in Users : MenusOf(record', w) = MenusOf(record, w) \ {m}
    BY <1>2, <2>1, StatusDrops
  <2>3. \A w \in Users : Acting[w] = MenusOf(record, w)
    BY ActingIs
  <2>4. Acting' = [w \in Users |-> MenusOf(record', w)]
    BY ActingBecomes
  <2>5. Acting' = [w \in Users |-> Acting[w] \ {m}]
    BY <2>2, <2>3, <2>4
  <2> DEFINE p == <<u, m>>
  <2>6. p \in Pressed /\ p[2] = m
    BY <1>1
  <2> HIDE DEF p
  <2>7. Acting' = [w \in Users |-> Acting[w] \ {p[2]}]
    BY <2>5, <2>6
  <2> QED
    BY <1>1, <1>2, <2>6, <2>7 DEF AM!Drop, chat
<1>3. CASE Sends(1) /\ record' = [record EXCEPT ![sent + 1] = StatusRecord(u, "temporary_error")]
  <2>1. "temporary_error" \in Labels
    BY DEF Labels
  <2> QED
    BY <1>1, <1>3, <2>1, StatusSends DEF Sends
<1>4. CASE UNCHANGED <<record, chat>>
  <2>1. sent' >= sent
    BY <1>4, Facts DEF chat
  <2> QED
    BY <1>1, <1>4, <2>1, SameMenus
<1> QED
  BY <1>2, <1>3, <1>4 DEF Fallback

LEMMA CommandsSend ==
    ASSUME IInv, IInv', CommandStatus \/ \E u \in Users : CommandWorking(u)
    PROVE  AM!Send
<1>1. "temporary_status" \in Labels /\ Owner \in Users
  BY ChatAssumption DEF Labels
<1>2. ASSUME NEW u \in Users, CommandWorking(u)
      PROVE  AM!Send
  BY <1>1, <1>2, StatusSends DEF CommandWorking
<1>3. CASE CommandStatus
  <2>1. Sends(1) /\ press' = press
    BY <1>3 DEF CommandStatus
  <2>2. CASE record' = [record EXCEPT ![sent + 1] = StatusRecord(Owner, "temporary_status")]
    BY <1>1, <2>1, <2>2, StatusSends DEF Sends
  <2>3. CASE UNCHANGED record
    BY <2>1, <2>3, ChatGrows, PressedStays, SameMenus
  <2> QED
    BY <1>3, <2>2, <2>3 DEF CommandStatus
<1> QED
  BY <1>2, <1>3

LEMMA CommandScreenGives ==
    ASSUME IInv, IInv', NEW u \in Users, CommandScreen(u)
    PROVE  AM!Give(u) \/ AM!Send
<1>1. press' = press
  BY DEF CommandScreen
<1>2. CASE Sends(1) /\ record' = Track(Clear(record, u), u, sent + 1, NextVersion(record, u))
  BY <1>1, <1>2, ResetIsGiven
<1>3. CASE FailsToSend /\ UNCHANGED record
  BY <1>1, <1>3, ChatGrows, PressedStays, SameMenus DEF FailsToSend
<1> QED
  BY <1>2, <1>3 DEF CommandScreen

LEMMA StepImplements ==
    ASSUME IInv, IInv', [Next]_vars
    PROVE  [AM!Next]_<<Acting, sent, Pressed>>
<1>1. CASE \E u \in Users : Menu(u)
  BY <1>1, MenuIsStart DEF AM!Next
<1>2. CASE CommandStatus \/ \E u \in Users : CommandWorking(u)
  BY <1>2, CommandsSend DEF AM!Next
<1>3. CASE \E u \in Users : CommandScreen(u)
  BY <1>3, CommandScreenGives DEF AM!Next
<1>4. CASE \E u \in Users, m \in Messages : StalePress(u, m)
  BY <1>4, StalePressGives DEF AM!Next
<1>5. CASE \E u \in Users, m \in Messages : Cross(u, m)
  BY <1>5, CrossGivesTwo DEF AM!Next
<1>6. CASE \E u \in Users, m \in Messages : PressBegins(u, m)
  BY <1>6, PressBeginsPresses DEF AM!Next
<1>7. CASE \E u \in Users, m \in Messages : PressShown(u, m)
  BY <1>7, PressShownKeepsMenu DEF AM!Next
<1>8. CASE \E u \in Users, m \in Messages : PressResent(u, m)
  BY <1>8, PressResentGives DEF AM!Next
<1>9. CASE \E u \in Users, m \in Messages : PressFails(u, m)
  BY <1>9, PressFailsSends DEF AM!Next
<1>10. CASE \E u \in Users, m \in Messages : Fallback(u, m)
  BY <1>10, FallbackDrops DEF AM!Next
<1>11. CASE UNCHANGED <<record, sent, press>>
  <2>1. sent' >= sent /\ press' \in {press, {}}
    BY <1>11, Facts
  <2> QED
    BY <1>11, <2>1, PressedStays, SameMenus DEF AM!Next
<1>12. CASE \/ \E u \in Users : ToggleCleanup(u)
            \/ \E m \in Messages : Vanish(m)
            \/ UNCHANGED vars
  BY <1>11, <1>12 DEF ToggleCleanup, Vanish, vars, chat
<1> QED
  BY <1>1, <1>2, <1>3, <1>4, <1>5, <1>6, <1>7, <1>8, <1>9, <1>10, <1>12 DEF Next

\* Menus are handed out fresh, one to a user except where two handlers cross;
\* none that has stopped acting acts again, except through a press accepted
\* while it acted; only such a press takes over another's; and /start leaves
\* no other.
THEOREM ImplementsActingMenus == Spec => MenusStayRetired
<1>1. Init => AM!Init
  <2> SUFFICES ASSUME Init
               PROVE  AM!Init
    OBVIOUS
  <2>1. IInv /\ sent = 0 /\ press = {} /\ \A m \in Messages : record[m] = NoRecord
    BY InitIInv DEF Init
  <2>2. \A u \in Users : MenusOf(record, u) = {}
    BY <2>1 DEF MenusOf, NoRecord
  <2>3. \A u \in Users : Acting[u] = {}
    BY <2>1, <2>2, ActingIs
  <2> QED
    BY <2>1, <2>3 DEF AM!Init, Acting, Pressed
<1>2. IInv /\ IInv' /\ [Next]_vars => [AM!Next]_<<Acting, sent, Pressed>>
  BY StepImplements
<1> QED
  BY <1>1, <1>2, FreshStart, Invariance, PTL DEF Spec, MenusStayRetired, AM!Spec

=============================================================================

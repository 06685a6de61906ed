------------------------- MODULE NotificationsProofs -------------------------
(***************************************************************************)
(* What a caller of createNotification learns and what a switch-off stops,  *)
(* and what a listing gives while notifications arrive, for any             *)
(* notifications, types, processes and page size.  None is inductive:       *)
(* NoteInv adds where a call stands when its row is saved, QuietInv that a  *)
(* call past its check saw the switch on, or is overlapped, and WalkInv     *)
(* which rows the cursor has passed.                                        *)
(***************************************************************************)
EXTENDS Notifications, FiniteSetTheorems, TLAPS

USE NotificationsAssumption

Places == {"unused", "check", "save", "push", "returned", "skipped", "threw"}

NoteTyped ==
    /\ note \in [Notes -> Note]
    /\ row \in [Notes -> [is: {"none", "unread", "read"}, created: Ticks]]
    /\ pref \in [Subscribable -> {"none", "on", "off"}]
    /\ clock \in Ticks

(* Before its INSERT and when it is skipped a call has no row; after it, one *)
(* for good; only a push that has no server throws with a row.               *)
NoteInv ==
    /\ NoteTyped
    /\ shown \subseteq Saved
    /\ \A n \in Notes :
         /\ note[n].at \in {"unused", "check", "save", "skipped"} => row[n].is = "none"
         /\ note[n].at \in {"push", "returned"} => row[n].is # "none"
         /\ note[n].at = "threw" /\ ProcessOf(n) \in SocketProcesses => row[n].is = "none"

QuietInv ==
    \A n \in Notes :
      note[n].at = "save" /\ TypeOf(n) \in Subscribable =>
        pref[TypeOf(n)] # "off" \/ note[n].overlapped

-----------------------------------------------------------------------------
LEMMA NoteInit == Init => NoteInv /\ QuietInv
<1>. SUFFICES ASSUME Init PROVE NoteInv /\ QuietInv
  OBVIOUS
<1>1. NoteTyped
  BY DEF Init, NoteTyped, Note, Ticks
<1>. QED  BY <1>1 DEF Init, NoteInv, QuietInv, Saved

(* A call that moves: how its place and its row change is enough.            *)
LEMMA CallMoves ==
    ASSUME NoteInv, QuietInv, NEW n \in Notes, NEW place \in Places,
           Goes(n, place), UNCHANGED <<pref, clock>>,
           \/ UNCHANGED row
           \/ row' = [row EXCEPT ![n] = [is |-> "unread", created |-> clock]],
           shown' \subseteq shown \cup (IF row[n].is # "none" THEN {n} ELSE {}),
           place \in {"check", "save", "skipped"} => row'[n].is = "none",
           place \in {"push", "returned"} => row'[n].is # "none",
           place = "threw" /\ ProcessOf(n) \in SocketProcesses => row'[n].is = "none",
           place # "unused",
           place = "save" /\ TypeOf(n) \in Subscribable => pref[TypeOf(n)] # "off"
    PROVE  NoteInv' /\ QuietInv'
<1>. DEFINE r == [note[n] EXCEPT !.at = place]
<1>1. note' = [note EXCEPT ![n] = r] /\ r \in Note
  BY DEF Goes, NoteInv, NoteTyped, Note, Places
<1>2. r.at = place /\ r.overlapped = note[n].overlapped
  BY DEF NoteInv, NoteTyped, Note
<1>3. note'[n] = r /\ \A m \in Notes \ {n} : note'[m] = note[m]
  BY <1>1 DEF NoteInv, NoteTyped
<1>. HIDE DEF r
<1>4. NoteTyped'
  BY <1>1 DEF NoteInv, NoteTyped
<1>5. \A m \in Notes \ {n} : row'[m] = row[m]
  BY DEF NoteInv, NoteTyped
<1>6. row[n].is # "none" => row'[n].is # "none"
  BY DEF NoteInv, NoteTyped
<1>7. shown' \subseteq Saved'
  BY <1>5, <1>6 DEF NoteInv, Saved
<1>8. ASSUME NEW m \in Notes
      PROVE  /\ note'[m].at \in {"unused", "check", "save", "skipped"} => row'[m].is = "none"
             /\ note'[m].at \in {"push", "returned"} => row'[m].is # "none"
             /\ note'[m].at = "threw" /\ ProcessOf(m) \in SocketProcesses => row'[m].is = "none"
  BY <1>2, <1>3, <1>5 DEF NoteInv, Places
<1>9. QuietInv'
  BY <1>2, <1>3 DEF QuietInv
<1>. QED  BY <1>4, <1>7, <1>8, <1>9 DEF NoteInv

LEMMA NoteStep == NoteInv /\ QuietInv /\ [Next]_vars => NoteInv' /\ QuietInv'
<1>. SUFFICES ASSUME NoteInv, QuietInv, [Next]_vars PROVE NoteInv' /\ QuietInv'
  OBVIOUS
<1>1. ASSUME NEW n \in Notes, Begin(n) PROVE NoteInv' /\ QuietInv'
  <2>1. row[n].is = "none"
    BY <1>1 DEF Begin, NoteInv
  <2>. QED  BY <1>1, <2>1, CallMoves DEF Begin, Places
<1>2. ASSUME NEW n \in Notes, CheckPreference(n) PROVE NoteInv' /\ QuietInv'
  <2>1. row[n].is = "none"
    BY <1>2 DEF CheckPreference, NoteInv
  <2>. QED  BY <1>2, <2>1, CallMoves DEF CheckPreference, Places, Enabled
<1>3. ASSUME NEW n \in Notes, SaveNotification(n) PROVE NoteInv' /\ QuietInv'
  <2>1. row'[n].is = "unread"
    BY <1>3 DEF SaveNotification, NoteInv, NoteTyped
  <2>. QED  BY <1>3, <2>1, CallMoves DEF SaveNotification, Places
<1>4. ASSUME NEW n \in Notes, CreateFails(n) PROVE NoteInv' /\ QuietInv'
  <2>1. row[n].is = "none"
    BY <1>4 DEF CreateFails, NoteInv
  <2>. QED  BY <1>4, <2>1, CallMoves DEF CreateFails, Places
<1>5. ASSUME NEW n \in Notes, SendToUser(n) PROVE NoteInv' /\ QuietInv'
  <2>1. row[n].is # "none"
    BY <1>5 DEF SendToUser, NoteInv
  <2>. QED  BY <1>5, <2>1, CallMoves DEF SendToUser, Places, Serves
<1>6. ASSUME NEW t \in Subscribable, NEW enabled \in BOOLEAN, UpdatePreference(t, enabled)
      PROVE  NoteInv' /\ QuietInv'
  <2>1. \A m \in Notes : /\ note'[m] \in Note /\ note'[m].at = note[m].at
                         /\ note[m].overlapped => note'[m].overlapped
                         /\ note[m].at = "save" /\ TypeOf(m) = t => note'[m].overlapped
    <3>1. TAKE m \in Notes
    <3>2. note[m] \in Note /\ note'[m] = [note[m] EXCEPT !.overlapped =
                                   @ \/ (note[m].at = "save" /\ TypeOf(m) = t)]
      BY <1>6 DEF UpdatePreference, NoteInv, NoteTyped
    <3>. QED  BY <3>2 DEF Note
  <2>2. note' \in [Notes -> Note]
    BY <1>6, <2>1 DEF UpdatePreference
  <2>3. pref' \in [Subscribable -> {"none", "on", "off"}]
        /\ \A s \in Subscribable \ {t} : pref'[s] = pref[s]
    BY <1>6 DEF UpdatePreference, NoteInv, NoteTyped
  <2>4. UNCHANGED <<row, shown, clock>>
    BY <1>6 DEF UpdatePreference
  <2>5. NoteInv'
    BY <2>1, <2>2, <2>3, <2>4 DEF NoteInv, NoteTyped, Saved
  <2>6. QuietInv'
    BY <2>1, <2>3 DEF QuietInv
  <2>. QED  BY <2>5, <2>6
<1>7. ASSUME UNCHANGED <<pref, note, shown>>, clock' \in Ticks,
             row' \in [Notes -> [is: {"none", "unread", "read"}, created: Ticks]],
             \A n \in Notes : (row'[n].is = "none") <=> (row[n].is = "none")
      PROVE  NoteInv' /\ QuietInv'
  <2>1. NoteInv'
    BY <1>7 DEF NoteInv, NoteTyped, Saved
  <2>2. QuietInv'
    BY <1>7 DEF QuietInv
  <2>. QED  BY <2>1, <2>2
<1>8. ASSUME NEW n \in Notes, MarkAsRead(n) PROVE NoteInv' /\ QuietInv'
  <2>1. row' = [row EXCEPT ![n] = [row[n] EXCEPT !.is = "read"]]
        /\ row[n].is # "none" /\ UNCHANGED <<pref, note, shown, clock>>
    BY <1>8 DEF MarkAsRead, Saved
  <2>. QED  BY <1>7, <2>1 DEF NoteInv, NoteTyped
<1>9. ASSUME MarkAllAsRead PROVE NoteInv' /\ QuietInv'
  <2>1. \A n \in Notes : /\ row'[n] \in [is: {"none", "unread", "read"}, created: Ticks]
                         /\ (row'[n].is = "none") <=> (row[n].is = "none")
    BY <1>9 DEF MarkAllAsRead, NoteInv, NoteTyped
  <2>2. row' \in [Notes -> [is: {"none", "unread", "read"}, created: Ticks]]
    BY <1>9, <2>1 DEF MarkAllAsRead
  <2>. QED  BY <1>7, <1>9, <2>1, <2>2 DEF MarkAllAsRead, NoteInv, NoteTyped
<1>10. ASSUME \/ \E good \in BOOLEAN : HandleConnection(good)
              \/ HandleDisconnect \/ GetNotifications
              \/ UNCHANGED vars
       PROVE  NoteInv' /\ QuietInv'
  <2>1. UNCHANGED <<pref, note, row, shown, clock>>
    BY <1>10 DEF HandleConnection, HandleDisconnect, GetNotifications, vars
  <2>. QED  BY <1>7, <2>1 DEF NoteInv, NoteTyped
<1>11. ASSUME Tick PROVE NoteInv' /\ QuietInv'
  <2>1. UNCHANGED <<pref, note, row, shown>> /\ clock' \in Ticks
    BY <1>11 DEF Tick, Ticks, NoteInv, NoteTyped
  <2>. QED  BY <1>7, <2>1 DEF NoteInv, NoteTyped
<1>. QED
  BY <1>1, <1>2, <1>3, <1>4, <1>5, <1>6, <1>8, <1>9, <1>10, <1>11 DEF Next

LEMMA NotesInvariant == Spec => [](NoteInv /\ QuietInv)
  BY NoteInit, NoteStep, PTL DEF Spec

-----------------------------------------------------------------------------
(* Whoever was told that a notification was created has its row, and in a    *)
(* process with sockets whoever was told of a failure has none.              *)
THEOREM CallersTold == Spec => []CallersAreTold
<1>1. NoteInv => CallersAreTold
  BY DEF NoteInv, CallersAreTold, Saved
<1>. QED  BY <1>1, NotesInvariant, PTL

(* After the switch-off only a notification that had passed its check is     *)
(* still saved.                                                              *)
THEOREM OffIsSilent == Spec => OffMeansSilent
<1>1. ASSUME NoteInv, QuietInv, [Next]_vars,
             NEW n \in Notes, row[n].is = "none", row'[n].is = "unread",
             TypeOf(n) \in Subscribable
      PROVE  pref[TypeOf(n)] # "off" \/ note[n].overlapped
  <2>1. CASE \E m \in Notes : SaveNotification(m)
    <3>1. PICK m \in Notes : SaveNotification(m)
      BY <2>1
    <3>2. m = n
      BY <1>1, <3>1 DEF SaveNotification, NoteInv, NoteTyped
    <3>. QED  BY <1>1, <3>1, <3>2 DEF SaveNotification, QuietInv
  <2>2. CASE \E m \in Notes : MarkAsRead(m)
    BY <1>1, <2>2 DEF MarkAsRead, Saved, NoteInv, NoteTyped
  <2>3. CASE MarkAllAsRead
    BY <1>1, <2>3 DEF MarkAllAsRead
  <2>4. CASE UNCHANGED row
    BY <1>1, <2>4
  <2>. QED
    BY <1>1, <2>1, <2>2, <2>3, <2>4 DEF Next, vars, Begin, CheckPreference, CreateFails,
       SendToUser, HandleConnection, HandleDisconnect, UpdatePreference, GetNotifications, Tick
<1>2. NoteInv /\ QuietInv /\ [Next]_vars =>
        [\A n \in Notes :
           row[n].is = "none" /\ row'[n].is = "unread" /\ TypeOf(n) \in Subscribable =>
             pref[TypeOf(n)] # "off" \/ note[n].overlapped]_vars
  BY <1>1
<1>. QED  BY <1>2, NotesInvariant, PTL DEF Spec, OffMeansSilent

-----------------------------------------------------------------------------
(* Pages: what the operators of CursorPagination give.                       *)

(* The order of a listing: any two different rows are ordered.               *)
LEMMA RowsAreOrdered ==
    ASSUME NEW c, NEW dir \in Directions, NEW r \in Nat, NEW s \in Nat, NEW t \in Nat,
           c[r] \in Nat, c[s] \in Nat, c[t] \in Nat
    PROVE  /\ ~Before(r, r, dir, c)
           /\ Before(r, s, dir, c) => ~Before(s, r, dir, c)
           /\ Before(r, s, dir, c) /\ Before(s, t, dir, c) => Before(r, t, dir, c)
           /\ r # s => Before(r, s, dir, c) \/ Before(s, r, dir, c)
           /\ Before(r, s, "DESC", c) <=> Before(s, r, "ASC", c)
  BY DEF Before, Directions

(* A finite set of rows has a first one.  Of the sets of rows before a row,  *)
(* a least one by inclusion is empty.                                        *)
LEMMA FirstExists ==
    ASSUME NEW M \in SUBSET Nat, IsFiniteSet(M), M # {}, NEW c, \A r \in M : c[r] \in Nat,
           NEW dir \in Directions
    PROVE  \E x \in M : \A y \in M \ {x} : Before(x, y, dir, c)
<1>. DEFINE earlier(x) == {y \in M : Before(y, x, dir, c)}
            family     == {earlier(x) : x \in M}
<1>1. IsWellFoundedOn(StrictSubsetOrdering(M), SUBSET M)
  BY FS_StrictSubsetOrderingWellFounded, FS_FiniteSubsetsOfFinite
<1>2. family \subseteq SUBSET M /\ family # {}
  OBVIOUS
<1>3. PICK e \in family : \A f \in family : <<f, e>> \notin StrictSubsetOrdering(M)
  <2>. HIDE DEF family
  <2>. QED  BY <1>1, <1>2, WFMin
<1>4. PICK x \in M : e = earlier(x)
  BY <1>3
<1>5. ASSUME NEW y \in M, Before(y, x, dir, c) PROVE FALSE
  <2>1. earlier(y) \subseteq earlier(x)
    <3>1. ASSUME NEW z \in M, Before(z, y, dir, c) PROVE Before(z, x, dir, c)
      BY <1>5, <3>1, RowsAreOrdered
    <3>. QED  BY <3>1
  <2>2. y \in earlier(x) /\ y \notin earlier(y)
    BY <1>5, RowsAreOrdered
  <2>3. <<earlier(y), earlier(x)>> \in StrictSubsetOrdering(M)
    <3>1. earlier(y) # earlier(x)
      BY <2>2
    <3>2. earlier(y) \in SUBSET M /\ earlier(x) \in SUBSET M
      OBVIOUS
    <3>. HIDE DEF earlier
    <3>. QED  BY <2>1, <3>1, <3>2 DEF StrictSubsetOrdering
  <2>. QED  BY <1>3, <1>4, <2>3
<1>6. ASSUME NEW y \in M \ {x} PROVE Before(x, y, dir, c)
  BY <1>5, <1>6, RowsAreOrdered
<1>. QED  BY <1>6

LEMMA LastIsLast ==
    ASSUME NEW R \in SUBSET Nat, IsFiniteSet(R), R # {}, NEW c, \A r \in R : c[r] \in Nat,
           NEW dir \in Directions
    PROVE  /\ LastOf(R, dir, c) \in R
           /\ \A s \in R \ {LastOf(R, dir, c)} : Before(s, LastOf(R, dir, c), dir, c)
<1>1. PICK other \in Directions : other # dir
  BY DEF Directions
<1>2. PICK x \in R : \A y \in R \ {x} : Before(x, y, other, c)
  BY FirstExists
<1>3. \A y \in R \ {x} : Before(y, x, dir, c)
  <2>1. TAKE y \in R \ {x}
  <2>2. /\ Before(x, y, "DESC", c) <=> Before(y, x, "ASC", c)
        /\ Before(y, x, "DESC", c) <=> Before(x, y, "ASC", c)
    BY RowsAreOrdered
  <2>. QED  BY <1>1, <1>2, <2>2 DEF Directions
<1>. QED  BY <1>3 DEF LastOf

(* One page of a set of rows.                                                *)
LEMMA PageOfRows ==
    ASSUME NEW M \in SUBSET Nat, IsFiniteSet(M), NEW c, \A r \in M : c[r] \in Nat,
           NEW dir \in Directions,
           NEW R, R = FirstOf(M, Limit, dir, c),
           NEW more, more = (Cardinality(FirstOf(M, Limit + 1, dir, c)) > Limit)
    PROVE  /\ R \subseteq M
           /\ more => R # {}
           /\ ~more => R = M
           /\ \A r \in R, n \in M \ R : Before(r, n, dir, c)
<1>. DEFINE earlier(x) == {y \in M : Before(y, x, dir, c)}
            plus == FirstOf(M, Limit + 1, dir, c)
<1>1. \A x \in M : IsFiniteSet(earlier(x)) /\ Cardinality(earlier(x)) \in Nat
  <2>1. TAKE x \in M
  <2>2. earlier(x) \in SUBSET M
    OBVIOUS
  <2>. QED  BY <2>2, FS_Subset, FS_CardinalityType
<1>2. /\ R = {x \in M : Cardinality(earlier(x)) < Limit}
      /\ plus = {x \in M : Cardinality(earlier(x)) < Limit + 1}
  BY DEF FirstOf
<1>3. IsFiniteSet(plus) /\ Cardinality(plus) \in Nat /\ plus \subseteq M
  BY <1>2, FS_Subset, FS_CardinalityType
<1>. HIDE DEF plus
(* The rows that are not among the first Limit + 1 have them all before.     *)
<1>4. ASSUME plus # M PROVE Cardinality(plus) > Limit
  <2>1. M \ plus # {} /\ M \ plus \in SUBSET Nat /\ IsFiniteSet(M \ plus)
    BY <1>3, <1>4, FS_Subset
  <2>2. PICK x \in M \ plus : \A y \in (M \ plus) \ {x} : Before(x, y, dir, c)
    BY <2>1, FirstExists
  <2>3. earlier(x) \in SUBSET plus
    <3>1. ASSUME NEW y \in M, Before(y, x, dir, c), y \notin plus PROVE FALSE
      BY <2>2, <3>1, RowsAreOrdered
    <3>. QED  BY <3>1
  <2>4. Cardinality(earlier(x)) <= Cardinality(plus)
    BY <1>3, <2>3, FS_Subset
  <2>5. ~(Cardinality(earlier(x)) < Limit + 1) /\ Cardinality(earlier(x)) \in Nat
    BY <1>1, <1>2, <2>2
  <2>. HIDE DEF earlier
  <2>. QED  BY <1>3, <2>4, <2>5, PaginationAssumption
<1>5. ASSUME ~more, NEW n \in M, n \notin R PROVE FALSE
  <2>0. ~(Cardinality(plus) > Limit)
    BY <1>5 DEF plus
  <2>1. plus = M /\ Cardinality(M) <= Limit
    BY <1>3, <1>4, <2>0, PaginationAssumption
  <2>2. earlier(n) \in SUBSET M /\ earlier(n) # M
    BY RowsAreOrdered
  <2>3. Cardinality(earlier(n)) <= Cardinality(M) /\ Cardinality(earlier(n)) # Cardinality(M)
    BY <2>2, FS_Subset
  <2>4. ~(Cardinality(earlier(n)) < Limit) /\ Cardinality(earlier(n)) \in Nat
    BY <1>1, <1>2, <1>5
  <2>5. Cardinality(M) \in Nat
    BY FS_CardinalityType
  <2>. HIDE DEF earlier
  <2>. QED  BY <2>1, <2>3, <2>4, <2>5, PaginationAssumption
<1>6. ASSUME NEW r \in R, NEW n \in M \ R, Before(n, r, dir, c) PROVE FALSE
  <2>1. earlier(n) \in SUBSET earlier(r)
    <3>1. ASSUME NEW z \in M, Before(z, n, dir, c) PROVE Before(z, r, dir, c)
      BY <1>2, <1>6, <3>1, RowsAreOrdered
    <3>. QED  BY <3>1
  <2>2. Cardinality(earlier(n)) <= Cardinality(earlier(r))
    BY <1>1, <1>2, <2>1, FS_Subset
  <2>3. /\ Cardinality(earlier(r)) < Limit /\ ~(Cardinality(earlier(n)) < Limit)
        /\ Cardinality(earlier(r)) \in Nat /\ Cardinality(earlier(n)) \in Nat
    BY <1>1, <1>2, <1>6
  <2>. HIDE DEF earlier
  <2>. QED  BY <2>2, <2>3, PaginationAssumption
<1>7. \A r \in R, n \in M \ R : Before(r, n, dir, c)
  BY <1>2, <1>6, RowsAreOrdered
<1>8. ASSUME more, R = {} PROVE FALSE
  <2>1. M # {}
    <3>1. Cardinality(plus) > Limit
      BY <1>8 DEF plus
    <3>2. plus # {}
      <4>1. plus = {} => Cardinality(plus) = 0
        BY FS_EmptySet
      <4>. QED  BY <3>1, <4>1, PaginationAssumption
    <3>. QED  BY <1>3, <3>2
  <2>2. PICK x \in M : \A y \in M \ {x} : Before(x, y, dir, c)
    BY <2>1, FirstExists
  <2>3. earlier(x) = {}
    <3>1. ASSUME NEW y \in M, Before(y, x, dir, c) PROVE FALSE
      BY <2>2, <3>1, RowsAreOrdered
    <3>. QED  BY <3>1
  <2>4. Cardinality(earlier(x)) = 0
    BY <2>3, FS_EmptySet
  <2>. QED  BY <1>2, <1>8, <2>4, PaginationAssumption
<1>. QED  BY <1>2, <1>5, <1>7, <1>8

(* The millisecond of a tick: not later, and the same for what lies between. *)
LEMMA Milliseconds ==
    ASSUME NEW t \in Nat, NEW u \in Nat
    PROVE  /\ Millisecond(t) \in Nat /\ Millisecond(t) <= t
           /\ Millisecond(t) <= u /\ u <= t => Millisecond(u) = Millisecond(t)
<1>1. ASSUME NEW v \in Nat
      PROVE  /\ v % TicksPerMs \in 0..(TicksPerMs - 1) /\ v % TicksPerMs <= v
             /\ v \div TicksPerMs \in Int
             /\ Millisecond(v) = TicksPerMs * (v \div TicksPerMs)
  <2>1. v % TicksPerMs \in 0..(TicksPerMs - 1) /\ v % TicksPerMs <= v
    BY PaginationAssumption
  <2>2. v \div TicksPerMs \in Int
    BY PaginationAssumption
  <2>3. v % TicksPerMs = v - TicksPerMs * (v \div TicksPerMs)
    BY PaginationAssumption
  <2>. QED  BY <2>1, <2>2, <2>3, PaginationAssumption DEF Millisecond
<1>2. Millisecond(t) \in Nat /\ Millisecond(t) <= t
  BY <1>1, PaginationAssumption DEF Millisecond
<1>3. ASSUME NEW a \in Int, NEW b \in Int, NEW r \in 0..(TicksPerMs - 1),
             NEW s \in 0..(TicksPerMs - 1), t = TicksPerMs * a + r, u = TicksPerMs * b + s,
             TicksPerMs * a <= u, u <= t
      PROVE  a = b
  BY <1>3, PaginationAssumption
<1>4. ASSUME Millisecond(t) <= u, u <= t PROVE Millisecond(u) = Millisecond(t)
  <2>1. PICK a \in Int, b \in Int : a = t \div TicksPerMs /\ b = u \div TicksPerMs
    BY <1>1
  <2>2. PICK r \in 0..(TicksPerMs - 1), s \in 0..(TicksPerMs - 1) :
          r = t % TicksPerMs /\ s = u % TicksPerMs
    BY <1>1
  <2>3. /\ Millisecond(t) = TicksPerMs * a /\ Millisecond(u) = TicksPerMs * b
        /\ Millisecond(t) = t - r /\ Millisecond(u) = u - s
    BY <1>1, <2>1, <2>2 DEF Millisecond
  <2>4. t = TicksPerMs * a + r /\ u = TicksPerMs * b + s /\ TicksPerMs * a <= u
    BY <1>4, <2>3, PaginationAssumption
  <2>5. a = b
    BY <1>3, <1>4, <2>4
  <2>. QED  BY <2>3, <2>5
<1>. QED  BY <1>2, <1>4

(* The cursor of a page: the rows of the page are not past it.  A row after  *)
(* the page is, but newest-first one of the last row's millisecond.  And the *)
(* cursor only moves on.                                                     *)
LEMMA CursorMovesOn ==
    ASSUME NEW c, NEW dir \in Directions, NEW last \in Nat, c[last] \in Nat,
           NEW n \in Nat, c[n] \in Nat,
           NEW next, next = [at |-> Millisecond(c[last]), id |-> last]
    PROVE  /\ next # NoCursor
           /\ dir = "DESC" /\ (n = last \/ Before(n, last, dir, c)) => ~Past(n, next, dir, c)
           /\ Before(last, n, dir, c) =>
                \/ Past(n, next, dir, c)
                \/ dir = "DESC" /\ Millisecond(c[n]) = Millisecond(c[last])
<1>1. /\ next.at = Millisecond(c[last]) /\ next.id = last
      /\ Millisecond(c[last]) \in Nat /\ Millisecond(c[last]) <= c[last]
      /\ Millisecond(c[last]) <= c[n] /\ c[n] <= c[last] =>
           Millisecond(c[n]) = Millisecond(c[last])
  BY Milliseconds
<1>2. next # NoCursor
  BY <1>1 DEF NoCursor
<1>3. ASSUME dir = "DESC", n = last \/ Before(n, last, dir, c) PROVE ~Past(n, next, dir, c)
  <2>1. c[n] >= c[last] /\ (c[n] = c[last] => n >= last)
    BY <1>3 DEF Before
  <2>. QED  BY <1>1, <1>2, <1>3, <2>1 DEF Past
<1>4. ASSUME Before(last, n, dir, c)
      PROVE  \/ Past(n, next, dir, c)
             \/ dir = "DESC" /\ Millisecond(c[n]) = Millisecond(c[last])
  <2>1. CASE dir = "ASC"
    <3>1. c[n] > c[last] \/ (c[n] = c[last] /\ n > last)
      BY <1>4, <2>1 DEF Before
    <3>. QED  BY <1>1, <2>1, <3>1 DEF Past
  <2>2. CASE dir = "DESC"
    <3>1. c[n] < c[last] \/ (c[n] = c[last] /\ n < last)
      BY <1>4, <2>2 DEF Before
    <3>. QED  BY <1>1, <2>2, <3>1 DEF Past
  <2>. QED  BY <2>1, <2>2 DEF Directions
<1>. QED  BY <1>2, <1>3, <1>4

LEMMA PastIsKept ==
    ASSUME NEW c, NEW last \in Nat, c[last] \in Nat, NEW n \in Nat, c[n] \in Nat,
           NEW cursor \in [at: Int, id: Nat], Past(last, cursor, "DESC", c),
           NEW next, next = [at |-> Millisecond(c[last]), id |-> last],
           Past(n, next, "DESC", c)
    PROVE  Past(n, cursor, "DESC", c)
<1>1. /\ next.at = Millisecond(c[last]) /\ next.id = last
      /\ Millisecond(c[last]) \in Nat /\ Millisecond(c[last]) <= c[last]
  BY Milliseconds
<1>2. next # NoCursor
  BY <1>1 DEF NoCursor
<1>3. c[n] < c[last] \/ (c[n] = c[last] /\ n < last)
  BY <1>1, <1>2 DEF Past
<1>. QED  BY <1>3 DEF Past

-----------------------------------------------------------------------------
(* The listing of the client.  What it was given is of rows that are there;  *)
(* newest-first no row given is past the cursor, so none comes again; and a  *)
(* row that was there at the start was given, is still past the cursor, or   *)
(* shares the millisecond of some page's last row.                           *)
WalkTyped ==
    /\ walk \in Walk
    /\ walk.start \subseteq Saved /\ walk.lasts \subseteq Saved
    /\ \A n \in Notes : walk.given[n] <= walk.pages /\ (walk.given[n] > 0 => n \in Saved)

NotBegun ==
    walk.at = "idle" =>
      /\ walk.cursor = NoCursor /\ walk.start = {} /\ walk.lasts = {}
      /\ \A n \in Notes : walk.given[n] = 0

GivenIsPassed ==
    walk.dir = "DESC" =>
      \A n \in Notes :
        /\ walk.given[n] <= 1
        /\ walk.given[n] > 0 /\ walk.at = "next" => ~Past(n, walk.cursor, "DESC", created)

Reached(n) ==
    \/ walk.given[n] > 0
    \/ walk.at = "next" /\ Past(n, walk.cursor, walk.dir, created)
    \/ /\ walk.dir = "DESC"
       /\ \E l \in walk.lasts : Millisecond(created[l]) = Millisecond(created[n])

WalkInv ==
    /\ WalkTyped /\ NotBegun /\ GivenIsPassed
    /\ \A n \in walk.start : Reached(n)

LEMMA WalkInit == Init => WalkInv
<1>. SUFFICES ASSUME Init PROVE WalkInv
  OBVIOUS
<1>1. PICK dir \in Directions :
        walk = [at |-> "idle", dir |-> dir, cursor |-> NoCursor, start |-> {},
                given |-> [n \in Notes |-> 0], lasts |-> {}, pages |-> 0]
  BY DEF Init
<1>2. NoCursor \in [at: Ticks \cup {-1}, id: Notes \cup {0}]
  BY DEF NoCursor
<1>3. walk \in Walk
  BY <1>1, <1>2 DEF Walk
<1>. QED  BY <1>1, <1>3 DEF WalkInv, WalkTyped, NotBegun, GivenIsPassed

(* A row that is saved stays, with its created_at.                           *)
LEMMA RowsAreKept ==
    ASSUME NoteInv, [Next]_vars, NEW n \in Saved
    PROVE  n \in Saved' /\ created'[n] = created[n]
<1>1. n \in Notes /\ row[n].is # "none"
  BY DEF Saved
<1>2. SUFFICES row'[n].is # "none" /\ row'[n].created = row[n].created
  BY <1>1 DEF Saved, created
<1>3. row \in [Notes -> [is: {"none", "unread", "read"}, created: Ticks]]
  BY DEF NoteInv, NoteTyped
<1>4. CASE \E m \in Notes : SaveNotification(m)
  <2>1. PICK m \in Notes : SaveNotification(m)
    BY <1>4
  <2>2. m # n
    BY <1>1, <2>1 DEF SaveNotification, NoteInv
  <2>. QED  BY <1>1, <1>3, <2>1, <2>2 DEF SaveNotification
<1>5. CASE \E m \in Notes : MarkAsRead(m)
  <2>1. PICK m \in Notes : MarkAsRead(m)
    BY <1>5
  <2>. QED  BY <1>1, <1>3, <2>1 DEF MarkAsRead
<1>6. CASE MarkAllAsRead
  <2>1. row'[n] = IF row[n].is = "unread" THEN [row[n] EXCEPT !.is = "read"] ELSE row[n]
    BY <1>1, <1>6 DEF MarkAllAsRead
  <2>2. row[n] \in [is: {"none", "unread", "read"}, created: Ticks]
    BY <1>1, <1>3
  <2>. QED  BY <1>1, <2>1, <2>2
<1>7. CASE UNCHANGED row
  BY <1>1, <1>7
<1>. QED
  BY <1>4, <1>5, <1>6, <1>7 DEF Next, vars, Begin, CheckPreference, CreateFails, SendToUser,
     HandleConnection, HandleDisconnect, UpdatePreference, GetNotifications, Tick

LEMMA WalkStays ==
    ASSUME NoteInv, WalkInv, [Next]_vars, UNCHANGED walk
    PROVE  WalkInv'
<1>1. Saved \subseteq Saved' /\ \A n \in Saved : created'[n] = created[n]
  BY RowsAreKept
<1>2. WalkTyped' /\ NotBegun'
  BY <1>1 DEF WalkInv, WalkTyped, NotBegun
<1>3. \A n \in Saved : Past(n, walk.cursor, walk.dir, created')
                         <=> Past(n, walk.cursor, walk.dir, created)
  BY <1>1 DEF Past
<1>4. GivenIsPassed'
  BY <1>3 DEF WalkInv, WalkTyped, GivenIsPassed
<1>5. ASSUME NEW n \in walk.start PROVE Reached(n)'
  <2>1. n \in Saved /\ Reached(n)
    BY <1>5 DEF WalkInv, WalkTyped
  <2>2. CASE \/ walk.given[n] > 0
             \/ walk.at = "next" /\ Past(n, walk.cursor, walk.dir, created)
    BY <1>3, <2>1, <2>2 DEF Reached
  <2>3. CASE /\ walk.dir = "DESC"
             /\ \E l \in walk.lasts : Millisecond(created[l]) = Millisecond(created[n])
    <3>1. PICK l \in walk.lasts : Millisecond(created[l]) = Millisecond(created[n])
      BY <2>3
    <3>2. created'[l] = created[l] /\ created'[n] = created[n]
      BY <1>1, <2>1 DEF WalkInv, WalkTyped
    <3>. QED  BY <2>3, <3>1, <3>2 DEF Reached
  <2>. QED  BY <2>1, <2>2, <2>3 DEF Reached
<1>. QED  BY <1>2, <1>4, <1>5 DEF WalkInv

(* One page.                                                                 *)
LEMMA WalkGoesOn ==
    ASSUME NoteInv, WalkInv, GetNotifications
    PROVE  WalkInv'
<1>. DEFINE M       == Matching(Saved, walk.cursor, walk.dir, created)
            results == Results(Saved, walk.cursor, walk.dir, created)
            more    == HasMore(Saved, walk.cursor, walk.dir, created)
            last    == LastOf(results, walk.dir, created)
            next    == [at |-> Millisecond(created[last]), id |-> last]
<1>1. /\ walk \in Walk /\ walk.dir \in Directions /\ walk.given \in [Notes -> Nat]
      /\ walk.cursor \in [at: Int, id: Nat] /\ walk.pages \in Nat
      /\ walk.at \in {"idle", "next"} /\ walk.pages + 1 \in 0..MaxPages
      /\ walk.start \subseteq Saved /\ walk.lasts \subseteq Saved /\ Saved \subseteq Notes
  BY DEF WalkInv, WalkTyped, Walk, GetNotifications, Saved, Ticks
<1>2. \A n \in Notes : n \in Nat /\ created[n] \in Ticks /\ created[n] \in Nat
  BY DEF NoteInv, NoteTyped, created, Ticks
<1>3. M \subseteq Saved /\ \A n \in Saved : n \in M <=> Past(n, walk.cursor, walk.dir, created)
  BY DEF Matching
<1>4. M \in SUBSET Nat /\ IsFiniteSet(M)
  <2>1. M \in SUBSET Notes
    BY <1>1, <1>3
  <2>. HIDE DEF M
  <2>. QED  BY <1>2, <2>1, FS_Subset
<1>5. /\ results \subseteq M
      /\ more => results # {}
      /\ ~more => results = M
      /\ \A r \in results, n \in M \ results : Before(r, n, walk.dir, created)
  <2>1. results = FirstOf(M, Limit, walk.dir, created)
    BY DEF Results
  <2>2. more = (Cardinality(FirstOf(M, Limit + 1, walk.dir, created)) > Limit)
    BY DEF HasMore
  <2>3. \A r \in M : created[r] \in Nat
    BY <1>1, <1>2, <1>3
  <2>. HIDE DEF M, results, more
  <2>. QED  BY <1>1, <1>4, <2>1, <2>2, <2>3, PageOfRows
<1>6. ASSUME more
      PROVE  /\ last \in results
             /\ \A s \in results \ {last} : Before(s, last, walk.dir, created)
  <2>1. results \in SUBSET Nat /\ IsFiniteSet(results) /\ results # {}
    BY <1>4, <1>5, <1>6, FS_Subset
  <2>2. \A r \in results : created[r] \in Nat
    BY <1>1, <1>2, <1>3, <1>5
  <2>. HIDE DEF results
  <2>. QED  BY <1>1, <2>1, <2>2, LastIsLast
<1>7. walk' = [walk EXCEPT
             !.at     = IF more THEN "next" ELSE "ended",
             !.cursor = IF more THEN next ELSE walk.cursor,
             !.start  = IF walk.at = "idle" THEN Saved ELSE walk.start,
             !.given  = [n \in Notes |-> walk.given[n] + (IF n \in results THEN 1 ELSE 0)],
             !.lasts  = IF more THEN walk.lasts \cup {last} ELSE walk.lasts,
             !.pages  = walk.pages + 1]
  BY DEF GetNotifications, NextCursor
<1>8. UNCHANGED row
  BY DEF GetNotifications
<1>9. created' = created /\ Saved' = Saved
  BY <1>8 DEF created, Saved
<1>0. next = [at |-> Millisecond(created[last]), id |-> last]
  OBVIOUS
<1>. HIDE DEF M, results, more, last, next
<1>10. ASSUME more PROVE /\ last \in Saved /\ last \in Notes /\ last \in M
                         /\ next \in [at: Ticks \cup {-1}, id: Notes \cup {0}]
  <2>1. last \in Notes /\ last \in M /\ last \in Saved
    BY <1>1, <1>3, <1>5, <1>6, <1>10
  <2>2. Millisecond(created[last]) \in Nat /\ Millisecond(created[last]) <= created[last]
    BY <1>2, <2>1, Milliseconds
  <2>3. Millisecond(created[last]) \in Ticks
    BY <1>2, <2>1, <2>2 DEF Ticks
  <2>. QED  BY <1>0, <2>1, <2>3
<1>11. /\ walk'.at = (IF more THEN "next" ELSE "ended") /\ walk'.dir = walk.dir
       /\ walk'.cursor = (IF more THEN next ELSE walk.cursor)
       /\ walk'.start = (IF walk.at = "idle" THEN Saved ELSE walk.start)
       /\ walk'.lasts = (IF more THEN walk.lasts \cup {last} ELSE walk.lasts)
       /\ walk'.pages = walk.pages + 1
       /\ walk'.given = [n \in Notes |-> walk.given[n] + (IF n \in results THEN 1 ELSE 0)]
       /\ \A n \in Notes : walk'.given[n] = walk.given[n] + (IF n \in results THEN 1 ELSE 0)
  BY <1>1, <1>7 DEF Walk
<1>12. WalkTyped'
  <2>1. walk'.given \in [Notes -> 0..MaxPages]
        /\ \A n \in Notes : walk'.given[n] <= walk'.pages
    BY <1>1, <1>11 DEF WalkInv, WalkTyped
  <2>2. walk'.start \subseteq Saved /\ walk'.lasts \subseteq Saved
    BY <1>1, <1>10, <1>11
  <2>3. walk' \in Walk
    BY <1>1, <1>7, <1>10, <2>1, <2>2, <1>11 DEF Walk
  <2>4. \A n \in Notes : walk'.given[n] > 0 => n \in Saved
    BY <1>1, <1>3, <1>5, <1>11 DEF WalkInv, WalkTyped
  <2>. QED  BY <1>9, <2>1, <2>2, <2>3, <2>4 DEF WalkTyped
<1>13. NotBegun'
  BY <1>11 DEF NotBegun
<1>14. GivenIsPassed'
  <2>. SUFFICES ASSUME walk.dir = "DESC", NEW n \in Notes
                PROVE  /\ walk'.given[n] <= 1
                       /\ walk'.given[n] > 0 /\ more => ~Past(n, next, "DESC", created)
    BY <1>9, <1>11 DEF GivenIsPassed
  <2>1. walk.given[n] \in Nat /\ walk.given[n] <= 1
        /\ (walk.given[n] > 0 => ~Past(n, walk.cursor, "DESC", created))
    <3>1. NotBegun /\ GivenIsPassed
      BY DEF WalkInv
    <3>2. walk.at = "idle" => walk.given[n] = 0
      BY <3>1 DEF NotBegun
    <3>3. /\ walk.given[n] <= 1
          /\ walk.given[n] > 0 /\ walk.at = "next" => ~Past(n, walk.cursor, "DESC", created)
      BY <3>1 DEF GivenIsPassed
    <3>. QED  BY <1>1, <3>2, <3>3
  <2>2. n \in results => n \in M /\ walk.given[n] = 0
    BY <1>3, <1>5, <2>1
  <2>3. walk'.given[n] <= 1
    BY <1>11, <2>1, <2>2
  <2>4. ASSUME more, n \in results PROVE ~Past(n, next, "DESC", created)
    <3>1. n = last \/ Before(n, last, "DESC", created)
      BY <1>6, <2>4
    <3>2. "DESC" \in Directions /\ last \in Nat /\ created[last] \in Nat
      BY <1>2, <1>10, <2>4 DEF Directions
    <3>. QED  BY <1>0, <1>2, <3>1, <3>2, CursorMovesOn
  <2>5. ASSUME more, walk.given[n] > 0 PROVE ~Past(n, next, "DESC", created)
    <3>1. Past(last, walk.cursor, "DESC", created)
      BY <1>3, <1>10, <2>5
    <3>2. SUFFICES ASSUME Past(n, next, "DESC", created) PROVE FALSE
      OBVIOUS
    <3>3. Past(n, walk.cursor, "DESC", created)
      <4>1. /\ last \in Nat /\ created[last] \in Nat /\ created[n] \in Nat /\ n \in Nat
            /\ walk.cursor \in [at: Int, id: Nat]
        BY <1>1, <1>2, <1>10, <2>5
      <4>. QED  BY <1>0, <3>1, <3>2, <4>1, PastIsKept
    <3>. QED  BY <2>1, <2>5, <3>3
  <2>. QED  BY <1>11, <2>1, <2>3, <2>4, <2>5
<1>15. ASSUME NEW n \in walk'.start PROVE Reached(n)'
  <2>1. n \in Saved /\ n \in Notes
    BY <1>1, <1>11
  <2>2. CASE n \in M
    <3>1. CASE n \in results
      <4>1. walk'.given[n] = walk.given[n] + 1 /\ walk.given[n] \in Nat
        BY <1>1, <1>11, <2>1, <3>1
      <4>2. walk'.given[n] > 0
        BY <4>1
      <4>. QED  BY <4>2 DEF Reached
    <3>2. CASE n \notin results
      <4>1. more /\ Before(last, n, walk.dir, created)
        BY <1>5, <1>6, <2>2, <3>2
      <4>2. \/ Past(n, next, walk.dir, created)
            \/ walk.dir = "DESC" /\ Millisecond(created[n]) = Millisecond(created[last])
        BY <1>0, <1>1, <1>2, <1>10, <2>1, <4>1, CursorMovesOn
      <4>. QED  BY <1>9, <1>11, <4>1, <4>2 DEF Reached
    <3>. QED  BY <3>1, <3>2
  <2>3. CASE n \notin M
    <3>1. walk.at = "next" /\ n \in walk.start
      BY <1>1, <1>3, <1>11, <2>1, <2>3 DEF WalkInv, NotBegun, Past
    <3>2. \/ walk.given[n] > 0
          \/ walk.dir = "DESC" /\ \E l \in walk.lasts :
                                    Millisecond(created[l]) = Millisecond(created[n])
      BY <1>3, <2>1, <2>3, <3>1 DEF WalkInv, Reached
    <3>3. walk'.given[n] >= walk.given[n] /\ walk.given[n] \in Nat /\ walk'.given[n] \in Nat
      BY <1>1, <1>11, <2>1
    <3>4. walk.lasts \subseteq walk'.lasts
      BY <1>11
    <3>. QED  BY <1>9, <1>11, <3>2, <3>3, <3>4 DEF Reached
  <2>. QED  BY <2>2, <2>3
<1>. QED  BY <1>12, <1>13, <1>14, <1>15 DEF WalkInv

LEMMA WalkInvariant == Spec => []WalkInv
<1>1. NoteInv /\ WalkInv /\ [Next]_vars => WalkInv'
  <2>. SUFFICES ASSUME NoteInv, WalkInv, [Next]_vars PROVE WalkInv'
    OBVIOUS
  <2>1. CASE GetNotifications
    BY <2>1, WalkGoesOn
  <2>2. CASE ~GetNotifications
    <3>1. UNCHANGED walk
      BY <2>2 DEF Next, vars, Begin, CheckPreference, SaveNotification, CreateFails, SendToUser,
         MarkAsRead, MarkAllAsRead, HandleConnection, HandleDisconnect, UpdatePreference, Tick
    <3>. QED  BY <3>1, WalkStays
  <2>. QED  BY <2>1, <2>2
<1>. QED  BY <1>1, WalkInit, NotesInvariant, PTL DEF Spec

(* The newest-first listing gives no row twice, however many arrive or are   *)
(* marked read between its pages.                                            *)
THEOREM NothingIsTwice == Spec => []NothingTwice
<1>1. WalkInv => NothingTwice
  BY DEF WalkInv, GivenIsPassed, NothingTwice
<1>. QED  BY <1>1, WalkInvariant, PTL

(* What a listing that ended did not give of what was there when it began    *)
(* shares the millisecond of some page's last row; oldest-first it gave all. *)
THEOREM GapsAreSmall == Spec => []GapsAreOneMillisecond
<1>1. WalkInv => GapsAreOneMillisecond
  <2>. SUFFICES ASSUME WalkInv, walk.at = "ended", NEW n \in walk.start, walk.given[n] = 0
                PROVE  /\ walk.dir = "DESC"
                       /\ \E l \in walk.lasts : Millisecond(created[l]) = Millisecond(created[n])
    BY DEF GapsAreOneMillisecond
  <2>. QED  BY DEF WalkInv, Reached
<1>. QED  BY <1>1, WalkInvariant, PTL

(* Every variable keeps its type.                                            *)
THEOREM NotificationsTypeCorrect == Spec => []NotificationsTypeOK
<1>1. Init => switches \in 0..MaxSwitches /\ connected \in BOOLEAN
  <2>1. Init => switches = 0 /\ connected = FALSE
    BY DEF Init
  <2>2. 0 \in 0..MaxSwitches
    OBVIOUS
  <2>. QED  BY <2>1, <2>2
<1>2. switches \in 0..MaxSwitches /\ [Next]_vars => (switches \in 0..MaxSwitches)'
  <2>. SUFFICES ASSUME switches \in 0..MaxSwitches, [Next]_vars
                PROVE  switches' \in 0..MaxSwitches
    OBVIOUS
  <2>1. CASE \E t \in Subscribable, enabled \in BOOLEAN : UpdatePreference(t, enabled)
    BY <2>1 DEF UpdatePreference
  <2>2. CASE UNCHANGED switches
    BY <2>2
  <2>. QED
    BY <2>1, <2>2 DEF Next, vars, Begin, CheckPreference, SaveNotification, CreateFails,
       SendToUser, MarkAsRead, MarkAllAsRead, HandleConnection, HandleDisconnect,
       GetNotifications, Tick
<1>3. connected \in BOOLEAN /\ [Next]_vars => (connected \in BOOLEAN)'
  <2>. SUFFICES ASSUME connected \in BOOLEAN, [Next]_vars PROVE connected' \in BOOLEAN
    OBVIOUS
  <2>1. ASSUME NEW good \in BOOLEAN, HandleConnection(good) PROVE connected' \in BOOLEAN
    BY <2>1, Zenon DEF HandleConnection
  <2>2. CASE HandleDisconnect
    BY <2>2 DEF HandleDisconnect
  <2>3. CASE UNCHANGED connected
    BY <2>3
  <2>. QED
    BY <2>1, <2>2, <2>3 DEF Next, vars, Begin, CheckPreference, SaveNotification, CreateFails,
       SendToUser, MarkAsRead, MarkAllAsRead, UpdatePreference, GetNotifications, Tick
<1>4. (switches \in 0..MaxSwitches /\ connected \in BOOLEAN) /\ (NoteInv /\ QuietInv) /\ WalkInv
        => NotificationsTypeOK
  BY DEF NoteInv, NoteTyped, WalkInv, WalkTyped, NotificationsTypeOK, Saved, Row
<1>. QED  BY <1>1, <1>2, <1>3, <1>4, NotesInvariant, WalkInvariant, PTL DEF Spec
=============================================================================

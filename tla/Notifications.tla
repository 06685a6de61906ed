---------------------------- MODULE Notifications ----------------------------
(***************************************************************************)
(* The notifications of one user: NotificationsService and its gateway, the *)
(* preferences, the reading of them, and a client that lists them page by   *)
(* page while new ones arrive.                                              *)
(***************************************************************************)
EXTENDS CursorPagination

CONSTANTS Notes,            \* calls of createNotification, and the ids of their rows
          Subscribable,     \* types the user can switch off
          Types,
          Processes, SocketProcesses,  \* those with a WebSocket server
          TypeOf(_), ProcessOf(_),     \* of each call
          MaxTicks,         \* bound: the database's clock
          MaxPages,         \* bound: pages of one listing
          MaxSwitches       \* bound: PATCH /notifications/preferences

ASSUME NotificationsAssumption ==
    /\ Notes \subseteq Nat \ {0} /\ IsFiniteSet(Notes)
    /\ MaxTicks \in Nat /\ MaxPages \in Nat /\ MaxSwitches \in Nat
    /\ Subscribable \subseteq Types /\ SocketProcesses \subseteq Processes

VARIABLES pref,      \* type -> its preference row, "none" when there is none
          switches,  \* preference calls made
          note,      \* call -> its locals
          row,       \* id -> its notification row
          connected, \* a socket of the user is in the room
          shown,     \* notifications pushed to that socket
          clock,     \* now() of the database
          walk       \* the client's listing

vars == <<pref, switches, note, row, connected, shown, clock, walk>>

Ticks == 0..MaxTicks

Note == [at: {"unused", "check", "save", "push", "returned", "skipped", "threw"},
         overlapped: BOOLEAN]

Row == [is: {"none", "unread", "read"}, created: Ticks]

Walk == [at: {"idle", "next", "ended"}, dir: Directions,
         cursor: [at: Ticks \cup {-1}, id: Notes \cup {0}],
         start: SUBSET Notes, given: [Notes -> 0..MaxPages], lasts: SUBSET Notes,
         pages: 0..MaxPages]

NotificationsTypeOK ==
    /\ pref \in [Subscribable -> {"none", "on", "off"}]
    /\ switches \in 0..MaxSwitches
    /\ note \in [Notes -> Note] /\ row \in [Notes -> Row]
    /\ connected \in BOOLEAN /\ shown \subseteq Notes
    /\ clock \in Ticks /\ walk \in Walk

Init ==
    /\ pref = [t \in Subscribable |-> "none"]
    /\ switches = 0
    /\ note = [n \in Notes |-> [at |-> "unused", overlapped |-> FALSE]]
    /\ row = [n \in Notes |-> [is |-> "none", created |-> 0]]
    /\ connected = FALSE
    /\ shown = {}
    /\ clock = 0
    /\ walk \in [at: {"idle"}, dir: Directions, cursor: {NoCursor}, start: {{}},
                 given: {[n \in Notes |-> 0]}, lasts: {{}}, pages: {0}]

Saved == {n \in Notes : row[n].is # "none"}
created == [n \in Notes |-> row[n].created]

Goes(n, place) == note' = [note EXCEPT ![n].at = place]

-----------------------------------------------------------------------------
(* createNotification. *)
Begin(n) ==
    /\ note[n].at = "unused"
    /\ Goes(n, IF TypeOf(n) \in Subscribable THEN "check" ELSE "save")
    /\ UNCHANGED <<pref, switches, row, connected, shown, clock, walk>>

(* isNotificationEnabled: on unless a row says otherwise. *)
SeededEnabled(t) == TRUE

Enabled(t) == pref[t] # "off"

CheckPreference(n) ==
    /\ note[n].at = "check"
    /\ Goes(n, IF Enabled(TypeOf(n)) THEN "save" ELSE "skipped")
    /\ UNCHANGED <<pref, switches, row, connected, shown, clock, walk>>

SaveNotification(n) ==
    /\ note[n].at = "save"
    /\ row' = [row EXCEPT ![n] = [is |-> "unread", created |-> clock]]
    /\ Goes(n, "push")
    /\ UNCHANGED <<pref, switches, connected, shown, clock, walk>>

CreateFails(n) ==
    /\ note[n].at \in {"check", "save"}
    /\ Goes(n, "threw")
    /\ UNCHANGED <<pref, switches, row, connected, shown, clock, walk>>

(* sendToUser has a server in the processes that listen; in another the      *)
(* TypeError is thrown on to the caller although the row is saved.           *)
SeededServes(p) == FALSE

Serves(p) == p \in SocketProcesses

SendToUser(n) ==
    /\ note[n].at = "push"
    /\ IF Serves(ProcessOf(n))
       THEN /\ Goes(n, "returned")
            /\ shown' = IF connected THEN shown \cup {n} ELSE shown
       ELSE Goes(n, "threw") /\ UNCHANGED shown
    /\ UNCHANGED <<pref, switches, row, connected, clock, walk>>

-----------------------------------------------------------------------------
(* handleConnection joins the room when the token is good. *)
HandleConnection(good) ==
    /\ ~connected
    /\ connected' = good
    /\ UNCHANGED <<pref, switches, note, row, shown, clock, walk>>

HandleDisconnect ==
    /\ connected
    /\ connected' = FALSE
    /\ UNCHANGED <<pref, switches, note, row, shown, clock, walk>>

(* updatePreference: one upsert on the unique (user, type).  A notification  *)
(* of that type which has passed its check is overlapped.                    *)
UpdatePreference(t, enabled) ==
    /\ switches < MaxSwitches
    /\ switches' = switches + 1
    /\ pref' = [pref EXCEPT ![t] = IF enabled THEN "on" ELSE "off"]
    /\ note' = [n \in Notes |-> [note[n] EXCEPT !.overlapped =
                                   @ \/ (note[n].at = "save" /\ TypeOf(n) = t)]]
    /\ UNCHANGED <<row, connected, shown, clock, walk>>

MarkAsRead(n) ==
    /\ n \in Saved
    /\ row' = [row EXCEPT ![n].is = "read"]
    /\ UNCHANGED <<pref, switches, note, connected, shown, clock, walk>>

MarkAllAsRead ==
    /\ \E n \in Saved : row[n].is = "unread"
    /\ row' = [n \in Notes |-> IF row[n].is = "unread"
                               THEN [row[n] EXCEPT !.is = "read"] ELSE row[n]]
    /\ UNCHANGED <<pref, switches, note, connected, shown, clock, walk>>

-----------------------------------------------------------------------------
(* getNotifications: the client asks for pages until there is no cursor.     *)
GetNotifications ==
    LET results == Results(Saved, walk.cursor, walk.dir, created)
        more    == HasMore(Saved, walk.cursor, walk.dir, created)
    IN  /\ walk.at # "ended" /\ walk.pages < MaxPages
        /\ walk' = [walk EXCEPT
             !.at     = IF more THEN "next" ELSE "ended",
             !.cursor = IF more THEN NextCursor(results, walk.dir, created) ELSE @,
             !.start  = IF walk.at = "idle" THEN Saved ELSE @,
             !.given  = [n \in Notes |-> @[n] + (IF n \in results THEN 1 ELSE 0)],
             !.lasts  = IF more THEN @ \cup {LastOf(results, walk.dir, created)} ELSE @,
             !.pages  = @ + 1]
        /\ UNCHANGED <<pref, switches, note, row, connected, shown, clock>>

Tick ==
    /\ clock < MaxTicks
    /\ clock' = clock + 1
    /\ UNCHANGED <<pref, switches, note, row, connected, shown, walk>>

Next ==
    \/ \E n \in Notes : Begin(n) \/ CheckPreference(n) \/ SaveNotification(n)
    \/ \E n \in Notes : CreateFails(n) \/ SendToUser(n) \/ MarkAsRead(n)
    \/ \E good \in BOOLEAN : HandleConnection(good)
    \/ HandleDisconnect
    \/ \E t \in Subscribable, enabled \in BOOLEAN : UpdatePreference(t, enabled)
    \/ MarkAllAsRead \/ GetNotifications \/ Tick

Spec == Init /\ [][Next]_vars

-----------------------------------------------------------------------------
(* No notification of a type that is switched off is saved, unless the       *)
(* switch came between its check and its INSERT.                             *)
OffMeansSilent ==
    [][\A n \in Notes :
         row[n].is = "none" /\ row'[n].is = "unread" /\ TypeOf(n) \in Subscribable =>
           pref[TypeOf(n)] # "off" \/ note[n].overlapped]_vars

(* What the caller of createNotification learns: a notification returned or  *)
(* shown has a row; in a process with sockets, one that threw has none.      *)
CallersAreTold ==
    \A n \in Notes :
      /\ note[n].at = "returned" \/ n \in shown => n \in Saved
      /\ note[n].at = "threw" /\ ProcessOf(n) \in SocketProcesses => n \notin Saved

(* A listing that has ended gave every row that was there when it began, the *)
(* newest-first one but for rows of the millisecond of some page's last row. *)
GapsAreOneMillisecond ==
    walk.at = "ended" =>
      \A n \in walk.start : walk.given[n] = 0 =>
        /\ walk.dir = "DESC"
        /\ \E l \in walk.lasts : Millisecond(created[l]) = Millisecond(created[n])

(* The newest-first listing gives no row twice, whatever arrives meanwhile.  *)
NothingTwice == walk.dir = "DESC" => \A n \in Notes : walk.given[n] <= 1
=============================================================================

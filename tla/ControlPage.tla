----------------------------- MODULE ControlPage -----------------------------
(***************************************************************************)
(* The control page (App.vue) in one or more browser tabs, its sockets and *)
(* what the cockpit makes of them.  A page shows the list of vehicles or   *)
(* the detail of one; it connects, is cut off, connects again a second     *)
(* later, and tells the cockpit which vehicle to drive.  The cockpit keeps *)
(* one page at a time and releases its vehicle when that page is gone,     *)
(* when the vehicle is silent or when the input device is lost; it sends   *)
(* the list of vehicles and their states to the page, and never which      *)
(* vehicle it has selected.                                                *)
(*                                                                         *)
(* Of the cockpit this is what Cockpit says in detail: a turn of the loop  *)
(* is one step here.  Overlap tells whether handlers of two sessions may   *)
(* run within one io_context::poll: a new page's handshake may then finish *)
(* before the loop sees the old one gone, and one message of the old page  *)
(* may still be taken after it was replaced.                               *)
(***************************************************************************)
EXTENDS Naturals, Sequences

CONSTANTS
  Pages,      \* the tabs
  Vehicles,   \* the configured vehicles
  None,       \* no page, or no vehicle
  Overlap,    \* handlers of two sessions may run in one poll
  MaxSent,    \* bound of the messages on their way from a page
  MaxPushed   \* bound of the messages on their way to a page

ASSUME PageAssumption ==
  /\ None \notin Pages \cup Vehicles
  /\ Overlap \in BOOLEAN
  /\ MaxSent \in Nat \ {0} /\ MaxPushed \in Nat \ {0}

VARIABLES
  view,      \* activeView
  chosen,    \* selectedVehicleId
  listed,    \* vehicles, those the list calls online
  known,     \* the keys of vehicleStateSnapshots
  stopped,   \* stopped
  socket,    \* cockpitSocket, as the page and the network see it
  toServer,  \* what the page sent and the cockpit has not processed
  toPage,    \* what the cockpit sent and the page has not received
  current,   \* the page of the cockpit's connected session
  selected,  \* selected_vehicle_id_
  online,    \* the vehicles the cockpit hears
  givenUp    \* history: the cockpit released the latest selection on its own

shown == <<view, chosen, listed, known>>
page == <<shown, stopped>>
cockpit == <<current, selected, online>>
pageVars == <<page, socket, toServer, toPage, cockpit, givenUp>>

ToServer == [type: {"select_vehicle"}, vehicle: Vehicles] \cup
            [type: {"deselect_vehicle"}, vehicle: {None}]
ToPage == [type: {"vehicles"}, online: SUBSET Vehicles] \cup
          [type: {"state"}, vehicle: Vehicles]

\* "cut" is a socket the other side has closed, or that failed, before the page's
\* close event; "closing" one the page has closed.
PageTypeOK ==
  /\ view \in [Pages -> {"vehicles", "detail"}]
  /\ chosen \in [Pages -> Vehicles \cup {None}]
  /\ \A p \in Pages : view[p] = "vehicles" <=> chosen[p] = None
  /\ listed \in [Pages -> SUBSET Vehicles]
  /\ known \in [Pages -> SUBSET Vehicles]
  /\ stopped \in [Pages -> BOOLEAN]
  /\ socket \in [Pages -> {"none", "connecting", "open", "cut", "closing"}]
  /\ toServer \in [Pages -> Seq(ToServer)]
  /\ toPage \in [Pages -> Seq(ToPage)]
  /\ current \in Pages \cup {None}
  /\ selected \in Vehicles \cup {None}
  /\ online \subseteq Vehicles
  /\ givenUp \in BOOLEAN

PageInit ==
  /\ view = [p \in Pages |-> "vehicles"]
  /\ chosen = [p \in Pages |-> None]
  /\ listed = [p \in Pages |-> {}]
  /\ known = [p \in Pages |-> {}]
  /\ stopped = [p \in Pages |-> FALSE]
  /\ socket = [p \in Pages |-> "none"]
  /\ toServer = [p \in Pages |-> <<>>]
  /\ toPage = [p \in Pages |-> <<>>]
  /\ current = None
  /\ selected = None
  /\ online = {}
  /\ givenUp = FALSE

(***************************************************************************)
(* The page.                                                               *)
(***************************************************************************)
\* connectCockpitSocket, at mount or when the reconnect timer fires: a second
\* after the socket closed, when the loop, which turns every 20 ms, has seen it.
Connect(p) ==
  /\ socket[p] = "none" /\ ~stopped[p] /\ current # p
  /\ socket' = [socket EXCEPT ![p] = "connecting"]
  /\ toServer' = [toServer EXCEPT ![p] = <<>>]
  /\ toPage' = [toPage EXCEPT ![p] = <<>>]
  /\ UNCHANGED <<page, cockpit, givenUp>>

Receive(p) ==
  /\ socket[p] \in {"open", "cut"}
  /\ toPage[p] # <<>>
  /\ toPage' = [toPage EXCEPT ![p] = Tail(@)]
  /\ LET snapshot == Head(toPage[p])
     IN  \/ /\ snapshot.type = "state"
            /\ known' = [known EXCEPT ![p] = @ \cup {snapshot.vehicle}]
            /\ UNCHANGED listed
         \/ /\ snapshot.type = "vehicles"
            /\ listed' = [listed EXCEPT ![p] = snapshot.online]
            /\ UNCHANGED known
  /\ UNCHANGED <<view, chosen, stopped, socket, toServer, cockpit, givenUp>>

\* Mutant for ChosenIsDriven: the chosen vehicle outlives the socket.
CloseEventKeepingVehicle(p) ==
  /\ socket[p] = "cut"
  /\ socket' = [socket EXCEPT ![p] = "none"]
  /\ view' = [view EXCEPT ![p] = "vehicles"]
  /\ known' = [known EXCEPT ![p] = {}]
  /\ UNCHANGED <<chosen, listed, stopped, toServer, toPage, cockpit, givenUp>>

\* The close event: back to the list, which keeps its entries.
CloseEvent(p) ==
  /\ socket[p] = "cut"
  /\ socket' = [socket EXCEPT ![p] = "none"]
  /\ view' = [view EXCEPT ![p] = "vehicles"]
  /\ chosen' = [chosen EXCEPT ![p] = None]
  /\ known' = [known EXCEPT ![p] = {}]
  /\ UNCHANGED <<listed, stopped, toServer, toPage, cockpit, givenUp>>

VehicleSelectable(p, v) == v \in listed[p] /\ v \in known[p]

\* The page sends when its socket is open for all it knows; a message on a socket
\* that was cut goes nowhere.
Send(p, message) ==
  IF socket[p] = "open"
  THEN /\ Len(toServer[p]) < MaxSent
       /\ toServer' = [toServer EXCEPT ![p] = Append(@, message)]
  ELSE UNCHANGED toServer

SelectVehicle(p, v) ==
  /\ view[p] = "vehicles" /\ ~stopped[p]
  /\ VehicleSelectable(p, v)
  /\ socket[p] \in {"open", "cut"}
  /\ Send(p, [type |-> "select_vehicle", vehicle |-> v])
  /\ chosen' = [chosen EXCEPT ![p] = v]
  /\ view' = [view EXCEPT ![p] = "detail"]
  /\ UNCHANGED <<listed, known, stopped, socket, toPage, cockpit, givenUp>>

ReleaseSelectedVehicle(p) ==
  Send(p, [type |-> "deselect_vehicle", vehicle |-> None])

\* Mutant for SelectedIsShown and AbandonedIsReleased: going back to the list
\* does not release the vehicle.
ReturnToVehicleListSilently(p) ==
  /\ view[p] = "detail"
  /\ view' = [view EXCEPT ![p] = "vehicles"]
  /\ chosen' = [chosen EXCEPT ![p] = None]
  /\ UNCHANGED <<listed, known, stopped, socket, toServer, toPage, cockpit,
                 givenUp>>

ReturnToVehicleList(p) ==
  /\ view[p] = "detail"
  /\ ReleaseSelectedVehicle(p)
  /\ view' = [view EXCEPT ![p] = "vehicles"]
  /\ chosen' = [chosen EXCEPT ![p] = None]
  /\ UNCHANGED <<listed, known, stopped, socket, toPage, cockpit, givenUp>>

\* pagehide and onUnmounted: the tab is closed, the page shows nothing more.
Leave(p) ==
  /\ ~stopped[p]
  /\ stopped' = [stopped EXCEPT ![p] = TRUE]
  /\ ReleaseSelectedVehicle(p)
  /\ socket' = [socket EXCEPT ![p] = IF @ = "none" THEN "none" ELSE "closing"]
  /\ view' = [view EXCEPT ![p] = "vehicles"]
  /\ chosen' = [chosen EXCEPT ![p] = None]
  /\ UNCHANGED <<listed, known, toPage, cockpit, givenUp>>

\* A socket fails: what was on its way may or may not arrive.
Cut(p) ==
  /\ socket[p] \in {"connecting", "open"}
  /\ socket' = [socket EXCEPT ![p] = "cut"]
  /\ \/ UNCHANGED toServer
     \/ toServer' = [toServer EXCEPT ![p] = <<>>]
  /\ UNCHANGED <<page, toPage, cockpit, givenUp>>

(***************************************************************************)
(* The cockpit.                                                            *)
(***************************************************************************)
\* A page's connection is accepted and its handshake succeeds.  A page that was
\* connected is cut off; the loop notices between two polls that no page is
\* connected and releases the vehicle, unless both happen in one.
Accept(p) ==
  /\ socket[p] = "connecting"
  /\ current' = p
  /\ socket' = [q \in Pages |-> IF q = p THEN "open"
                                ELSE IF q = current /\ socket[q] = "open"
                                THEN "cut" ELSE socket[q]]
  /\ \E kept \in IF Overlap THEN 0 .. 1 ELSE {0} :
       toServer' = [q \in Pages |->
         IF q = current /\ Len(toServer[q]) >= kept
         THEN SubSeq(toServer[q], 1, kept) ELSE toServer[q]]
  /\ selected' \in {None} \cup IF Overlap THEN {selected} ELSE {}
  /\ UNCHANGED <<page, toPage, online, givenUp>>

\* takeMessage and processWebMessage.  A vehicle that is not online is released
\* again by the offline check of the same turn.
Process(p) ==
  LET asked == Head(toServer[p]).vehicle
  IN  /\ toServer[p] # <<>>
      /\ p = current \/ Overlap
      /\ toServer' = [toServer EXCEPT ![p] = Tail(@)]
      /\ selected' = IF asked \in online THEN asked ELSE None
      /\ givenUp' = (asked \notin online \cup {None})
      /\ UNCHANGED <<page, socket, toPage, current, online>>

\* Mutant for AbandonedIsReleased: the loop does not release when the page is
\* gone.
DisconnectKeeping ==
  /\ current # None
  /\ socket[current] \in {"cut", "closing", "none"}
  /\ toServer[current] = <<>>
  /\ current' = None
  /\ UNCHANGED <<page, socket, toServer, toPage, selected, online, givenUp>>

\* The session reads the end of the stream, and the turn's connection check
\* releases the vehicle.
Disconnect ==
  /\ current # None
  /\ socket[current] \in {"cut", "closing", "none"}
  /\ toServer[current] = <<>>
  /\ current' = None
  /\ selected' = None
  /\ UNCHANGED <<page, socket, toServer, toPage, online, givenUp>>

\* The first report of a vehicle, or the first one after a silence.
Hear(v) ==
  /\ online' = online \cup {v}
  /\ UNCHANGED <<page, socket, toServer, toPage, current, selected, givenUp>>

\* A vehicle is silent for too long: the offline check releases it.
Silence(v) ==
  /\ v \in online
  /\ online' = online \ {v}
  /\ selected' = IF selected = v THEN None ELSE selected
  /\ givenUp' = (givenUp \/ selected = v)
  /\ UNCHANGED <<page, socket, toServer, toPage, current>>

\* The input device fails; the page and the vehicles are served on.
DeviceFails ==
  /\ selected' = None
  /\ givenUp' = (givenUp \/ selected # None)
  /\ UNCHANGED <<page, socket, toServer, toPage, current, online>>

SendToPage(message) ==
  /\ current # None
  /\ Len(toPage[current]) < MaxPushed
  /\ toPage' = [toPage EXCEPT ![current] = Append(@, message)]
  /\ UNCHANGED <<page, socket, toServer, cockpit, givenUp>>

PublishList == SendToPage([type |-> "vehicles", online |-> online])

PublishState(v) ==
  v \in online /\ SendToPage([type |-> "state", vehicle |-> v])

PageStep(p) ==
  \/ Connect(p) \/ Receive(p) \/ CloseEvent(p) \/ ReturnToVehicleList(p)
  \/ Leave(p) \/ Cut(p)
  \/ \E v \in Vehicles : SelectVehicle(p, v)

CockpitStep ==
  \/ \E p \in Pages : Accept(p) \/ Process(p)
  \/ \E v \in Vehicles : Hear(v) \/ Silence(v) \/ PublishState(v)
  \/ Disconnect \/ DeviceFails \/ PublishList

PageNext == CockpitStep \/ \E p \in Pages : PageStep(p)

PageSpec == PageInit /\ [][PageNext]_pageVars

\* The loop turns at least every 20 ms: it takes the messages that have arrived
\* and looks at the connection.
PageFairSpec ==
  /\ PageSpec
  /\ \A p \in Pages : WF_pageVars(Process(p))
  /\ WF_pageVars(Disconnect)

(***************************************************************************)
(* Properties.                                                             *)
(***************************************************************************)
\* The cockpit drives no vehicle the operator does not see: once the connected
\* page's messages are processed, the selected vehicle is the one whose detail the
\* page shows, however often pages were cut off, replaced and connected again.
SelectedIsShown ==
  current # None /\ socket[current] = "open" /\ toServer[current] = <<>>
    => selected \in {None, chosen[current]}

\* A vehicle nobody looks at is released, also when the page cannot say so: its
\* message was lost, its tab was closed or its socket failed.
AbandonedIsReleased ==
  \A v \in Vehicles :
    selected = v /\ (\A p \in Pages : chosen[p] # v)
      ~> selected # v \/ \E p \in Pages : chosen[p] = v

\* "The server's snapshots drive the list and the switch to the detail": once the
\* connected page's messages are processed, the vehicle whose detail it shows is
\* the one the cockpit drives, unless the cockpit has released it on its own.  The
\* exception is real: no snapshot says what is selected, so that the page stays on
\* the detail of a vehicle that was silent for a moment and is online again.
ChosenIsDriven ==
  current # None /\ socket[current] = "open" /\ toServer[current] = <<>>
    => chosen[current] \in {None, selected} \/ givenUp
=============================================================================

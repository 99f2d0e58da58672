------------------------------ MODULE Station -------------------------------
(***************************************************************************)
(* The threads QuadRFRadio keeps beside the radio: the control server of   *)
(* /run/quadrf/mesh_control.sock, one client at a time, and the beacon     *)
(* that broadcasts the node info, whose name is the station's callsign;    *)
(* and the destructor that stops them.  The callsign comes from            *)
(* quadrf.conf, read again when its modification time has changed, or from *)
(* a client.                                                               *)
(*                                                                         *)
(* What SET RANGE and SET PARROT do is in PingWorker and Parrot, SET       *)
(* PRESET in RadioNode.  The sending of a node info is the mesh stack's:   *)
(* it copies the owner and then sends the copy.                            *)
(***************************************************************************)
EXTENDS Integers, Sequences, FiniteSets

CONSTANTS
  Names,       \* callsigns
  Clients,     \* clients of the control socket
  ConfEdits    \* bound of the model: how often quadrf.conf is edited

ASSUME StationAssumption == Names # {} /\ ConfEdits \in Nat

Commands == {"status", "call", "other", "silent"}

VARIABLES
  stConf,      \* quadrf.conf: [name, second]
  stSecond,    \* the second it is, as modification times count it
  stCall,      \* callsign_
  stOwner,     \* owner.long_name
  stSeen,      \* last_conf_mtime_
  stAired,     \* the name in the node info sent last
  stRunning,   \* control_running_ and beacon_running_: [control, beacon]
  stControl,   \* the control thread: "poll", "read", "stat", "load", "name",
               \* "own", "copy", "air", "reply", "done"
  stServed,    \* the client it serves
  stName,      \* what it is about to store or to send
  stBacklog,   \* clients connected and not accepted
  stClient,    \* per client: "away" or a command not answered yet, "closed"
  stBeacon,    \* the beacon thread: "wait", "air", "done"
  stCopy,      \* the owner it copied
  stEnding     \* the destructor: "no", "beacon", "control", "done"

stVars == <<stConf, stSecond, stCall, stOwner, stSeen, stAired, stRunning,
            stControl, stServed, stName, stBacklog, stClient, stBeacon, stCopy,
            stEnding>>

confVars == <<stConf, stSecond>>
nameVars == <<stCall, stOwner, stSeen>>
controlVars == <<stControl, stServed, stName>>
clientVars == <<stBacklog, stClient>>
beaconVars == <<stBeacon, stCopy>>
endVars == <<stRunning, stEnding>>

NoClient == "nobody"
AnyName == CHOOSE n \in Names : TRUE

(* init() up to startBeaconThread: loadCallsign, the owner after it.       *)
StationInit ==
  /\ stConf = [name |-> AnyName, second |-> 0] /\ stSecond = 0
  /\ stCall = AnyName /\ stOwner = AnyName /\ stSeen = 0 /\ stAired = AnyName
  /\ stRunning = [control |-> TRUE, beacon |-> TRUE]
  /\ stControl = "poll" /\ stServed = NoClient /\ stName = AnyName
  /\ stBacklog = <<>> /\ stClient = [c \in Clients |-> "away"]
  /\ stBeacon = "wait" /\ stCopy = AnyName /\ stEnding = "no"
-----------------------------------------------------------------------------
(* The user edits quadrf.conf, in this second or a later one.              *)
EditConf ==
  /\ stSecond < ConfEdits
  /\ \E n \in Names, later \in {0, 1} :
       /\ stSecond' = stSecond + 1
       /\ stConf' = [name |-> n, second |-> IF later = 1 THEN stSecond + 1 ELSE stConf.second]
  /\ UNCHANGED <<nameVars, stAired, controlVars, clientVars, beaconVars, endVars>>

ClientConnects ==
  /\ stRunning.control
  /\ \E c \in Clients, k \in Commands :
       /\ stClient[c] = "away"
       /\ stClient' = [stClient EXCEPT ![c] = k]
       /\ stBacklog' = Append(stBacklog, c)
  /\ UNCHANGED <<confVars, nameVars, stAired, controlVars, beaconVars, endVars>>
-----------------------------------------------------------------------------
(* controlThreadMain: poll for half a second, accept.                      *)
AcceptControl ==
  /\ stControl = "poll" /\ stRunning.control /\ stBacklog # <<>>
  /\ stControl' = "read"
  /\ stServed' = Head(stBacklog) /\ stBacklog' = Tail(stBacklog)
  /\ UNCHANGED <<confVars, nameVars, stAired, stName, stClient, beaconVars, endVars>>

EndControl ==
  /\ stControl = "poll" /\ ~stRunning.control
  /\ stControl' = "done"
  /\ UNCHANGED <<confVars, nameVars, stAired, stServed, stName, clientVars,
                 beaconVars, endVars>>

(* The read of the command waits for a client that sends none.             *)
ReadCommand ==
  /\ stControl = "read"
  /\ LET k == stClient[stServed]
     IN CASE k = "status" ->
               /\ stControl' = IF stConf.second # stSeen THEN "stat" ELSE "reply"
               /\ UNCHANGED stName
          [] k = "call" -> stControl' = "name" /\ stName' \in Names
          [] k = "other" -> stControl' = "reply" /\ UNCHANGED stName
          [] OTHER -> FALSE
  /\ UNCHANGED <<confVars, nameVars, stAired, stServed, clientVars, beaconVars, endVars>>

(* loadCallsign: the modification time first, then the text.               *)
StatConf ==
  /\ stControl = "stat"
  /\ stSeen' = stConf.second
  /\ stControl' = "load"
  /\ UNCHANGED <<confVars, stCall, stOwner, stAired, stServed, stName,
                 clientVars, beaconVars, endVars>>

LoadCallsign ==
  /\ stControl = "load"
  /\ stCall' = stConf.name /\ stName' = stConf.name
  /\ stControl' = "name"
  /\ UNCHANGED <<confVars, stOwner, stSeen, stAired, stServed, clientVars,
                 beaconVars, endVars>>

(* setCallsign: the callsign under its lock, the owner without one, and a  *)
(* node info.                                                              *)
StoreCallsign ==
  /\ stControl = "name"
  /\ stCall' = stName
  /\ stControl' = "own"
  /\ UNCHANGED <<confVars, stOwner, stSeen, stAired, stServed, stName,
                 clientVars, beaconVars, endVars>>

(* Mutant: the owner keeps its name.                                       *)
StoreOwner_Forgets ==
  /\ stControl = "own"
  /\ stControl' = "copy"
  /\ UNCHANGED <<confVars, nameVars, stAired, stServed, stName, clientVars,
                 beaconVars, endVars>>

StoreOwner ==
  /\ stControl = "own"
  /\ stOwner' = stName
  /\ stControl' = "copy"
  /\ UNCHANGED <<confVars, stCall, stSeen, stAired, stServed, stName,
                 clientVars, beaconVars, endVars>>

CopyOwner ==
  /\ stControl = "copy"
  /\ stName' = stOwner
  /\ stControl' = "air"
  /\ UNCHANGED <<confVars, nameVars, stAired, stServed, clientVars, beaconVars,
                 endVars>>

AirNodeInfo ==
  /\ stControl = "air"
  /\ stAired' = stName
  /\ stControl' = "reply"
  /\ UNCHANGED <<confVars, nameVars, stServed, stName, clientVars, beaconVars,
                 endVars>>

(* The reply, and the close of the client.                                 *)
Reply ==
  /\ stControl = "reply"
  /\ stClient' = [stClient EXCEPT ![stServed] = "closed"]
  /\ stControl' = "poll" /\ stServed' = NoClient
  /\ UNCHANGED <<confVars, nameVars, stAired, stName, stBacklog, beaconVars, endVars>>
-----------------------------------------------------------------------------
(* beaconThreadMain: now and then, until it is stopped.                    *)
BeaconCopies ==
  /\ stBeacon = "wait" /\ stRunning.beacon
  /\ stBeacon' = "air" /\ stCopy' = stOwner
  /\ UNCHANGED <<confVars, nameVars, stAired, controlVars, clientVars, endVars>>

BeaconAirs ==
  /\ stBeacon = "air"
  /\ stBeacon' = "wait" /\ stAired' = stCopy
  /\ UNCHANGED <<confVars, nameVars, controlVars, clientVars, stCopy, endVars>>

EndBeacon ==
  /\ stBeacon = "wait" /\ ~stRunning.beacon
  /\ stBeacon' = "done"
  /\ UNCHANGED <<confVars, nameVars, stAired, controlVars, clientVars, stCopy, endVars>>
-----------------------------------------------------------------------------
(* ~QuadRFRadio: stopBeaconThread, then stopControlServer, which closes    *)
(* the listening socket and everyone waiting at it.                        *)
StopBeacon ==
  /\ stEnding = "no"
  /\ stEnding' = "beacon" /\ stRunning' = [stRunning EXCEPT !.beacon = FALSE]
  /\ UNCHANGED <<confVars, nameVars, stAired, controlVars, clientVars, beaconVars>>

(* Mutant: the flag is left set.                                           *)
StopControl_Unflagged ==
  /\ stEnding = "beacon" /\ stBeacon = "done"
  /\ stEnding' = "control" /\ UNCHANGED stRunning
  /\ stBacklog' = <<>>
  /\ stClient' = [c \in Clients |-> IF \E i \in DOMAIN stBacklog : stBacklog[i] = c
                                    THEN "closed" ELSE stClient[c]]
  /\ UNCHANGED <<confVars, nameVars, stAired, controlVars, beaconVars>>

StopControl ==
  /\ stEnding = "beacon" /\ stBeacon = "done"
  /\ stEnding' = "control" /\ stRunning' = [stRunning EXCEPT !.control = FALSE]
  /\ stBacklog' = <<>>
  /\ stClient' = [c \in Clients |-> IF \E i \in DOMAIN stBacklog : stBacklog[i] = c
                                    THEN "closed" ELSE stClient[c]]
  /\ UNCHANGED <<confVars, nameVars, stAired, controlVars, beaconVars>>

Joined ==
  /\ stEnding = "control" /\ stControl = "done"
  /\ stEnding' = "done"
  /\ UNCHANGED <<confVars, nameVars, stAired, stRunning, controlVars,
                 clientVars, beaconVars>>

ControlThread ==
  \/ AcceptControl \/ EndControl \/ ReadCommand \/ StatConf \/ LoadCallsign
  \/ StoreCallsign \/ StoreOwner \/ CopyOwner \/ AirNodeInfo \/ Reply
BeaconThread == BeaconCopies \/ BeaconAirs \/ EndBeacon
Destructor == StopControl \/ Joined

StationNext ==
  \/ EditConf \/ ClientConnects
  \/ ControlThread \/ BeaconThread
  \/ StopBeacon \/ Destructor

StationFairness ==
  WF_stVars(ControlThread) /\ WF_stVars(BeaconThread) /\ WF_stVars(Destructor)

StationSpec == StationInit /\ [][StationNext]_stVars /\ StationFairness
-----------------------------------------------------------------------------
(* The beacon can copy the owner before a new callsign and send it behind  *)
(* the node info that announced it: the mesh then shows the old name.  It  *)
(* is the next beacon that mends that, so that in the end the name on the  *)
(* air is the station's.                                                   *)
NameSettles == []<>(stAired = stCall \/ ~stRunning.beacon)

(* Every client is answered or closed, and the destructor returns, unless  *)
(* a client connected and sends nothing: the read of its command has no    *)
(* timeout and holds both up.                                              *)
HeldUp == stControl = "read" /\ stClient[stServed] = "silent"
ControlServes ==
  /\ \A c \in Clients :
       (stClient[c] \in Commands \ {"silent"}) ~> (stClient[c] = "closed" \/ HeldUp)
  /\ (stEnding = "beacon") ~> (stEnding = "done" \/ HeldUp)
=============================================================================

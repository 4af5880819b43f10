------------------------------ MODULE DriveCycle ------------------------------
(***************************************************************************)
(* How a drive begins and ends: hardwared (hardware/hardwared.py) decides  *)
(* from the panda's ignition whether the device is started, the manager    *)
(* (manager/manager.py, process.py) clears the parameters of the last      *)
(* drive and starts or stops card, card (selfdrive/car/card.py) identifies *)
(* the car, and pandad (selfdrive/pandad) moves the panda's safety model   *)
(* from no output through ELM327 to the car's own.  They meet only in      *)
(* conflated messages and in parameters, each at its own rate.             *)
(***************************************************************************)
EXTENDS Naturals

CONSTANTS
  MaxDrives,    \* bound: transitions of hardwared to started
  MaxRequests,  \* bound: multiplexing requests of one fingerprinting
  MaxRestarts,  \* bound: restarts of pandad
  Prompt        \* TRUE: a change of `started` is noticed by the manager before
                \* pandad's next poll and before the next change

ASSUME DriveCycleAssumption ==
  /\ MaxDrives \in Nat /\ MaxRequests \in Nat /\ MaxRestarts \in Nat
  /\ Prompt \in BOOLEAN

VARIABLES
  ignition,             \* what the panda's ignition line says
  pandaStates,          \* [ignition, new]: the last message, unread by hardwared while new
  started, drives,      \* deviceState.started as last published; how often it became TRUE
  manager, started_prev,
  IsOnroad, FirmwareQueryDone, ControlsReady, CarParams,     \* parameters
  ObdMultiplexingEnabled, ObdMultiplexingChanged,
  proc, shutting_down,  \* card's ManagerProcess
  card, instance,       \* where the latest card is; the number of cards started
  requests, passive,
  onroadEvents,         \* what selfdrived says: "none", "initializing" or "ready"
  pandad, is_onroad, initialized, safety_configured, prev_obd, restarts,
  panda                 \* the panda's safety model

managerVars == <<manager, started_prev, IsOnroad>>
handshake == <<FirmwareQueryDone, ControlsReady, CarParams,
               ObdMultiplexingEnabled, ObdMultiplexingChanged>>
cardProcess == <<proc, shutting_down>>
cardVars == <<card, instance, requests, passive>>
pandadVars == <<pandad, is_onroad, initialized, safety_configured, prev_obd, restarts, panda>>
device == <<ignition, pandaStates, started, drives>>
driveVars == <<device, managerVars, handshake, cardProcess, cardVars, onroadEvents, pandadVars>>

\* CarParams are told apart by the card that wrote them; 0: not set.
Instances == 0..MaxDrives
Silent == [mode |-> "silent"]
NoOutput == [mode |-> "noOutput"]
Elm(obd) == [mode |-> "elm327", obd |-> obd]
CarModel(i) == [mode |-> "car", params |-> i]
SafetyModels == {Silent, NoOutput} \cup {Elm(b) : b \in BOOLEAN} \cup {CarModel(i) : i \in Instances}

DriveTypeOK ==
  /\ ignition \in BOOLEAN /\ pandaStates \in [ignition : BOOLEAN, new : BOOLEAN]
  /\ started \in BOOLEAN /\ drives \in 0..MaxDrives
  /\ manager \in {"update", "write", "ensure"} /\ started_prev \in BOOLEAN /\ IsOnroad \in BOOLEAN
  /\ FirmwareQueryDone \in BOOLEAN /\ ControlsReady \in BOOLEAN /\ CarParams \in Instances
  /\ ObdMultiplexingEnabled \in BOOLEAN /\ ObdMultiplexingChanged \in BOOLEAN
  /\ proc \in {"none", "alive", "exited"} /\ shutting_down \in BOOLEAN
  /\ card \in {"can", "query", "request", "wait", "publish", "run", "enable", "ready"}
  /\ instance \in Instances /\ requests \in 0..MaxRequests /\ passive \in BOOLEAN
  /\ onroadEvents \in {"none", "initializing", "ready"}
  /\ pandad \in {"down", "poll", "multiplex", "fetch", "set"}
  /\ is_onroad \in BOOLEAN /\ initialized \in BOOLEAN /\ safety_configured \in BOOLEAN
  /\ prev_obd \in BOOLEAN /\ restarts \in 0..MaxRestarts
  /\ panda \in SafetyModels

DriveInit ==
  /\ ignition = FALSE /\ pandaStates = [ignition |-> FALSE, new |-> FALSE]
  /\ started = FALSE /\ drives = 0
  /\ manager = "update" /\ started_prev = FALSE /\ IsOnroad = FALSE
  /\ FirmwareQueryDone = FALSE /\ ControlsReady = FALSE /\ CarParams = 0
  /\ ObdMultiplexingEnabled = FALSE /\ ObdMultiplexingChanged = FALSE
  /\ proc = "none" /\ shutting_down = FALSE
  /\ card = "can" /\ instance = 0 /\ requests = 0 /\ passive = FALSE
  /\ onroadEvents = "none"
  /\ pandad = "poll" /\ is_onroad = FALSE /\ initialized = FALSE
  /\ safety_configured = FALSE /\ prev_obd = FALSE /\ restarts = 0
  /\ panda = Silent

(***************************************************************************)
(* hardwared, on a message of the panda.  `ok` stands for the conditions   *)
(* it evaluates besides the ignition: the onroad cycle, the temperature    *)
(* and, when not started, the startup conditions.                          *)
(***************************************************************************)
Ignition == /\ ignition' = ~ignition
            /\ UNCHANGED <<pandaStates, started, drives, managerVars, handshake, cardProcess,
                           cardVars, onroadEvents, pandadVars>>

PublishStarted(start) ==
  /\ start /\ ~started => drives < MaxDrives
  /\ Prompt /\ start # started => started_prev = started
  /\ started' = start
  /\ drives' = IF start /\ ~started THEN drives + 1 ELSE drives

HardwaredUpdate ==
  /\ pandaStates.new
  /\ pandaStates' = [pandaStates EXCEPT !.new = FALSE]
  /\ \E ok \in BOOLEAN : PublishStarted(pandaStates.ignition /\ ok)
  /\ UNCHANGED <<ignition, managerVars, handshake, cardProcess, cardVars, onroadEvents, pandadVars>>

\* No pandaStates for DISCONNECT_TIMEOUT: the ignition counts as off.
HardwaredTimeout ==
  /\ pandad = "down" /\ started /\ PublishStarted(FALSE)
  /\ pandaStates' = [ignition |-> FALSE, new |-> FALSE]
  /\ UNCHANGED <<ignition, managerVars, handshake, cardProcess, cardVars, onroadEvents, pandadVars>>

(***************************************************************************)
(* The manager's loop: clear on an edge, write IsOnroad, run ensure_running*)
(* for card (PythonProcess, only_onroad, not restarted when it crashes).   *)
(* selfdrived is started and stopped with it.                              *)
(***************************************************************************)
\* Mutant: the parameters of the last drive are not cleared.
MutManagerUpdate ==
  /\ manager = "update"
  /\ started_prev' = started
  /\ manager' = IF started # started_prev THEN "write" ELSE "ensure"
  /\ UNCHANGED <<device, IsOnroad, handshake, cardProcess, cardVars, onroadEvents, pandadVars>>

ManagerUpdate ==
  /\ manager = "update"
  /\ started_prev' = started
  /\ manager' = IF started # started_prev THEN "write" ELSE "ensure"
  /\ IF started /\ ~started_prev
       THEN /\ FirmwareQueryDone' = FALSE /\ ControlsReady' = FALSE /\ CarParams' = 0
            /\ ObdMultiplexingEnabled' = FALSE /\ ObdMultiplexingChanged' = FALSE
       ELSE UNCHANGED handshake
  /\ UNCHANGED <<device, IsOnroad, cardProcess, cardVars, onroadEvents, pandadVars>>

WriteOnroadParams ==
  /\ manager = "write" /\ manager' = "ensure"
  /\ IsOnroad' = started_prev
  /\ UNCHANGED <<device, started_prev, handshake, cardProcess, cardVars, onroadEvents, pandadVars>>

\* Mutant: a card that crashed is started again in the same drive.
MutStartCard ==
  /\ started_prev /\ (proc # "alive" \/ shutting_down)
  /\ proc' = "alive" /\ shutting_down' = FALSE
  /\ card' = "can" /\ instance' = instance + 1 /\ requests' = 0 /\ passive' = FALSE
  /\ onroadEvents' = "none"

\* start() of a card that was stopped without blocking first waits for its
\* end, and kills it after five seconds.
StartCard ==
  /\ started_prev /\ (proc = "none" \/ shutting_down)
  /\ proc' = "alive" /\ shutting_down' = FALSE
  /\ card' = "can" /\ instance' = instance + 1 /\ requests' = 0 /\ passive' = FALSE
  /\ onroadEvents' = "none"

\* start() does nothing for a card that runs, or that crashed.
KeepCard ==
  /\ started_prev /\ proc # "none" /\ ~shutting_down
  /\ UNCHANGED <<cardProcess, cardVars, onroadEvents>>

\* stop(block=False): the signal, or the reaping of what has exited.
StopCard ==
  /\ ~started_prev
  /\ proc' = IF proc = "exited" THEN "none" ELSE proc
  /\ shutting_down' = (proc = "alive")
  /\ onroadEvents' = "none"
  /\ UNCHANGED cardVars

EnsureRunning ==
  /\ manager = "ensure" /\ manager' = "update"
  /\ StartCard \/ KeepCard \/ StopCard
  /\ UNCHANGED <<device, started_prev, IsOnroad, handshake, pandadVars>>

\* A card that was signalled ends; one that was not may crash.
CardExit ==
  /\ proc = "alive" /\ shutting_down /\ proc' = "exited"
  /\ UNCHANGED <<device, managerVars, handshake, shutting_down, cardVars, onroadEvents, pandadVars>>

CardCrash ==
  /\ proc = "alive" /\ ~shutting_down /\ proc' = "exited"
  /\ UNCHANGED <<device, managerVars, handshake, shutting_down, cardVars, onroadEvents, pandadVars>>

(***************************************************************************)
(* card: wait for CAN, identify the car (opendbc asks for multiplexing on  *)
(* and off through obd_callback), publish the result, then step; the first *)
(* step that finds selfdrived initialized sets ControlsReady from the      *)
(* thread of the non-blocking put.                                         *)
(***************************************************************************)
CardAt(here) == card = here /\ proc = "alive" /\ ~shutting_down
CardOnly == UNCHANGED <<device, managerVars, cardProcess, instance, onroadEvents, pandadVars>>

WaitForCan ==
  /\ CardAt("can") /\ pandad # "down" /\ card' = "query"
  /\ UNCHANGED <<requests, passive, handshake>> /\ CardOnly

\* Mutant: the acknowledgement of the last request is not removed.
MutRequest(obd) ==
  /\ CardAt("query") /\ requests < MaxRequests /\ ObdMultiplexingEnabled # obd
  /\ requests' = requests + 1 /\ card' = "request"
  /\ UNCHANGED <<passive, handshake>> /\ CardOnly

\* set_obd_multiplexing(obd) returns at once when nothing changes.
Request(obd) ==
  /\ CardAt("query") /\ requests < MaxRequests /\ ObdMultiplexingEnabled # obd
  /\ ObdMultiplexingChanged' = FALSE
  /\ requests' = requests + 1 /\ card' = "request"
  /\ UNCHANGED <<passive, FirmwareQueryDone, ControlsReady, CarParams, ObdMultiplexingEnabled>> /\ CardOnly

\* Enabled differed from obd when it was read, and only the manager's clear
\* changes it in between.
PutRequest ==
  /\ CardAt("request") /\ card' = "wait"
  /\ ObdMultiplexingEnabled' = ~ObdMultiplexingEnabled
  /\ UNCHANGED <<requests, passive, FirmwareQueryDone, ControlsReady, CarParams, ObdMultiplexingChanged>> /\ CardOnly

Acknowledged ==
  /\ CardAt("wait") /\ ObdMultiplexingChanged /\ card' = "query"
  /\ UNCHANGED <<requests, passive, handshake>> /\ CardOnly

QueryDone ==
  /\ CardAt("query") /\ card' = "publish"
  /\ FirmwareQueryDone' = TRUE
  /\ UNCHANGED <<requests, passive, ControlsReady, CarParams, ObdMultiplexingEnabled, ObdMultiplexingChanged>> /\ CardOnly

PublishCarParams ==
  /\ CardAt("publish") /\ card' = "run"
  /\ CarParams' = instance
  /\ passive' \in BOOLEAN
  /\ UNCHANGED <<requests, FirmwareQueryDone, ControlsReady, ObdMultiplexingEnabled, ObdMultiplexingChanged>> /\ CardOnly

ControlsUpdate ==
  /\ CardAt("run") /\ ~passive /\ onroadEvents = "ready" /\ card' = "enable"
  /\ UNCHANGED <<requests, passive, handshake>> /\ CardOnly

PutControlsReady ==
  /\ CardAt("enable") /\ card' = "ready"
  /\ ControlsReady' = TRUE
  /\ UNCHANGED <<requests, passive, FirmwareQueryDone, CarParams, ObdMultiplexingEnabled, ObdMultiplexingChanged>> /\ CardOnly

\* selfdrived waits for CarParams, says that it is initializing, and is
\* initialized when everything is valid or after six seconds.
Selfdrived ==
  /\ proc = "alive" /\ ~shutting_down
  /\ \/ onroadEvents = "none" /\ CarParams # 0 /\ onroadEvents' = "initializing"
     \/ onroadEvents = "initializing" /\ onroadEvents' = "ready"
  /\ UNCHANGED <<device, managerVars, handshake, cardProcess, cardVars, pandadVars>>

(***************************************************************************)
(* pandad at 10 Hz: poll the messages and the panda, close the relay when  *)
(* the car is off or the device is not onroad, then configureSafetyMode.   *)
(***************************************************************************)
PandadOnly == UNCHANGED <<ignition, started, drives, managerVars, cardProcess, cardVars, onroadEvents, restarts>>

\* Mutant: the safety setter keeps its state when the drive ends.
MutPandadPoll ==
  /\ pandad = "poll"
  /\ Prompt => started_prev = started /\ ~pandaStates.new
  /\ is_onroad' = started
  /\ panda' = IF panda = Silent \/ ~ignition \/ ~started THEN NoOutput ELSE panda
  /\ pandaStates' = [ignition |-> ignition, new |-> TRUE]
  /\ pandad' = IF started /\ ~safety_configured THEN "multiplex" ELSE "poll"
  /\ UNCHANGED <<initialized, safety_configured, prev_obd, handshake>> /\ PandadOnly

PandadPoll ==
  /\ pandad = "poll"
  /\ Prompt => started_prev = started /\ ~pandaStates.new
  /\ is_onroad' = started
  /\ panda' = IF panda = Silent \/ ~ignition \/ ~started THEN NoOutput ELSE panda
  /\ pandaStates' = [ignition |-> ignition, new |-> TRUE]
  /\ IF started
       THEN /\ pandad' = IF safety_configured THEN "poll" ELSE "multiplex"
            /\ UNCHANGED <<initialized, safety_configured>>
       ELSE /\ pandad' = "poll" /\ initialized' = FALSE /\ safety_configured' = FALSE
  /\ UNCHANGED <<prev_obd, handshake>> /\ PandadOnly

\* The first time: ELM327 without multiplexing.  Then what card asks for.
UpdateMultiplexingMode ==
  /\ pandad = "multiplex" /\ pandad' = "fetch"
  /\ initialized' = TRUE
  /\ prev_obd' = ObdMultiplexingEnabled
  /\ LET prev == initialized /\ prev_obd
         changes == ObdMultiplexingEnabled # prev
     IN /\ panda' = IF changes \/ ~initialized THEN Elm(ObdMultiplexingEnabled) ELSE panda
        /\ ObdMultiplexingChanged' = (ObdMultiplexingChanged \/ changes)
  /\ UNCHANGED <<pandaStates, is_onroad, safety_configured, FirmwareQueryDone, ControlsReady,
                 CarParams, ObdMultiplexingEnabled>> /\ PandadOnly

FetchCarParams ==
  /\ pandad = "fetch"
  /\ pandad' = IF FirmwareQueryDone /\ ControlsReady THEN "set" ELSE "poll"
  /\ UNCHANGED <<pandaStates, is_onroad, initialized, safety_configured, prev_obd, panda, handshake>>
  /\ PandadOnly

SetSafetyMode ==
  /\ pandad = "set" /\ pandad' = "poll"
  /\ safety_configured' = (CarParams # 0)
  /\ panda' = IF CarParams # 0 THEN CarModel(CarParams) ELSE panda
  /\ UNCHANGED <<pandaStates, is_onroad, initialized, prev_obd, handshake>> /\ PandadOnly

\* pandad ends (the panda disconnects, a crash) and pandad.py runs it again
\* after resetting the panda, which comes up silent.
PandadExit ==
  /\ pandad # "down" /\ restarts < MaxRestarts
  /\ pandad' = "down" /\ restarts' = restarts + 1
  /\ panda' \in (IF is_onroad THEN {panda, NoOutput} ELSE {panda})   \* closes the relay if it can and nothing is engaged
  /\ UNCHANGED <<device, managerVars, handshake, cardProcess, cardVars, onroadEvents,
                 is_onroad, initialized, safety_configured, prev_obd>>

PandadStart ==
  /\ pandad = "down" /\ pandad' = "poll"
  /\ is_onroad' = FALSE /\ initialized' = FALSE /\ safety_configured' = FALSE /\ prev_obd' = FALSE
  /\ panda' = Silent
  /\ UNCHANGED <<device, managerVars, handshake, cardProcess, cardVars, onroadEvents, restarts>>

Hardwared == HardwaredUpdate \/ HardwaredTimeout
Manager == ManagerUpdate \/ WriteOnroadParams \/ EnsureRunning
Card == \/ WaitForCan \/ Acknowledged \/ PutRequest \/ QueryDone
        \/ PublishCarParams \/ ControlsUpdate \/ PutControlsReady
Pandad == PandadPoll \/ UpdateMultiplexingMode \/ FetchCarParams \/ SetSafetyMode \/ PandadStart

DriveNext ==
  \/ Ignition \/ Hardwared \/ Manager
  \/ CardExit \/ CardCrash \/ Card \/ (\E obd \in BOOLEAN : Request(obd)) \/ Selfdrived
  \/ Pandad \/ PandadExit

\* Every process keeps running its loop; card asks for multiplexing only as
\* long as it likes.
DriveFairness ==
  /\ WF_driveVars(Hardwared) /\ WF_driveVars(Manager) /\ WF_driveVars(Card) /\ WF_driveVars(CardExit)
  /\ WF_driveVars(Selfdrived) /\ WF_driveVars(Pandad)

DriveSpec == DriveInit /\ [][DriveNext]_driveVars /\ DriveFairness

(***************************************************************************)
(* Properties.                                                             *)
(***************************************************************************)
\* While card runs, a car's safety model on the panda is the one this card
\* published, after it had finished its queries and selfdrived was
\* initialized: never what an earlier drive left in the parameters.
SafetyModelOfThisCard ==
  panda.mode = "car" /\ proc = "alive" /\ ~shutting_down /\ started_prev
    => panda.params = instance /\ card = "ready"

\* When set_obd_multiplexing has returned, the panda multiplexes as asked: an
\* acknowledgement left from an earlier request or drive does not count.  A
\* pandad that restarted repeats acknowledgements, so it is left out.
QueriesMultiplexed ==
  restarts = 0 /\ CardAt("query") /\ panda.mode = "elm327" => panda.obd = ObdMultiplexingEnabled

\* A drive that lasts, with a card that neither crashes nor turns out to be
\* passive, gets its safety model, unless pandad restarted while card
\* waited for an acknowledgement.
DriveConfigures ==
  <>[](started /\ ignition /\ proc # "exited")
    => <>[](passive \/ panda = CarModel(instance) \/ (card = "wait" /\ restarts > 0))
===============================================================================

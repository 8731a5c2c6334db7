---------------------------- MODULE InputDevices ----------------------------
(***************************************************************************)
(* ActivityMonitor's fallback (core/activity/activitymonitor.cpp): it      *)
(* watches every keyboard and mouse under /dev/input, found by a scan when *)
(* it starts and by udev's events from then on. The kernel, udevd and the  *)
(* program run concurrently: a node may go, or carry another device,       *)
(* between any two steps of the program. Devices are numbered as they are  *)
(* plugged in; 0 is none.                                                  *)
(***************************************************************************)
EXTENDS Naturals, Sequences, FiniteSets

CONSTANTS Nodes,      \* device nodes
          Inputs,     \* the devices that are keyboards or mice
          MaxPlugs,   \* bound: devices plugged in
          OpenFaults  \* whether open() may refuse a device for good: the user is not in
                      \* the input group, or the process has no descriptor left

ASSUME InputsAssumption == /\ IsFiniteSet(Nodes)
                           /\ MaxPlugs \in Nat /\ Inputs \subseteq 1..MaxPlugs
                           /\ OpenFaults \in BOOLEAN

VARIABLES at,         \* the device behind each node
          plugs,      \* devices plugged in so far
          uevents,    \* the kernel's events udevd has yet to process
          ready,      \* the device udev's database and permissions are for
          receiving,  \* m_udevMonitor is there and enabled
          queue,      \* events on its socket
          running,    \* m_running
          step,       \* what the program is doing
          listed,     \* nodes the scan has yet to look at
          opening,    \* the argument of addInputDevice
          watched,    \* m_deviceNotifiers: the device each notifier's descriptor is open on
          openFds,    \* descriptors open on devices
          refused     \* devices whose last open() was refused since start() (history)

kernel == <<at, plugs, uevents>>
devices == <<watched, openFds, refused>>
program == <<running, step, listed, opening, devices>>
deviceVars == <<kernel, ready, receiving, queue, program>>

Devices == 0..MaxPlugs
Events == [action : {"add", "remove"}, node : Nodes, device : 1..MaxPlugs]
WatchedNodes == {n \in Nodes : watched[n] # 0}

DevicesInit == /\ at = [n \in Nodes |-> 0]
               /\ plugs = 0
               /\ uevents = <<>>
               /\ ready = at
               /\ receiving = FALSE
               /\ queue = <<>>
               /\ running = FALSE
               /\ step = "loop"
               /\ listed = {}
               /\ opening \in Nodes
               /\ watched = at
               /\ openFds = 0
               /\ refused = {}

(***************************************************************************)
(* The kernel and udevd                                                    *)
(***************************************************************************)
Plug(n) == /\ at[n] = 0 /\ plugs < MaxPlugs
           /\ plugs' = plugs + 1
           /\ at' = [at EXCEPT ![n] = plugs']
           /\ uevents' = Append(uevents, [action |-> "add", node |-> n, device |-> plugs'])
           /\ UNCHANGED <<ready, receiving, queue, program>>

Unplug(n) == /\ at[n] # 0
             /\ at' = [at EXCEPT ![n] = 0]
             /\ uevents' = Append(uevents, [action |-> "remove", node |-> n, device |-> at[n]])
             /\ UNCHANGED <<plugs, ready, receiving, queue, program>>

\* udevd applies its rules, in the kernel's order, and tells the monitors.
ProcessUevent ==
    /\ uevents # <<>>
    /\ LET e == Head(uevents) IN
         /\ ready' = [ready EXCEPT ![e.node] = IF e.action = "add" THEN e.device ELSE 0]
         /\ queue' = IF receiving THEN Append(queue, e) ELSE queue
    /\ uevents' = Tail(uevents)
    /\ UNCHANGED <<at, plugs, receiving, program>>

(***************************************************************************)
(* start(): the monitor is enabled first, then the devices are scanned.    *)
(* udev_new or udev_monitor_new_from_netlink failing leaves all as it was. *)
(***************************************************************************)
EnableMonitor ==
    /\ step = "loop" /\ ~running
    /\ receiving' = TRUE
    /\ step' = "list"
    /\ UNCHANGED <<kernel, ready, queue, running, listed, opening, devices>>

ListDevices ==
    /\ step = "list"
    /\ listed' = {n \in Nodes : at[n] # 0}
    /\ step' = "scan"
    /\ UNCHANGED <<kernel, ready, receiving, queue, running, opening, devices>>

ScanDevice(n) ==
    /\ step = "scan" /\ n \in listed
    /\ listed' = listed \ {n}
    /\ IF at[n] # 0 /\ ready[n] \in Inputs
       THEN opening' = n /\ step' = "open"
       ELSE UNCHANGED <<opening, step>>
    /\ UNCHANGED <<kernel, ready, receiving, queue, running, devices>>

\* Mutant: the monitor is enabled once the scan is over.
FinishScanThenEnable ==
    /\ step = "scan" /\ listed = {}
    /\ running' = TRUE
    /\ step' = "loop"
    /\ queue' = <<>>
    /\ UNCHANGED <<kernel, ready, receiving, listed, opening, devices>>
FinishScan ==
    /\ step = "scan" /\ listed = {}
    /\ running' = TRUE
    /\ step' = "loop"
    /\ UNCHANGED <<kernel, ready, receiving, queue, listed, opening, devices>>

(***************************************************************************)
(* The watched devices                                                     *)
(***************************************************************************)
\* A node can be opened once udevd has seen to the device behind it.
CanOpen(n) == at[n] # 0 /\ ready[n] = at[n]

\* open() and the notifier on its descriptor.
Open(n) == /\ CanOpen(n)
           /\ watched' = [watched EXCEPT ![n] = at[n]]
           /\ openFds' = openFds + 1
           /\ refused' = refused \ {at[n]}

\* open() fails: nothing tries again before the device is announced once more.
FailToOpen(n) == \/ ~CanOpen(n) /\ UNCHANGED devices
                 \/ /\ OpenFaults /\ CanOpen(n)
                    /\ refused' = refused \cup {at[n]}
                    /\ UNCHANGED <<watched, openFds>>

\* Mutant: a node that is watched already is opened again.
AddInputDeviceAgain ==
    /\ step = "open"
    /\ step' = IF running THEN "loop" ELSE "scan"
    /\ Open(opening) \/ FailToOpen(opening)
    /\ UNCHANGED <<kernel, ready, receiving, queue, running, listed, opening>>
AddInputDevice ==
    /\ step = "open"
    /\ step' = IF running THEN "loop" ELSE "scan"
    /\ \/ watched[opening] # 0 /\ UNCHANGED devices
       \/ watched[opening] = 0 /\ (Open(opening) \/ FailToOpen(opening))
    /\ UNCHANGED <<kernel, ready, receiving, queue, running, listed, opening>>

\* Mutant: the descriptor is closed whether or not there is a notifier.
RemoveUnwatched(n) ==
    /\ watched' = [watched EXCEPT ![n] = 0]
    /\ openFds' = openFds - 1
RemoveInputDevice(n) ==
    /\ watched' = [watched EXCEPT ![n] = 0]
    /\ openFds' = IF watched[n] # 0 THEN openFds - 1 ELSE openFds

ReadUdevMonitor ==
    /\ step = "loop" /\ running /\ queue # <<>>
    /\ queue' = Tail(queue)
    /\ LET e == Head(queue) IN
         \/ /\ e.action = "remove"
            /\ RemoveInputDevice(e.node)
            /\ UNCHANGED <<opening, step, refused>>
         \/ /\ e.action = "add" /\ e.device \in Inputs
            /\ opening' = e.node
            /\ step' = "open"
            /\ UNCHANGED devices
         \/ /\ e.action = "add" /\ e.device \notin Inputs
            /\ UNCHANGED <<opening, step, devices>>
    /\ UNCHANGED <<kernel, ready, receiving, running, listed>>

\* stop()
StopDevices ==
    /\ step = "loop" /\ running
    /\ watched' = [n \in Nodes |-> 0]
    /\ openFds' = openFds - Cardinality(WatchedNodes)
    /\ refused' = {}
    /\ receiving' = FALSE
    /\ queue' = <<>>
    /\ running' = FALSE
    /\ UNCHANGED <<kernel, ready, step, listed, opening>>

Hotplug == \/ \E n \in Nodes : Plug(n) \/ Unplug(n)
           \/ ProcessUevent

WatchDevices == \/ ListDevices
                \/ \E n \in Nodes : ScanDevice(n)
                \/ FinishScan
                \/ AddInputDevice
                \/ ReadUdevMonitor

DevicesNext == Hotplug \/ EnableMonitor \/ WatchDevices \/ StopDevices

DevicesSpec == DevicesInit /\ [][DevicesNext]_deviceVars

(***************************************************************************)
(* Properties                                                              *)
(***************************************************************************)
\* The type invariant.
DevicesTypeOK ==
    /\ {at, ready, watched} \subseteq [Nodes -> Devices]
    /\ plugs \in Devices
    /\ uevents \in Seq(Events)
    /\ receiving \in BOOLEAN
    /\ queue \in Seq(Events)
    /\ running \in BOOLEAN
    /\ step \in {"loop", "list", "scan", "open"}
    /\ listed \subseteq Nodes
    /\ opening \in Nodes
    /\ openFds \in Nat
    /\ refused \subseteq Devices

Settled == running /\ step = "loop" /\ uevents = <<>> /\ queue = <<>>

\* Whatever was plugged in, pulled out or swapped before, during and after the
\* scan, once the program has handled udev's events it watches exactly the
\* keyboards and mice that are there and that open() has not refused it, each by a
\* descriptor of the present device. A refused one stays out: nothing opens it again.
WatchesWhatIsThere ==
    Settled => \A n \in Nodes :
                   watched[n] = IF at[n] \in Inputs \ refused THEN at[n] ELSE 0

\* A device both scanned and announced is opened once, and what is opened is
\* closed: as many descriptors are open as nodes are watched, none after stop().
NoDescriptorLeaks == openFds = Cardinality(WatchedNodes) /\ (~running /\ step = "loop" => openFds = 0)
=============================================================================

------------------------- MODULE InterfaceSelection -------------------------
(***************************************************************************)
(* The interfaces of the host, as Scanner lists, shows and opens them:     *)
(* getDeviceList of JpcapCaptor.c, NetworkInterfaceManager,                *)
(* InterfaceInfoController, and what Controller does with its combo box.   *)
(* The combo box has a copy of the names found at the start and a selected *)
(* index; the index is looked up, by the capture thread and when it opens  *)
(* the interface, in the static list, which each interface window scans    *)
(* anew.  What openDevice does with the interface is not here (see         *)
(* CaptureSession).                                                        *)
(*                                                                         *)
(* The interfaces attached to the host, and whether pcap can list them,    *)
(* are the environment's.                                                  *)
(***************************************************************************)
EXTENDS Integers, SequencesExt

CONSTANTS
  Interface,
  Addresses,    \* for each interface, the families of its addresses
  Attachments   \* sequences of interfaces that may be attached at a time

ASSUME SelectionAssumption ==
  /\ Addresses \in [Interface -> Seq({"inet", "inet6", "packet"})]
  /\ Attachments \subseteq Seq(Interface)

VARIABLES
  attached,      \* the interfaces of the host
  devices,       \* the static list of NetworkInterfaceManager, or null
  netInterface,  \* the names it makes of it
  deviceList,    \* the items of the combo box
  selected,      \* the selected index, from 1 on; 0 is none
  starting,      \* whether a capture thread has yet to open its interface
  chosen,        \* the items selected since Start was pressed
  opened,        \* what the last capture thread opened
  window,        \* the list that the interface window shows
  rescanned      \* history: a scan has found something else than the one at the start

vars == <<attached, devices, netInterface, deviceList, selected, starting, chosen, opened, window,
          rescanned>>

null == [list |-> <<>>, null |-> TRUE]

IsInternet(family) == family \in {"inet", "inet6"}

\* Mutation: room is made for every address.
RoomForAll(d) == Len(Addresses[d])

\* Those that getAddressByteArray makes something of, by their place.
Internet(d) == {k \in DOMAIN Addresses[d] : IsInternet(Addresses[d][k])}

\* One pass counts them, and the next stores each behind those that came before
\* it.  Where nothing is stored the array has null.
AddressCount(d) == Cardinality(Internet(d))

Slot(d, k) == Cardinality({i \in Internet(d) : i <= k})

AddressArray(d) ==
  [j \in 1..AddressCount(d) |->
     IF \E k \in Internet(d) : Slot(d, k) = j
       THEN Addresses[d][CHOOSE k \in Internet(d) : Slot(d, k) = j] ELSE "null"]

Device(d) == [name |-> d, addresses |-> AddressArray(d)]

getDeviceList(alldevs) ==
  [list |-> [j \in 1..Len(alldevs) |-> Device(alldevs[j])], null |-> FALSE]

Names(l) == [j \in 1..Len(l.list) |-> l.list[j].name]

Init ==
  /\ attached \in Attachments
  /\ devices = getDeviceList(attached) /\ netInterface = Names(devices)
  /\ deviceList = netInterface
  /\ selected = 0 /\ starting = FALSE /\ chosen = {} /\ opened = "nothing"
  /\ window = null /\ rescanned = FALSE

(* Interfaces come and go. *)
Attach ==
  /\ attached' \in Attachments
  /\ UNCHANGED <<devices, netInterface, deviceList, selected, starting, chosen, opened, window,
                 rescanned>>

(* An item of the combo box is selected. *)
Select(r) ==
  /\ r \in 1..Len(deviceList)
  /\ selected' = r
  /\ chosen' = IF starting THEN chosen \cup {deviceList[r]} ELSE chosen
  /\ UNCHANGED <<attached, devices, netInterface, deviceList, starting, opened, window,
                 rescanned>>

(* The interface window makes a NetworkInterfaceManager, which refreshes the list. *)
showInterfaces ==
  /\ devices' = getDeviceList(attached)
  /\ netInterface' = Names(devices') /\ window' = devices'
  /\ rescanned' = (rescanned \/ netInterface' # deviceList)
  /\ UNCHANGED <<attached, deviceList, selected, starting, chosen, opened>>

(* pcap_findalldevs fails: the list is null, the loop over it throws, and the
   window does not open. *)
refreshFails ==
  /\ netInterface' = <<>> /\ devices' = null /\ rescanned' = TRUE
  /\ UNCHANGED <<attached, deviceList, selected, starting, chosen, opened, window>>

startCapture ==
  /\ ~starting /\ selected # 0
  /\ starting' = TRUE /\ chosen' = {deviceList[selected]} /\ opened' = "nothing"
  /\ UNCHANGED <<attached, devices, netInterface, deviceList, selected, window,
                 rescanned>>

\* Mutation: the index of the first item is taken for that of the second.
OpenNext ==
  /\ starting
  /\ starting' = FALSE
  /\ opened' = IF selected + 1 \in 1..Len(devices.list) THEN devices.list[selected + 1].name ELSE "exception"
  /\ UNCHANGED <<attached, devices, netInterface, deviceList, selected, chosen, window,
                 rescanned>>

(* getSelectedInterface, called by the capture thread: it throws when the list is
   null or has no such index. *)
Open ==
  /\ starting
  /\ starting' = FALSE
  /\ opened' = IF selected \in 1..Len(devices.list) THEN devices.list[selected].name ELSE "exception"
  /\ UNCHANGED <<attached, devices, netInterface, deviceList, selected, chosen, window,
                 rescanned>>

Next ==
  \/ Attach \/ (\E r \in 1..Len(deviceList) : Select(r))
  \/ showInterfaces \/ refreshFails \/ startCapture \/ Open

Spec == Init /\ [][Next]_vars

-----------------------------------------------------------------------------
(***************************************************************************)
(* Properties                                                              *)
(***************************************************************************)

\* "Open the selected network interface to begin a capture" (Controller.java:185):
\* what a capture opens has a name that was selected in the combo box when Start
\* was pressed, or after that, as long as every scan has found the same interfaces.
OpensSelected == opened # "nothing" /\ ~rescanned => opened \in chosen

\* The interface window shows every internet address of every interface, in the
\* order of the system, and nothing else: its arrays have no null.
ShowsAddresses ==
  \A j \in DOMAIN window.list :
    LET shown == window.list[j].addresses
        all == Addresses[window.list[j].name]
    IN \E at \in [DOMAIN shown -> DOMAIN all] :
         /\ \A i \in DOMAIN shown : shown[i] = all[at[i]]
         /\ \A i, k \in DOMAIN shown : i < k => at[i] < at[k]
         /\ {k \in DOMAIN all : IsInternet(all[k])} = {at[i] : i \in DOMAIN shown}
=============================================================================

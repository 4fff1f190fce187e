---------------------- MODULE InterfaceSelection_proofs ----------------------
(***************************************************************************)
(* Proofs for any interfaces, in any order and number, and any number of   *)
(* scans: Scanner opens what is selected, and shows all addresses.  The    *)
(* index that the combo box keeps is good for the static list as long as   *)
(* both have the same names.                                               *)
(***************************************************************************)
EXTENDS InterfaceSelection, FiniteSetTheorems, FunctionTheorems, TLAPS

\* Until a scan finds something else the items of the combo box are the names in
\* the static list.
SameNames == ~rescanned => deviceList = Names(devices)

SelectionInv ==
  /\ attached \in Attachments /\ Len(devices.list) \in Nat
  /\ selected \in 0..Len(deviceList)
  /\ SameNames
  /\ starting => selected # 0 /\ deviceList[selected] \in chosen
  /\ OpensSelected

LEMMA ListLength ==
  ASSUME NEW alldevs \in Attachments PROVE Len(getDeviceList(alldevs).list) \in Nat
<1>1. Len(alldevs) \in Nat
  BY SelectionAssumption
<1>2. getDeviceList(alldevs).list = [j \in 1..Len(alldevs) |-> Device(alldevs[j])]
  BY DEF getDeviceList
<1> QED
  BY <1>1, <1>2

LEMMA NamesOf ==
  ASSUME NEW l, Len(l.list) \in Nat
  PROVE  Len(Names(l)) = Len(l.list) /\ \A j \in 1..Len(l.list) : Names(l)[j] = l.list[j].name
BY DEF Names

LEMMA InitSelection == Init => SelectionInv
<1> SUFFICES ASSUME Init PROVE SelectionInv
  OBVIOUS
<1>1. Len(devices.list) \in Nat
  BY ListLength DEF Init
<1>2. Len(deviceList) \in Nat /\ deviceList = Names(devices)
  BY <1>1, NamesOf DEF Init
<1> QED
  BY <1>1, <1>2 DEF Init, SelectionInv, SameNames, OpensSelected

\* Where the window has scanned, the lists differ or the scan says so.
LEMMA ScanStep == ASSUME SelectionInv, showInterfaces PROVE SelectionInv'
<1>1. Len(devices'.list) \in Nat
  BY ListLength DEF SelectionInv, showInterfaces
<1>2. SameNames'
  BY DEF showInterfaces, SameNames
<1>3. UNCHANGED <<attached, deviceList, selected, starting, chosen, opened>> /\ (rescanned => rescanned')
  BY DEF showInterfaces
<1> QED
  BY <1>1, <1>2, <1>3 DEF SelectionInv, OpensSelected

\* A name is opened under the index it has in the combo box.
LEMMA OpenStep == ASSUME SelectionInv, Open PROVE SelectionInv'
<1>1. UNCHANGED <<attached, devices, netInterface, deviceList, selected, chosen, window, rescanned>>
      /\ starting /\ starting' = FALSE
  BY DEF Open
<1>2. OpensSelected'
  <2> SUFFICES ASSUME ~rescanned PROVE opened' \in chosen
    BY <1>1 DEF OpensSelected
  <2>1. deviceList = Names(devices) /\ Len(devices.list) \in Nat
    BY DEF SelectionInv, SameNames
  <2>2. selected \in 1..Len(devices.list) /\ deviceList[selected] = devices.list[selected].name
    BY <1>1, <2>1, NamesOf DEF SelectionInv
  <2>3. opened' = devices.list[selected].name
    BY <2>2 DEF Open
  <2> QED
    BY <1>1, <2>2, <2>3 DEF SelectionInv
<1> QED
  BY <1>1, <1>2 DEF SelectionInv, SameNames

LEMMA NextSelection == ASSUME SelectionInv, [Next]_vars PROVE SelectionInv'
<1> USE DEF SelectionInv, SameNames, OpensSelected
<1>1. CASE Attach
  BY <1>1 DEF Attach
<1>2. ASSUME NEW r \in 1..Len(deviceList), Select(r) PROVE SelectionInv'
  BY <1>2 DEF Select
<1>3. CASE showInterfaces
  BY <1>3, ScanStep
<1>4. CASE refreshFails
  <2>1. Len(devices'.list) = 0
    BY <1>4 DEF refreshFails, null
  <2> QED
    BY <1>4, <2>1 DEF refreshFails
<1>5. CASE startCapture
  BY <1>5 DEF startCapture
<1>6. CASE Open
  BY <1>6, OpenStep
<1>7. CASE UNCHANGED vars
  BY <1>7 DEF vars
<1> QED
  BY <1>1, <1>2, <1>3, <1>4, <1>5, <1>6, <1>7 DEF Next

\* What a capture opens was selected in the combo box, as long as every scan has
\* found the same interfaces: for any number of interfaces, scans and captures.
THEOREM OpensSelectedHolds == Spec => []OpensSelected
<1>1. Init => SelectionInv
  BY InitSelection
<1>2. SelectionInv /\ [Next]_vars => SelectionInv'
  BY NextSelection
<1>3. SelectionInv => OpensSelected
  BY DEF SelectionInv
<1> QED
  BY <1>1, <1>2, <1>3, PTL DEF Spec

-----------------------------------------------------------------------------
(***************************************************************************)
(* The arrays of addresses                                                 *)
(***************************************************************************)
LEMMA InternetIsFinite ==
  ASSUME NEW d \in Interface
  PROVE  /\ IsFiniteSet(Internet(d)) /\ AddressCount(d) \in Nat
         /\ \A k \in Internet(d) : k \in Nat
<1>1. Addresses[d] \in Seq({"inet", "inet6", "packet"})
  BY SelectionAssumption
<1>2. Len(Addresses[d]) \in Nat /\ DOMAIN Addresses[d] = 1..Len(Addresses[d])
  BY <1>1
<1>3. IsFiniteSet(1..Len(Addresses[d]))
  BY <1>2, FS_Interval
<1>4. Internet(d) \in SUBSET (1..Len(Addresses[d]))
  BY <1>2 DEF Internet
<1>5. IsFiniteSet(Internet(d))
  BY <1>3, <1>4, FS_Subset
<1> QED
  BY <1>2, <1>4, <1>5, FS_CardinalityType DEF AddressCount

\* An address is stored behind those that come before it, and in the array.
LEMMA SlotType ==
  ASSUME NEW d \in Interface, NEW k \in Internet(d)
  PROVE  Slot(d, k) \in 1..AddressCount(d)
<1> DEFINE S == {i \in Internet(d) : i <= k}
<1>1. IsFiniteSet(Internet(d)) /\ k \in Nat
  BY InternetIsFinite
<1>2. S \in SUBSET Internet(d) /\ k \in S
  BY <1>1
<1>3. IsFiniteSet(S) /\ Cardinality(S) <= Cardinality(Internet(d))
  BY <1>1, <1>2, FS_Subset
<1>4. Cardinality(S) \in Nat /\ Cardinality(S) # 0
  BY <1>2, <1>3, FS_CardinalityType, FS_EmptySet
<1>5. Slot(d, k) = Cardinality(S) /\ AddressCount(d) = Cardinality(Internet(d))
  BY DEF Slot, AddressCount
<1> HIDE DEF S
<1>6. Cardinality(Internet(d)) \in Nat
  BY <1>1, FS_CardinalityType
<1> QED
  BY <1>3, <1>4, <1>5, <1>6

LEMMA SlotGrows ==
  ASSUME NEW d \in Interface, NEW k \in Internet(d), NEW m \in Internet(d), k < m
  PROVE  Slot(d, k) < Slot(d, m)
<1> DEFINE S == {i \in Internet(d) : i <= k}
           T == {i \in Internet(d) : i <= m}
<1>1. IsFiniteSet(Internet(d)) /\ \A i \in Internet(d) : i \in Nat
  BY InternetIsFinite
<1>2. T \in SUBSET Internet(d) /\ S \in SUBSET T /\ m \in T /\ m \notin S
  BY <1>1
<1>3. IsFiniteSet(T)
  BY <1>1, <1>2, FS_Subset
<1>4. IsFiniteSet(S) /\ Cardinality(S) <= Cardinality(T) /\ Cardinality(S) # Cardinality(T)
  BY <1>2, <1>3, FS_Subset
<1>5. Cardinality(S) \in Nat /\ Cardinality(T) \in Nat
  BY <1>3, <1>4, FS_CardinalityType
<1>6. Slot(d, k) = Cardinality(S) /\ Slot(d, m) = Cardinality(T)
  BY DEF Slot
<1> HIDE DEF S, T
<1> QED
  BY <1>4, <1>5, <1>6

\* No slot is left empty: both passes take the same addresses.
LEMMA SlotsFilled ==
  ASSUME NEW d \in Interface, NEW j \in 1..AddressCount(d)
  PROVE  \E k \in Internet(d) : Slot(d, k) = j
<1> DEFINE I == Internet(d)
           N == 1..AddressCount(d)
           f == [k \in I |-> Slot(d, k)]
<1>1. IsFiniteSet(I) /\ AddressCount(d) \in Nat /\ \A k \in I : k \in Nat
  BY InternetIsFinite
<1>2. f \in [I -> N]
  BY SlotType
<1>3. ASSUME NEW k \in I, NEW m \in I, f[k] = f[m]
      PROVE  k = m
  <2>1. Slot(d, k) = Slot(d, m) /\ Slot(d, k) \in N /\ k \in Nat /\ m \in Nat
    BY <1>1, <1>3, SlotType
  <2>2. ~(Slot(d, k) < Slot(d, m)) /\ ~(Slot(d, m) < Slot(d, k))
    BY <2>1
  <2>3. ~(k < m) /\ ~(m < k)
    BY <2>2, SlotGrows
  <2> QED
    BY <2>1, <2>3
<1>4. f \in Injection(I, N)
  BY <1>2, <1>3, Fun_IsInj
<1>5. IsFiniteSet(N) /\ Cardinality(N) = Cardinality(I)
  <2>1. 1 \in Int /\ AddressCount(d) \in Int
    BY <1>1
  <2>2. IsFiniteSet(N) /\ Cardinality(N) = IF 1 > AddressCount(d) THEN 0 ELSE AddressCount(d) - 1 + 1
    BY <2>1, FS_Interval
  <2>3. Cardinality(N) = AddressCount(d)
    BY <1>1, <2>2
  <2> QED
    BY <2>2, <2>3 DEF AddressCount
<1>6. f \in Surjection(I, N)
  BY <1>1, <1>4, <1>5, FS_Injection
<1>7. \E k \in I : f[k] = j
  BY <1>6 DEF Surjection
<1> QED
  BY <1>7

\* So the array of an interface has its internet addresses, in their order.
LEMMA ArrayShows ==
  ASSUME NEW d \in Interface
  PROVE  LET shown == AddressArray(d)
             all == Addresses[d]
         IN \E at \in [DOMAIN shown -> DOMAIN all] :
              /\ \A i \in DOMAIN shown : shown[i] = all[at[i]]
              /\ \A i, k \in DOMAIN shown : i < k => at[i] < at[k]
              /\ {k \in DOMAIN all : IsInternet(all[k])} = {at[i] : i \in DOMAIN shown}
<1> DEFINE shown == AddressArray(d)
           all == Addresses[d]
           N == 1..AddressCount(d)
           at == [i \in N |-> CHOOSE k \in Internet(d) : Slot(d, k) = i]
<1>1. /\ AddressCount(d) \in Nat /\ \A k \in Internet(d) : k \in Nat
      /\ Internet(d) = {k \in DOMAIN all : IsInternet(all[k])}
  BY InternetIsFinite DEF Internet
<1>2. \A i \in N : at[i] \in Internet(d) /\ Slot(d, at[i]) = i
  BY SlotsFilled
<1>3. DOMAIN shown = N /\ \A i \in N : shown[i] = all[at[i]]
  BY SlotsFilled DEF AddressArray
<1>4. DOMAIN at = N /\ at = [i \in N |-> at[i]]
  OBVIOUS
<1> HIDE DEF at, shown, all, N
<1>5. at \in [N -> DOMAIN all]
  BY <1>1, <1>2, <1>4
<1>6. ASSUME NEW i \in N, NEW k \in N, i < k
      PROVE  at[i] < at[k]
  <2>1. at[i] \in Internet(d) /\ at[k] \in Internet(d) /\ Slot(d, at[i]) = i /\ Slot(d, at[k]) = k
    BY <1>2
  <2>2. at[i] \in Nat /\ at[k] \in Nat /\ i \in Nat /\ k \in Nat
    BY <1>1, <2>1 DEF N
  <2>3. ~(at[k] < at[i])
    <3>1. ~(k < i)
      BY <1>6, <2>2
    <3> QED
      BY <2>1, <3>1, SlotGrows
  <2>4. at[k] # at[i]
    BY <1>6, <2>1, <2>2
  <2> QED
    BY <2>2, <2>3, <2>4
<1>7. Internet(d) = {at[i] : i \in N}
  <2>1. ASSUME NEW k \in Internet(d)
        PROVE  k \in {at[i] : i \in N}
    <3>1. Slot(d, k) \in N
      BY SlotType DEF N
    <3>2. at[Slot(d, k)] \in Internet(d) /\ Slot(d, at[Slot(d, k)]) = Slot(d, k)
      BY <1>2, <3>1
    <3>3. Slot(d, k) \in Nat /\ k \in Nat /\ at[Slot(d, k)] \in Nat
      BY <1>1, <3>1, <3>2 DEF N
    <3>4. ~(Slot(d, k) < Slot(d, at[Slot(d, k)])) /\ ~(Slot(d, at[Slot(d, k)]) < Slot(d, k))
      BY <3>2, <3>3
    <3>5. ~(k < at[Slot(d, k)]) /\ ~(at[Slot(d, k)] < k)
      BY <3>2, <3>4, SlotGrows
    <3>6. k = at[Slot(d, k)]
      BY <3>3, <3>5
    <3> QED
      BY <3>1, <3>6
  <2> QED
    BY <1>2, <2>1
<1>8. /\ at \in [DOMAIN shown -> DOMAIN all]
      /\ \A i \in DOMAIN shown : shown[i] = all[at[i]]
      /\ \A i, k \in DOMAIN shown : i < k => at[i] < at[k]
      /\ {k \in DOMAIN all : IsInternet(all[k])} = {at[i] : i \in DOMAIN shown}
  BY <1>1, <1>3, <1>5, <1>6, <1>7
<1> QED
  BY <1>8 DEF shown, all

\* The window shows interfaces as getDeviceList made them.
WindowInv ==
  /\ attached \in Attachments
  /\ \A j \in DOMAIN window.list : \E d \in Interface : window.list[j] = Device(d)

LEMMA WindowNext == ASSUME WindowInv, [Next]_vars PROVE WindowInv'
<1>1. CASE showInterfaces
  <2>1. attached' = attached /\ window'.list = [j \in 1..Len(attached) |-> Device(attached[j])]
    BY <1>1 DEF showInterfaces, getDeviceList
  <2>2. attached \in Seq(Interface)
    BY SelectionAssumption DEF WindowInv
  <2>3. \A j \in 1..Len(attached) : attached[j] \in Interface
    BY <2>2
  <2> QED
    BY <2>1, <2>3 DEF WindowInv
<1>2. CASE Attach
  BY <1>2 DEF Attach, WindowInv
<1>3. CASE UNCHANGED <<attached, window>>
  BY <1>3 DEF WindowInv
<1>4. CASE (\E r \in 1..Len(deviceList) : Select(r)) \/ refreshFails \/ startCapture \/ Open \/ UNCHANGED vars
  BY <1>3, <1>4 DEF Select, refreshFails, startCapture, Open, vars
<1> QED
  BY <1>1, <1>2, <1>4 DEF Next

\* The interface window shows the internet addresses of each interface, all of
\* them and in their order: for any number of addresses of any kinds.
THEOREM ShowsAddressesHolds == Spec => []ShowsAddresses
<1>1. Init => WindowInv
  BY DEF Init, WindowInv, null
<1>2. WindowInv /\ [Next]_vars => WindowInv'
  BY WindowNext
<1>3. WindowInv => ShowsAddresses
  <2> SUFFICES ASSUME WindowInv, NEW j \in DOMAIN window.list
               PROVE  LET shown == window.list[j].addresses
                          all == Addresses[window.list[j].name]
                      IN \E at \in [DOMAIN shown -> DOMAIN all] :
                           /\ \A i \in DOMAIN shown : shown[i] = all[at[i]]
                           /\ \A i, k \in DOMAIN shown : i < k => at[i] < at[k]
                           /\ {k \in DOMAIN all : IsInternet(all[k])} = {at[i] : i \in DOMAIN shown}
    BY DEF ShowsAddresses
  <2>1. PICK d \in Interface : window.list[j] = Device(d)
    BY DEF WindowInv
  <2>2. window.list[j].addresses = AddressArray(d) /\ window.list[j].name = d
    BY <2>1 DEF Device
  <2> QED
    BY <2>2, ArrayShows
<1> QED
  BY <1>1, <1>2, <1>3, PTL DEF Spec
=============================================================================

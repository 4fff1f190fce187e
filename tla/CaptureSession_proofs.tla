------------------------ MODULE CaptureSession_proofs ------------------------
(***************************************************************************)
(* Proofs about CaptureSession, for any threads, packets, filters, files   *)
(* and bounds.                                                             *)
(***************************************************************************)
EXTENDS CaptureSession, SequenceTheorems, FiniteSetTheorems, TLAPS

USE SessionAssumption DEF Worker

-----------------------------------------------------------------------------
(* Types.  Of the console only what calm use leaves in it is typed, in       *)
(* Mirrored: what SelectSeq returns is defined by recursion.                *)

SessionTypeOK == ThreadTypeOK /\ StoreTypeOK /\ WindowTypeOK

\* CounterOf names a statistic of PacketManager.
LEMMA CounterOfType == \A p \in Packet : CounterOf(p) \in Counters \ {"total"}
PROOF BY DEF CounterOf, Counters, Protocols

\* The list as get and size see it is a list of packets.
LEMMA CaptureType ==
  ASSUME StoreTypeOK
  PROVE  Capture \in Seq(Packet) /\ Len(Capture) = size
PROOF
  <1>1. \A i \in 1..size : slots[i] \in Packet
    BY DEF StoreTypeOK
  <1>2. size \in Nat
    BY DEF StoreTypeOK
  <1> QED
    BY <1>1, <1>2, SubSeqProperties DEF Capture

\* Goto moves one thread, to a place of its own kind.
LEMMA GotoType ==
  ASSUME PcTypeOK, NEW w \in Worker, NEW label,
         label \in IF w = Fx THEN FxPcs ELSE ThreadPcs,
         Goto(w, label)
  PROVE  /\ PcTypeOK'
         /\ \A v \in Worker : pc'[v] = IF v = w THEN label ELSE pc[v]
PROOF
  <1> USE DEF PcTypeOK, Goto
  <1>1. \A v \in Worker : pc'[v] = IF v = w THEN label ELSE pc[v]
    OBVIOUS
  <1>2. pc' \in [Worker -> ThreadPcs \cup FxPcs]
    OBVIOUS
  <1> QED
    BY <1>1, <1>2

\* Every step keeps what each thread holds of its type.
LEMMA ThreadTypeStep ==
  ASSUME SessionTypeOK, ListInv, Next
  PROVE  ThreadTypeOK'
PROOF
  <1> USE DEF SessionTypeOK, ThreadTypeOK
  <1>1. ASSUME NEW w \in Worker, AddPacket(w) PROVE ThreadTypeOK'
    <2>1. CASE FetchList(w) /\ noList
      <3>1. w \in Thread /\ w # Fx
        BY <2>1 DEF FetchList, ListInv
      <3>2. Goto(w, "ended") /\ "ended" \in ThreadPcs
        BY <2>1 DEF FetchList, ThreadPcs
      <3>3. PcTypeOK' /\ \A v \in Worker : pc'[v] = IF v = w THEN "ended" ELSE pc[v]
        BY <3>1, <3>2, GotoType
      <3> QED
        BY <2>1, <3>3 DEF FetchList, AddPcs
    <2>2. CASE FetchList(w) /\ ~noList
      <3>1. PcTypeOK' /\ \A v \in Worker : pc'[v] = IF v = w THEN "write" ELSE pc[v]
        BY <2>2, GotoType DEF FetchList, ThreadPcs, FxPcs, AddPcs
      <3>2. \A v \in Worker : pc'[v] \in AddPcs \cup {"post"} => pkt'[v] \in Packet
        BY <2>2, <3>1 DEF FetchList, AddPcs
      <3>3. size \in Nat
        BY DEF StoreTypeOK
      <3>4. reg' \in [Worker -> Nat]
        BY <2>2, <3>3, SMTT(40) DEF FetchList
      <3> QED
        BY <2>2, <3>1, <3>2, <3>4 DEF FetchList
    <2>3. CASE WriteSlot(w)
      <3>1. PcTypeOK' /\ \A v \in Worker : pc'[v] = IF v = w THEN "countLoad" ELSE pc[v]
        BY <2>3, GotoType DEF WriteSlot, ThreadPcs, FxPcs, AddPcs
      <3>2. \A v \in Worker : pc'[v] \in AddPcs \cup {"post"} => pkt'[v] \in Packet
        BY <2>3, <3>1 DEF WriteSlot, AddPcs
      <3>3. reg' \in [Worker -> Nat] /\ stale' \subseteq Worker
        BY <2>3 DEF WriteSlot
      <3>4. late' \in [Thread -> Nat]
        BY <2>3 DEF WriteSlot
      <3> QED
        BY <2>3, <3>1, <3>2, <3>3, <3>4 DEF WriteSlot
    <2>4. CASE CountPacket(w)
      <3>1. pkt[w] \in Packet
        BY <2>4 DEF CountPacket, Load, Store, AddPcs
      <3>2. count[CounterOf(pkt[w])] \in Nat /\ count["total"] \in Nat
        BY <3>1, CounterOfType DEF StoreTypeOK, Counters
      <3>3. CASE pc[w] # "totalStore"
        <4>1. PICK label \in {"countStore", "totalLoad", "totalStore"} : Goto(w, label)
          BY <2>4, <3>3 DEF CountPacket, Load, Store
        <4>2. PcTypeOK' /\ \A v \in Worker : pc'[v] = IF v = w THEN label ELSE pc[v]
          BY <4>1, GotoType DEF ThreadPcs, FxPcs, AddPcs
        <4>3. \A v \in Worker : pc'[v] \in AddPcs \cup {"post"} => pkt'[v] \in Packet
          BY <2>4, <3>1, <4>2 DEF CountPacket, Load, Store, AddPcs
        <4>4. \E n \in Nat : reg' = [reg EXCEPT ![w] = n]
          BY <2>4, <3>2 DEF CountPacket, Load, Store
        <4>5. reg' \in [Worker -> Nat]
          BY <4>4
        <4> QED
          BY <2>4, <4>2, <4>3, <4>5 DEF CountPacket, Load, Store
      <3>4. CASE pc[w] = "totalStore"
        <4> DEFINE label == IF w = Fx THEN "reading" ELSE "post"
        <4>1. Goto(w, label)
          BY <2>4, <3>4 DEF CountPacket, Load, Store
        <4>2. PcTypeOK' /\ \A v \in Worker : pc'[v] = IF v = w THEN label ELSE pc[v]
          BY <4>1, GotoType DEF ThreadPcs, FxPcs
        <4>3. \A v \in Worker : pc'[v] \in AddPcs \cup {"post"} => pkt'[v] \in Packet
          BY <2>4, <3>1, <4>2 DEF CountPacket, Load, Store, AddPcs
        <4>4. \E n \in Nat : reg' = [reg EXCEPT ![w] = n]
          BY <2>4, <3>2 DEF CountPacket, Load, Store
        <4>5. reg' \in [Worker -> Nat]
          BY <4>4
        <4> QED
          BY <2>4, <4>2, <4>3, <4>5 DEF CountPacket, Load, Store
      <3> QED
        BY <3>3, <3>4
    <2> QED
      BY <1>1, <2>1, <2>2, <2>3, <2>4 DEF AddPacket
  <1>2. ASSUME NEW th \in Thread, CaptureStep(th) PROVE ThreadTypeOK'
    <2>1. CASE LoopTest(th)
      <3>1. PICK label \in {"report", "read"} : Goto(th, label)
        BY <2>1 DEF LoopTest
      <3>2. PcTypeOK' /\ \A v \in Worker : pc'[v] = IF v = th THEN label ELSE pc[v]
        BY <3>1, GotoType DEF ThreadPcs
      <3> QED
        BY <2>1, <3>1, <3>2 DEF LoopTest, AddPcs
    <2>8. CASE OpenDevice(th)
      <3>1. PICK label \in {"test", "ended"} : Goto(th, label)
        BY <2>8 DEF OpenDevice
      <3>2. PcTypeOK' /\ \A v \in Worker : pc'[v] = IF v = th THEN label ELSE pc[v]
        BY <3>1, GotoType DEF ThreadPcs
      <3>3. captor' \in [Thread -> {"none", "open", "closed"}]
        BY <2>8 DEF OpenDevice
      <3> QED
        BY <2>8, <3>1, <3>2, <3>3 DEF OpenDevice, AddPcs
    <2>2. CASE ReadPacket(th)
      <3>1. PICK label \in {"add", "check"} :
              /\ Goto(th, label)
              /\ label = "add" => \E p \in undelivered : pkt' = [pkt EXCEPT ![th] = p]
              /\ label = "check" => pkt' = pkt
        BY <2>2 DEF ReadPacket
      <3>2. PcTypeOK' /\ \A v \in Worker : pc'[v] = IF v = th THEN label ELSE pc[v]
        BY <3>1, GotoType DEF ThreadPcs, AddPcs
      <3>3. undelivered \subseteq Packet
        BY DEF WindowTypeOK
      <3>4. /\ pkt' \in [Worker -> Packet \cup {NoPacket}]
            /\ \A v \in Worker : v # th => pkt'[v] = pkt[v]
            /\ label = "add" => pkt'[th] \in Packet
        <4>1. CASE label = "add"
          <5>1. PICK p \in Packet : pkt' = [pkt EXCEPT ![th] = p]
            BY <3>1, <3>3, <4>1
          <5>2. pkt \in [Worker -> Packet \cup {NoPacket}] /\ th \in Worker
            OBVIOUS
          <5> QED
            BY ONLY <5>1, <5>2
        <4>2. CASE label = "check"
          BY ONLY <3>1, <4>2, pkt \in [Worker -> Packet \cup {NoPacket}]
        <4> QED
          BY ONLY <3>1, <4>1, <4>2
      <3>5. "check" \notin AddPcs \cup {"post"}
        BY DEF AddPcs
      <3>6. \A v \in Worker : pc'[v] \in AddPcs \cup {"post"} => pkt'[v] \in Packet
        BY <3>1, <3>2, <3>4, <3>5
      <3> QED
        BY <2>2, <3>2, <3>4, <3>6 DEF ReadPacket
    <2> USE DEF PcTypeOK, ThreadPcs, FxPcs, AddPcs, Goto
    <2>9. CASE ReadNothing(th)
      BY <2>9 DEF ReadNothing
    <2>10. CASE ReadTimeout(th)
      BY <2>10 DEF ReadTimeout
    <2>3. CASE PostPacket(th)
      BY <2>3 DEF PostPacket
    <2>4. CASE CheckInterrupt(th)
      BY <2>4 DEF CheckInterrupt
    <2>5. CASE CatchInterrupt(th)
      BY <2>5 DEF CatchInterrupt
    <2>6. CASE Report(th)
      BY <2>6 DEF Report
    <2>7. CASE CloseCaptor(th)
      BY <2>7 DEF CloseCaptor
    <2> QED
      BY <1>1, <1>2, <2>1, <2>2, <2>3, <2>4, <2>5, <2>6, <2>7, <2>8, <2>9, <2>10 DEF CaptureStep
  <1> USE DEF PcTypeOK, ThreadPcs, FxPcs, AddPcs, Goto, threadVars
  <1>3. CASE RunLater \/ SelectDevice \/ StopNothing \/ ResetStats \/ SaveCapture
             \/ ApplyFilters \/ ClearFilters
    BY <1>3 DEF RunLater, SelectDevice, StopNothing, ResetStats, SaveCapture,
                ApplyFilters, ClearFilters, vars
  <1>4. CASE StartCapture
    <2>1. CASE ~deviceSelected
      BY <1>4, <2>1 DEF StartCapture, NewCapture
    <2>2. CASE deviceSelected
      <3>1. stale' \subseteq Worker /\ UNCHANGED <<pkt, reg, intr, captor, late>>
        BY <1>4 DEF StartCapture, NewCapture
      <3>2. PICK th \in Thread : Goto(th, "open")
        BY <1>4, <2>2 DEF StartCapture
      <3>3. PcTypeOK' /\ \A w \in Worker : pc'[w] = IF w = th THEN "open" ELSE pc[w]
        BY <3>2, GotoType
      <3> QED
        BY <3>1, <3>3
    <2> QED
      BY <2>1, <2>2
  <1>5. CASE StopCapture
    BY <1>5 DEF StopCapture
  <1>6. CASE ClearCapture \/ OpenCapture
    <2>1. Goto(Fx, "renew") /\ UNCHANGED <<pkt, reg, intr, captor, late>>
      BY <1>6 DEF ClearCapture, OpenCapture, DropCapture
    <2>2. stale' \subseteq Worker
      BY <1>6 DEF ClearCapture, OpenCapture, DropCapture
    <2> QED
      BY <2>1, <2>2
  <1>7. CASE RenewList \/ ClearStats \/ RelistCleared
    <2>1. PICK label \in {"zero", "relist", "idle"} : Goto(Fx, label)
      BY <1>7 DEF RenewList, ClearStats, RelistCleared
    <2>2. UNCHANGED <<pkt, reg, intr, captor, late>> /\ stale' \subseteq Worker
      <3>1. CASE RenewList
        BY <3>1 DEF RenewList, NewCapture
      <3>2. CASE ClearStats
        BY <3>2 DEF ClearStats
      <3>3. CASE RelistCleared
        BY <3>3 DEF RelistCleared
      <3> QED
        BY <1>7, <3>1, <3>2, <3>3
    <2>3. PcTypeOK' /\ \A v \in Worker : pc'[v] = IF v = Fx THEN label ELSE pc[v]
      BY <2>1, GotoType DEF Worker
    <2> QED
      BY <2>1, <2>2, <2>3
  <1>8. CASE ChooseFile \/ PostLoaded
    <2>1. CASE ChooseFile
      BY <2>1 DEF ChooseFile, CloseDialog, Idle
    <2>2. CASE PostLoaded
      BY <2>2 DEF PostLoaded
    <2> QED
      BY <1>8, <2>1, <2>2
  <1>10. CASE CancelDialog \/ ChooseOther
    BY <1>10 DEF CancelDialog, ChooseOther
  <1>9. CASE ReadObject
    <2>1. Head(rest) \in Packet
      BY <1>9, HeadTailProperties DEF ReadObject, StoreTypeOK
    <2> QED
      BY <1>9, <2>1 DEF ReadObject
  <1> QED
    BY <1>1, <1>2, <1>3, <1>4, <1>5, <1>6, <1>7, <1>8, <1>9, <1>10
    DEF Next, HandlerStep, UserAction

\* Every step keeps the capture, the statistics, the queue and the file of their types.
LEMMA StoreTypeStep ==
  ASSUME SessionTypeOK, ListInv, Next
  PROVE  StoreTypeOK'
PROOF
  <1> USE DEF SessionTypeOK, StoreTypeOK, listVars
  <1>1. ASSUME NEW w \in Worker, AddPacket(w) PROVE StoreTypeOK'
    <2>1. pkt[w] \in Packet /\ reg[w] \in Nat
      BY <1>1 DEF AddPacket, FetchList, WriteSlot, CountPacket, Load, Store,
                  ThreadTypeOK, AddPcs
    <2>2. CASE FetchList(w)
      BY <2>2 DEF FetchList, fxVars, fileVars
    <2>3. CASE WriteSlot(w)
      <3>1. CASE w \in stale
        BY <2>3, <3>1 DEF WriteSlot, AppendToFetched, fxVars, fileVars
      <3>2. CASE w \notin stale /\ reg[w] < Len(slots)
        <4>1. slots' = [slots EXCEPT ![reg[w] + 1] = pkt[w]] /\ size' = reg[w] + 1
          BY <2>3, <3>2 DEF WriteSlot, AppendToFetched
        <4>2. slots' \in Seq(Packet) /\ Len(slots') = Len(slots)
          BY <2>1, <3>2, <4>1, ExceptSeq
        <4> QED
          BY <2>1, <2>3, <3>2, <4>1, <4>2 DEF WriteSlot, fxVars, fileVars
      <3>3. CASE w \notin stale /\ ~(reg[w] < Len(slots))
        <4>1. slots' = Append(slots, pkt[w]) /\ size' = reg[w] + 1
          BY <2>3, <3>3 DEF WriteSlot, AppendToFetched
        <4>2. reg[w] = Len(slots)
          BY <2>1, <2>3, <3>3 DEF WriteSlot, ListInv
        <4>3. slots' \in Seq(Packet) /\ Len(slots') = Len(slots) + 1
          BY <2>1, <4>1, AppendProperties
        <4> QED
          BY <2>1, <2>3, <4>1, <4>2, <4>3 DEF WriteSlot, fxVars, fileVars
      <3> QED
        BY <3>1, <3>2, <3>3
    <2>4. CASE CountPacket(w)
      <3>1. count' \in [Counters -> Nat]
        BY <2>1, <2>4 DEF CountPacket, Load, Store
      <3> QED
        BY <2>4, <3>1 DEF CountPacket, Load, Store, fxVars, fileVars
    <2> QED
      BY <1>1, <2>2, <2>3, <2>4 DEF AddPacket
  <1>2. ASSUME NEW th \in Thread, CaptureStep(th), ~AddPacket(th) PROVE StoreTypeOK'
    <2>1. CASE PostPacket(th)
      <3>1. pkt[th] \in Packet
        BY <2>1 DEF PostPacket, ThreadTypeOK
      <3>2. pending' \in Seq(Packet)
        BY <2>1, <3>1, AppendProperties DEF PostPacket
      <3> QED
        BY <2>1, <3>2 DEF PostPacket, fxVars, fileVars
    <2>2. CASE ~PostPacket(th)
      BY <1>2, <2>2 DEF CaptureStep, OpenDevice, LoopTest, ReadNothing, ReadTimeout,
         ReadPacket, CheckInterrupt, CatchInterrupt, Report, CloseCaptor, fxVars, fileVars
    <2> QED
      BY <2>1, <2>2
  <1>3. CASE RunLater
    <2>1. pending' \in Seq(Packet)
      BY <1>3, HeadTailProperties DEF RunLater
    <2> QED
      BY <1>3, <2>1 DEF RunLater, fileVars
  <1>4. CASE SelectDevice \/ StopCapture \/ StopNothing \/ ResetStats \/ ApplyFilters
             \/ ClearFilters \/ RelistCleared \/ CancelDialog
    BY <1>4 DEF SelectDevice, StopCapture, StopNothing, ResetStats, ApplyFilters,
                ClearFilters, RelistCleared, CancelDialog, fxVars, fileVars, vars
  <1>5. CASE StartCapture \/ RenewList \/ ClearCapture \/ OpenCapture
    <2>1. slots' = <<>> /\ size' = 0 /\ noList' \in BOOLEAN
      BY <1>5 DEF StartCapture, RenewList, ClearCapture, OpenCapture, NewCapture, DropCapture
    <2>2. UNCHANGED <<count, pending, file, rest>>
      BY <1>5 DEF StartCapture, RenewList, ClearCapture, OpenCapture, fxVars, fileVars
    <2>3. slots' \in Seq(Packet) /\ size' \in 0..Len(slots')
      BY <2>1
    <2> QED
      BY <2>1, <2>2, <2>3
  <1>6. CASE ClearStats
    BY <1>6 DEF ClearStats, ZeroStats, fxVars, fileVars
  <1>7. CASE ChooseFile
    BY <1>7 DEF ChooseFile
  <1>8. CASE ReadObject
    <2>1. rest' \in Seq(Packet)
      BY <1>8, HeadTailProperties DEF ReadObject
    <2> QED
      BY <1>8, <2>1 DEF ReadObject
  <1>9. CASE PostLoaded \/ ChooseOther
    <2>1. pending \o Capture \in Seq(Packet)
      BY CaptureType, ConcatProperties
    <2> QED
      BY <1>9, <2>1 DEF PostLoaded, ChooseOther, fileVars
  <1>10. CASE SaveCapture
    BY <1>10, CaptureType DEF SaveCapture
  <1> QED
    BY <1>1, <1>2, <1>3, <1>4, <1>5, <1>6, <1>7, <1>8, <1>9, <1>10
    DEF Next, HandlerStep, UserAction

\* Every step keeps the window's state, the environment and the bounds.
LEMMA WindowTypeStep ==
  ASSUME SessionTypeOK, CaptorInv, Next
  PROVE  WindowTypeOK'
PROOF
  <1> USE DEF SessionTypeOK, WindowTypeOK, windowVars, historyVars, fileVars, fxVars,
              FilterControls, Protocols
  <1>1. ASSUME NEW w \in Worker, AddPacket(w) PROVE WindowTypeOK'
    BY <1>1 DEF AddPacket, FetchList, WriteSlot, CountPacket, Load, Store
  <1>2. ASSUME NEW th \in Thread, CaptureStep(th), ~AddPacket(th) PROVE WindowTypeOK'
    <2>1. CASE CloseCaptor(th)
      <3>1. captor[th] = "open" => reserved >= 1
        <4> SUFFICES ASSUME captor[th] = "open" PROVE reserved >= 1
          OBVIOUS
        <4>1. th \in OpenCaptors
          BY DEF OpenCaptors
        <4>2. Cardinality(OpenCaptors) \in Nat /\ Cardinality(OpenCaptors) # 0
          BY <4>1, FS_CardinalityType, FS_EmptySet DEF CaptorInv
        <4> QED
          BY <4>2 DEF CaptorInv
      <3> QED
        BY <2>1, <3>1 DEF CloseCaptor
    <2>2. CASE OpenDevice(th)
      BY <2>2 DEF OpenDevice
    <2>3. CASE ReadPacket(th)
      BY <2>3 DEF ReadPacket
    <2>4. CASE ~CloseCaptor(th) /\ ~OpenDevice(th) /\ ~ReadPacket(th)
      BY <1>2, <2>4 DEF CaptureStep, LoopTest, ReadNothing, ReadTimeout, PostPacket,
                        CheckInterrupt, CatchInterrupt, Report
    <2> QED
      BY <2>1, <2>2, <2>3, <2>4
  <1>3. CASE RunLater \/ HandlerStep
    <2>1. CASE RelistCleared
      <3>1. filtersOff' \in {FilterControls, filtersOff} /\ dialogs' \in {dialogs, dialogs + 1}
        BY <2>1, Zenon DEF RelistCleared
      <3>2. filtersOff' \subseteq FilterControls /\ dialogs' \in Nat
        BY <3>1
      <3>3. UNCHANGED <<t, startDisabled, deviceSelected, opening, undelivered, reserved,
                        clicks, calm, intact>>
        BY <2>1 DEF RelistCleared
      <3> QED
        BY <3>2, <3>3
    <2> QED
      BY <1>1, <1>3, <2>1 DEF RunLater, HandlerStep, RenewList, ClearStats, ReadObject, PostLoaded
  <1>4. CASE SelectDevice \/ StopCapture \/ StopNothing
    BY <1>4 DEF SelectDevice, StopCapture, StopNothing, vars
  <1>9. CASE CancelDialog \/ ChooseOther \/ ChooseFile
    <2>1. dialogs' \in Nat
      BY <1>9 DEF CancelDialog, ChooseOther, ChooseFile, CloseDialog
    <2> QED
      BY <1>9, <2>1 DEF CancelDialog, ChooseOther, ChooseFile
  <1>c. Click => clicks' \in 0..MaxClicks
    BY DEF Click
  <1>6. CASE ResetStats \/ SaveCapture \/ ApplyFilters
    BY <1>6, <1>c DEF ResetStats, SaveCapture, ApplyFilters
  <1>7. CASE ClearFilters
    <2>1. intact' \in BOOLEAN
      BY <1>7 DEF ClearFilters
    <2> QED
      BY <1>7, <1>c, <2>1 DEF ClearFilters
  <1>8. CASE ClearCapture \/ OpenCapture
    <2>1. calm' \in BOOLEAN /\ intact' \in BOOLEAN
      BY <1>8 DEF ClearCapture, OpenCapture, DropCapture, Settled
    <2> QED
      BY <1>8, <1>c, <2>1 DEF ClearCapture, OpenCapture
  <1>5. CASE StartCapture
    BY <1>5 DEF StartCapture, StartHistory, DisableForCapture, Settled
  <1> QED
    BY <1>1, <1>2, <1>3, <1>4, <1>5, <1>6, <1>7, <1>8, <1>9 DEF Next, UserAction

\* Every step keeps the sizes the threads have read within the list.
LEMMA ListInvStep ==
  ASSUME SessionTypeOK, ListInv, Next
  PROVE  ListInv'
PROOF
  <1> USE DEF ListInv, SessionTypeOK, listVars
  <1> DEFINE Kept == /\ noList' = noList /\ slots' = slots
                     /\ reg' = reg /\ stale' = stale
                     /\ \A w \in Worker : pc'[w] = "write" => pc[w] = "write"
  <1>1. ASSUME Kept, pc'[Fx] = pc[Fx] \/ ~noList PROVE ListInv'
    BY <1>1
  <1>2. ASSUME NEW w \in Worker, AddPacket(w) PROVE ListInv'
    <2>1. CASE FetchList(w)
      <3>1. size <= Len(slots)
        BY DEF StoreTypeOK
      <3>2. noList' => pc'[Fx] = "renew"
        BY <2>1 DEF FetchList, Goto, ThreadTypeOK, PcTypeOK
      <3>3. \A v \in Worker : pc'[v] = "write" =>
              \/ v = w /\ reg'[v] = size
              \/ pc[v] = "write" /\ reg'[v] = reg[v]
        BY <2>1 DEF FetchList, Goto, ThreadTypeOK, PcTypeOK
      <3> QED
        BY <2>1, <3>1, <3>2, <3>3 DEF FetchList
    <2>2. CASE WriteSlot(w)
      BY <2>2 DEF WriteSlot, AppendToFetched, Goto, ThreadTypeOK, PcTypeOK, StoreTypeOK
    <2>3. CASE CountPacket(w)
      <3>1. noList' => pc'[Fx] = "renew"
        BY <2>3 DEF CountPacket, Load, Store, Goto, ThreadTypeOK, PcTypeOK
      <3>2. \A v \in Worker : pc'[v] = "write" => pc[v] = "write" /\ reg'[v] = reg[v]
        BY <2>3 DEF CountPacket, Load, Store, Goto, ThreadTypeOK, PcTypeOK
      <3> QED
        BY <2>3, <3>1, <3>2 DEF CountPacket, Load, Store
    <2> QED
      BY <1>2, <2>1, <2>2, <2>3 DEF AddPacket
  <1>3. ASSUME NEW th \in Thread, CaptureStep(th), ~AddPacket(th) PROVE ListInv'
    <2>1. Kept /\ pc'[Fx] = pc[Fx]
      BY <1>3 DEF CaptureStep, OpenDevice, LoopTest, ReadNothing, ReadTimeout, ReadPacket,
         PostPacket, CheckInterrupt, CatchInterrupt, Report, CloseCaptor, Goto,
         ThreadTypeOK, PcTypeOK
    <2> QED
      BY <1>1, <2>1
  <1>4. CASE RunLater \/ SelectDevice \/ StopCapture \/ StopNothing \/ ResetStats
             \/ SaveCapture \/ ApplyFilters \/ ClearFilters
    BY <1>1, <1>4 DEF RunLater, SelectDevice, StopCapture, StopNothing, ResetStats, SaveCapture,
         ApplyFilters, ClearFilters, threadVars, vars
  <1>5. CASE ClearStats \/ RelistCleared \/ ReadObject \/ PostLoaded \/ CancelDialog
             \/ ChooseOther \/ ChooseFile
    <2>1. Kept /\ ~noList
      BY <1>5 DEF ClearStats, RelistCleared, ReadObject, PostLoaded, CancelDialog, ChooseOther,
         ChooseFile, CloseDialog, Idle, Goto, threadVars, ThreadTypeOK, PcTypeOK
    <2> QED
      BY <1>1, <2>1
  <1>6. CASE StartCapture \/ RenewList
    BY <1>6 DEF StartCapture, RenewList, NewCapture, Goto, ThreadTypeOK, PcTypeOK
  <1>7. CASE ClearCapture \/ OpenCapture
    BY <1>7 DEF ClearCapture, OpenCapture, DropCapture, Goto, ThreadTypeOK, PcTypeOK
  <1> QED
    BY <1>2, <1>3, <1>4, <1>5, <1>6, <1>7 DEF Next, HandlerStep, UserAction

\* Every step keeps at least as many IDs taken as captors are open.
LEMMA CaptorInvStep ==
  ASSUME SessionTypeOK, CaptorInv, Next
  PROVE  CaptorInv'
PROOF
  <1> USE DEF SessionTypeOK
  <1> DEFINE Unborn(th) == pc[th] \in {"unused", "open"}
  <1>1. ASSUME UNCHANGED <<captor, reserved>>,
               \A th \in Thread : Unborn(th)' => Unborn(th)
        PROVE  CaptorInv'
    BY <1>1 DEF CaptorInv, OpenCaptors
  <1>2. ASSUME NEW w \in Worker, AddPacket(w) PROVE CaptorInv'
    BY <1>1, <1>2 DEF AddPacket, FetchList, WriteSlot, CountPacket, Load, Store, Goto,
       ThreadTypeOK, PcTypeOK
  <1>3. ASSUME NEW th \in Thread, OpenDevice(th) PROVE CaptorInv'
    <2>1. captor[th] = "none" /\ th \notin OpenCaptors
      BY <1>3 DEF OpenDevice, CaptorInv, OpenCaptors
    <2>2. \A u \in Thread : Unborn(u)' => Unborn(u) /\ u # th
      BY <1>3 DEF OpenDevice, Goto, ThreadTypeOK, PcTypeOK
    <2>3. CASE UNCHANGED <<captor, reserved>>
      BY <1>1, <2>2, <2>3
    <2>4. CASE reserved' = reserved + 1 /\ captor' = [captor EXCEPT ![th] = "none"]
      <3>1. OpenCaptors' = OpenCaptors
        BY <2>1, <2>4 DEF OpenCaptors, ThreadTypeOK
      <3>2. Cardinality(OpenCaptors) <= reserved'
        BY <2>4, FS_CardinalityType DEF CaptorInv, WindowTypeOK
      <3> QED
        BY <2>2, <2>4, <3>1, <3>2 DEF CaptorInv, ThreadTypeOK
    <2>5. CASE reserved' = reserved + 1 /\ captor' = [captor EXCEPT ![th] = "open"]
      <3>1. OpenCaptors' = OpenCaptors \cup {th}
        BY <2>5 DEF OpenCaptors, ThreadTypeOK
      <3>2. IsFiniteSet(OpenCaptors') /\ Cardinality(OpenCaptors') = Cardinality(OpenCaptors) + 1
        BY <2>1, <3>1, FS_AddElement DEF CaptorInv
      <3>3. Cardinality(OpenCaptors') <= reserved'
        BY <2>5, <3>2, FS_CardinalityType DEF CaptorInv, WindowTypeOK
      <3> QED
        BY <2>2, <2>5, <3>2, <3>3 DEF CaptorInv, ThreadTypeOK
    <2> QED
      BY <1>3, <2>3, <2>4, <2>5 DEF OpenDevice
  <1>4. ASSUME NEW th \in Thread, CloseCaptor(th) PROVE CaptorInv'
    <2>1. \A u \in Thread : Unborn(u)' => Unborn(u) /\ u # th
      BY <1>4 DEF CloseCaptor, Goto, ThreadTypeOK, PcTypeOK
    <2>2. CASE captor[th] # "open"
      BY <1>1, <1>4, <2>1, <2>2 DEF CloseCaptor
    <2>3. CASE captor[th] = "open"
      <3>1. captor' = [captor EXCEPT ![th] = "closed"] /\ reserved' = reserved - 1
        BY <1>4, <2>3 DEF CloseCaptor
      <3>2. OpenCaptors' = OpenCaptors \ {th} /\ th \in OpenCaptors
        BY <2>3, <3>1 DEF OpenCaptors, ThreadTypeOK
      <3>3. IsFiniteSet(OpenCaptors') /\ Cardinality(OpenCaptors') = Cardinality(OpenCaptors) - 1
        BY <3>2, FS_RemoveElement DEF CaptorInv
      <3>4. Cardinality(OpenCaptors') <= reserved'
        BY <3>1, <3>3, FS_CardinalityType DEF CaptorInv, WindowTypeOK
      <3> QED
        BY <2>1, <3>1, <3>3, <3>4 DEF CaptorInv, ThreadTypeOK
    <2> QED
      BY <2>2, <2>3
  <1>5. ASSUME NEW th \in Thread, CaptureStep(th), ~AddPacket(th), ~OpenDevice(th),
               ~CloseCaptor(th)
        PROVE  CaptorInv'
    BY <1>1, <1>5 DEF CaptureStep, LoopTest, ReadNothing, ReadTimeout, ReadPacket, PostPacket,
       CheckInterrupt, CatchInterrupt, Report, Goto, ThreadTypeOK, PcTypeOK
  <1>6. CASE RunLater \/ SelectDevice \/ StopCapture \/ StopNothing \/ ResetStats
             \/ SaveCapture \/ ApplyFilters \/ ClearFilters
    BY <1>1, <1>6 DEF RunLater, SelectDevice, StopCapture, StopNothing, ResetStats, SaveCapture,
         ApplyFilters, ClearFilters, threadVars, vars
  <1>7. CASE RenewList \/ ClearStats \/ RelistCleared \/ ReadObject \/ PostLoaded
             \/ CancelDialog \/ ChooseOther \/ ChooseFile
    BY <1>1, <1>7 DEF RenewList, ClearStats, RelistCleared, ReadObject, PostLoaded, CancelDialog, ChooseOther,
         ChooseFile, CloseDialog, Idle, threadVars, Goto, ThreadTypeOK, PcTypeOK
  <1>8. CASE StartCapture \/ ClearCapture \/ OpenCapture
    BY <1>1, <1>8 DEF StartCapture, ClearCapture, OpenCapture, DropCapture, Goto, ThreadTypeOK,
         PcTypeOK
  <1> QED
    BY <1>2, <1>3, <1>4, <1>5, <1>6, <1>7, <1>8 DEF Next, HandlerStep, UserAction

-----------------------------------------------------------------------------
(* Start, Stop and the threads.                                            *)

\* What a step of a capture thread does to Running: nothing begins to run, and
\* nothing but the thread itself is touched.
LEMMA CaptureStepRunning ==
  ASSUME SessionTypeOK, NEW th \in Thread, CaptureStep(th)
  PROVE  /\ \A u \in Thread : Running(u)' => Running(u)
         /\ \A u \in Thread : u # th => pc'[u] = pc[u] /\ intr'[u] = intr[u]
         /\ Alive(th) /\ pc'[th] # "unused"
         /\ UNCHANGED <<pc[Fx], fxVars>>
PROOF
  <1> USE DEF SessionTypeOK, ThreadTypeOK, PcTypeOK, Running, Alive, Goto
  <1>1. CASE AddPacket(th)
    BY <1>1 DEF AddPacket, FetchList, WriteSlot, CountPacket, Load, Store
  <1>2. CASE CheckInterrupt(th)
    BY <1>2 DEF CheckInterrupt
  <1>3. CASE CatchInterrupt(th)
    BY <1>3 DEF CatchInterrupt
  <1>4. CASE OpenDevice(th) \/ LoopTest(th) \/ ReadNothing(th) \/ ReadTimeout(th)
    BY <1>4 DEF OpenDevice, LoopTest, ReadNothing, ReadTimeout
  <1>5. CASE ReadPacket(th)
    BY <1>5 DEF ReadPacket
  <1>6. CASE PostPacket(th) \/ Report(th) \/ CloseCaptor(th)
    BY <1>6 DEF PostPacket, Report, CloseCaptor
  <1> QED
    BY <1>1, <1>2, <1>3, <1>4, <1>5, <1>6 DEF CaptureStep

\* A handler that goes on by itself, and the user's actions but Start and Stop, leave
\* the capture threads and the buttons alone.
LEMMA OtherStep ==
  ASSUME SessionTypeOK,
         RunLater \/ HandlerStep \/ (UserAction /\ ~StartCapture /\ ~StopCapture)
  PROVE  /\ \A th \in Thread : pc'[th] = pc[th] /\ late'[th] = late[th]
         /\ UNCHANGED <<intr, t, startDisabled>>
PROOF
  <1> USE DEF SessionTypeOK, ThreadTypeOK, PcTypeOK, Goto, threadVars, fxVars, windowVars
  <1>1. CASE RunLater
    BY <1>1 DEF RunLater
  <1>2. CASE AddPacket(Fx)
    BY <1>2 DEF AddPacket, FetchList, WriteSlot, CountPacket, Load, Store
  <1>3. CASE HandlerStep /\ ~AddPacket(Fx)
    BY <1>3 DEF HandlerStep, RenewList, ClearStats, RelistCleared, ReadObject, PostLoaded
  <1>4. CASE ClearCapture \/ OpenCapture
    BY <1>4 DEF ClearCapture, OpenCapture, DropCapture
  <1>5. CASE CancelDialog \/ ChooseOther \/ ChooseFile
    BY <1>5 DEF CancelDialog, ChooseOther, ChooseFile, CloseDialog
  <1>6. CASE SelectDevice \/ StopNothing \/ ResetStats \/ SaveCapture \/ ApplyFilters
             \/ ClearFilters
    BY <1>6 DEF SelectDevice, StopNothing, ResetStats, SaveCapture, ApplyFilters,
                ClearFilters, vars
  <1> QED
    BY <1>1, <1>2, <1>3, <1>4, <1>5, <1>6 DEF UserAction

\* Clear begins while it is enabled, and nothing disables it before it is done.
LEMMA ClearingStep ==
  ASSUME SessionTypeOK, RunLater \/ HandlerStep \/ (UserAction /\ ~StartCapture /\ ~StopCapture),
         pc'[Fx] \in {"renew", "zero", "relist"}, ~opening'
  PROVE  (pc[Fx] \in {"renew", "zero", "relist"} /\ ~opening) \/ ~startDisabled
PROOF
  <1> USE DEF SessionTypeOK, ThreadTypeOK, PcTypeOK, Goto, Idle
  <1>1. CASE RunLater
    BY <1>1 DEF RunLater, threadVars, fileVars
  <1>2. CASE AddPacket(Fx)
    BY <1>2 DEF AddPacket, FetchList, WriteSlot, CountPacket, Load, Store
  <1>3. CASE HandlerStep /\ ~AddPacket(Fx)
    BY <1>3 DEF HandlerStep, RenewList, ClearStats, RelistCleared, ReadObject, PostLoaded,
                fxVars, fileVars
  <1>4. CASE ClearCapture \/ OpenCapture
    BY <1>4 DEF ClearCapture, OpenCapture
  <1>5. CASE CancelDialog \/ ChooseOther \/ ChooseFile
    BY <1>5 DEF CancelDialog, ChooseOther, ChooseFile, CloseDialog, threadVars
  <1>6. CASE SelectDevice \/ StopNothing \/ ResetStats \/ SaveCapture \/ ApplyFilters
             \/ ClearFilters
    BY <1>6 DEF SelectDevice, StopNothing, ResetStats, SaveCapture, ApplyFilters,
                ClearFilters, Click, vars, threadVars, fxVars, fileVars
  <1> QED
    BY <1>1, <1>2, <1>3, <1>4, <1>5, <1>6 DEF UserAction

\* Only t can be running, and only while Start and Clear are disabled.
LEMMA StopInvStep ==
  ASSUME SessionTypeOK, StopInv, Next
  PROVE  StopInv'
PROOF
  <1> USE DEF SessionTypeOK, StopInv
  <1>1. ASSUME NEW th \in Thread, CaptureStep(th) PROVE StopInv'
    <2>1. UNCHANGED <<t, startDisabled, opening, pc[Fx]>>
      BY <1>1, CaptureStepRunning DEF fxVars, windowVars, fileVars
    <2> QED
      BY <1>1, <2>1, CaptureStepRunning DEF Alive, WindowTypeOK
  <1>2. CASE RunLater \/ HandlerStep \/ (UserAction /\ ~StartCapture /\ ~StopCapture)
    BY <1>2, OtherStep, ClearingStep DEF Running, Alive, WindowTypeOK
  <1>3. CASE StartCapture
    <2>1. UNCHANGED intr /\ startDisabled' /\ ~startDisabled
      BY <1>3 DEF StartCapture, DisableForCapture
    <2> pc'[Fx] = "idle"
      BY <1>3 DEF StartCapture, Idle, Goto, ThreadTypeOK, PcTypeOK
    <2>2. CASE deviceSelected
      <3>1. PICK th \in Thread : pc[th] = "unused" /\ t' = th /\ Goto(th, "open")
        BY <1>3, <2>2 DEF StartCapture
      <3>2. \A u \in Thread : u # th => pc'[u] = pc[u]
        BY <3>1 DEF Goto, ThreadTypeOK, PcTypeOK
      <3>3. pc'[th] = "open"
        BY <3>1 DEF Goto, ThreadTypeOK, PcTypeOK
      <3> QED
        BY <2>1, <3>1, <3>2, <3>3 DEF Running, Alive
    <2>3. CASE ~deviceSelected
      <3>1. UNCHANGED <<t, pc>>
        BY <1>3, <2>3 DEF StartCapture
      <3> QED
        BY <2>1, <3>1 DEF Running, Alive
    <2> QED
      BY <2>2, <2>3
  <1>4. CASE StopCapture
    <2>1. t \in Thread /\ intr' = [intr EXCEPT ![t] = TRUE] /\ UNCHANGED <<pc, t>>
      BY <1>4 DEF StopCapture, WindowTypeOK
    <2>2. \A th \in Thread : ~Running(th)'
      BY <2>1 DEF Running, Alive, ThreadTypeOK
    <2>3. \A th \in Thread : pc'[th] = "unused" => ~intr'[th]
      BY <2>1 DEF ThreadTypeOK
    <2>4. pc'[Fx] = "idle"
      BY <1>4, <2>1 DEF StopCapture, Idle
    <2> QED
      BY <2>1, <2>2, <2>3, <2>4
  <1> QED
    BY <1>1, <1>2, <1>3, <1>4 DEF Next

\* A stopped thread that stored a packet is on its way out.
LEMMA LateInvStep ==
  ASSUME SessionTypeOK, LateInv, Next
  PROVE  LateInv'
PROOF
  <1> USE DEF SessionTypeOK, LateInv, ThreadTypeOK, PcTypeOK, Goto
  <1>1. ASSUME NEW th \in Thread, CaptureStep(th) PROVE LateInv'
    <2>1. CASE WriteSlot(th)
      <3>1. late[th] = 0
        BY <2>1 DEF WriteSlot
      <3> QED
        BY <2>1, <3>1 DEF WriteSlot
    <2>2. CASE FetchList(th) \/ CountPacket(th)
      BY <2>2 DEF FetchList, CountPacket, Load, Store
    <2>3. CASE CheckInterrupt(th)
      BY <2>3 DEF CheckInterrupt
    <2>4. CASE CatchInterrupt(th)
      BY <2>4 DEF CatchInterrupt
    <2>5. CASE LoopTest(th)
      BY <2>5 DEF LoopTest
    <2>6. CASE OpenDevice(th) \/ ReadNothing(th) \/ ReadTimeout(th)
      BY <2>6 DEF OpenDevice, ReadNothing, ReadTimeout
    <2>7. CASE ReadPacket(th)
      BY <2>7, ZenonT(40) DEF ReadPacket
    <2>8. CASE PostPacket(th) \/ Report(th) \/ CloseCaptor(th)
      BY <2>8 DEF PostPacket, Report, CloseCaptor
    <2> QED
      BY <1>1, <2>1, <2>2, <2>3, <2>4, <2>5, <2>6, <2>7, <2>8 DEF CaptureStep, AddPacket
  <1>2. CASE RunLater \/ HandlerStep \/ (UserAction /\ ~StartCapture /\ ~StopCapture)
    BY <1>2, OtherStep
  <1>3. CASE StartCapture
    BY <1>3 DEF StartCapture
  <1>4. CASE StopCapture
    BY <1>4 DEF StopCapture
  <1> QED
    BY <1>1, <1>2, <1>3, <1>4 DEF Next

\* With calm use a single thread is at work.
LEMMA CalmInvStep ==
  ASSUME SessionTypeOK, CalmInv, Next
  PROVE  CalmInv'
PROOF
  <1> USE DEF SessionTypeOK, CalmInv, Idle
  <1>1. ASSUME NEW th \in Thread, CaptureStep(th) PROVE CalmInv'
    BY <1>1, CaptureStepRunning DEF fxVars, historyVars, fileVars, Alive
  <1>2. CASE RunLater \/ SelectDevice \/ StopCapture \/ StopNothing \/ ResetStats
             \/ SaveCapture \/ ApplyFilters \/ ClearFilters
    <2>1. UNCHANGED pc
      BY <1>2 DEF RunLater, SelectDevice, StopCapture, StopNothing, ResetStats, SaveCapture,
         ApplyFilters, ClearFilters, threadVars, vars
    <2>2. UNCHANGED <<calm, dialogs>>
      BY <1>2 DEF RunLater, SelectDevice, StopCapture, StopNothing, ResetStats, SaveCapture,
         ApplyFilters, ClearFilters, historyVars, fileVars, fxVars, vars
    <2> QED
      BY <2>1, <2>2 DEF Alive
  <1>3. CASE HandlerStep \/ CancelDialog \/ ChooseOther \/ ChooseFile
    <2>1. calm' = calm /\ \A th \in Thread : pc'[th] = pc[th]
      <3>1. \A th \in Thread : pc'[th] = pc[th]
        <4>1. CASE HandlerStep
          BY <4>1, OtherStep
        <4>2. CASE CancelDialog \/ ChooseOther
          BY <4>2 DEF CancelDialog, ChooseOther, threadVars
        <4>3. CASE ChooseFile
          BY <4>3 DEF ChooseFile, Goto, ThreadTypeOK, PcTypeOK
        <4> QED
          BY <1>3, <4>1, <4>2, <4>3
      <3>2. calm' = calm
        BY <1>3 DEF HandlerStep, CancelDialog, ChooseOther, ChooseFile, CloseDialog, RenewList,
           ClearStats,
           RelistCleared, ReadObject, PostLoaded, AddPacket, FetchList, WriteSlot,
           CountPacket, Load, Store, fxVars, historyVars
      <3> QED
        BY <3>1, <3>2
    <2>2. pc[Fx] # "idle" \/ dialogs # 0
      BY <1>3 DEF HandlerStep, CancelDialog, ChooseOther, ChooseFile, CloseDialog, RenewList,
           ClearStats,
         RelistCleared, ReadObject, PostLoaded, AddPacket, FetchList, WriteSlot,
         CountPacket, Load, Store
    <2> QED
      BY <2>1, <2>2 DEF Alive
  <1>4. CASE StartCapture
    <2>1. calm' => \A th \in Thread : ~Alive(th)
      BY <1>4 DEF StartCapture, StartHistory, Settled
    <2>2. \/ UNCHANGED pc
          \/ \E th \in Thread : pc' = [pc EXCEPT ![th] = "open"]
      BY <1>4 DEF StartCapture, Goto
    <2>3. pc[Fx] = "idle" /\ pc'[Fx] = "idle"
      BY <1>4, <2>2 DEF StartCapture, ThreadTypeOK, PcTypeOK
    <2>4. calm' => dialogs' = 0
      BY <1>4 DEF StartCapture, StartHistory, Settled, fileVars
    <2> QED
      BY <2>1, <2>2, <2>3, <2>4 DEF Alive, ThreadTypeOK, PcTypeOK
  <1>5. CASE ClearCapture \/ OpenCapture
    <2>1. calm' => \A th \in Thread : ~Alive(th)
      BY <1>5 DEF ClearCapture, OpenCapture, DropCapture, Settled
    <2>2. \A th \in Thread : pc'[th] = pc[th]
      BY <1>5 DEF ClearCapture, OpenCapture, DropCapture, Goto, ThreadTypeOK, PcTypeOK
    <2> QED
      BY <2>1, <2>2 DEF Alive
  <1> QED
    BY <1>1, <1>2, <1>3, <1>4, <1>5 DEF Next, UserAction

-----------------------------------------------------------------------------
(* The invariant behind Start, Stop, Clear and Open, and what follows.     *)

CoreInv == SessionTypeOK /\ ListInv /\ CaptorInv /\ StopInv /\ LateInv /\ CalmInv

\* The window as initialize leaves it satisfies the invariant.
LEMMA InitCore == Init => CoreInv
PROOF
  <1> SUFFICES ASSUME Init PROVE CoreInv
    OBVIOUS
  <1> USE DEF Init
  <1>1. ThreadTypeOK
    BY DEF ThreadTypeOK, PcTypeOK, ThreadPcs, FxPcs, AddPcs
  <1>2. StoreTypeOK
    <2>1. <<>> \in Seq(Packet) /\ Len(<<>>) = 0
      BY EmptySeq
    <2>2. slots \in Seq(Packet) /\ pending \in Seq(Packet) /\ rest \in Seq(Packet)
      BY <2>1
    <2>3. size \in 0..Len(slots)
      BY <2>1
    <2>4. file \in Seq(Packet) \cup {NoFile}
      OBVIOUS
    <2>5. noList \in BOOLEAN /\ count \in [Counters -> Nat]
      OBVIOUS
    <2> QED
      BY <2>2, <2>3, <2>4, <2>5 DEF StoreTypeOK
  <1>3. WindowTypeOK
    <2>1. reserved \in 0..MaxInstances /\ clicks \in 0..MaxClicks
      OBVIOUS
    <2> QED
      BY <2>1 DEF WindowTypeOK
  <1>4. ListInv /\ LateInv
    BY DEF ListInv, LateInv
  <1>5. CaptorInv
    <2>1. OpenCaptors = {}
      BY DEF OpenCaptors
    <2> QED
      BY <2>1, FS_EmptySet DEF CaptorInv
  <1>6. StopInv /\ CalmInv
    BY DEF StopInv, CalmInv, Running, Alive, Idle
  <1> QED
    BY <1>1, <1>2, <1>3, <1>4, <1>5, <1>6 DEF CoreInv, SessionTypeOK

\* Every handler and every step of a capture thread preserves it.
LEMMA NextCore == CoreInv /\ [Next]_vars => CoreInv'
PROOF
  <1> SUFFICES ASSUME CoreInv, [Next]_vars PROVE CoreInv'
    OBVIOUS
  <1> USE DEF CoreInv
  <1>1. CASE Next
    BY <1>1, ThreadTypeStep, StoreTypeStep, WindowTypeStep, ListInvStep, CaptorInvStep,
       StopInvStep, LateInvStep, CalmInvStep DEF SessionTypeOK
  <1>2. CASE UNCHANGED vars
    BY <1>2 DEF vars, threadVars, fxVars, windowVars, consoleVars, fileVars, listVars,
       historyVars, SessionTypeOK, ThreadTypeOK, PcTypeOK, StoreTypeOK, WindowTypeOK,
       ListInv, CaptorInv, OpenCaptors, StopInv, LateInv, CalmInv, Running, Alive, Idle
  <1> QED
    BY <1>1, <1>2

\* However the buttons are used, two captures never run at once (startCapture,
\* stopCapture, and the catch that restores the interrupt flag).
THEOREM AtMostOneRunning == Spec => []OneRunning
PROOF
  <1>1. CoreInv => OneRunning
    BY DEF CoreInv, StopInv, OneRunning
  <1> QED
    BY <1>1, InitCore, NextCore, PTL DEF Spec

\* A stopped capture stores one packet more at most (capturePackets).
THEOREM AtMostOneLate == Spec => []LateAtMostOne
PROOF
  <1>1. CoreInv => LateAtMostOne
    BY DEF CoreInv, LateInv, LateAtMostOne
  <1> QED
    BY <1>1, InitCore, NextCore, PTL DEF Spec

\* Clear meets no capture that nobody stopped: a running one disables the button, and
\* no other handler runs until Clear is done (startCapture, clearCapture).
THEOREM ClearSparesRunningHolds == Spec => []ClearSparesRunning
PROOF
  <1>1. CoreInv => ClearSparesRunning
    BY DEF CoreInv, StopInv, ClearSparesRunning
  <1> QED
    BY <1>1, InitCore, NextCore, PTL DEF Spec

-----------------------------------------------------------------------------
(* The capture threads implement CaptureLifecycle.                         *)

\* What may become of one thread, for the abstract specification.
LEMMA PhaseOfNext ==
  ASSUME CoreInv, [Next]_vars
  PROVE  [Lifecycle!Next]_<<[th \in Thread |-> Phase(th)], late>>
PROOF
  <1> USE DEF CoreInv, SessionTypeOK
  <1> DEFINE phase == [th \in Thread |-> Phase(th)]
  <1>1. CoreInv'
    BY NextCore
  <1>2. ASSUME NEW th \in Thread, CaptureStep(th)
        PROVE  [Lifecycle!Next]_<<phase, late>>
    <2>1. \A u \in Thread : u # th => Phase(u)' = Phase(u)
      BY <1>2, CaptureStepRunning DEF Phase, Running, Alive
    <2>2. \/ Phase(th) = "running"
          \/ Phase(th) = "stopped" /\ Phase(th)' # "running"
      BY <1>2, CaptureStepRunning DEF Phase, Alive
    <2>3. Phase(th)' \in {"running", "stopped", "over"}
      BY <1>2, CaptureStepRunning DEF Phase
    <2>4. CASE ~WriteSlot(th) \/ ~intr[th]
      <3>1. late' = late
        BY <1>2, <2>4 DEF CaptureStep, OpenDevice, LoopTest, ReadNothing, ReadTimeout,
           ReadPacket, PostPacket, CheckInterrupt, CatchInterrupt, Report, CloseCaptor,
           AddPacket, FetchList, WriteSlot, CountPacket, Load, Store, ThreadTypeOK
      <3>2. CASE Phase(th)' = Phase(th)
        BY <2>1, <3>1, <3>2
      <3>3. CASE Phase(th)' = "over" /\ Phase(th) # "over"
        <4>1. phase' = [phase EXCEPT ![th] = "over"]
          BY <2>1, <3>3
        <4> QED
          BY <2>2, <3>1, <4>1 DEF Lifecycle!Next, Lifecycle!Finish
      <3>4. CASE Phase(th)' = "stopped" /\ Phase(th) = "running"
        <4>1. phase' = [phase EXCEPT ![th] = "stopped"]
          BY <2>1, <3>4
        <4> QED
          BY <3>1, <3>4, <4>1 DEF Lifecycle!Next, Lifecycle!Stop
      <3> QED
        BY <2>2, <2>3, <3>2, <3>3, <3>4
    <2>5. CASE WriteSlot(th) /\ intr[th]
      <3>1. late[th] = 0
        BY <2>5 DEF WriteSlot, LateInv
      <3>2. late' = [late EXCEPT ![th] = 1]
        <4>1. late' = [u \in Thread |-> IF u = th THEN 1 ELSE late[u]]
          BY <2>5, <3>1 DEF WriteSlot
        <4> QED
          BY <4>1 DEF ThreadTypeOK
      <3>3. Phase(th) = "stopped" /\ Phase(th)' = "stopped"
        BY <2>5 DEF WriteSlot, Goto, Phase, Running, Alive, ThreadTypeOK, PcTypeOK
      <3>4. phase' = phase
        BY <2>1, <3>3
      <3> QED
        BY <3>1, <3>2, <3>3, <3>4 DEF Lifecycle!Next, Lifecycle!StoreExtra
    <2> QED
      BY <2>4, <2>5
  <1>3. CASE RunLater \/ HandlerStep \/ (UserAction /\ ~StartCapture /\ ~StopCapture)
    <2>1. late' = late
      BY <1>1, <1>3, OtherStep, SMTT(40) DEF ThreadTypeOK
    <2>2. \A th \in Thread : Phase(th)' = Phase(th)
      BY <1>3, OtherStep DEF Phase, Running, Alive
    <2> QED
      BY <2>1, <2>2
  <1>4. CASE StartCapture
    <2>1. UNCHANGED <<intr, late>> /\ ~startDisabled
      BY <1>4 DEF StartCapture
    <2>2. \A th \in Thread : Phase(th) # "running"
      BY <2>1 DEF StopInv, Phase
    <2>3. CASE UNCHANGED pc
      BY <2>1, <2>3 DEF Phase, Running, Alive
    <2>4. ASSUME NEW th \in Thread, pc[th] = "unused", Goto(th, "open")
          PROVE  Lifecycle!Next
      <3>1. Phase(th) = "new"
        BY <2>4 DEF Phase, Running, Alive
      <3>2. Phase(th)' = "running"
        BY <2>1, <2>4 DEF Phase, Running, Alive, Goto, StopInv, ThreadTypeOK, PcTypeOK
      <3>3. \A u \in Thread : u # th => Phase(u)' = Phase(u)
        BY <2>1, <2>4 DEF Phase, Running, Alive, Goto, ThreadTypeOK, PcTypeOK
      <3>4. phase' = [phase EXCEPT ![th] = "running"]
        BY <3>2, <3>3
      <3> QED
        BY <2>1, <2>2, <3>1, <3>4 DEF Lifecycle!Next, Lifecycle!Begin
    <2> QED
      BY <1>4, <2>3, <2>4 DEF StartCapture
  <1>5. CASE StopCapture
    <2>1. PICK th \in Thread : intr' = [intr EXCEPT ![th] = TRUE]
      BY <1>5 DEF StopCapture, WindowTypeOK
    <2>2. UNCHANGED <<pc, late>>
      BY <1>5 DEF StopCapture
    <2>3. \A u \in Thread : u # th => Phase(u)' = Phase(u)
      BY <2>1, <2>2 DEF Phase, Running, Alive, ThreadTypeOK
    <2>4. CASE Phase(th) = "running"
      <3>1. Phase(th)' = "stopped"
        BY <2>1, <2>2, <2>4 DEF Phase, Running, Alive, ThreadTypeOK
      <3>2. phase' = [phase EXCEPT ![th] = "stopped"]
        BY <2>3, <3>1
      <3> QED
        BY <2>2, <2>4, <3>2 DEF Lifecycle!Next, Lifecycle!Stop
    <2>5. CASE Phase(th) # "running"
      <3>1. Phase(th)' = Phase(th)
        BY <2>1, <2>2, <2>5 DEF Phase, Running, Alive, ThreadTypeOK
      <3> QED
        BY <2>2, <2>3, <3>1
    <2> QED
      BY <2>4, <2>5
  <1>6. CASE UNCHANGED vars
    BY <1>6 DEF vars, threadVars, Phase, Running, Alive
  <1> QED
    BY <1>2, <1>3, <1>4, <1>5, <1>6 DEF Next

\* The threads and buttons of the window keep the promises of CaptureLifecycle.
THEOREM ImplementsLifecycle == Spec => LifecycleSpec
PROOF
  <1>1. Init => Lifecycle!Init
    BY DEF Init, Lifecycle!Init, Phase, Running, Alive
  <1>2. CoreInv /\ [Next]_vars => [Lifecycle!Next]_<<[th \in Thread |-> Phase(th)], late>>
    BY PhaseOfNext
  <1> QED
    BY <1>1, <1>2, InitCore, NextCore, PTL DEF Spec, LifecycleSpec, Lifecycle!Spec

-----------------------------------------------------------------------------
(* The books: the list, the statistics and the file that is read.          *)

\* Between fetching the list and having counted the packet in the total.
BookPcs == {"write", "countLoad", "countStore", "totalLoad", "totalStore"}

\* With calm use one thread at a time is neither before nor after its work.
LEMMA OneAtWork ==
  ASSUME CoreInv, calm, NEW a \in Worker, NEW b \in Worker,
         pc[a] \notin {"unused", "ended", "idle"},
         pc[b] \notin {"unused", "ended", "idle"}
  PROVE  a = b
PROOF
  BY DEF CoreInv, CalmInv, Alive, Idle

\* The list, the statistics and the packets that are being counted stay as they are.
BooksKept ==
  /\ UNCHANGED <<noList, slots, size, stale, count>>
  /\ pc'[Fx] \in {"renew", "zero"} <=> pc[Fx] \in {"renew", "zero"}
  /\ \A w \in Worker : \/ pc'[w] \notin BookPcs /\ pc[w] \notin BookPcs
                       \/ pc'[w] = pc[w] /\ pkt'[w] = pkt[w] /\ reg'[w] = reg[w]

\* Only addPacket and what replaces or clears the capture touches the books.
LEMMA QuietStep ==
  ASSUME SessionTypeOK, Next, \A w \in Worker : ~AddPacket(w),
         ~StartCapture, ~ClearCapture, ~OpenCapture, ~RenewList, ~ClearStats
  PROVE  BooksKept
PROOF
  <1> USE DEF SessionTypeOK, ThreadTypeOK, PcTypeOK, Goto, BooksKept, BookPcs, listVars, threadVars
  <1>1. ASSUME NEW th \in Thread, CaptureStep(th) PROVE BooksKept
    <2>1. CASE ReadPacket(th)
      BY <2>1 DEF ReadPacket
    <2>2. CASE PostPacket(th)
      BY <2>2 DEF PostPacket
    <2>3. CASE OpenDevice(th) \/ LoopTest(th) \/ ReadNothing(th) \/ ReadTimeout(th)
               \/ CheckInterrupt(th) \/ CatchInterrupt(th) \/ Report(th) \/ CloseCaptor(th)
      BY <2>3 DEF OpenDevice, LoopTest, ReadNothing, ReadTimeout, CheckInterrupt,
         CatchInterrupt, Report, CloseCaptor
    <2> QED
      BY <1>1, <2>1, <2>2, <2>3 DEF CaptureStep
  <1>2. CASE RunLater \/ SelectDevice \/ StopNothing \/ ResetStats \/ SaveCapture
             \/ ApplyFilters \/ ClearFilters \/ CancelDialog \/ ChooseOther
    BY <1>2 DEF RunLater, SelectDevice, StopNothing, ResetStats, SaveCapture,
       ApplyFilters, ClearFilters, CancelDialog, ChooseOther, vars
  <1>3. CASE StopCapture
    BY <1>3 DEF StopCapture
  <1>4. CASE ChooseFile
    BY <1>4 DEF ChooseFile, CloseDialog, Idle
  <1>5. CASE RelistCleared
    BY <1>5 DEF RelistCleared
  <1>6. CASE ReadObject
    BY <1>6 DEF ReadObject
  <1>7. CASE PostLoaded
    BY <1>7 DEF PostLoaded
  <1> QED
    BY <1>1, <1>2, <1>3, <1>4, <1>5, <1>6, <1>7 DEF Next, HandlerStep, UserAction

\* With calm use addPacket does to the list and the statistics what it would do alone.
LEMMA AddStep ==
  ASSUME CoreInv, LoadedInv, calm, NEW w \in Worker, AddPacket(w)
  PROVE  /\ calm' /\ ~noList /\ UNCHANGED noList /\ stale' = {} /\ pkt[w] \in Packet
         /\ UNCHANGED <<pkt, pending, fxVars>>
         /\ \A v \in Worker : v # w =>
              pc[v] \in {"unused", "ended", "idle"} /\ pc'[v] = pc[v]
         /\ \/ /\ pc[w] = "add" /\ pc'[w] = "write" /\ reg'[w] = size
               /\ UNCHANGED <<slots, size, count>>
            \/ /\ pc[w] = "write" /\ pc'[w] = "countLoad"
               /\ slots' = Append(slots, pkt[w]) /\ size' = size + 1
               /\ UNCHANGED count
            \/ /\ pc[w] = "countLoad" /\ pc'[w] = "countStore"
               /\ reg'[w] = count[CounterOf(pkt[w])]
               /\ UNCHANGED <<slots, size, count>>
            \/ /\ pc[w] = "countStore" /\ pc'[w] = "totalLoad"
               /\ count' = [count EXCEPT ![CounterOf(pkt[w])] = @ + 1]
               /\ UNCHANGED <<slots, size>>
            \/ /\ pc[w] = "totalLoad" /\ pc'[w] = "totalStore"
               /\ reg'[w] = count["total"]
               /\ UNCHANGED <<slots, size, count>>
            \/ /\ pc[w] = "totalStore" /\ pc'[w] = IF w = Fx THEN "reading" ELSE "post"
               /\ count' = [count EXCEPT !["total"] = @ + 1]
               /\ UNCHANGED <<slots, size>>
PROOF
  <1> USE DEF CoreInv, SessionTypeOK, ThreadTypeOK, PcTypeOK, Goto, listVars
  <1>1. pc[w] \in AddPcs
    BY DEF AddPacket, FetchList, WriteSlot, CountPacket, Load, Store, AddPcs
  <1>2. pkt[w] \in Packet
    BY <1>1
  <1>3. \A v \in Worker : v # w => pc[v] \in {"unused", "ended", "idle"}
    BY <1>1, OneAtWork DEF AddPcs
  <1>4. ~noList
    BY <1>1, <1>3 DEF ListInv, AddPcs
  <1>5. \E label : Goto(w, label)
    BY <1>4 DEF AddPacket, FetchList, WriteSlot, CountPacket, Load, Store
  <1>6. \A v \in Worker : v # w => pc'[v] = pc[v]
    BY <1>5
  <1>7. stale = {} /\ size = Len(slots)
    BY DEF LoadedInv
  <1>8. UNCHANGED <<calm, noList, pkt, pending, fxVars>> /\ stale' = {}
    BY <1>4, <1>7 DEF AddPacket, FetchList, WriteSlot, CountPacket, Load, Store, fxVars, historyVars
  <1>9. CASE FetchList(w)
    BY <1>2, <1>3, <1>4, <1>6, <1>8, <1>9 DEF FetchList
  <1>10. CASE WriteSlot(w)
    <2>1. reg[w] = size /\ pc[w] = "write"
      BY <1>10 DEF LoadedInv, WriteSlot
    <2>2. slots' = Append(slots, pkt[w]) /\ size' = size + 1
      BY <1>7, <1>10, <2>1 DEF WriteSlot, AppendToFetched, StoreTypeOK
    <2>3. pc'[w] = "countLoad" /\ UNCHANGED count
      BY <1>10 DEF WriteSlot
    <2> QED
      BY <1>2, <1>3, <1>4, <1>6, <1>8, <2>1, <2>2, <2>3
  <1>11. CASE CountPacket(w)
    <2>1. CASE Load(w, "countLoad", CounterOf(pkt[w]), "countStore")
      BY <1>2, <1>3, <1>4, <1>6, <1>8, <2>1 DEF Load
    <2>2. CASE Store(w, "countStore", CounterOf(pkt[w]), "totalLoad")
      <3>1. count' = [count EXCEPT ![CounterOf(pkt[w])] = @ + 1]
        BY <2>2 DEF Store, LoadedInv
      <3> QED
        BY <1>2, <1>3, <1>4, <1>6, <1>8, <2>2, <3>1 DEF Store
    <2>3. CASE Load(w, "totalLoad", "total", "totalStore")
      BY <1>2, <1>3, <1>4, <1>6, <1>8, <2>3 DEF Load
    <2>4. CASE Store(w, "totalStore", "total", IF w = Fx THEN "reading" ELSE "post")
      <3>1. count' = [count EXCEPT !["total"] = @ + 1]
        BY <2>4 DEF Store, LoadedInv
      <3> QED
        BY <1>2, <1>3, <1>4, <1>6, <1>8, <2>4, <3>1 DEF Store
    <2> QED
      BY <1>11, <2>1, <2>2, <2>3, <2>4 DEF CountPacket
  <1> QED
    BY <1>9, <1>10, <1>11 DEF AddPacket

\* No worker is at work once everything has settled and the JavaFX thread is idle.
LEMMA SettledRest ==
  ASSUME SessionTypeOK, Settled, Idle
  PROVE  \A w \in Worker : pc[w] \in {"unused", "ended", "idle"}
PROOF
  BY DEF Settled, Idle, Alive

\* A calm Start: nothing is going on, and a new list takes the place of the old one.
LEMMA CalmStart ==
  ASSUME CoreInv, StartCapture, calm'
  PROVE  /\ calm /\ Settled /\ Idle
         /\ slots' = <<>> /\ size' = 0 /\ stale' = {}
         /\ UNCHANGED <<count, pending, consoleVars, dialogs, pkt>>
         /\ \A w \in Worker : pc'[w] \in {"unused", "ended", "idle", "open"}
         /\ pc'[Fx] = "idle"
         /\ intact' => intact /\ count["total"] = 0 /\ console = <<>>
PROOF
  <1> USE DEF CoreInv, SessionTypeOK, ThreadTypeOK, PcTypeOK
  <1>1. calm /\ Settled /\ Idle
    BY DEF StartCapture, StartHistory
  <1>2. intact' => intact /\ count["total"] = 0 /\ console = <<>>
    BY DEF StartCapture, StartHistory
  <1>3. \A w \in Worker : pc[w] \in {"unused", "ended", "idle"}
    BY <1>1, SettledRest
  <1>4. slots' = <<>> /\ size' = 0 /\ stale' = {}
    BY <1>3 DEF StartCapture, NewCapture
  <1>5. UNCHANGED <<count, pending, consoleVars, dialogs, pkt>>
    BY DEF StartCapture, fileVars
  <1>6. UNCHANGED pc \/ \E th \in Thread : Goto(th, "open")
    BY DEF StartCapture
  <1>7. \A w \in Worker : pc'[w] \in {"unused", "ended", "idle", "open"}
    BY <1>3, <1>6 DEF Goto
  <1>8. pc'[Fx] = "idle"
    BY <1>1, <1>6 DEF Goto, Idle
  <1> QED
    BY <1>1, <1>2, <1>4, <1>5, <1>7, <1>8

\* A calm Clear or Open: nothing is going on when the list is dropped.
LEMMA CalmClear ==
  ASSUME CoreInv, ClearCapture \/ OpenCapture, calm'
  PROVE  /\ Settled /\ Idle
         /\ slots' = <<>> /\ size' = 0 /\ stale' = {}
         /\ UNCHANGED <<count, pending, consoleVars, dialogs, pkt>>
         /\ \A w \in Worker : pc'[w] \in {"unused", "ended", "renew"}
         /\ pc'[Fx] = "renew"
PROOF
  <1> USE DEF CoreInv, SessionTypeOK, ThreadTypeOK, PcTypeOK
  <1>1. Settled /\ Idle
    BY DEF ClearCapture, OpenCapture, DropCapture, Click
  <1>2. \A w \in Worker : pc[w] \in {"unused", "ended", "idle"}
    BY <1>1, SettledRest
  <1>3. slots' = <<>> /\ size' = 0 /\ stale' = {}
    BY <1>2 DEF ClearCapture, OpenCapture, DropCapture
  <1>4. UNCHANGED <<count, pending, consoleVars, dialogs, pkt>>
    BY DEF ClearCapture, OpenCapture
  <1>5. Goto(Fx, "renew")
    BY DEF ClearCapture, OpenCapture, DropCapture
  <1>6. pc'[Fx] = "renew" /\ \A th \in Thread : pc'[th] = pc[th]
    BY <1>5 DEF Goto
  <1>7. \A th \in Thread : pc[th] \in {"unused", "ended"}
    BY <1>1 DEF Settled, Alive
  <1> QED
    BY <1>1, <1>3, <1>4, <1>6, <1>7

\* While PacketManager.clearCapture goes on in calm use, no capture thread is there.
LEMMA CalmClearing ==
  ASSUME CoreInv, calm, RenewList \/ ClearStats
  PROVE  /\ calm' /\ UNCHANGED <<intact, pending, consoleVars, dialogs, pkt, reg>>
         /\ \A th \in Thread : pc[th] \in {"unused", "ended"} /\ pc'[th] = pc[th]
         /\ \/ /\ pc[Fx] = "renew" /\ pc'[Fx] = "zero"
               /\ slots' = <<>> /\ size' = 0 /\ stale' = {} /\ UNCHANGED count
            \/ /\ pc[Fx] = "zero" /\ pc'[Fx] = "relist"
               /\ UNCHANGED <<slots, size, stale>>
               /\ count' = [c \in Counters |-> 0]
PROOF
  <1> USE DEF CoreInv, SessionTypeOK, ThreadTypeOK, PcTypeOK
  <1>1. pc[Fx] \in {"renew", "zero"}
    BY DEF RenewList, ClearStats
  <1>2. \A th \in Thread : pc[th] \in {"unused", "ended"}
    BY <1>1 DEF CalmInv, Alive, Idle
  <1>3. CASE RenewList
    <2>1. slots' = <<>> /\ size' = 0 /\ stale' = {}
      BY <1>2, <1>3 DEF RenewList, NewCapture
    <2> QED
      BY <1>2, <1>3, <2>1 DEF RenewList, Goto, fxVars, historyVars, fileVars
  <1>4. CASE ClearStats
    BY <1>2, <1>4 DEF ClearStats, ZeroStats, Goto, fxVars, historyVars, fileVars, listVars
  <1> QED
    BY <1>3, <1>4

\* Nothing but these two clicks can make use calm again, or intact.
LEMMA HistoryStep ==
  ASSUME Next, ~ClearCapture, ~OpenCapture
  PROVE  (calm' => calm) /\ (intact' => intact)
PROOF
  <1>1. CASE \E w \in Worker : AddPacket(w)
    BY <1>1 DEF AddPacket, FetchList, WriteSlot, CountPacket, Load, Store, fxVars, historyVars
  <1>2. ASSUME NEW th \in Thread, CaptureStep(th), ~AddPacket(th) PROVE UNCHANGED historyVars
    BY <1>2 DEF CaptureStep, OpenDevice, LoopTest, ReadNothing, ReadTimeout, ReadPacket,
       PostPacket, CheckInterrupt, CatchInterrupt, Report, CloseCaptor, fxVars
  <1>3. CASE RunLater \/ RenewList \/ ClearStats \/ RelistCleared \/ ReadObject \/ PostLoaded
    BY <1>3 DEF RunLater, RenewList, ClearStats, RelistCleared, ReadObject, PostLoaded,
       fxVars, historyVars
  <1>4. CASE UserAction
    <2>1. CASE StartCapture
      BY <2>1 DEF StartCapture, StartHistory
    <2>2. CASE ClearFilters
      BY <2>2 DEF ClearFilters
    <2>3. CASE ApplyFilters
      BY <2>3 DEF ApplyFilters
    <2>4. CASE SelectDevice \/ StopCapture \/ StopNothing \/ ResetStats \/ SaveCapture
               \/ CancelDialog \/ ChooseOther \/ ChooseFile
      BY <2>4 DEF SelectDevice, StopCapture, StopNothing, ResetStats, SaveCapture,
         CancelDialog, ChooseOther, ChooseFile, vars, fxVars, historyVars
    <2> QED
      BY <1>4, <2>1, <2>2, <2>3, <2>4 DEF UserAction
  <1> QED
    BY <1>1, <1>2, <1>3, <1>4 DEF Next, HandlerStep, historyVars

\* Every step keeps what is loaded true.
LEMMA LoadedStep ==
  ASSUME CoreInv, LoadedInv, Next
  PROVE  LoadedInv'
PROOF
  <1> SUFFICES ASSUME calm' PROVE LoadedInv'
    BY DEF LoadedInv
  <1> USE DEF BookPcs
  <1>1. CASE ClearCapture \/ OpenCapture
    BY <1>1, CalmClear, EmptySeq DEF LoadedInv
  <1>2. CASE ~ClearCapture /\ ~OpenCapture
    <2>c. calm
      BY <1>2, HistoryStep
    <2>1. ASSUME NEW w \in Worker, AddPacket(w) PROVE LoadedInv'
      <3>1. size' = Len(slots') /\ stale' = {}
        BY <2>c, <2>1, AddStep, AppendProperties, SMTT(40) DEF LoadedInv, CoreInv, SessionTypeOK, StoreTypeOK
      <3>2. \A v \in Worker : v # w => pc'[v] \in {"unused", "ended", "idle"}
        BY <2>c, <2>1, AddStep
      <3>3. /\ pc'[w] = "write" => reg'[w] = size'
            /\ pc'[w] = "countStore" => reg'[w] = count'[CounterOf(pkt'[w])]
            /\ pc'[w] = "totalStore" => reg'[w] = count'["total"]
        BY <2>c, <2>1, AddStep
      <3> QED
        BY <3>1, <3>2, <3>3 DEF LoadedInv
    <2>2. CASE StartCapture
      BY <2>2, CalmStart, EmptySeq DEF LoadedInv
    <2>3. CASE RenewList \/ ClearStats
      BY <2>c, <2>3, CalmClearing, EmptySeq DEF LoadedInv
    <2>4. CASE BooksKept
      BY <2>c, <2>4 DEF LoadedInv, BooksKept
    <2> QED
      BY <1>2, <2>1, <2>2, <2>3, <2>4, QuietStep DEF CoreInv
  <1> QED
    BY <1>1, <1>2

\* Every step keeps the window empty while it is cleared or a dialog is open.
LEMMA ClearedStep ==
  ASSUME CoreInv, LoadedInv, ClearedInv, Next
  PROVE  ClearedInv'
PROOF
  <1> SUFFICES ASSUME calm' PROVE ClearedInv'
    BY DEF ClearedInv
  <1> USE DEF CoreInv, SessionTypeOK, WindowTypeOK, Idle
  <1>1. CASE ClearCapture \/ OpenCapture
    BY <1>1, CalmClear DEF ClearedInv, Settled
  <1>2. CASE ~ClearCapture /\ ~OpenCapture
    <2>c. calm
      BY <1>2, HistoryStep
    <2>1. ASSUME NEW th \in Thread, CaptureStep(th) PROVE ClearedInv'
      <3>1. pc[Fx] = "idle" /\ dialogs = 0
        BY <2>c, <2>1, CaptureStepRunning DEF CalmInv
      <3>2. pc'[Fx] = "idle" /\ dialogs' = 0
        BY <2>1, <3>1, CaptureStepRunning DEF fxVars, fileVars
      <3> QED
        BY <3>2 DEF ClearedInv
    <2>2. CASE AddPacket(Fx)
      <3>1. /\ pc[Fx] # "idle" /\ dialogs' = dialogs
            /\ pc'[Fx] \notin {"renew", "zero", "relist", "idle"}
        BY <2>c, <2>2, AddStep DEF fxVars, fileVars
      <3> QED
        BY <2>c, <3>1 DEF ClearedInv
    <2>3. CASE StartCapture
      BY <2>3, CalmStart DEF ClearedInv, Settled
    <2>4. CASE RenewList \/ ClearStats
      BY <2>c, <2>4, CalmClearing DEF ClearedInv
    <2>5. CASE RelistCleared
      <3>1. pc[Fx] = "relist" /\ pc'[Fx] = "idle" /\ dialogs' \in {dialogs, dialogs + 1}
            /\ UNCHANGED <<size, pending>>
        BY <2>5 DEF RelistCleared, Goto, ThreadTypeOK, PcTypeOK, listVars
      <3> QED
        BY <2>c, <3>1 DEF ClearedInv
    <2>6. CASE CancelDialog \/ ChooseOther \/ ChooseFile
      <3>1. /\ dialogs # 0 /\ dialogs' = dialogs - 1
            /\ pc'[Fx] \in {"idle", "reading"}
        BY <2>6 DEF CancelDialog, ChooseOther, ChooseFile, CloseDialog, Goto, threadVars,
           ThreadTypeOK, PcTypeOK
      <3> QED
        BY <2>c, <3>1 DEF ClearedInv
    <2>7. CASE ReadObject \/ PostLoaded
      <3>1. /\ pc[Fx] = "reading" /\ UNCHANGED dialogs
            /\ pc'[Fx] \in {"add", "idle"}
        BY <2>7 DEF ReadObject, PostLoaded, Goto, fileVars, ThreadTypeOK, PcTypeOK
      <3> QED
        BY <2>c, <3>1 DEF ClearedInv
    <2>8. CASE RunLater
      <3>1. pending # <<>> /\ UNCHANGED <<pc, dialogs>> /\ pc[Fx] = "idle"
        BY <2>8 DEF RunLater, threadVars, fileVars
      <3> QED
        BY <2>c, <3>1 DEF ClearedInv
    <2>9. CASE SelectDevice \/ StopCapture \/ StopNothing \/ ResetStats \/ SaveCapture
               \/ ApplyFilters \/ ClearFilters
      <3>1. UNCHANGED <<pc, dialogs, size, pending>>
        BY <2>9 DEF SelectDevice, StopCapture, StopNothing, ResetStats, SaveCapture,
           ApplyFilters, ClearFilters, vars, fxVars, threadVars, fileVars, listVars
      <3> QED
        BY <2>c, <3>1 DEF ClearedInv
    <2> QED
      BY <1>2, <2>1, <2>2, <2>3, <2>4, <2>5, <2>6, <2>7, <2>8, <2>9
      DEF Next, HandlerStep, UserAction
  <1> QED
    BY <1>1, <1>2

\* How many packets of a list belong to a statistic grows by the packet appended.
LEMMA CountedAppend ==
  ASSUME NEW s \in Seq(Packet), NEW p \in Packet, NEW c
  PROVE  /\ Counted(s, c) \in Nat
         /\ Counted(Append(s, p), c)
              = IF CounterOf(p) = c THEN Counted(s, c) + 1 ELSE Counted(s, c)
PROOF
  <1> DEFINE Of(u) == {i \in DOMAIN u : CounterOf(u[i]) = c}
             n == Len(s)
  <1>1. n \in Nat /\ DOMAIN s = 1..n
    BY LenProperties
  <1>2. IsFiniteSet(1..n)
    BY <1>1, FS_Interval
  <1>3. IsFiniteSet(Of(s)) /\ Cardinality(Of(s)) \in Nat
    <2>1. Of(s) \subseteq 1..n
      BY <1>1
    <2> QED
      BY <1>2, <2>1, FS_Subset, FS_CardinalityType
  <1>4. /\ DOMAIN Append(s, p) = 1..(n + 1)
        /\ \A i \in 1..n : Append(s, p)[i] = s[i]
        /\ Append(s, p)[n + 1] = p
    BY <1>1, AppendProperties, LenProperties
  <1>5. CASE CounterOf(p) = c
    <2>1. Of(Append(s, p)) = Of(s) \cup {n + 1}
      BY <1>1, <1>4, <1>5
    <2>2. n + 1 \notin Of(s)
      BY <1>1
    <2> HIDE DEF Of
    <2>3. Cardinality(Of(Append(s, p))) = Cardinality(Of(s)) + 1
      BY <1>3, <2>1, <2>2, FS_AddElement
    <2> QED
      BY <1>3, <1>5, <2>3 DEF Counted, Of
  <1>6. CASE CounterOf(p) # c
    <2>1. Of(Append(s, p)) = Of(s)
      BY <1>1, <1>4, <1>6
    <2> QED
      BY <1>3, <1>6, <2>1 DEF Counted
  <1> QED
    BY <1>5, <1>6

LEMMA CountedEmpty == \A c : Counted(<<>>, c) = 0
PROOF
  <1> TAKE c
  <1>1. {i \in DOMAIN <<>> : CounterOf(<<>>[i]) = c} = {}
    BY EmptySeq
  <1> QED
    BY <1>1, FS_EmptySet DEF Counted

\* To count a packet adds one to the sum of the protocols' statistics.
LEMMA SumPlus ==
  ASSUME NEW f \in [Counters -> Nat], NEW k \in Protocols
  PROVE  LET g == [f EXCEPT ![k] = @ + 1]
         IN  /\ g["TCP"] + g["UDP"] + g["ICMP"] + g["ARP"]
                  = f["TCP"] + f["UDP"] + f["ICMP"] + f["ARP"] + 1
             /\ g["total"] = f["total"]
PROOF
  <1> USE DEF Counters, Protocols
  <1>1. /\ f["TCP"] \in Nat /\ f["UDP"] \in Nat /\ f["ICMP"] \in Nat /\ f["ARP"] \in Nat
    OBVIOUS
  <1>2. CASE k = "TCP"
    BY <1>1, <1>2
  <1>3. CASE k = "UDP"
    BY <1>1, <1>3
  <1>4. CASE k = "ICMP"
    BY <1>1, <1>4
  <1>5. CASE k = "ARP"
    BY <1>1, <1>5
  <1> QED
    BY <1>2, <1>3, <1>4, <1>5

\* Every step keeps the total one behind the sum, or equal to it.
LEMMA AccountStep ==
  ASSUME CoreInv, LoadedInv, AccountInv, Next
  PROVE  AccountInv'
PROOF
  <1> SUFFICES ASSUME calm', pc'[Fx] \notin {"renew", "zero"} PROVE AccountInv'
    BY DEF AccountInv
  <1> USE DEF BookPcs, HalfCounted
  <1>t. \A c \in Counters : count[c] \in Nat
    BY DEF CoreInv, SessionTypeOK, StoreTypeOK
  <1>1. CASE ClearCapture \/ OpenCapture
    BY <1>1, CalmClear
  <1>2. CASE ~ClearCapture /\ ~OpenCapture
    <2>c. calm
      BY <1>2, HistoryStep
    <2>1. ASSUME NEW w \in Worker, AddPacket(w) PROVE AccountInv'
      <3>1. pc[Fx] \notin {"renew", "zero"}
        BY <2>c, <2>1, AddStep
      <3>2. \A v \in Worker : v # w => ~HalfCounted(v) /\ ~HalfCounted(v)'
        BY <2>c, <2>1, AddStep
      <3>3. \/ UNCHANGED count /\ HalfCounted(w)' = HalfCounted(w)
            \/ /\ count' = [count EXCEPT ![CounterOf(pkt[w])] = @ + 1]
               /\ pkt[w] \in Packet /\ ~HalfCounted(w) /\ HalfCounted(w)'
            \/ /\ count' = [count EXCEPT !["total"] = @ + 1]
               /\ HalfCounted(w) /\ ~HalfCounted(w)'
        BY <2>c, <2>1, AddStep
      <3>4. CASE UNCHANGED count /\ HalfCounted(w)' = HalfCounted(w)
        <4>1. (\E v \in Worker : HalfCounted(v)') <=> \E v \in Worker : HalfCounted(v)
          BY <3>2, <3>4
        <4>2. SumOfProtocols' = SumOfProtocols /\ count' = count
          BY <3>4 DEF SumOfProtocols
        <4> QED
          BY <2>c, <3>1, <4>1, <4>2 DEF AccountInv
      <3>5. CASE /\ count' = [count EXCEPT ![CounterOf(pkt[w])] = @ + 1]
                 /\ pkt[w] \in Packet /\ ~HalfCounted(w) /\ HalfCounted(w)'
        <4>1. SumOfProtocols = count["total"]
          BY <2>c, <3>1, <3>2, <3>5 DEF AccountInv
        <4>2. CounterOf(pkt[w]) \in Protocols
          BY <3>5, CounterOfType DEF Counters
        <4>3. /\ SumOfProtocols' = SumOfProtocols + 1
              /\ count'["total"] = count["total"]
          <5>1. count \in [Counters -> Nat]
            BY DEF CoreInv, SessionTypeOK, StoreTypeOK
          <5> DEFINE g == [count EXCEPT ![CounterOf(pkt[w])] = @ + 1]
          <5>2. /\ g["TCP"] + g["UDP"] + g["ICMP"] + g["ARP"]
                    = count["TCP"] + count["UDP"] + count["ICMP"] + count["ARP"] + 1
                /\ g["total"] = count["total"]
            BY <4>2, <5>1, SumPlus
          <5> QED
            BY <3>5, <5>2 DEF SumOfProtocols
        <4> QED
          BY <3>5, <4>1, <4>3 DEF AccountInv
      <3>6. CASE /\ count' = [count EXCEPT !["total"] = @ + 1]
                 /\ HalfCounted(w) /\ ~HalfCounted(w)'
        <4>1. SumOfProtocols = count["total"] + 1
          BY <2>c, <3>1, <3>6 DEF AccountInv
        <4>2. SumOfProtocols' = count'["total"]
          BY <1>t, <3>6, <4>1
          DEF SumOfProtocols, Counters, Protocols, CoreInv, SessionTypeOK, StoreTypeOK
        <4> QED
          BY <3>2, <3>6, <4>2 DEF AccountInv
      <3> QED
        BY <3>3, <3>4, <3>5, <3>6
    <2>2. CASE StartCapture
      <3>1. /\ \A w \in Worker : ~HalfCounted(w) /\ ~HalfCounted(w)'
            /\ count' = count /\ pc[Fx] = "idle"
        BY <2>2, CalmStart, SettledRest DEF CoreInv, Idle
      <3> QED
        BY <2>c, <3>1 DEF AccountInv, SumOfProtocols
    <2>3. CASE RenewList \/ ClearStats
      <3>1. count' = [c \in Counters |-> 0] /\ pc'[Fx] = "relist"
            /\ \A th \in Thread : pc'[th] \in {"unused", "ended"}
        BY <2>c, <2>3, CalmClearing
      <3>2. \A w \in Worker : ~HalfCounted(w)'
        BY <3>1
      <3>3. SumOfProtocols' = count'["total"]
        BY <3>1 DEF SumOfProtocols, Counters, Protocols
      <3> QED
        BY <3>2, <3>3 DEF AccountInv
    <2>4. CASE BooksKept
      <3>1. pc[Fx] \notin {"renew", "zero"}
        BY <2>4 DEF BooksKept
      <3> QED
        BY <2>c, <2>4, <3>1 DEF AccountInv, SumOfProtocols, BooksKept
    <2> QED
      BY <1>2, <2>1, <2>2, <2>3, <2>4, QuietStep DEF CoreInv
  <1> QED
    BY <1>1, <1>2

\* Every step keeps the statistics one behind the list, or equal to it.
LEMMA CountsStep ==
  ASSUME CoreInv, LoadedInv, ClearedInv, AccountInv, CountsInv, Next
  PROVE  CountsInv'
PROOF
  <1> SUFFICES ASSUME calm', intact', pc'[Fx] \notin {"renew", "zero"} PROVE CountsInv'
    BY DEF CountsInv
  <1> DEFINE Lag(w) == Uncounted(w) \/ HalfCounted(w)
             LagOf(w, c) == Uncounted(w) /\ CounterOf(pkt[w]) = c
  <1>t. /\ count \in [Counters -> Nat] /\ slots \in Seq(Packet) /\ size \in Nat
        /\ \A c \in Protocols : c \in Counters /\ c # "total"
        /\ "total" \in Counters
    BY DEF CoreInv, SessionTypeOK, StoreTypeOK, Counters, Protocols
  <1>1. CASE ClearCapture \/ OpenCapture
    BY <1>1, CalmClear
  <1>2. CASE ~ClearCapture /\ ~OpenCapture
    <2>c. calm /\ intact
      BY <1>2, HistoryStep
    <2>1. ASSUME NEW w \in Worker, AddPacket(w) PROVE CountsInv'
      <3>1. pc[Fx] \notin {"renew", "zero"}
        BY <2>c, <2>1, AddStep
      <3>2. \A v \in Worker : v # w => ~Lag(v) /\ ~Lag(v)'
        BY <2>c, <2>1, AddStep DEF Uncounted, HalfCounted
      <3>3. /\ size = IF Lag(w) THEN count["total"] + 1 ELSE count["total"]
            /\ \A c \in Protocols :
                 Counted(slots, c) = IF LagOf(w, c) THEN count[c] + 1 ELSE count[c]
        BY <2>c, <3>1, <3>2 DEF CountsInv
      <3>4. SUFFICES
              /\ size' = IF Lag(w)' THEN count'["total"] + 1 ELSE count'["total"]
              /\ \A c \in Protocols :
                   Counted(slots, c)' = IF LagOf(w, c)' THEN count'[c] + 1 ELSE count'[c]
        BY <3>2 DEF CountsInv
      <3>5. pkt' = pkt /\ pkt[w] \in Packet
        BY <2>c, <2>1, AddStep
      <3> DEFINE k == CounterOf(pkt[w])
      <3>6. k \in Protocols
        BY <3>5, CounterOfType DEF Counters
      <3>7. CASE UNCHANGED <<slots, size, count>> /\ Uncounted(w)' = Uncounted(w)
                 /\ HalfCounted(w)' = HalfCounted(w)
        <4>1. \A c \in Protocols : LagOf(w, c)' = LagOf(w, c)
          BY <3>5, <3>7
        <4>2. \A c \in Protocols : Counted(slots, c)' = Counted(slots, c)
          BY <3>7 DEF Counted
        <4> QED
          BY <3>3, <3>7, <4>1, <4>2
      <3>8. CASE /\ slots' = Append(slots, pkt[w]) /\ size' = size + 1 /\ UNCHANGED count
                 /\ ~Lag(w) /\ Uncounted(w)'
        <4>1. \A c \in Protocols :
                Counted(slots, c)' = IF k = c THEN Counted(slots, c) + 1 ELSE Counted(slots, c)
          BY <1>t, <3>5, <3>8, CountedAppend
        <4> QED
          BY <1>t, <3>3, <3>5, <3>8, <4>1
      <3>9. CASE /\ count' = [count EXCEPT ![k] = @ + 1] /\ UNCHANGED <<slots, size>>
                 /\ Uncounted(w) /\ ~Uncounted(w)' /\ HalfCounted(w)'
        <4>1. \A c \in Protocols : Counted(slots, c)' = Counted(slots, c)
          BY <3>9 DEF Counted
        <4>2. \A c \in Protocols : count'[c] = IF k = c THEN count[c] + 1 ELSE count[c]
          BY <1>t, <3>6, <3>9
        <4>3. count'["total"] = count["total"]
          BY <1>t, <3>6, <3>9
        <4> QED
          BY <3>3, <3>9, <4>1, <4>2, <4>3
      <3>10. CASE /\ count' = [count EXCEPT !["total"] = @ + 1] /\ UNCHANGED <<slots, size>>
                  /\ HalfCounted(w) /\ ~Uncounted(w) /\ ~Lag(w)'
        <4>1. \A c \in Protocols : Counted(slots, c)' = Counted(slots, c)
          BY <3>10 DEF Counted
        <4>2. /\ \A c \in Protocols : count'[c] = count[c]
              /\ count'["total"] = count["total"] + 1
          BY <1>t, <3>10
        <4> QED
          BY <3>3, <3>10, <4>1, <4>2
      <3> QED
        BY <2>c, <2>1, <3>7, <3>8, <3>9, <3>10, AddStep DEF Uncounted, HalfCounted
    <2>2. CASE StartCapture
      <3>1. /\ \A w \in Worker : ~Lag(w) /\ ~Lag(w)'
            /\ count' = count /\ pc[Fx] = "idle"
            /\ count["total"] = 0 /\ slots' = <<>> /\ size' = 0
        BY <2>2, CalmStart, SettledRest DEF CoreInv, Idle, Uncounted, HalfCounted
      <3>2. SumOfProtocols = 0
        BY <2>c, <3>1 DEF AccountInv
      <3>3. \A c \in Protocols : count[c] = 0
        BY <1>t, <3>2 DEF SumOfProtocols, Protocols
      <3>4. \A c \in Protocols : Counted(slots, c)' = 0
        BY <3>1, CountedEmpty
      <3> QED
        BY <3>1, <3>3, <3>4 DEF CountsInv
    <2>3. CASE RenewList \/ ClearStats
      <3>1. /\ count' = [c \in Counters |-> 0] /\ pc[Fx] = "zero" /\ pc'[Fx] = "relist"
            /\ \A th \in Thread : pc'[th] \in {"unused", "ended"}
            /\ slots' = slots /\ size' = size
        BY <2>c, <2>3, CalmClearing
      <3>2. \A w \in Worker : ~Lag(w)'
        BY <3>1 DEF Uncounted, HalfCounted
      <3>3. size = 0 /\ slots = <<>>
        BY <2>c, <1>t, <3>1, EmptySeq DEF ClearedInv, LoadedInv
      <3>4. \A c \in Protocols : Counted(slots, c)' = 0
        BY <3>1, <3>3, CountedEmpty
      <3> QED
        BY <1>t, <3>1, <3>2, <3>3, <3>4 DEF CountsInv
    <2>4. CASE BooksKept
      <3>1. /\ pc[Fx] \notin {"renew", "zero"}
            /\ \A w \in Worker : /\ Lag(w)' = Lag(w)
                                  /\ \A c \in Protocols : LagOf(w, c)' = LagOf(w, c)
        BY <2>4 DEF BooksKept, BookPcs, Uncounted, HalfCounted
      <3>2. \A c \in Protocols : Counted(slots, c)' = Counted(slots, c)
        BY <2>4 DEF BooksKept, Counted
      <3>3. size' = size /\ count' = count
        BY <2>4 DEF BooksKept
      <3>4. (\E w \in Worker : Lag(w)') <=> \E w \in Worker : Lag(w)
        BY <3>1
      <3>5. ASSUME NEW c \in Protocols
            PROVE  (\E w \in Worker : LagOf(w, c)') <=> \E w \in Worker : LagOf(w, c)
        BY <3>1
      <3> QED
        BY <2>c, <3>1, <3>2, <3>3, <3>4, <3>5 DEF CountsInv
    <2> QED
      BY <1>2, <2>1, <2>2, <2>3, <2>4, QuietStep DEF CoreInv
  <1> QED
    BY <1>1, <1>2

\* With calm use the list is all of its array.
LEMMA CaptureIsArray ==
  ASSUME SessionTypeOK, LoadedInv, calm
  PROVE  Capture = slots /\ slots \in Seq(Packet) /\ Len(slots) = size
PROOF
  BY SubSeqFull DEF SessionTypeOK, StoreTypeOK, LoadedInv, Capture

\* What is read next from a file has its place after what was read.
ReadsOn(s, p, r) ==
  /\ s \o <<p>> \o r = Append(s, p) \o <<>> \o r
  /\ r # <<>> => s \o <<Head(r)>> \o Tail(r) = s \o <<>> \o r

LEMMA ReadOn ==
  ASSUME NEW s \in Seq(Packet), NEW r \in Seq(Packet), NEW p \in Packet
  PROVE  ReadsOn(s, p, r)
PROOF
  <1>1. s \o <<p>> = Append(s, p) /\ Append(s, p) \in Seq(Packet)
    BY AppendIsConcat, AppendProperties
  <1>2. \A u \in Seq(Packet) : u \o <<>> = u
    BY ConcatEmptySeq
  <1>3. ASSUME r # <<>> PROVE s \o <<Head(r)>> \o Tail(r) = s \o r
    <2>1. Head(r) \in Packet /\ Tail(r) \in Seq(Packet) /\ <<Head(r)>> \in Seq(Packet)
      BY <1>3, HeadTailProperties
    <2>2. <<Head(r)>> \o Tail(r) = r
      BY <1>3, HeadTailAppend
    <2> QED
      BY <2>1, <2>2, ConcatAssociative
  <1> QED
    BY <1>1, <1>2, <1>3 DEF ReadsOn

\* Every step keeps what was read, what is in hand and what is still to be read the file.
LEMMA LoadsFileStep ==
  ASSUME CoreInv, LoadedInv, ClearedInv, LoadsFile, Next
  PROVE  LoadsFile'
PROOF
  <1> SUFFICES ASSUME calm', file' # NoFile, pc'[Fx] \in AddPcs \cup {"reading"}
               PROVE  LoadsFile'
    BY DEF LoadsFile
  <1> USE DEF CoreInv, SessionTypeOK
  <1> DEFINE Hand == IF pc[Fx] \in {"add", "write"} THEN <<pkt[Fx]>> ELSE <<>>
  <1>1. LoadedInv' /\ SessionTypeOK'
    BY LoadedStep, NextCore
  <1>2. Capture' = slots'
    BY <1>1, SubSeqFull DEF StoreTypeOK, LoadedInv, Capture
  <1>3. calm
    <2>1. ~ClearCapture /\ ~OpenCapture
      BY CalmClear DEF AddPcs
    <2> QED
      BY <2>1, HistoryStep
  <1>4. Capture = slots /\ slots \in Seq(Packet) /\ rest \in Seq(Packet) /\ Len(slots) = size
    BY <1>3, CaptureIsArray DEF StoreTypeOK
  <1>5. SUFFICES slots' \o Hand' \o rest' = file'
    BY <1>2 DEF LoadsFile
  <1>6. CASE AddPacket(Fx)
    <2>1. UNCHANGED <<pkt, file, rest>> /\ pkt[Fx] \in Packet /\ pc[Fx] \in AddPcs
      BY <1>3, <1>6, AddStep DEF fxVars, fileVars, AddPcs
    <2>2. slots \o Hand \o rest = file
      BY <1>3, <1>4, <2>1 DEF LoadsFile
    <2>3. \/ slots' = slots /\ Hand' = Hand
          \/ slots' = Append(slots, pkt[Fx]) /\ Hand = <<pkt[Fx]>> /\ Hand' = <<>>
      BY <1>3, <1>6, <2>1, AddStep
    <2>4. slots \o <<pkt[Fx]>> \o rest = Append(slots, pkt[Fx]) \o <<>> \o rest
      <3>1. slots \in Seq(Packet) /\ rest \in Seq(Packet)
        BY <1>4
      <3>2. pkt[Fx] \in Packet
        BY <2>1
      <3> QED
        <4>1. ReadsOn(slots, pkt[Fx], rest)
          BY ONLY <3>1, <3>2, ReadOn, Zenon
        <4> QED
          BY ONLY <4>1, Zenon DEF ReadsOn
    <2> HIDE DEF Hand
    <2> QED
      BY <2>1, <2>2, <2>3, <2>4
  <1>7. CASE ReadObject
    <2>1. slots \o <<>> \o rest = file
      BY <1>3, <1>4, <1>7 DEF LoadsFile, ReadObject
    <2>2. /\ Hand' = <<Head(rest)>> /\ rest' = Tail(rest) /\ rest # <<>>
          /\ slots' = slots /\ file' = file
      BY <1>7 DEF ReadObject, Goto, ThreadTypeOK, PcTypeOK, listVars
    <2>3. Head(rest) \in Packet
      BY <1>4, <2>2, HeadTailProperties
    <2>4. slots \o <<Head(rest)>> \o Tail(rest) = slots \o <<>> \o rest
      <3>1. ReadsOn(slots, Head(rest), rest)
        BY ONLY <1>4, <2>3, ReadOn, Zenon
      <3> QED
        BY ONLY <2>2, <3>1, Zenon DEF ReadsOn
    <2> QED
      BY <1>4, <2>1, <2>2, <2>4
  <1>8. CASE ChooseFile
    <2>1. slots = <<>>
      BY <1>3, <1>4, <1>8, EmptySeq DEF ChooseFile, CloseDialog, ClearedInv
    <2>2. slots' = slots /\ rest' = file /\ file' = file /\ Hand' = <<>>
      BY <1>8 DEF ChooseFile, Goto, ThreadTypeOK, PcTypeOK, listVars
    <2>3. file \in Seq(Packet)
      BY <2>2 DEF StoreTypeOK
    <2> QED
      BY <2>1, <2>2, <2>3, ConcatEmptySeq
  <1>9. ASSUME NEW th \in Thread, CaptureStep(th) PROVE FALSE
    BY <1>3, <1>9, CaptureStepRunning DEF CalmInv, Idle, AddPcs
  <1>10. CASE RelistCleared \/ PostLoaded \/ RenewList \/ ClearStats
    BY <1>10 DEF RelistCleared, PostLoaded, RenewList, ClearStats, Goto, ThreadTypeOK,
       PcTypeOK, AddPcs
  <1>11. CASE RunLater \/ (UserAction /\ ~ChooseFile)
    <2>1. pc'[Fx] \in {"idle", "renew"}
      <3>1. CASE StartCapture
        BY <3>1, CalmStart
      <3>2. CASE ClearCapture \/ OpenCapture
        BY <3>2, CalmClear
      <3>3. CASE ~StartCapture /\ ~ClearCapture /\ ~OpenCapture
        BY <1>11, <3>3 DEF RunLater, UserAction, SelectDevice, StopCapture, StopNothing, ResetStats,
           SaveCapture, ApplyFilters, ClearFilters, CancelDialog, ChooseOther, CloseDialog,
           Click, Idle, threadVars, vars
      <3> QED
        BY <3>1, <3>2, <3>3
    <2> QED
      BY <2>1 DEF AddPcs
  <1> QED
    BY <1>6, <1>7, <1>8, <1>9, <1>10, <1>11 DEF Next, HandlerStep

-----------------------------------------------------------------------------
(* The screen: the console, the queue of runnables and the numbers on        *)
(* display.                                                                 *)

LEMMA MirroredKept ==
  ASSUME Mirrored, UNCHANGED <<console, pending, slots, size>>,
         \A th \in Thread : (Owes(th)' <=> Owes(th)) /\ (Owes(th) => pkt'[th] = pkt[th])
  PROVE  Mirrored'
PROOF
  <1>1. (\E th \in Thread : Owes(th)') <=> \E th \in Thread : Owes(th)
    OBVIOUS
  <1> QED
    BY <1>1 DEF Mirrored

\* A new list is shown by an empty console.
LEMMA MirroredEmpty ==
  ASSUME console' = <<>>, pending' = <<>>, size' = 0, \A th \in Thread : ~Owes(th)'
  PROVE  Mirrored'
PROOF
  BY EmptySeq DEF Mirrored

\* The row a packet gets from the runnable of printPacket.
LEMMA MirroredPrint ==
  ASSUME SessionTypeOK, Mirrored, RunLater, lineCount \in Nat
  PROVE  Mirrored'
PROOF
  <1> DEFINE row == [num |-> lineCount, pkt |-> Head(pending)]
  <1>1. /\ pending # <<>> /\ pending' = Tail(pending) /\ console' = Append(console, row)
        /\ UNCHANGED <<pc, pkt, slots, size>>
    BY DEF RunLater, PrintRow, threadVars, listVars
  <1>2. pending \in Seq(Packet) /\ console \in Seq(ConsoleRow)
    BY DEF SessionTypeOK, StoreTypeOK, Mirrored
  <1>3. row \in ConsoleRow
    BY <1>1, <1>2, HeadTailProperties DEF ConsoleRow
  <1>4. /\ console' \in Seq(ConsoleRow) /\ Len(console') = Len(console) + 1
        /\ \A i \in 1..Len(console) : console'[i] = console[i]
        /\ console'[Len(console) + 1] = row
    BY <1>1, <1>2, <1>3, AppendProperties
  <1>5. /\ Len(pending') = Len(pending) - 1 /\ pending[1] = Head(pending)
        /\ \A i \in 1..Len(pending') : pending'[i] = pending[i + 1]
    BY <1>1, <1>2, HeadTailProperties
  <1>6. Len(console) \in Nat /\ Len(pending) \in Nat /\ Len(pending) > 0
    BY <1>1, <1>2, LenProperties, EmptySeq
  <1>7. \A th \in Thread : (Owes(th)' <=> Owes(th)) /\ pkt'[th] = pkt[th]
    BY <1>1 DEF Owes
  <1>8. Len(console') + Len(pending') = IF \E th \in Thread : Owes(th)' THEN size' - 1 ELSE size'
    BY <1>1, <1>4, <1>5, <1>6, <1>7 DEF Mirrored
  <1>9. \A i \in 1..Len(console') : console'[i].pkt = slots'[i]
    <2>1. row.pkt = slots[Len(console) + 1]
      BY <1>5, <1>6 DEF Mirrored
    <2> QED
      BY <1>1, <1>4, <1>6, <2>1 DEF Mirrored
  <1>10. \A i \in 1..Len(pending') : pending'[i] = slots'[Len(console') + i]
    <2> TAKE i \in 1..Len(pending')
    <2>1. i + 1 \in 1..Len(pending) /\ Len(console) + (i + 1) = Len(console') + i
      BY <1>4, <1>5, <1>6
    <2> QED
      BY <1>1, <1>5, <2>1 DEF Mirrored
  <1> QED
    BY <1>1, <1>4, <1>7, <1>8, <1>9, <1>10 DEF Mirrored

\* A thread posts the packet it has in hand.
LEMMA MirroredPost ==
  ASSUME CoreInv, LoadedInv, Mirrored, calm, NEW th \in Thread, PostPacket(th)
  PROVE  Mirrored'
PROOF
  <1>1. /\ pending' = Append(pending, pkt[th]) /\ UNCHANGED <<console, slots, size>>
        /\ Owes(th) /\ ~Owes(th)'
    BY DEF PostPacket, fxVars, consoleVars, listVars, Owes, Goto, CoreInv, SessionTypeOK,
       ThreadTypeOK, PcTypeOK
  <1>2. \A u \in Thread : u # th => ~Owes(u)
    BY <1>1, OneAtWork DEF Owes
  <1>3. \A u \in Thread : ~Owes(u)'
    BY <1>1, <1>2 DEF PostPacket, Owes, Goto, CoreInv, SessionTypeOK, ThreadTypeOK, PcTypeOK
  <1>4. pkt[th] \in Packet /\ pending \in Seq(Packet)
    BY DEF PostPacket, CoreInv, SessionTypeOK, ThreadTypeOK, StoreTypeOK
  <1>5. /\ Len(pending') = Len(pending) + 1
        /\ \A i \in 1..Len(pending) : pending'[i] = pending[i]
        /\ pending'[Len(pending) + 1] = pkt[th]
    BY <1>1, <1>4, AppendProperties
  <1>6. Len(console) \in Nat /\ Len(pending) \in Nat /\ size \in Nat
    BY <1>4, LenProperties DEF Mirrored, CoreInv, SessionTypeOK, StoreTypeOK
  <1>7. Len(console) + Len(pending) = size - 1 /\ pkt[th] = slots[size]
    BY <1>1 DEF Mirrored
  <1>8. \A i \in 1..Len(pending') : pending'[i] = slots[Len(console) + i]
    <2> TAKE i \in 1..Len(pending')
    <2>1. CASE i \in 1..Len(pending)
      BY <1>5, <2>1 DEF Mirrored
    <2>2. CASE i = Len(pending) + 1
      BY <1>5, <1>6, <1>7, <2>2
    <2> QED
      BY <1>5, <1>6, <2>1, <2>2
  <1>9. Len(console') + Len(pending') = size'
    BY <1>1, <1>5, <1>6, <1>7
  <1> QED
    BY <1>1, <1>3, <1>8, <1>9 DEF Mirrored

\* A row printed whole counts for the rows after it, and for those alone.
LEMMA WholeStep ==
  ASSUME NEW rows, NEW n \in Nat
  PROVE  /\ Whole(rows, n) \in Nat /\ Whole(rows, 0) = 0
         /\ Whole(rows, n + 1)
              = IF Formattable(rows[n + 1].pkt) THEN Whole(rows, n) + 1 ELSE Whole(rows, n)
PROOF
  <1> DEFINE W(m) == {j \in 1..m : Formattable(rows[j].pkt)}
  <1>1. IsFiniteSet(W(n)) /\ Cardinality(W(n)) \in Nat
    <2>1. IsFiniteSet(1..n) /\ W(n) \subseteq 1..n
      BY FS_Interval
    <2> QED
      BY <2>1, FS_Subset, FS_CardinalityType
  <1>2. W(0) = {}
    OBVIOUS
  <1>3. CASE Formattable(rows[n + 1].pkt)
    <2>1. W(n + 1) = W(n) \cup {n + 1} /\ n + 1 \notin W(n)
      BY <1>3
    <2> HIDE DEF W
    <2>2. Cardinality(W(n + 1)) = Cardinality(W(n)) + 1
      BY <1>1, <2>1, FS_AddElement
    <2> QED
      BY <1>1, <1>2, <1>3, <2>2, FS_EmptySet DEF Whole, W
  <1>4. CASE ~Formattable(rows[n + 1].pkt)
    <2>1. W(n + 1) = W(n)
      BY <1>4
    <2> QED
      BY <1>1, <1>2, <1>4, <2>1, FS_EmptySet DEF Whole
  <1> QED
    BY <1>3, <1>4

\* Only the first n rows count.
LEMMA WholeSame ==
  ASSUME NEW a, NEW b, NEW n \in Nat, \A j \in 1..n : a[j].pkt = b[j].pkt
  PROVE  Whole(a, n) = Whole(b, n)
PROOF
  <1>1. {j \in 1..n : Formattable(a[j].pkt)} = {j \in 1..n : Formattable(b[j].pkt)}
    OBVIOUS
  <1> QED
    BY <1>1 DEF Whole

\* If every row was printed whole, there are as many as there are rows.
LEMMA WholeAll ==
  ASSUME NEW rows, NEW n \in Nat, \A j \in 1..n : Formattable(rows[j].pkt)
  PROVE  Whole(rows, n) = n
PROOF
  <1>1. {j \in 1..n : Formattable(rows[j].pkt)} = 1..n
    OBVIOUS
  <1> QED
    <2>1. Cardinality(1..n) = n
      BY FS_Interval
    <2> QED
      BY <1>1, <2>1 DEF Whole

LEMMA NumberedPrint ==
  ASSUME Mirrored, Numbered, RunLater
  PROVE  Numbered'
PROOF
  <1> DEFINE row == [num |-> lineCount, pkt |-> Head(pending)]
             n == Len(console)
  <1>1. /\ console' = Append(console, row)
        /\ lineCount' = IF Formattable(row.pkt) THEN lineCount + 1 ELSE lineCount
    BY DEF RunLater, PrintRow
  <1>2. n \in Nat /\ console \in Seq(ConsoleRow)
    BY LenProperties DEF Mirrored
  <1>3. /\ Len(console') = n + 1 /\ console'[n + 1] = row
        /\ \A i \in 1..n : console'[i] = console[i]
    BY <1>1, <1>2
  <1>4. \A m \in 0..n : Whole(console', m) = Whole(console, m)
    <2> TAKE m \in 0..n
    <2>1. \A j \in 1..m : console'[j].pkt = console[j].pkt
      BY <1>2, <1>3
    <2> QED
      BY <1>2, <2>1, WholeSame
  <1>5. lineCount = Whole(console', n)
    BY <1>2, <1>4 DEF Numbered
  <1>6. lineCount' = Whole(console', n + 1)
    BY <1>1, <1>2, <1>3, <1>5, WholeStep
  <1>7. \A i \in 1..(n + 1) : console'[i].num = Whole(console', i - 1)
    <2> TAKE i \in 1..(n + 1)
    <2>1. CASE i \in 1..n
      BY <1>2, <1>3, <1>4, <2>1 DEF Numbered
    <2>2. CASE i = n + 1
      BY <1>2, <1>3, <1>5, <2>2
    <2> QED
      BY <1>2, <2>1, <2>2
  <1> QED
    BY <1>3, <1>6, <1>7 DEF Numbered

Screen == Mirrored /\ Numbered /\ Displayed

\* The steps that leave what is printed, posted, stored and owed alone.
LEMMA ScreenKept ==
  ASSUME Screen, UNCHANGED <<console, lineCount, pending, slots, size, count>>,
         shown' \in {shown, Blank},
         \A th \in Thread : (Owes(th)' <=> Owes(th)) /\ (Owes(th) => pkt'[th] = pkt[th])
  PROVE  Screen'
PROOF
  <1>1. Mirrored'
    BY MirroredKept DEF Screen
  <1>2. Numbered'
    BY DEF Screen, Numbered
  <1>3. (\A th \in Thread : ~Owes(th)') <=> \A th \in Thread : ~Owes(th)
    OBVIOUS
  <1>4. Unprintable(slots)' = Unprintable(slots)
    BY DEF Unprintable
  <1>5. Displayed'
    BY <1>3, <1>4 DEF Screen, Displayed
  <1> QED
    BY <1>1, <1>2, <1>5 DEF Screen

\* An empty console shows an empty list.
LEMMA ScreenEmpty ==
  ASSUME console' = <<>>, lineCount' = 0, pending' = <<>>, size' = 0,
         \A th \in Thread : ~Owes(th)'
  PROVE  Screen'
PROOF
  <1>1. Mirrored'
    BY MirroredEmpty
  <1>2. Numbered'
    BY EmptySeq, WholeStep DEF Numbered
  <1>3. Displayed'
    BY DEF Displayed
  <1> QED
    BY <1>1, <1>2, <1>3 DEF Screen

\* The console is empty whenever the capture is.
LEMMA EmptyScreen ==
  ASSUME SessionTypeOK, Mirrored, Numbered, size = 0, \A th \in Thread : ~Owes(th)
  PROVE  console = <<>> /\ lineCount = 0 /\ pending = <<>>
PROOF
  <1>1. Len(console) + Len(pending) = 0
    BY DEF Mirrored
  <1>2. console \in Seq(ConsoleRow) /\ pending \in Seq(Packet)
    BY DEF Mirrored, SessionTypeOK, StoreTypeOK
  <1>3. Len(console) = 0 /\ Len(pending) = 0
    BY <1>1, <1>2, LenProperties
  <1> QED
    BY <1>2, <1>3, EmptySeq, WholeStep DEF Numbered

\* A packet is printed; with the last one the numbers on display are current.
LEMMA ScreenPrint ==
  ASSUME SessionTypeOK, Screen, RunLater
  PROVE  Screen'
PROOF
  <1>1. lineCount \in Nat
    BY LenProperties, WholeStep DEF Screen, Mirrored, Numbered
  <1>2. Mirrored'
    BY <1>1, MirroredPrint DEF Screen
  <1>3. Numbered'
    BY NumberedPrint DEF Screen
  <1>4. ASSUME Unprintable(slots') = {}, size' > 0 PROVE shown' = count'
    <2>1. pending # <<>> /\ UNCHANGED <<slots, size, count>>
      BY DEF RunLater, listVars
    <2>2. pending \in Seq(Packet) /\ slots \in Seq(Packet) /\ size \in 0..Len(slots)
          /\ console \in Seq(ConsoleRow)
      BY DEF SessionTypeOK, StoreTypeOK, Screen, Mirrored
    <2>3. Len(pending) \in Nat /\ Len(pending) > 0 /\ Len(console) \in Nat
          /\ Len(slots) \in Nat /\ DOMAIN slots = 1..Len(slots)
      BY <2>1, <2>2, LenProperties, EmptySeq
    <2>4. Len(console) + Len(pending) <= size
      BY <2>2, <2>3 DEF Screen, Mirrored
    <2>5. Len(console) + 1 \in DOMAIN slots
      BY <2>2, <2>3, <2>4
    <2>6. Head(pending) = slots[Len(console) + 1]
      <3>1. 1 \in 1..Len(pending) /\ pending[1] = Head(pending)
        BY <2>3
      <3> QED
        BY <3>1 DEF Screen, Mirrored
    <2>7. Formattable(Head(pending))
      BY <1>4, <2>1, <2>5, <2>6 DEF Unprintable
    <2> QED
      BY <2>1, <2>7 DEF RunLater, PrintRow
  <1>5. Displayed'
    BY <1>4 DEF Displayed
  <1> QED
    BY <1>2, <1>3, <1>5 DEF Screen

\* A thread posts the packet it has in hand, which then is to be printed.
LEMMA ScreenPost ==
  ASSUME CoreInv, LoadedInv, Screen, calm, NEW th \in Thread, PostPacket(th)
  PROVE  Screen'
PROOF
  <1>1. Mirrored'
    BY MirroredPost DEF Screen
  <1>2. Numbered'
    BY DEF Screen, Numbered, PostPacket, fxVars, consoleVars
  <1>3. Displayed'
    <2>1. pkt[th] \in Packet /\ pending \in Seq(Packet)
      BY DEF PostPacket, CoreInv, SessionTypeOK, ThreadTypeOK, StoreTypeOK
    <2>2. pending' # <<>>
      BY <2>1, AppendProperties DEF PostPacket
    <2> QED
      BY <2>2 DEF Displayed
  <1> QED
    BY <1>1, <1>2, <1>3 DEF Screen

\* A packet is stored: the thread that did it owes its printing from then on.
LEMMA ScreenAdd ==
  ASSUME CoreInv, LoadedInv, Screen, calm, NEW th \in Thread, AddPacket(th)
  PROVE  Screen'
PROOF
  <1>1. /\ UNCHANGED <<pkt, pending, console, lineCount, shown>> /\ pkt[th] \in Packet
        /\ \A u \in Thread : u # th => ~Owes(u) /\ ~Owes(u)'
    BY AddStep DEF fxVars, consoleVars, Owes
  <1>2. CASE UNCHANGED <<slots, size, count>> /\ Owes(th)' = Owes(th)
    BY <1>1, <1>2, ScreenKept
  <1>3. CASE Owes(th) /\ Owes(th)' /\ UNCHANGED <<slots, size>>
    <2>1. Mirrored'
      BY <1>1, <1>3, MirroredKept DEF Screen
    <2>2. Numbered'
      BY <1>1 DEF Screen, Numbered
    <2>3. Displayed'
      BY <1>3 DEF Displayed
    <2> QED
      BY <2>1, <2>2, <2>3 DEF Screen
  <1>4. CASE /\ slots' = Append(slots, pkt[th]) /\ size' = size + 1
             /\ ~Owes(th) /\ Owes(th)'
    <2>1. slots \in Seq(Packet) /\ size = Len(slots) /\ size \in Nat /\ pending \in Seq(Packet)
      BY DEF LoadedInv, CoreInv, SessionTypeOK, StoreTypeOK
    <2>2. /\ \A i \in 1..size : slots'[i] = slots[i]
          /\ slots'[size'] = pkt[th]
      BY <1>1, <1>4, <2>1, AppendProperties
    <2>3. /\ console \in Seq(ConsoleRow) /\ Len(console) \in Nat /\ Len(pending) \in Nat
          /\ Len(console) + Len(pending) = size
      BY <1>1, <1>4, <2>1, LenProperties DEF Screen, Mirrored
    <2>4. \A i \in 1..Len(console) : console[i].pkt = slots'[i]
      BY <2>2, <2>3 DEF Screen, Mirrored
    <2>5. \A i \in 1..Len(pending) : pending[i] = slots'[Len(console) + i]
      <3> TAKE i \in 1..Len(pending)
      <3>1. Len(console) + i \in 1..size
        BY <2>3
      <3> QED
        BY <2>2, <3>1 DEF Screen, Mirrored
    <2>6. Mirrored'
      BY <1>1, <1>4, <2>1, <2>2, <2>3, <2>4, <2>5 DEF Mirrored
    <2>7. Numbered'
      BY <1>1 DEF Screen, Numbered
    <2>8. Displayed'
      BY <1>4 DEF Displayed
    <2> QED
      BY <2>6, <2>7, <2>8 DEF Screen
  <1>5. th # Fx
    OBVIOUS
  <1> QED
    BY <1>2, <1>3, <1>4, <1>5, AddStep DEF Owes

\* The file that was loaded waits to be printed.
LEMMA ScreenLoaded ==
  ASSUME CoreInv, LoadedInv, calm, PostLoaded,
         console = <<>>, lineCount = 0, pending = <<>>
  PROVE  Screen'
PROOF
  <1>1. /\ pending' = pending \o Capture
        /\ UNCHANGED <<console, lineCount, slots, size>>
    BY DEF PostLoaded, consoleVars, listVars
  <1>2. pending' = slots /\ slots \in Seq(Packet) /\ Len(slots) = size
    BY <1>1, CaptureIsArray, ConcatEmptySeq DEF CoreInv
  <1>3. pc[Fx] = "reading" /\ \A th \in Thread : pc'[th] = pc[th]
    BY DEF PostLoaded, Goto, CoreInv, SessionTypeOK, ThreadTypeOK, PcTypeOK
  <1>4. \A th \in Thread : ~Owes(th)'
    BY <1>3 DEF CoreInv, CalmInv, Idle, Alive, Owes
  <1>5. Len(slots) \in Nat
    BY <1>2, LenProperties
  <1>6. Mirrored'
    BY <1>1, <1>2, <1>4, <1>5, EmptySeq DEF Mirrored
  <1>7. Numbered'
    BY <1>1, EmptySeq, WholeStep DEF Numbered
  <1>8. Displayed'
    BY <1>1, <1>2, EmptySeq DEF Displayed
  <1> QED
    BY <1>6, <1>7, <1>8 DEF Screen

\* Clearing the filters of a settled capture prints it once more, from row 0.
LEMMA ScreenCleared ==
  ASSUME CoreInv, LoadedInv, Screen, calm, ClearFilters, intact'
  PROVE  Screen'
PROOF
  <1> USE DEF CoreInv, SessionTypeOK
  <1>1. /\ Settled /\ Unprintable(Capture) = {} /\ console' = Rows(Capture)
        /\ UNCHANGED <<pc, pkt, slots, size, count, pending, lineCount, shown>>
    BY DEF ClearFilters, threadVars, listVars
  <1>2. Capture = slots /\ slots \in Seq(Packet) /\ Len(slots) = size /\ size \in Nat
    BY CaptureIsArray, LenProperties
  <1>3. \A th \in Thread : ~Owes(th) /\ ~Owes(th)'
    BY <1>1 DEF Settled, Alive, Owes
  <1>4. pending = <<>>
    BY <1>1 DEF Settled
  <1>5. \A i \in 1..size : Formattable(slots[i]) /\ slots[i] \in Packet
    BY <1>1, <1>2 DEF Unprintable
  <1>6. console' = [i \in 1..size |-> [num |-> i - 1, pkt |-> slots[i]]]
    BY <1>1, <1>2 DEF Rows, Printed
  <1>7. console' \in Seq(ConsoleRow) /\ Len(console') = size
    BY <1>2, <1>5, <1>6 DEF ConsoleRow
  <1>8. \A i \in 1..size : console'[i].num = i - 1 /\ console'[i].pkt = slots[i]
    BY <1>6
  <1>9. \A n \in 0..size : Whole(console', n) = n
    <2> TAKE n \in 0..size
    <2>1. \A j \in 1..n : Formattable(console'[j].pkt)
      BY <1>2, <1>5, <1>8
    <2> QED
      BY <1>2, <2>1, WholeAll
  <1>10. lineCount = size
    <2>1. Len(console) = size
      BY <1>2, <1>3, <1>4, EmptySeq DEF Screen, Mirrored
    <2>2. \A j \in 1..size : Formattable(console[j].pkt)
      BY <1>5, <2>1 DEF Screen, Mirrored
    <2> QED
      BY <1>2, <2>1, <2>2, WholeAll DEF Screen, Numbered
  <1>11. Mirrored'
    BY <1>1, <1>2, <1>3, <1>4, <1>7, <1>8, EmptySeq DEF Mirrored
  <1>12. Numbered'
    BY <1>1, <1>2, <1>7, <1>8, <1>9, <1>10 DEF Numbered
  <1>13. Displayed'
    BY <1>1, <1>3 DEF Screen, Displayed, Unprintable
  <1> QED
    BY <1>11, <1>12, <1>13 DEF Screen

\* Every step keeps the console, the queue and the numbers on display in step with the
\* capture.
LEMMA ScreenInvStep ==
  ASSUME CoreInv, LoadedInv, ClearedInv, ScreenInv, Next
  PROVE  ScreenInv'
PROOF
  <1> SUFFICES ASSUME calm', intact' PROVE ScreenInv'
    BY DEF ScreenInv
  <1> USE DEF CoreInv
  <1> DEFINE Loading == pc[Fx] \in AddPcs \cup {"reading"}
             Blanked == console = <<>> /\ lineCount = 0 /\ pending = <<>>
  <1>1. CASE ClearCapture \/ OpenCapture
    BY <1>1, CalmClear DEF ScreenInv, Idle, AddPcs
  <1>2. CASE ~ClearCapture /\ ~OpenCapture
    <2>1. calm /\ intact
      BY <1>2, HistoryStep
    <2>2. (Idle => Screen) /\ (Loading => Blanked)
      BY <2>1 DEF ScreenInv, Screen
    <2>3. ASSUME Idle', Screen' PROVE ScreenInv'
      BY <2>3 DEF ScreenInv, Screen, Idle, AddPcs
    <2>4. ASSUME ~Idle', ~Loading' PROVE ScreenInv'
      BY <2>4 DEF ScreenInv
    <2>5. ASSUME ~Idle', Blanked' PROVE ScreenInv'
      BY <2>5 DEF ScreenInv
    <2>7. ASSUME NEW th \in Thread, CaptureStep(th) PROVE ScreenInv'
      <3>1. Idle /\ Idle' /\ UNCHANGED fxVars
        BY <2>1, <2>7, CaptureStepRunning DEF CalmInv, Idle
      <3>2. CASE AddPacket(th)
        BY <2>1, <2>2, <2>3, <3>1, <3>2, ScreenAdd
      <3>3. CASE PostPacket(th)
        BY <2>1, <2>2, <2>3, <3>1, <3>3, ScreenPost
      <3>4. CASE ~AddPacket(th) /\ ~PostPacket(th)
        <4>1. UNCHANGED <<slots, size, count, pending>>
          BY <2>7, <3>4 DEF CaptureStep, OpenDevice, LoopTest, ReadNothing, ReadTimeout, ReadPacket,
             CheckInterrupt, CatchInterrupt, Report, CloseCaptor, listVars
        <4>2. \A u \in Thread : (Owes(u)' <=> Owes(u)) /\ (Owes(u) => pkt'[u] = pkt[u])
          BY <2>7, <3>4 DEF CaptureStep, OpenDevice, LoopTest, ReadNothing, ReadTimeout, ReadPacket,
             CheckInterrupt, CatchInterrupt, Report, CloseCaptor, Owes, Goto,
             SessionTypeOK, ThreadTypeOK, PcTypeOK
        <4>3. UNCHANGED <<console, lineCount, shown>>
          BY <3>1 DEF fxVars, consoleVars
        <4>4. Screen'
          BY <2>2, <3>1, <4>1, <4>2, <4>3, ScreenKept
        <4> QED
          BY <2>3, <3>1, <4>4
      <3> QED
        BY <3>2, <3>3, <3>4
    <2>8. CASE RunLater
      <3>1. Idle /\ Idle'
        BY <2>8 DEF RunLater, Idle, threadVars
      <3> QED
        BY <2>2, <2>3, <2>8, <3>1, ScreenPrint
    <2>9. CASE AddPacket(Fx)
      <3>1. /\ Loading /\ ~Idle' /\ UNCHANGED <<console, lineCount, pending>>
        BY <2>1, <2>9, AddStep DEF Idle, fxVars, consoleVars, AddPcs
      <3> QED
        BY <2>2, <2>5, <3>1
    <2>10. CASE RenewList \/ ClearStats
      <3>1. ~Idle' /\ ~Loading'
        BY <2>1, <2>10, CalmClearing DEF Idle, AddPcs
      <3> QED
        BY <2>4, <3>1
    <2>11. CASE RelistCleared
      <3>1. size = 0 /\ pending = <<>> /\ ~Idle /\ UNCHANGED <<size, pending>>
        BY <2>1, <2>11 DEF RelistCleared, ClearedInv, Idle, listVars
      <3>2. Capture = <<>>
        BY <2>1, <3>1, CaptureIsArray, EmptySeq
      <3>3. console' = <<>> /\ lineCount' = 0
        BY <2>11, <3>2, EmptySeq DEF RelistCleared, Rows, Printed, Unprintable
      <3>4. Idle' /\ \A th \in Thread : pc'[th] = pc[th] /\ ~Alive(th)
        BY <2>1, <2>11, <3>1 DEF RelistCleared, Goto, CalmInv, Idle, SessionTypeOK,
           ThreadTypeOK, PcTypeOK
      <3>5. \A th \in Thread : ~Owes(th)'
        BY <3>4 DEF Owes, Alive
      <3> QED
        BY <2>3, <3>1, <3>3, <3>4, <3>5, ScreenEmpty
    <2>12. CASE ReadObject
      <3>1. /\ Loading /\ ~Idle' /\ UNCHANGED <<console, lineCount, pending>>
        BY <2>12 DEF ReadObject, Idle, consoleVars, Goto, SessionTypeOK, ThreadTypeOK, PcTypeOK
      <3> QED
        BY <2>2, <2>5, <3>1
    <2>13. CASE PostLoaded
      <3>1. Loading /\ Idle'
        BY <2>13 DEF PostLoaded, Idle, Goto, SessionTypeOK, ThreadTypeOK, PcTypeOK
      <3> QED
        BY <2>1, <2>2, <2>3, <2>13, <3>1, ScreenLoaded
    <2>14. CASE StartCapture
      <3>1. /\ Settled /\ Idle /\ Idle' /\ size' = 0 /\ console = <<>>
            /\ UNCHANGED <<console, lineCount, pending>>
            /\ \A w \in Worker : pc'[w] \in {"unused", "ended", "idle", "open"}
        BY <2>14, CalmStart DEF Idle, consoleVars
      <3>2. pending = <<>> /\ \A th \in Thread : ~Owes(th)'
        BY <3>1 DEF Settled, Owes
      <3>3. lineCount = 0
        BY <2>2, <3>1, EmptySeq, WholeStep DEF Screen, Numbered
      <3> QED
        BY <2>3, <3>1, <3>2, <3>3, ScreenEmpty
    <2>15. CASE ApplyFilters
      BY <2>15 DEF ApplyFilters
    <2>16. CASE ClearFilters
      <3>1. Idle /\ Idle'
        BY <2>16 DEF ClearFilters, Click, Idle, threadVars
      <3> QED
        BY <2>1, <2>2, <2>3, <2>16, <3>1, ScreenCleared
    <2>17. CASE ChooseOther \/ ChooseFile
      <3>1. Idle /\ size = 0 /\ UNCHANGED <<size, console, lineCount>>
        BY <2>1, <2>17 DEF ChooseOther, ChooseFile, CloseDialog, ClearedInv, consoleVars, listVars
      <3>2. \A th \in Thread : ~Alive(th) /\ pc'[th] = pc[th]
        BY <2>1, <2>17 DEF ChooseOther, ChooseFile, CloseDialog, CalmInv, threadVars, Goto,
           SessionTypeOK, ThreadTypeOK, PcTypeOK
      <3>3. \A th \in Thread : ~Owes(th) /\ ~Owes(th)'
        BY <3>2 DEF Owes, Alive
      <3>4. Blanked
        BY <2>2, <3>1, <3>3, EmptyScreen DEF Screen
      <3>5. Capture = <<>>
        BY <2>1, <3>1, CaptureIsArray, EmptySeq
      <3>6. pending' = <<>>
        BY <2>17, <3>4, <3>5 DEF ChooseOther, ChooseFile
      <3>7. CASE ChooseOther
        <4>1. Idle'
          BY <3>1, <3>7 DEF ChooseOther, Idle, threadVars
        <4> QED
          BY <2>3, <3>1, <3>3, <3>4, <3>6, <4>1, ScreenEmpty
      <3>8. CASE ChooseFile
        <4>1. ~Idle'
          BY <3>8 DEF ChooseFile, Idle, Goto, SessionTypeOK, ThreadTypeOK, PcTypeOK
        <4> QED
          BY <2>5, <3>1, <3>4, <3>6, <4>1
      <3> QED
        BY <2>17, <3>7, <3>8
    <2>18. CASE SelectDevice \/ StopCapture \/ StopNothing \/ ResetStats \/ SaveCapture
                \/ CancelDialog
      <3>1. /\ Idle /\ Idle' /\ UNCHANGED <<console, lineCount, pending, slots, size, count>>
            /\ shown' \in {shown, Blank}
        BY <2>18 DEF SelectDevice, StopCapture, StopNothing, ResetStats, SaveCapture, CancelDialog,
           CloseDialog, Click, Idle, consoleVars, listVars, threadVars, fxVars, vars
      <3>2. \A th \in Thread : Owes(th)' = Owes(th) /\ pkt'[th] = pkt[th]
        BY <2>18 DEF SelectDevice, StopCapture, StopNothing, ResetStats, SaveCapture, CancelDialog,
           Owes, threadVars, vars
      <3>3. Screen'
        BY <2>2, <3>1, <3>2, ScreenKept
      <3> QED
        BY <2>3, <3>1, <3>3
    <2> HIDE DEF Loading, Blanked
    <2> QED
      BY <1>2, <2>7, <2>8, <2>9, <2>10, <2>11, <2>12, <2>13, <2>14, <2>15, <2>16, <2>17, <2>18
      DEF Next, HandlerStep, UserAction
  <1> QED
    BY <1>1, <1>2

-----------------------------------------------------------------------------
(* The invariant of the whole session, and what follows from it.           *)

Inv == SessionTypeOK /\ SessionInv

\* The window as initialize leaves it satisfies the invariant.
LEMMA InitInv == Init => Inv
PROOF
  <1> SUFFICES ASSUME Init PROVE Inv
    OBVIOUS
  <1>1. CoreInv
    BY InitCore
  <1>2. LoadedInv /\ ClearedInv /\ AccountInv
    <2>1. LoadedInv
      BY EmptySeq DEF Init, LoadedInv
    <2>2. ClearedInv
      BY DEF Init, ClearedInv, Idle
    <2>3. AccountInv
      <3>1. SumOfProtocols = count["total"]
        BY DEF Init, SumOfProtocols, Counters, Protocols
      <3>2. \A w \in Worker : ~HalfCounted(w)
        BY DEF Init, HalfCounted
      <3> QED
        BY <3>1, <3>2 DEF AccountInv
    <2> QED
      BY <2>1, <2>2, <2>3
  <1>3. CountsInv
    BY CountedEmpty DEF Init, CountsInv, Uncounted, HalfCounted, Counters
  <1>4. LoadsFile
    BY DEF Init, LoadsFile, AddPcs
  <1>5. ScreenInv
    <2>1. Mirrored
      BY EmptySeq DEF Init, Mirrored, Owes
    <2>2. Numbered /\ Displayed
      BY EmptySeq, WholeStep DEF Init, Numbered, Displayed
    <2> QED
      BY <2>1, <2>2 DEF Init, ScreenInv, AddPcs
  <1> QED
    BY <1>1, <1>2, <1>3, <1>4, <1>5 DEF Inv, SessionInv, BooksInv, CoreInv

\* Every handler and every step of a capture thread preserves it.
LEMMA NextInv == Inv /\ [Next]_vars => Inv'
PROOF
  <1> SUFFICES ASSUME Inv, [Next]_vars PROVE Inv'
    OBVIOUS
  <1> USE DEF Inv, SessionInv, BooksInv
  <1>1. CASE Next
    <2>1. CoreInv
      BY DEF CoreInv
    <2>2. CoreInv'
      BY <1>1, <2>1, NextCore
    <2>3. BooksInv' /\ LoadsFile' /\ ScreenInv'
      BY <1>1, <2>1, LoadedStep, ClearedStep, AccountStep, CountsStep, LoadsFileStep, ScreenInvStep
    <2> QED
      BY <2>2, <2>3 DEF CoreInv
  <1>2. CASE UNCHANGED vars
    <2>1. CoreInv'
      BY <1>2, NextCore DEF CoreInv
    <2> USE DEF vars, threadVars, fxVars, windowVars, consoleVars, fileVars, listVars, historyVars
    <2>2. LoadedInv' /\ ClearedInv' /\ AccountInv'
      BY <1>2 DEF LoadedInv, ClearedInv, AccountInv, HalfCounted, SumOfProtocols, Idle
    <2>3. CountsInv'
      BY <1>2 DEF CountsInv, Counted, Uncounted, HalfCounted
    <2>4. LoadsFile'
      BY <1>2 DEF LoadsFile, Capture
    <2>5. ScreenInv'
      BY <1>2 DEF ScreenInv, Mirrored, Numbered, Displayed, Whole, Unprintable, Owes, Idle
    <2> QED
      BY <2>1, <2>2, <2>3, <2>4, <2>5 DEF CoreInv
  <1> QED
    BY <1>1, <1>2

\* Every reachable state is well typed and satisfies the invariant of the session
\* (Controller, PacketManager and JpcapInstance).
THEOREM SessionInvariant == Spec => [](SessionTypeOK /\ SessionInv)
PROOF
  <1>1. Spec => []Inv
    BY InitInv, NextInv, PTL DEF Spec
  <1> QED
    BY <1>1, PTL DEF Inv

\* With calm use the total of PacketManager is the sum of its statistics, whatever
\* countPacket and clearStats were interrupted by.
THEOREM StatsAddUpHolds == Spec => []StatsAddUp
PROOF
  <1>1. Inv => StatsAddUp
    BY DEF Inv, SessionInv, BooksInv, AccountInv, StatsAddUp, HalfCounted, SumOfProtocols, AddPcs
  <1> QED
    BY <1>1, InitInv, NextInv, PTL DEF Spec

\* With calm use the statistics are those of the capture (countPacket, clearStats,
\* newCapture).
THEOREM CountsMatchCaptureHolds == Spec => []CountsMatchCapture
PROOF
  <1>1. Inv => CountsMatchCapture
    <2> SUFFICES ASSUME Inv, calm, intact,
                        \A w \in Worker : pc[w] \notin AddPcs \cup {"renew", "zero"}
                 PROVE  /\ count["total"] = size
                        /\ \A c \in Protocols : count[c] = Counted(Capture, c)
      BY DEF CountsMatchCapture
    <2> USE DEF Inv, SessionInv, BooksInv
    <2>1. \A w \in Worker : ~Uncounted(w) /\ ~HalfCounted(w)
      BY DEF Uncounted, HalfCounted, AddPcs
    <2>2. Capture = slots
      BY CaptureIsArray
    <2>3. pc[Fx] \notin {"renew", "zero"}
      OBVIOUS
    <2> QED
      BY <2>1, <2>2, <2>3 DEF CountsInv
  <1> QED
    BY <1>1, InitInv, NextInv, PTL DEF Spec

\* A file is loaded whole and in order, if nobody captures meanwhile
\* (handleOpenCapture, openCapture).
THEOREM LoadsFileHolds == Spec => []LoadsFile
PROOF
  <1>1. Inv => LoadsFile
    BY DEF Inv, SessionInv
  <1> QED
    BY <1>1, InitInv, NextInv, PTL DEF Spec

\* With calm use, once all is printed the numbers on display are the statistics
\* (printPacket, updateStats, resetStats).
THEOREM DisplayCurrentHolds == Spec => []DisplayCurrent
PROOF
  <1>1. Inv => DisplayCurrent
    <2> SUFFICES ASSUME Inv, calm, intact, Settled, Idle, size > 0, Unprintable(Capture) = {}
                 PROVE  shown \in {count, Blank}
      BY DEF DisplayCurrent
    <2>1. Capture = slots
      BY CaptureIsArray DEF Inv, SessionInv, BooksInv
    <2>2. pending = <<>> /\ \A th \in Thread : ~Owes(th)
      BY DEF Settled, Alive, Owes
    <2> QED
      BY <2>1, <2>2 DEF Inv, SessionInv, ScreenInv, Displayed
  <1> QED
    BY <1>1, InitInv, NextInv, PTL DEF Spec

\* With calm use and no filter the console, the queue of runnables and the packet about
\* to be posted are the capture, in its order, and the rows are numbered by those
\* printed whole (printPacket, printAllPackets, handleClearFilters).
THEOREM ConsoleMirrorsCaptureHolds == Spec => []ConsoleMirrorsCapture
PROOF
  <1>1. Inv => ConsoleMirrorsCapture
    <2> SUFFICES ASSUME Inv, calm, intact, Idle PROVE ConsoleMirrorsCapture
      BY DEF ConsoleMirrorsCapture
    <2> USE DEF Inv, SessionInv
    <2>1. Mirrored /\ Numbered
      BY DEF ScreenInv
    <2>2. Capture = slots /\ slots \in Seq(Packet) /\ Len(slots) = size
      BY CaptureIsArray DEF BooksInv
    <2>3. /\ console \in Seq(ConsoleRow) /\ pending \in Seq(Packet)
          /\ Len(console) \in Nat /\ Len(pending) \in Nat /\ size \in Nat
          /\ DOMAIN console = 1..Len(console)
      BY <2>1, <2>2, LenProperties DEF Mirrored, SessionTypeOK, StoreTypeOK
    <2> DEFINE rows == [i \in DOMAIN console |-> console[i].pkt]
    <2>4. /\ rows \in Seq(Packet) /\ Len(rows) = Len(console)
          /\ \A i \in 1..Len(console) : rows[i] = console[i].pkt
      <3>1. \A i \in 1..Len(console) : console[i].pkt \in Packet
        <4> TAKE i \in 1..Len(console)
        <4>1. console[i] \in ConsoleRow
          BY <2>3, ElementOfSeq
        <4> QED
          BY <4>1 DEF ConsoleRow
      <3> QED
        BY <2>3, <3>1
    <2> HIDE DEF rows
    <2> DEFINE printed == rows \o pending
    <2>5. /\ printed \in Seq(Packet) /\ Len(printed) = Len(console) + Len(pending)
          /\ \A i \in 1..Len(printed) :
               printed[i] = IF i <= Len(console) THEN rows[i] ELSE pending[i - Len(console)]
      <3>1. rows \in Seq(Packet) /\ pending \in Seq(Packet)
        BY <2>3, <2>4
      <3>2. /\ rows \o pending \in Seq(Packet)
            /\ Len(rows \o pending) = Len(rows) + Len(pending)
            /\ \A i \in 1..Len(rows) + Len(pending) :
                 (rows \o pending)[i] = IF i <= Len(rows) THEN rows[i] ELSE pending[i - Len(rows)]
        BY <3>1, ConcatProperties
      <3> QED
        BY <2>4, <3>2
    <2> HIDE DEF printed
    <2>6. \A i \in 1..Len(printed) : printed[i] = slots[i]
      <3> TAKE i \in 1..Len(printed)
      <3>1. CASE i <= Len(console)
        BY <2>1, <2>3, <2>4, <2>5, <3>1 DEF Mirrored
      <3>2. CASE ~(i <= Len(console))
        <4>1. i - Len(console) \in 1..Len(pending) /\ Len(console) + (i - Len(console)) = i
          BY <2>3, <2>5, <3>2
        <4> QED
          BY <2>1, <2>5, <3>2, <4>1 DEF Mirrored
      <3> QED
        BY <3>1, <3>2
    <2> DEFINE Ends(last) == /\ \A th \in Thread : Unposted(th) \in {<<>>, last}
                             /\ printed \o last = Capture
    <2>7. \E last \in {<<>>} \cup {Unposted(th) : th \in Thread} : Ends(last)
      <3>1. CASE \A th \in Thread : ~Owes(th)
        <4>1. printed = slots
          BY <2>1, <2>2, <2>5, <2>6, <3>1, SeqEqual DEF Mirrored
        <4>2. printed \o <<>> = Capture
          BY <2>2, <2>5, <4>1, ConcatEmptySeq
        <4>3. \A th \in Thread : Unposted(th) = <<>>
          BY <3>1 DEF Unposted
        <4> QED
          BY <4>2, <4>3
      <3>2. ASSUME NEW a \in Thread, Owes(a)
            PROVE  \E last \in {<<>>} \cup {Unposted(th) : th \in Thread} : Ends(last)
        <4>1. /\ Len(printed) + 1 = size /\ pkt[a] = slots[size] /\ pkt[a] \in Packet
          <5>1. Len(console) + Len(pending) = size - 1 /\ pkt[a] = slots[size]
            BY <2>1, <3>2 DEF Mirrored
          <5>2. pkt[a] \in Packet
            BY <3>2 DEF Owes, SessionTypeOK, ThreadTypeOK, AddPcs
          <5>3. Len(printed) + 1 = size
            <6>1. Len(printed) = Len(console) + Len(pending)
              BY <2>5
            <6>2. Len(console) \in Nat /\ Len(pending) \in Nat /\ size \in Nat
              BY <2>3
            <6> HIDE DEF Inv, SessionInv
            <6> QED
              BY <5>1, <6>1, <6>2
          <5> QED
            BY <5>1, <5>2, <5>3
        <4>2. Append(printed, pkt[a]) = slots
          <5>1. /\ Append(printed, pkt[a]) \in Seq(Packet)
                /\ Len(Append(printed, pkt[a])) = size
                /\ \A i \in 1..Len(printed) : Append(printed, pkt[a])[i] = printed[i]
                /\ Append(printed, pkt[a])[size] = pkt[a]
            BY <2>5, <4>1, AppendProperties
          <5>2. Len(printed) \in Nat
            BY <2>5, LenProperties
          <5>3. \A i \in 1..size : Append(printed, pkt[a])[i] = slots[i]
            BY <2>6, <4>1, <5>1, <5>2
          <5> QED
            BY <2>2, <5>1, <5>3, SeqEqual
        <4>3. printed \o <<pkt[a]>> = Capture
          BY <2>2, <2>5, <4>1, <4>2, AppendIsConcat, SMTT(40)
        <4>4. Unposted(a) = <<pkt[a]>>
          BY <3>2 DEF Unposted
        <4>5. \A th \in Thread : Unposted(th) \in {<<>>, Unposted(a)}
          <5> TAKE th \in Thread
          <5>1. CASE Owes(th)
            <6>1. th = a
              BY <3>2, <5>1, OneAtWork DEF Owes, CoreInv
            <6> QED
              BY <6>1
          <5>2. CASE ~Owes(th)
            BY <5>2 DEF Unposted
          <5> QED
            BY <5>1, <5>2
        <4>6. Ends(Unposted(a))
          BY <4>3, <4>4, <4>5
        <4> HIDE DEF Ends
        <4> QED
          BY <4>6
      <3> QED
        BY <3>1, <3>2
    <2>8. \A i \in DOMAIN console :
            console[i].num = Cardinality({j \in 1..(i-1) : Formattable(console[j].pkt)})
      BY <2>1, <2>3 DEF Numbered, Whole
    <2>9. lineCount = Cardinality({j \in DOMAIN console : Formattable(console[j].pkt)})
      BY <2>1, <2>3 DEF Numbered, Whole
    <2> QED
      BY <2>7, <2>8, <2>9 DEF ConsoleMirrorsCapture, printed, rows
  <1> QED
    BY <1>1, InitInv, NextInv, PTL DEF Spec
=============================================================================

--------------------------- MODULE CaptureSession ---------------------------
(***************************************************************************)
(* A capture session of the Scanner window: the JavaFX thread Fx, which    *)
(* runs the handlers of the main window one at a time, the capture threads *)
(* that Start creates, the capture and its statistics in PacketManager,    *)
(* the runnables the threads post to the JavaFX thread, and the table of   *)
(* jpcap instances.                                                        *)
(*                                                                         *)
(* Nothing in PacketManager is synchronised.  A step is one access to what *)
(* the threads share: ArrayList.add is the reading of the list and of its  *)
(* size, then the writing of slot and size; a counter++ is a load and a    *)
(* store; PacketManager.clearCapture is four steps.                        *)
(***************************************************************************)
EXTENDS Integers, Sequences, FiniteSets, Packets

CONSTANTS
  Thread,        \* the capture threads that Start may create, one after another
  Fx,            \* the JavaFX application thread
  NoThread,      \* field t before the first capture
  NoPacket,      \* what a thread that has received nothing holds
  Blank,         \* the statistics fields when they show no numbers
  NoFile,        \* no capture was ever saved
  FilterSets,    \* the sets of packets that the filters on offer let through
  SavedFiles,    \* what earlier sessions may have saved, as sequences of packets
  MaxInstances,  \* size of the jpcap instance table (255 in the code)
  MaxClicks      \* bound: how often the user clicks but for Start and Stop

ASSUME SessionAssumption ==
  /\ Fx \notin Thread /\ NoThread \notin Thread /\ NoPacket \notin Packet
  /\ FilterSets \subseteq SUBSET Packet /\ SavedFiles \subseteq Seq(Packet)
  /\ MaxInstances \in Nat \ {0} /\ MaxClicks \in Nat

VARIABLES
  (* each thread *)
  pc,            \* where it is
  pkt,           \* the packet it is handling, NoPacket when there is none
  reg,           \* the list size or counter it has loaded, 0 when there is none
  stale,         \* the threads about to write to a list that was replaced
  intr,          \* the interrupt flag of each capture thread
  captor,        \* the captor of each capture thread: none, open or closed
  (* PacketManager *)
  noList,        \* currentCapture is null
  slots,         \* the array under the list currentCapture ...
  size,          \* ... and how many of its slots the list says it has
  count,         \* the statistics
  (* the window *)
  t,             \* the last capture thread
  startDisabled, \* Start, Clear and the promiscuous mode box are disabled
  filtersOff,    \* the filter controls that are disabled
  deviceSelected,\* an interface is selected in the device list
  console,       \* the rows in the console
  lineCount,     \* the number the next printed packet gets
  shown,         \* the statistics on display
  pending,       \* the packets whose printing was posted with runLater
  (* the file of saved packets, and the handler that opens it *)
  file,
  rest,          \* what is still to be read
  opening,       \* clearCapture was called by handleOpenCapture
  dialogs,       \* how many calls of handleOpenCapture have a file dialog open
  (* the environment *)
  undelivered,   \* the packets the network has yet to deliver
  reserved,      \* how many jpcap instance IDs are taken
  clicks,        \* counts towards the bound MaxClicks
  (* history, read by properties alone *)
  late,          \* how many packets each thread stored after it was stopped
  calm,          \* since the last Clear no handler was started too early
  intact         \* since the last Clear the console shows the whole capture

windowVars == <<t, startDisabled, filtersOff, deviceSelected>>
consoleVars == <<console, lineCount, shown>>
fileVars == <<file, rest, opening, dialogs>>
listVars == <<noList, slots, size>>
historyVars == <<calm, intact>>
threadVars == <<pc, pkt, reg, stale, intr, captor, late>>
fxVars == <<windowVars, consoleVars, fileVars, clicks, historyVars>>
vars == <<threadVars, listVars, count, pending, fxVars, undelivered, reserved>>

-----------------------------------------------------------------------------
Worker == Thread \cup {Fx}

\* The steps of PacketManager.addPacket.
AddPcs == {"add", "write", "countLoad", "countStore", "totalLoad", "totalStore"}

ThreadPcs == AddPcs \cup {"unused", "open", "test", "read", "post", "check",
                          "catch", "report", "close", "ended"}

FxPcs == AddPcs \cup {"idle", "renew", "zero", "relist", "reading"}

Alive(th) == pc[th] \notin {"unused", "ended"}

\* Between Thread.interrupted(), which clears the flag, and the handler of
\* InterruptedException, which sets it again, a thread is stopped all the same.
Running(th) == Alive(th) /\ ~intr[th] /\ pc[th] # "catch"

\* The list as get and size see it.
Capture == SubSeq(slots, 1, size)

FilterControls == Protocols \cup {"form"}  \* "form" is all the other controls

\* Every capture thread has ended, all it posted is printed, no file dialog is open.
Settled == pending = <<>> /\ dialogs = 0 /\ \A th \in Thread : ~Alive(th)

\* Rows printed for the list s by a handler: formatPacketInfo throws at the
\* first packet it cannot format, after the row's number is out.
Unprintable(s) == {i \in DOMAIN s : ~Formattable(s[i])}
Printed(s) == IF Unprintable(s) = {} THEN Len(s)
              ELSE CHOOSE i \in Unprintable(s) : \A j \in Unprintable(s) : i <= j
Rows(s) == [i \in 1..Printed(s) |-> [num |-> i - 1, pkt |-> s[i]]]

Goto(w, label) == pc' = [pc EXCEPT ![w] = label]

Init ==
  /\ pc = [w \in Worker |-> IF w = Fx THEN "idle" ELSE "unused"]
  /\ pkt = [w \in Worker |-> NoPacket]
  /\ reg = [w \in Worker |-> 0]
  /\ stale = {}
  /\ intr = [th \in Thread |-> FALSE]
  /\ captor = [th \in Thread |-> "none"]
  /\ noList = FALSE /\ slots = <<>> /\ size = 0
  /\ count = [c \in Counters |-> 0]
  /\ t = NoThread
  /\ startDisabled = FALSE
  /\ filtersOff = FilterControls
  /\ deviceSelected = FALSE
  /\ console = <<>> /\ lineCount = 0 /\ shown = Blank
  /\ pending = <<>>
  /\ file \in {NoFile} \cup SavedFiles /\ rest = <<>> /\ opening = FALSE
  /\ dialogs = 0
  /\ undelivered = Packet
  /\ reserved = 0
  /\ clicks = 0
  /\ late = [th \in Thread |-> 0] /\ calm = TRUE /\ intact = TRUE

-----------------------------------------------------------------------------
(* PacketManager.addPacket, run by a capture thread or, for a file, by Fx  *)

\* currentCapture.add(packet): fetch the list and read its size.  A capture
\* thread that finds null dies of it; its captor stays open.
FetchList(w) ==
  /\ pc[w] = "add"
  /\ IF noList
     THEN Goto(w, "ended") /\ pkt' = [pkt EXCEPT ![w] = NoPacket] /\ UNCHANGED reg
     ELSE Goto(w, "write") /\ reg' = [reg EXCEPT ![w] = size] /\ UNCHANGED pkt
  /\ UNCHANGED <<stale, intr, captor, late, listVars, count, pending,
                 fxVars, undelivered, reserved>>

\* Write the slot after the size that was read, and the size.
AppendToFetched(w) ==
  IF w \in stale
  THEN UNCHANGED <<slots, size>>
  ELSE /\ slots' = IF reg[w] < Len(slots) THEN [slots EXCEPT ![reg[w] + 1] = pkt[w]]
                   ELSE Append(slots, pkt[w])
       /\ size' = reg[w] + 1

WriteSlot(w) ==
  /\ pc[w] = "write"
  /\ AppendToFetched(w)
  /\ reg' = [reg EXCEPT ![w] = 0]
  /\ stale' = stale \ {w}
  /\ late' = [th \in Thread |-> IF th = w /\ intr[th] THEN late[th] + 1 ELSE late[th]]
  /\ Goto(w, "countLoad")
  /\ UNCHANGED <<pkt, intr, captor, noList, count, pending, fxVars,
                 undelivered, reserved>>

Load(w, from, counter, to) ==
  /\ pc[w] = from
  /\ reg' = [reg EXCEPT ![w] = count[counter]]
  /\ Goto(w, to)
  /\ UNCHANGED <<pkt, stale, intr, captor, late, listVars, count, pending,
                 fxVars, undelivered, reserved>>

Store(w, from, counter, to) ==
  /\ pc[w] = from
  /\ count' = [count EXCEPT ![counter] = reg[w] + 1]
  /\ reg' = [reg EXCEPT ![w] = 0]
  /\ Goto(w, to)
  /\ UNCHANGED <<pkt, stale, intr, captor, late, listVars, pending,
                 fxVars, undelivered, reserved>>

\* countPacket: the statistic of the packet's protocol, then the total.
CountPacket(w) ==
  \/ Load(w, "countLoad", CounterOf(pkt[w]), "countStore")
  \/ Store(w, "countStore", CounterOf(pkt[w]), "totalLoad")
  \/ Load(w, "totalLoad", "total", "totalStore")
  \/ Store(w, "totalStore", "total", IF w = Fx THEN "reading" ELSE "post")

AddPacket(w) == FetchList(w) \/ WriteSlot(w) \/ CountPacket(w)

-----------------------------------------------------------------------------
(* The capture thread: Controller.capturePackets                           *)

\* An ID is reserved and then the interface opened; when that fails the ID
\* stays reserved, and when none is free nothing is opened.  Either way the
\* IOException is caught and captor stays null.  When the list of interfaces was
\* refreshed meanwhile and is shorter, the index is out of bounds: the thread dies.
OpenDevice(th) ==
  /\ pc[th] = "open"
  /\ \/ reserved < MaxInstances /\ reserved' = reserved + 1
        /\ \E c \in {"open", "none"} : captor' = [captor EXCEPT ![th] = c]
        /\ Goto(th, "test")
     \/ reserved = MaxInstances /\ Goto(th, "test") /\ UNCHANGED <<reserved, captor>>
     \/ Goto(th, "ended") /\ UNCHANGED <<reserved, captor>>
  /\ UNCHANGED <<pkt, reg, stale, intr, late, listVars, count, pending, fxVars,
                 undelivered>>

\* Mutation: while (true).
LoopForever(th) ==
  /\ pc[th] = "test"
  /\ Goto(th, "read")
  /\ UNCHANGED <<pkt, reg, stale, intr, captor, late, listVars, count, pending,
                 fxVars, undelivered, reserved>>

\* while (!Thread.currentThread().isInterrupted())
LoopTest(th) ==
  /\ pc[th] = "test"
  /\ Goto(th, IF intr[th] THEN "report" ELSE "read")
  /\ UNCHANGED <<pkt, reg, stale, intr, captor, late, listVars, count, pending,
                 fxVars, undelivered, reserved>>

\* With no captor the read ends the thread.
ReadNothing(th) ==
  /\ pc[th] = "read" /\ captor[th] = "none"
  /\ Goto(th, "ended")
  /\ UNCHANGED <<pkt, reg, stale, intr, captor, late, listVars, count, pending,
                 fxVars, undelivered, reserved>>

\* The read times out after 20 ms.
ReadTimeout(th) ==
  /\ pc[th] = "read" /\ captor[th] = "open"
  /\ Goto(th, "check")
  /\ UNCHANGED <<pkt, reg, stale, intr, captor, late, listVars, count, pending,
                 fxVars, undelivered, reserved>>

ReadPacket(th) ==
  /\ pc[th] = "read" /\ captor[th] = "open"
  /\ \E p \in undelivered :
       /\ undelivered' = undelivered \ {p}
       /\ IF Displayable(p)
          THEN pkt' = [pkt EXCEPT ![th] = p] /\ Goto(th, "add")
          ELSE Goto(th, "check") /\ UNCHANGED pkt
  /\ UNCHANGED <<reg, stale, intr, captor, late, listVars, count, pending,
                 fxVars, reserved>>

\* Mutation: a stopped thread posts nothing.
PostUnlessStopped(th) ==
  /\ pc[th] = "post"
  /\ pending' = IF intr[th] THEN pending ELSE Append(pending, pkt[th])
  /\ pkt' = [pkt EXCEPT ![th] = NoPacket]
  /\ Goto(th, "check")
  /\ UNCHANGED <<reg, stale, intr, captor, late, listVars, count, fxVars,
                 undelivered, reserved>>

\* printPacket: Platform.runLater.
PostPacket(th) ==
  /\ pc[th] = "post"
  /\ pending' = Append(pending, pkt[th])
  /\ pkt' = [pkt EXCEPT ![th] = NoPacket]
  /\ Goto(th, "check")
  /\ UNCHANGED <<reg, stale, intr, captor, late, listVars, count, fxVars,
                 undelivered, reserved>>

\* if (Thread.interrupted()) throw new InterruptedException()
CheckInterrupt(th) ==
  /\ pc[th] = "check"
  /\ intr' = [intr EXCEPT ![th] = FALSE]
  /\ Goto(th, IF intr[th] THEN "catch" ELSE "test")
  /\ UNCHANGED <<pkt, reg, stale, captor, late, listVars, count, pending,
                 fxVars, undelivered, reserved>>

\* Mutation: the exception is swallowed.
SwallowInterrupt(th) ==
  /\ pc[th] = "catch"
  /\ Goto(th, "test")
  /\ UNCHANGED <<pkt, reg, stale, intr, captor, late, listVars, count, pending,
                 fxVars, undelivered, reserved>>

\* catch (InterruptedException e) { Thread.currentThread().interrupt(); }
CatchInterrupt(th) ==
  /\ pc[th] = "catch"
  /\ intr' = [intr EXCEPT ![th] = TRUE]
  /\ Goto(th, "test")
  /\ UNCHANGED <<pkt, reg, stale, captor, late, listVars, count, pending,
                 fxVars, undelivered, reserved>>

\* println(getCurrentCapturePacket(2)) before close: with fewer than three
\* packets it throws, and the captor is never closed.
Report(th) ==
  /\ pc[th] = "report"
  /\ Goto(th, IF noList \/ size < 3 THEN "ended" ELSE "close")
  /\ UNCHANGED <<pkt, reg, stale, intr, captor, late, listVars, count, pending,
                 fxVars, undelivered, reserved>>

\* captor.close(), after which the thread is done whatever the last println does.
CloseCaptor(th) ==
  /\ pc[th] = "close"
  /\ IF captor[th] = "open"
     THEN captor' = [captor EXCEPT ![th] = "closed"] /\ reserved' = reserved - 1
     ELSE UNCHANGED <<captor, reserved>>
  /\ Goto(th, "ended")
  /\ UNCHANGED <<pkt, reg, stale, intr, late, listVars, count, pending, fxVars,
                 undelivered>>

CaptureStep(th) ==
  \/ OpenDevice(th) \/ LoopTest(th)
  \/ ReadNothing(th) \/ ReadTimeout(th) \/ ReadPacket(th)
  \/ AddPacket(th) \/ PostPacket(th)
  \/ CheckInterrupt(th) \/ CatchInterrupt(th)
  \/ Report(th) \/ CloseCaptor(th)

-----------------------------------------------------------------------------
(* The JavaFX thread                                                       *)

\* A handler can be called when none is running.  A file dialog has no owner: it
\* leaves the main window usable, and handlers run while it is open.
Idle == pc[Fx] = "idle"

\* PacketManager.newCapture: the threads that hold the old list still write to it.
NewCapture ==
  /\ noList' = FALSE /\ slots' = <<>> /\ size' = 0
  /\ stale' = {w \in Worker : pc[w] = "write"}

\* Mutation: the line is counted before the packet is formatted.
PrintCountedFirst(p) ==
  /\ console' = Append(console, [num |-> lineCount, pkt |-> p])
  /\ lineCount' = lineCount + 1
  /\ shown' = IF Formattable(p) THEN count ELSE shown

\* The row's number goes out before formatPacketInfo can throw; the statistics and
\* lineCount come after.
PrintRow(p) ==
  /\ console' = Append(console, [num |-> lineCount, pkt |-> p])
  /\ IF Formattable(p)
     THEN shown' = count /\ lineCount' = lineCount + 1
     ELSE UNCHANGED <<shown, lineCount>>

\* The runnable of printPacket.
RunLater ==
  /\ Idle
  /\ pending # <<>>
  /\ PrintRow(Head(pending))
  /\ pending' = Tail(pending)
  /\ UNCHANGED <<threadVars, listVars, count, windowVars, fileVars, clicks,
                 historyVars, undelivered, reserved>>

SelectDevice ==
  /\ Idle /\ ~deviceSelected
  /\ deviceSelected' = TRUE
  /\ UNCHANGED <<threadVars, listVars, count, pending, t, startDisabled, filtersOff,
                 consoleVars, fileVars, clicks, historyVars, undelivered, reserved>>

\* The history of Start: calm unless an earlier capture is still going on or a
\* file is being opened, and the console is about this capture only if the window
\* was as after a Clear.
StartHistory ==
  /\ calm' = (calm /\ Settled)
  /\ intact' = (intact /\ Settled /\ count["total"] = 0 /\ console = <<>>)

\* Mutation: Start stays enabled.
DisableFilters == filtersOff' = FilterControls /\ startDisabled' = FALSE

DisableForCapture == filtersOff' = FilterControls /\ startDisabled' = TRUE

\* The capture is replaced and the buttons disabled before anything is checked.
StartCapture ==
  /\ Idle /\ ~startDisabled
  /\ NewCapture
  /\ DisableForCapture
  /\ IF deviceSelected
     THEN \E th \in Thread :
            /\ pc[th] = "unused"
            /\ t' = th /\ Goto(th, "open")
     ELSE UNCHANGED <<t, pc>>
  /\ StartHistory
  /\ UNCHANGED <<pkt, reg, intr, captor, late, count, pending, deviceSelected,
                 consoleVars, fileVars, clicks, undelivered, reserved>>

\* checkEmptyStats disables the filters of protocols that were not captured, and
\* the last statement of stopCapture enables every filter again.
StopCapture ==
  /\ Idle /\ t # NoThread
  /\ intr' = [intr EXCEPT ![t] = TRUE]
  /\ startDisabled' = FALSE
  /\ filtersOff' = {}
  /\ UNCHANGED <<pc, pkt, reg, stale, captor, late, listVars, count, pending, t,
                 deviceSelected, consoleVars, fileVars, clicks, historyVars,
                 undelivered, reserved>>

\* Before the first capture there is no thread to interrupt, and the handler fails
\* in its first statement.
StopNothing == Idle /\ t = NoThread /\ UNCHANGED vars

\* MaxClicks bounds the handlers below.
Click == Idle /\ clicks < MaxClicks /\ clicks' = clicks + 1

\* Mutation: zeros instead of nothing.
ResetToZero ==
  /\ Click
  /\ shown' = [c \in Counters |-> 0]
  /\ UNCHANGED <<threadVars, listVars, count, pending, windowVars, console, lineCount,
                 fileVars, historyVars, undelivered, reserved>>

ResetStats ==
  /\ Click
  /\ shown' = Blank
  /\ UNCHANGED <<threadVars, listVars, count, pending, windowVars, console, lineCount,
                 fileVars, historyVars, undelivered, reserved>>

\* PacketManager.clearCapture sets the list to null ...
DropCapture ==
  /\ noList' = TRUE /\ slots' = <<>> /\ size' = 0
  /\ stale' = {w \in Worker : pc[w] = "write"}
  /\ Goto(Fx, "renew")
  /\ calm' = Settled /\ intact' = Settled

\* Mutation: the button stays enabled during a capture.
ClearAnyTime ==
  /\ Click
  /\ DropCapture
  /\ opening' = FALSE
  /\ UNCHANGED <<pkt, reg, intr, captor, late, count, pending, windowVars,
                 consoleVars, file, rest, dialogs, undelivered, reserved>>

ClearCapture ==
  /\ Click /\ ~startDisabled
  /\ DropCapture
  /\ opening' = FALSE
  /\ UNCHANGED <<pkt, reg, intr, captor, late, count, pending, windowVars,
                 consoleVars, file, rest, dialogs, undelivered, reserved>>

\* handleOpenCapture begins with clearCapture; its menu item is never disabled.
OpenCapture ==
  /\ Click
  /\ DropCapture
  /\ opening' = TRUE
  /\ UNCHANGED <<pkt, reg, intr, captor, late, count, pending, windowVars,
                 consoleVars, file, rest, dialogs, undelivered, reserved>>

\* ... prints the old statistics, makes a new list ...
RenewList ==
  /\ pc[Fx] = "renew"
  /\ NewCapture
  /\ Goto(Fx, "zero")
  /\ UNCHANGED <<pkt, reg, intr, captor, late, count, pending, fxVars, undelivered,
                 reserved>>

\* Mutation: the statistics of ICMP are forgotten.
ZeroSome == count' = [c \in Counters |-> IF c = "ICMP" THEN count[c] ELSE 0]

\* Mutation: the total is forgotten.
ZeroProtocols == count' = [c \in Counters |-> IF c = "total" THEN count[c] ELSE 0]

ZeroStats == count' = [c \in Counters |-> 0]

\* ... and clears the statistics.
ClearStats ==
  /\ pc[Fx] = "zero"
  /\ ZeroStats
  /\ Goto(Fx, "relist")
  /\ UNCHANGED <<pkt, reg, stale, intr, captor, late, listVars, pending, fxVars,
                 undelivered, reserved>>

\* The end of clearCapture: an empty list is printed, unless a capture thread
\* got in first, and every filter disabled.  handleOpenCapture goes on to blank
\* the statistics and to show the file dialog.
RelistCleared ==
  /\ pc[Fx] = "relist"
  /\ console' = Rows(Capture)
  /\ lineCount' = 0
  /\ IF Unprintable(Capture) = {}
     THEN /\ filtersOff' = FilterControls
          /\ shown' = IF opening THEN Blank ELSE shown
          /\ dialogs' = IF opening THEN dialogs + 1 ELSE dialogs
     ELSE UNCHANGED <<filtersOff, shown, dialogs>>
  /\ Goto(Fx, "idle")
  /\ UNCHANGED <<pkt, reg, stale, intr, captor, late, listVars, count, pending, t,
                 startDisabled, deviceSelected, file, rest, opening, clicks, historyVars,
                 undelivered, reserved>>

CloseDialog == Idle /\ dialogs # 0 /\ dialogs' = dialogs - 1

\* Without a file the handler fails, with nothing but the capture cleared.
CancelDialog ==
  /\ CloseDialog
  /\ UNCHANGED <<threadVars, listVars, count, pending, windowVars, consoleVars, file,
                 rest, opening, clicks, historyVars, undelivered, reserved>>

\* A file that no save wrote, as those of tcpdump, fails at the first object; what
\* is in the capture is posted for printing all the same.
ChooseOther ==
  /\ CloseDialog
  /\ pending' = pending \o Capture
  /\ filtersOff' = {}
  /\ UNCHANGED <<threadVars, listVars, count, t, startDisabled, deviceSelected,
                 consoleVars, file, rest, opening, clicks, historyVars, undelivered,
                 reserved>>

ChooseFile ==
  /\ CloseDialog /\ file # NoFile
  /\ rest' = file
  /\ Goto(Fx, "reading")
  /\ UNCHANGED <<pkt, reg, stale, intr, captor, late, listVars, count, pending,
                 windowVars, consoleVars, file, opening, clicks, historyVars,
                 undelivered, reserved>>

\* Mutation: the last object is read and dropped.
ReadAllButLast ==
  /\ pc[Fx] = "reading" /\ rest # <<>>
  /\ rest' = Tail(rest)
  /\ IF rest' = <<>> THEN UNCHANGED <<pkt, pc>>
     ELSE pkt' = [pkt EXCEPT ![Fx] = Head(rest)] /\ Goto(Fx, "add")
  /\ UNCHANGED <<reg, stale, intr, captor, late, listVars, count, pending,
                 windowVars, consoleVars, file, opening, dialogs, clicks, historyVars,
                 undelivered, reserved>>

\* PacketManager.openCapture reads one object ...
ReadObject ==
  /\ pc[Fx] = "reading" /\ rest # <<>>
  /\ pkt' = [pkt EXCEPT ![Fx] = Head(rest)]
  /\ rest' = Tail(rest)
  /\ Goto(Fx, "add")
  /\ UNCHANGED <<reg, stale, intr, captor, late, listVars, count, pending,
                 windowVars, consoleVars, file, opening, dialogs, clicks, historyVars,
                 undelivered, reserved>>

\* ... until the EOFException; then the whole capture is posted for printing.
PostLoaded ==
  /\ pc[Fx] = "reading" /\ rest = <<>>
  /\ pending' = pending \o Capture
  /\ filtersOff' = {}
  /\ pkt' = [pkt EXCEPT ![Fx] = NoPacket]
  /\ Goto(Fx, "idle")
  /\ UNCHANGED <<reg, stale, intr, captor, late, listVars, count, t,
                 startDisabled, deviceSelected, consoleVars, fileVars, clicks,
                 historyVars, undelivered, reserved>>

SaveCapture ==
  /\ Click
  /\ file' = Capture
  /\ UNCHANGED <<threadVars, listVars, count, pending, windowVars, consoleVars,
                 rest, opening, dialogs, historyVars, undelivered, reserved>>

\* The packets that pass the filters are numbered from 0; lineCount is not reset,
\* but advanced by every row printed to its end.
ApplyFilters ==
  /\ Click /\ "form" \notin filtersOff
  /\ \E S \in FilterSets :
       LET kept == SelectSeq(Capture, LAMBDA p : p \in S)
       IN  /\ console' = Rows(kept)
           /\ lineCount' = lineCount + (IF Unprintable(kept) = {} THEN Len(kept)
                                        ELSE Printed(kept) - 1)
  /\ intact' = FALSE
  /\ UNCHANGED <<threadVars, listVars, count, pending, windowVars, shown, fileVars,
                 calm, undelivered, reserved>>

ClearFilters ==
  /\ Click /\ "form" \notin filtersOff
  /\ console' = Rows(Capture)
  /\ filtersOff' = IF Unprintable(Capture) = {} THEN {} ELSE filtersOff
  /\ intact' = (intact /\ Settled /\ Unprintable(Capture) = {})
  /\ UNCHANGED <<threadVars, listVars, count, pending, t, startDisabled,
                 deviceSelected, lineCount, shown, fileVars, calm, undelivered,
                 reserved>>

\* What the user does, and what the JavaFX thread goes on to do by itself.
UserAction ==
  \/ SelectDevice \/ StartCapture \/ StopCapture \/ StopNothing \/ ResetStats
  \/ ClearCapture \/ OpenCapture \/ CancelDialog \/ ChooseOther \/ ChooseFile
  \/ SaveCapture \/ ApplyFilters \/ ClearFilters

HandlerStep ==
  \/ RenewList \/ ClearStats \/ RelistCleared
  \/ ReadObject \/ AddPacket(Fx) \/ PostLoaded

-----------------------------------------------------------------------------
Next ==
  \/ \E th \in Thread : CaptureStep(th)
  \/ RunLater
  \/ HandlerStep
  \/ UserAction

\* The scheduler runs every thread.  The JavaFX queue is first in, first out: a
\* runnable is not overtaken for ever by handlers.  The user, the network and
\* the file dialog promise nothing; that a read ends is the 20 ms timeout.
Fairness ==
  /\ \A th \in Thread : WF_vars(CaptureStep(th))
  /\ WF_vars(HandlerStep)
  /\ SF_vars(RunLater)

Spec == Init /\ [][Next]_vars

FairSpec == Spec /\ Fairness

-----------------------------------------------------------------------------
(* Properties                                                              *)

ConsoleRow == [num : Nat, pkt : Packet]

PcTypeOK ==
  /\ pc \in [Worker -> ThreadPcs \cup FxPcs]
  /\ \A th \in Thread : pc[th] \in ThreadPcs
  /\ pc[Fx] \in FxPcs

ThreadTypeOK ==
  /\ PcTypeOK
  /\ pkt \in [Worker -> Packet \cup {NoPacket}]
  /\ \A w \in Worker : pc[w] \in AddPcs \cup {"post"} => pkt[w] \in Packet
  /\ reg \in [Worker -> Nat]
  /\ stale \subseteq Worker
  /\ intr \in [Thread -> BOOLEAN]
  /\ captor \in [Thread -> {"none", "open", "closed"}]
  /\ late \in [Thread -> Nat]

StoreTypeOK ==
  /\ noList \in BOOLEAN
  /\ slots \in Seq(Packet)
  /\ size \in 0..Len(slots)
  /\ count \in [Counters -> Nat]
  /\ pending \in Seq(Packet)
  /\ file \in Seq(Packet) \cup {NoFile}
  /\ rest \in Seq(Packet)

WindowTypeOK ==
  /\ t \in Thread \cup {NoThread}
  /\ startDisabled \in BOOLEAN
  /\ filtersOff \subseteq FilterControls
  /\ deviceSelected \in BOOLEAN
  /\ opening \in BOOLEAN /\ dialogs \in Nat
  /\ undelivered \subseteq Packet
  /\ reserved \in 0..MaxInstances
  /\ clicks \in 0..MaxClicks
  /\ calm \in BOOLEAN /\ intact \in BOOLEAN

ConsoleTypeOK ==
  /\ console \in Seq(ConsoleRow)
  /\ lineCount \in Nat
  /\ shown \in [Counters -> Nat] \cup {Blank}

\* Every variable is of its type.
TypeOK == ThreadTypeOK /\ StoreTypeOK /\ WindowTypeOK /\ ConsoleTypeOK

\* However Start, Stop, Clear and Open are clicked, at most one capture thread
\* has not been told to stop (startCapture, stopCapture, the loop's catch).
OneRunning == \A a, b \in Thread : Running(a) /\ Running(b) => a = b

\* A stopped thread may be inside a read or an addPacket: of what arrives after
\* Stop it stores at most one packet (capturePackets).
LateAtMostOne == \A th \in Thread : late[th] <= 1

\* While Clear takes the list away and resets the statistics, which nothing guards,
\* no capture is under way but those that were told to stop: whoever clicks what in
\* which order, the one that still runs loses no packet to Clear, and does not end on
\* the list that is null meanwhile.  The buttons alone see to it; Open, which is never
\* disabled, does the same to a running capture (clearCapture, startCapture).
ClearSparesRunning ==
  pc[Fx] \in {"renew", "zero", "relist"} /\ ~opening => \A th \in Thread : ~Running(th)

Counted(s, c) == Cardinality({i \in DOMAIN s : CounterOf(s[i]) = c})

\* With calm use the statistics are those of the packets in the capture, at every
\* moment nobody is adding one (addPacket, countPacket, clearStats).
CountsMatchCapture ==
  calm /\ intact /\ (\A w \in Worker : pc[w] \notin AddPcs \cup {"renew", "zero"})
    => /\ count["total"] = size
       /\ \A c \in Protocols : count[c] = Counted(Capture, c)

\* With calm use, also over several captures without a Clear, the total is the
\* sum of the protocols' statistics (countPacket).
StatsAddUp ==
  calm /\ (\A w \in Worker : pc[w] \notin AddPcs \cup {"renew", "zero"})
    => count["total"] = count["TCP"] + count["UDP"] + count["ICMP"] + count["ARP"]

\* What the thread has in hand is in the list, but was not posted.
Owes(th) == pc[th] \in {"countLoad", "countStore", "totalLoad", "totalStore", "post"}

Unposted(th) == IF Owes(th) THEN <<pkt[th]>> ELSE <<>>

\* With calm use and no filter, the rows in the console, the packets posted for
\* printing and the one about to be posted are the capture, in its order, and
\* each row has as its number how many packets were printed whole before it.
ConsoleMirrorsCapture ==
  calm /\ intact /\ Idle
    => /\ \E last \in {<<>>} \cup {Unposted(th) : th \in Thread} :
            /\ \A th \in Thread : Unposted(th) \in {<<>>, last}
            /\ [i \in DOMAIN console |-> console[i].pkt] \o pending \o last = Capture
       /\ \A i \in DOMAIN console :
            console[i].num = Cardinality({j \in 1..(i-1) : Formattable(console[j].pkt)})
       /\ lineCount = Cardinality({j \in DOMAIN console : Formattable(console[j].pkt)})

\* With calm use, once a capture is over and printed, the numbers on display are
\* the statistics, unless the last packets could not be printed (printPacket,
\* updateStats, resetStats).
DisplayCurrent ==
  calm /\ intact /\ Settled /\ Idle /\ size > 0 /\ Unprintable(Capture) = {}
    => shown \in {count, Blank}

\* While a file is read the capture, the object in hand and the rest of the file
\* are the file: nothing is lost, doubled or reordered by clearing first and
\* adding one object at a time (handleOpenCapture, openCapture).
LoadsFile ==
  calm /\ file # NoFile /\ pc[Fx] \in AddPcs \cup {"reading"}
    => Capture \o (IF pc[Fx] \in {"add", "write"} THEN <<pkt[Fx]>> ELSE <<>>) \o rest
         = file

\* "Stops the current capture and re-enables the Clear and Start buttons": when
\* the buttons are disabled there is a capture that Stop can stop.
StopCanReenable == startDisabled => t # NoThread

\* "Print all packets captured to the console": with calm use, once a capture is
\* printed, no row is without the text of its packet.
AllPrinted ==
  calm /\ intact /\ Settled /\ Idle
    => \A i \in DOMAIN console : Formattable(console[i].pkt)

\* A thread that was told to stop ends (capturePackets).
StopTerminates == \A th \in Thread : intr[th] /\ Alive(th) ~> pc[th] = "ended"

\* A packet that a thread stored is printed, even when the capture is stopped,
\* cleared or replaced in the meantime (printPacket).
StoredIsPrinted ==
  \A p \in Packet : (\E th \in Thread : pc[th] = "countLoad" /\ pkt[th] = p)
                      ~> (\E i \in DOMAIN console : console[i].pkt = p)

-----------------------------------------------------------------------------
(* What makes the above inductive.                                         *)

\* A slot is written in the list it was counted in, or right after its last one;
\* there is no list only in the middle of PacketManager.clearCapture.
ListInv ==
  /\ \A w \in Worker : pc[w] = "write" /\ w \notin stale => reg[w] <= Len(slots)
  /\ noList => pc[Fx] = "renew"

\* An open captor holds an ID; IDs may also be held by captors that never opened.
OpenCaptors == {th \in Thread : captor[th] = "open"}
CaptorInv ==
  /\ IsFiniteSet(OpenCaptors) /\ Cardinality(OpenCaptors) <= reserved
  /\ \A th \in Thread : pc[th] \in {"unused", "open"} => captor[th] = "none"

\* The running thread is the one Stop would stop, and Start and Clear are disabled; they
\* are enabled as long as Clear is at work.
StopInv ==
  /\ \A th \in Thread : Running(th) => t = th /\ startDisabled
  /\ \A th \in Thread : pc[th] = "unused" => ~intr[th]
  /\ t # NoThread => pc[t] # "unused"
  /\ pc[Fx] \in {"renew", "zero", "relist"} /\ ~opening => ~startDisabled

\* A thread that stored a packet after Stop does not come back to read another.
LateInv ==
  \A th \in Thread : late[th] # 0 =>
    /\ late[th] = 1
    /\ intr[th] \/ pc[th] = "catch"
    /\ pc[th] \in {"countLoad", "countStore", "totalLoad", "totalStore", "post",
                   "check", "catch", "test", "report", "close", "ended"}

\* With calm use a single thread is at work, a capture thread or Fx, and no thread
\* while a file dialog is open.
CalmInv ==
  calm => /\ \A a, b \in Thread : Alive(a) /\ Alive(b) => a = b
          /\ ~Idle \/ dialogs # 0 => \A th \in Thread : ~Alive(th)

\* With calm use what a worker has loaded still holds when it writes, and the list
\* ends where its array does.
LoadedInv ==
  calm => /\ stale = {} /\ size = Len(slots)
          /\ \A w \in Worker :
               /\ pc[w] = "write" => reg[w] = size
               /\ pc[w] = "countStore" => reg[w] = count[CounterOf(pkt[w])]
               /\ pc[w] = "totalStore" => reg[w] = count["total"]

\* While a capture is cleared, and while a file dialog is open, there is no packet,
\* and a single dialog at most.
ClearedInv ==
  calm => /\ dialogs <= 1
          /\ ~Idle => dialogs = 0
          /\ pc[Fx] \in {"renew", "zero", "relist"} \/ dialogs # 0
               => size = 0 /\ pending = <<>>

\* The packet being added is in the list, but not yet in its protocol's statistic ...
Uncounted(w) == pc[w] \in {"countLoad", "countStore"}
\* ... or in that one, but not yet in the total.
HalfCounted(w) == pc[w] \in {"totalLoad", "totalStore"}

SumOfProtocols == count["TCP"] + count["UDP"] + count["ICMP"] + count["ARP"]

\* The total lags one behind while somebody has yet to add to it.
AccountInv ==
  calm /\ pc[Fx] \notin {"renew", "zero"} =>
    IF \E w \in Worker : HalfCounted(w)
    THEN SumOfProtocols = count["total"] + 1
    ELSE SumOfProtocols = count["total"]

\* The statistics lag one behind the list while a packet is being counted.
CountsInv ==
  calm /\ intact /\ pc[Fx] \notin {"renew", "zero"} =>
    /\ IF \E w \in Worker : Uncounted(w) \/ HalfCounted(w)
       THEN size = count["total"] + 1
       ELSE size = count["total"]
    /\ \A c \in Protocols :
         IF \E w \in Worker : Uncounted(w) /\ CounterOf(pkt[w]) = c
         THEN Counted(slots, c) = count[c] + 1
         ELSE Counted(slots, c) = count[c]

\* Position by position, the console, the queue and the packet not yet posted are the
\* capture.
Mirrored ==
  /\ console \in Seq(ConsoleRow)
  /\ Len(console) + Len(pending)
       = IF \E th \in Thread : Owes(th) THEN size - 1 ELSE size
  /\ \A i \in 1..Len(console) : console[i].pkt = slots[i]
  /\ \A i \in 1..Len(pending) : pending[i] = slots[Len(console) + i]
  /\ \A th \in Thread : Owes(th) => pkt[th] = slots[size]

\* Each row is numbered by the rows printed whole before it.
Whole(rows, n) == Cardinality({j \in 1..n : Formattable(rows[j].pkt)})

Numbered ==
  /\ \A i \in 1..Len(console) : console[i].num = Whole(console, i - 1)
  /\ lineCount = Whole(console, Len(console))

\* Once all is printed that was stored, the numbers on display are the statistics.
Displayed ==
  pending = <<>> /\ size > 0 /\ Unprintable(slots) = {} /\ (\A th \in Thread : ~Owes(th))
    => shown \in {count, Blank}

\* A file is read into an empty window.
ScreenInv ==
  calm /\ intact =>
    /\ Idle => Mirrored /\ Numbered /\ Displayed
    /\ pc[Fx] \in AddPcs \cup {"reading"}
         => console = <<>> /\ lineCount = 0 /\ pending = <<>>

BooksInv == LoadedInv /\ ClearedInv /\ AccountInv /\ CountsInv

\* Every step preserves this: the hidden order behind Start, Stop, Clear and Open,
\* behind the statistics and behind what the console shows.
SessionInv ==
  /\ ListInv /\ CaptorInv /\ StopInv /\ LateInv /\ CalmInv
  /\ BooksInv /\ LoadsFile /\ ScreenInv

-----------------------------------------------------------------------------
(* The threads of this module live as CaptureLifecycle promises.           *)

Phase(th) ==
  CASE pc[th] = "unused" -> "new"
    [] pc[th] = "ended"  -> "over"
    [] Running(th)       -> "running"
    [] OTHER             -> "stopped"

Lifecycle == INSTANCE CaptureLifecycle WITH
  phase <- [th \in Thread |-> Phase(th)],
  extra <- late

\* What the window promises of its captures: one at a time, and after Stop one
\* packet at most (Controller, startCapture to stopCapture).
LifecycleSpec == Lifecycle!Spec
=============================================================================

# Scanner: a verification project

Scanner is a packet sniffer with a JavaFX window (`src/src/Scanner`) on top of the jpcap library
(`src/env/Jpcap-master`), whose Java classes call C code over libpcap.  This directory models the parts of it that have
state, concurrency or a computation worth checking, model-checks them with TLC and proves the most important results with
TLAPS.

## 1. The system

| Component | State | Operations | What makes it correct | Where it is hard |
|---|---|---|---|---|
| Capture session (`Controller`, `capturePackets`) | thread `t`, `lineCount`, disabled controls, console, statistics fields | Start, Stop, Clear, Open, Save, Apply and Clear Filters, reset of the statistics; the capture thread; the runnable of `printPacket` | one capture runs; Stop ends it; what is stored is printed; console, statistics and capture agree | Stop does not join, an interrupt flag is cleared and restored, rows are printed later than packets are stored |
| Capture store (`PacketManager`) | `currentCapture`, six counters | add, count, new, clear, save, open | no lost update; counters are those of the capture | nothing is synchronised; `clearCapture` leaves the list null for a moment |
| Filter panel and packet filter (`Controller`, `PacketManager`) | boxes and fields of the form; filter fields, `filteredCapture` | tick, type, Apply, Clear Filters | the filter is what the form asks for; nothing survives clearing | a filter set field by field, with an exception in between |
| Packet viewer (`PacketViewerController`) | `packetNum`, `currentPacket`, three buttons, the text fields | View, Next, Previous, Follow Stream | number, packet and text belong together; buttons do not fail | numbers into a list that another window replaces |
| Conversations (`populateConversations`, `ConversationsController`) | the nested list, the lines of the window | populate, show | every source once, with each of its destinations | read while the capture thread adds |
| Interface selection (`NetworkInterfaceManager`, `InterfaceInfoController`, `getDeviceList`) | the static array of devices, the index in the combo box | scan, select, start, open | the device opened is the one selected | an index into an array that is replaced |
| jpcap instances (`JpcapInstance`, `JpcapCaptor`, `JpcapSender`, `JpcapWriter` and their C code) | `instanciatedFlag`, `pcds`, `soc_num`, `pdt`, `pcdd` | open, close, share, dump | an ID has one owner; a handle is its owner's | check-then-act on the table, globals of the C code |
| Packet loops (`processPacket`, `loopPacket`, `getPacket`, `breakLoop`, `dispatcher_handler`) | `jni_envs`, `jpcap_handlers`, global references | call, dispatch, break, return | a packet goes to the receiver of its call; no reference is left or lost | tables by captor, calls of other threads and inside receivers |
| Capture API (`jpcap.api.Capture`) | a queue of ten, the handlers | start, offer, poll, hand out, add and remove handlers | no packet twice, in order, none that was queued is passed over | drops, handlers that change, a second worker |
| Packet decoding (`get_packet`, `analyze_*`, `writePacket`) | locals; the object it fills | frame to object and back into a file | class, fields, header and data are those of the frame | truncation, fragments, extension headers, `short` lengths, byte order |
| Packet building (`set_packet`, `set_*`, `in_cksum`) | a buffer that is not cleared | object to frame | the frame says what the object says, and its sums are right | lengths in two places, byte order, odd sums |

How they interact: the main window's handlers and the runnables of `Platform.runLater` run on the one JavaFX thread.
Start creates a thread that opens a captor (`JpcapCaptor.openDevice`, which reserves an ID), reads packets with a 20 ms
timeout, adds each to `PacketManager` and posts a runnable that prints it.  Stop interrupts the thread and returns.
`PacketManager` is a class of static fields that the capture threads and all windows share.  The viewer reads
the filtered list when a filter is applied and the whole capture otherwise.  Reading a packet is `get_packet` in C, which
makes the objects that everything above works with; Scanner itself uses neither the packet loops nor the Capture API
nor a sender, which the library offers to other programs.

## 2. The modules

| Module | Models | Lines of code it stands for |
|---|---|---|
| `Packets` | the class of a packet, its counter, whether it can be formatted | `get_packet`, `countPacket`, `formatPacketInfo` |
| `CaptureSession` | session and store together, at the grain of single accesses to what threads share | `Controller` 45-292, 336-395, 607-630; `PacketManager` 66-131, 754-796 |
| `CaptureLifecycle` | abstract: one capture at a time, after Stop one packet at most | |
| `PacketFilter` | which packets pass a filter, as operators | `PacketManager` 38-60, 431-456, 510-644 |
| `FilterPanel` | the form, Apply, the filter; Start, Stop, Clear, Open as far as the form sees them | `Controller` 336-584; `PacketManager` 465-520 |
| `PacketViewer` | one viewer window composed with `FilterPanel` (EXTENDS, `Next` of the two) | `PacketViewerController` 34-378 |
| `Conversations` | the walk over the capture and the window, with a capture thread that adds | `PacketManager` 652-731; `ConversationsController` |
| `InterfaceSelection` | the devices of the host, the static list, the combo box, the interface window | `NetworkInterfaceManager`, `InterfaceInfoController`, `getDeviceList` |
| `JpcapInstances` | IDs, handles, the raw socket, the dump file | `JpcapInstance`, `JpcapCaptor`, `JpcapSender`, `JpcapWriter`, Java and C |
| `InstancePool` | abstract: an allocator that hands out an ID in one step | |
| `PacketLoop` | the tables of the packet loops, with calls stacked for each thread | `JpcapCaptor.c` 430-504, 592-598, 678-694 |
| `CaptureQueue` | the queue, its workers and the handlers | `api/Capture.java` |
| `Octets` | C and Java integers, octets and words of a frame | conversions, `ntohs`, `htons` |
| `HeaderFields` | what each `analyze_` function reads, as a record of fields | `packet_*.c`, first halves |
| `PacketDecode` | `get_packet` step by step, and `writePacket` | `JpcapCaptor.c` 690-900; `JpcapWriter.c` |
| `FrameLayout` | no code: what a frame is by the standards of its protocols (`WellFormed`), told from its octets, what `get_packet` knows of such a frame at each place (`LayoutInv`), and what it has read into the object (`ObjectRead`) | |
| `PacketBuild` | what each `set_` function writes, lengths and checksums | `JpcapSender.c`; `packet_*.c`, second halves |
| `SendReceive` | `PacketBuild` composed with `PacketDecode`: what is sent is decoded again; the objects that can be sent (`Sendable`) | |
| `CaptureSession_proofs`, `PacketViewer_proofs` (with `FilterPanel`), `Conversations_proofs`, `JpcapInstances_proofs`, `SendReceive_proofs` (with `PacketDecode`, `FrameLayout` and `PacketBuild`), `PacketLoop_proofs`, `CaptureQueue_proofs`, `InterfaceSelection_proofs` | theorems about these modules | |
| `MCCaptureSession`, `MCTraffic`, `MCPacketViewer`, `MCConversations`, `MCInterfaceSelection`, `MCJpcapInstances`, `MCPacketLoop`, `MCPacketDecode`, `MCSendReceive` | the constants of the runs | |

The exact lines of every definition are in `PROJECT.json`, "map".  A definition that starts with the comment "Mutation:"
is a bug that could have been made; with it in the place of the definition after it, or near it, a property of a run fails.

### CaptureSession

`pc[th]` of a capture thread walks through `capturePackets`: `open`, then `test` (the loop condition), `read`, the steps
of `addPacket`, `post`, `check` (`Thread.interrupted`), `catch`, and at the end `report` (the trace of packet 2) and
`close`.  `pc[Fx]` is `idle` between handlers, or inside `clearCapture` (`renew`, `zero`, `relist`) or `openCapture`
(`reading` and the steps of `addPacket`).  A handler that reads nothing a capture thread can change is one step.

* `ArrayList.add` is two steps, `FetchList` (the list and its size) and `WriteSlot` (slot and size).  The window in
  which the size is written and the slot is not is left out.
* A counter's `++` is `Load` and `Store`.  `clearCapture` is: list null, list new, counters zero, console relisted.
* `stale` holds threads whose fetched list was replaced: what they write is lost.
* Loops of the JavaFX thread over the list are one step: they see a snapshot.
* `intr` is the interrupt flag; `CheckInterrupt` clears it and `CatchInterrupt` sets it again, as the code does.
* `OpenDevice` has three outcomes: open, refused with the ID lost, and index out of range after the list of interfaces
  was refreshed, which ends the thread.
* A file dialog has no owner window, so other handlers run while it is open (`dialogs`).  Saving is one step.
* `calm` and `intact` are history variables.  `calm` is lost when a handler is started before the previous capture has ended and
  been printed; the code has no lock, so what is on the screen and in the counters can only be right for the user who waits, and a
  lost update is excluded by no property.  `OneRunning`, `LateAtMostOne` and `ClearSparesRunning` hold whoever clicks what and when: the
  buttons alone see to them.  `intact` is lost when the
  console shows something else than the whole capture.  Both come back with Clear.

`closeApp` and the exit of the program are left out.

### FilterPanel, PacketFilter, PacketViewer

An address is a value of `Address`; a field holds an address, a number, `BadText` or `Empty`.  `isIPValid` is the test
whether the text is an address.  Packets of class `Packet` never reach a capture (`Displayable`), so the casts of
`filterProtocolCheck` succeed.  `InstallFilters`, `ApplyNothing` and `ApplyBadPort` are the three ways through Apply; the
last one is the exception of `Integer.parseInt`, with what was set before it.  `reader` stands for the capture thread:
it may add packets while it is on, and one more after Stop, as `CaptureSession` shows (`LateAtMostOne`).
The loops of `populateFilteredPackets` and of `handleFollowStream`, which go over a list and add what they want, are `Kept(s, K)`,
a recursive function over the places of the list.  `Data[p]` is the payload of a packet, and the stream is the sequence of octets appended to it,
each known by its packet and its place (`Text`): as in the code those that are printable or a line feed, up to the last but one of each payload.

In the viewer a handler that throws has done what it did until then: Next on a list that became shorter keeps its new
number, Previous shows the old packet under a new number, and a packet that cannot be formatted leaves the payload of the
one before and the buttons as they were.  `steady` is a history variable: since the last View the list has only grown and no
number was typed that is not in it.

### Conversations, InterfaceSelection

`Populate` is one turn of the loop over the capture, whose size is read anew in every turn, and `addPacket` happens between
turns; `Populated` is the end of the loop, `Output` one turn of the loop that collects the lines, `Opened` its end.  What an `ArrayList` shows to a thread that reads while another one adds is left out.  `AllConversations` asks for
what was in the capture when the window was opened, since what comes later may be seen or not.

`getDeviceList` counts the addresses of an interface in one pass (`AddressCount`) and stores them in the next, each in the slot behind
those before it (`Slot`), as the C code does; a slot in which nothing is stored is null.  The combo box
keeps the names found at the start; the interface window scans again.  `startCapture` and `Open` are separate steps, the click and the
capture thread.  `rescanned` is a history variable: a scan has found something else than the one at the start.

### JpcapInstances, PacketLoop, CaptureQueue

`reserveID` tests one entry a step (`TestFlag`) and takes it in the next (`TakeID`): two threads can get the same ID.
`proper` remembers that this did not happen: one constructor at a time, each object closed once, no shared sender
closed, no writer closed.  The first is what Start after a stopped capture may break; the code has no other guard.
An object whose opening fails keeps its ID.  `RAW_SOCKET_ID` is a constant, 99999 in the code.

In `PacketLoop` `calls[t]` is the stack of calls of a thread: a receiver may capture too.  Nothing keeps two calls, of two threads or
inside each other, from using one captor at a time, and all of them are in the model.  `Call` is all that `processPacket`
and `loopPacket` do before pcap, `Leave` what they do after it, `Dispatch` is `dispatcher_handler` up to the receiver.  pcap
itself is external: it returns when the count is reached, when it was told to break and, from `pcap_dispatch`, after a
timeout.  A reference is known by its captor and the number of its call.  Two history variables remember what the properties except:
`overlapped`, the calls that went on together with another one on their captor, and `visited`, those whose captor `getPacket` of another thread
has taken a packet from.

In `CaptureQueue` a worker polls (`Poll`, which does not wait and takes a snapshot of the handlers) and calls one handler a
step (`Handle`).  A handler is not added while it is there: it would be called twice.  `LoopEnds` is the end of `start`;
the worker goes on for ever.

### Octets, HeaderFields, PacketDecode, PacketBuild, SendReceive

A frame is a sequence of octets with the link type and `caplen`; `beyond` is what a read past the capture finds.  Numbers of 32 bits
stay four octets, since nothing calculates with them; everything shorter is a number of its width, converted where C and Java convert
(`ToShort`, `ToUShort`, `UnsignedGreater`).  `PacketDecode` has one action for each part of `get_packet`: the link header, the
network header of the first pass, the walk over the IPv6 extension headers, the transport header and the class; then the second
pass, which analyses the headers into the object and cuts header and data.  Its variables are those of the function:
`clen` and `hlen` are `short`s, and `tproto` starts with `Garbage`, since the code reads it unset for some frames (`nproto` is always assigned).
A frame also says what it was made of (`carries`, `extensions`, `places`, `payload`, `headers`), which only the properties look at.
`WellFormed` of `FrameLayout` ties that to its octets: where the headers are, what they carry, how long the packet says it is.
`MCPacketDecode` assumes it of the frames it builds (`FramesAssumed`), so TLC evaluates it on each frame of `wire` that has its headers.

`PacketBuild` is a function from an object to octets: `SendPacket` and `SendPacketViaRawSocket` fill a buffer of
`Stale` octets in the order of `set_packet`.  `SendReceive` gives such frames to `PacketDecode` and compares the objects.
`Sendable` says what an object is that can be sent: fields in the ranges of their headers, data of any length up to
`MAX_PACKET_SIZE`, and none of the things section 5 says go wrong on the way; over IPv6 the length of the data is one for which the wrong
length field does no harm (`IsNetwork`).  The cut of longer data in `set_tcp` and `set_udp` (`packet_tcp.c:95`, `packet_udp.c:47`) is therefore
left out.  `AsSent` says that a frame was made of such an object by one of
the two functions, and `SummedWhole` that an odd octet at the end is summed in the right half of its word: `in_cksum2` adds the octet,
which is right on a little-endian host, `in_cksum` the high half of the word that starts with it, which is right on one of the other order.
`MCSendReceive` assumes both of the frames it sends (`SentAssumed`), so TLC evaluates them on each.  The protocol of an IPv6 packet
is handed to Java as a `jbyte` (`packet_ipv6.c:84`), so one above 127 arrives as a negative number: `FieldsArrive` says so, and one is sent.
`FieldsArrive` names the fields that arrive as they were sent.  The others are read otherwise than they are written, and its comment lists
them; where a doc says what such a field is, section 5 has the property that fails.  That the frame itself has them right is `OctetsOnWire`,
of the identification, the fragment flags, the IPv6 class and flow label, and the numbers, times and masks of ICMP.

## 3. What the runs check

| Run | Specification and bounds | Shows |
|---|---|---|
| `captures` | `CaptureSession`, 2 capture threads, a TCP packet and a fragment, 2 IDs, 1 more click | at most one running capture; Clear takes no list from under a running capture; at most one late packet; totals add up; `SessionInv`, what makes all invariants of the session inductive |
| `contents` | 1 thread, a packet that a filter passes and one that cannot be formatted, a saved file, 2 more clicks | counters are those of the capture; the display is the counters; a file is loaded whole; the console mirrors the capture |
| `lifecycle` | 2 threads, 1 packet, fairness | refinement of `CaptureLifecycle`; a stopped capture ends; what is stored is printed |
| `viewer` | `PacketViewer` over `FilterPanel`, 2 files, 1 captured packet, 6 clicks | no two protocols or ends asked for; clearing leaves nothing; Apply finds what the form asks for; number, packet and text agree while the list only grows; Follow Stream does not fail; a stream has the text of one direction, but the last octet of each packet |
| `instances` | `JpcapInstances`, 3 objects, 2 IDs, 1 writer | one owner, own handle, refinement of `InstancePool` under proper use |
| `loops` | `PacketLoop`, 2 threads, 2 captors, 3 calls, 2 deep, on the same captor or another, counts 1 and none | a packet goes to the receiver of a call on its captor, no earlier than its own; a call alone on its captor keeps receiver, environment and reference, whatever the others do |
| `queue` | `CaptureQueue`, room for 2, 3 packets, 2 handlers, 3 changes, 2 workers, fairness | no packet twice; in order with one worker; what is queued reaches every handler |
| `conversations` | `Conversations`, 3 addresses, 4 packets | every conversation from when the window was opened is shown, once |
| `interfaces` | `InterfaceSelection`, 3 interfaces in any number and order, scans that fail | a capture opens what is selected; the window shows every internet address and no other, in order |
| `wire` | `SendReceive`, some 290 frames of every link type, protocol and length, whole and cut, and 115 objects, sent over Ethernet and, of IPv4, by the raw socket | types; class, setters, payload, options; nothing beyond the capture; fields, octets, data and sums of what is sent |
| `stop_reenables` | violated | Start without an interface wedges the window |
| `dump_close` | violated | closing a writer frees the captor's handle |

The two runs that end in a violation check what a comment of the code says, quoted in `PROJECT.json`.

Bounds.  Two capture threads are enough for everything two captures can do to each other, since all threads but the last
have been told to stop; each packet is delivered once, so that the number of packets bounds the captures.  `MaxClicks` counts
clicks other than Start and Stop in `CaptureSession`.  One is enough for Clear, Open or Save at any moment of two captures; two let
one capture be saved and opened again, or filtered and cleared.  In the panel and the viewer it counts all clicks but Open: six fill
in the form, apply it, change it and apply or clear it, with a window open over the list.  The viewer's numbers 0, 1 and 3 are inside, at
the end and outside of its lists.  Three objects over two IDs have one that is refused, one that takes over an ID and one that races;
255 is `MaxInstances`.  Calls two deep on two threads are the least in which an entry of a table can be overwritten from inside
and from outside, and of three calls two overlap while the third finds what they left (`MaxCalls`, `MaxDepth`).  Three packets overrun a queue of two, and three changes add, remove and add again.  Conversations of three addresses have two
sources with a common destination, and one that repeats.  The frames of `wire` have every combination of link header, option length, transport header
and padding with payloads that are empty, odd and long, cuts before, inside and behind every header, and IPv4 and IPv6 lengths at the
ends of a `short`; `Garbage` holds a value that is a protocol of each layer and one that is none.  `LittleEndian` is TRUE, as
on the x86 hosts the library is built for.  `instances` switches the deadlock check off, since objects are opened once and the run
ends when all are closed.

Fairness.  In `FairSpec` of `CaptureSession` each capture thread is scheduled (WF), and so are the steps of a handler that was begun
(WF).  The queue of `Platform.runLater` is first in, first out and handlers come to it through the same queue, so a posted runnable is
not overtaken for ever (SF on `RunLater`).  The read ends by its timeout of 20 ms.  Nothing is assumed of the user, the network or the
file dialog.  In `CaptureQueue` a worker is a thread that polls without waiting and is scheduled, and handlers return (WF on `Poll` and on
`Handle`); nothing is assumed of the loop, of packets or of who changes the handlers.

## 4. What is proved

| Module | Theorem | Result |
|---|---|---|
| `CaptureSession_proofs` | `SessionInvariant` | `[]SessionInv`, the inductive invariant |
| | `AtMostOneRunning`, `AtMostOneLate`, `ClearSparesRunningHolds` | `OneRunning`, `LateAtMostOne`, `ClearSparesRunning`, whoever clicks what and when |
| | `StatsAddUpHolds`, `CountsMatchCaptureHolds` | the statistics are the sums they should be, and those of the capture, for any packets, files and captures |
| | `LoadsFileHolds` | a file of any length is loaded whole and in order |
| | `DisplayCurrentHolds`, `ConsoleMirrorsCaptureHolds` | with calm use what is on the screen is what was captured |
| | `ImplementsLifecycle` | every behaviour is one of `CaptureLifecycle` |
| `PacketViewer_proofs` | `FilterExclusiveHolds`, `ClearedIsClearHolds` | the two invariants of the form and the filter, for any packets, addresses and texts |
| | `AppliesWantedHolds` | the action property: what Apply leaves in the filtered list is what the form asks for, for a capture of any length |
| | `SteadyViewHolds`, `FollowIsIPHolds` | the two invariants of the window, over any list that grows and is replaced |
| | `StreamKeepsDirectionHolds` | the action property: a stream has each character of the packets of its direction, but the last octet of each packet, as often as the list has the packet |
| | `ViewerInvariant`, `ViewerTypes` | the inductive invariant, and the types it has in it |
| `Conversations_proofs` | `ConversationsInvariant` | `[]ConversationsInv`, the inductive invariant |
| | `AllConversationsHolds`, `ShownOnceHolds` | the two invariants, for any addresses and a capture that grows meanwhile |
| `JpcapInstances_proofs` | `Types`, `OneOwnerHolds`, `OwnHandleHolds` | types and the two invariants, for any number of objects and IDs |
| | `PoolImplemented` | under proper use each step is a step of `InstancePool` or none |
| `SendReceive_proofs` | `Types`, `SettersFit`, `StaysWithin` | `TypeOK`, `MethodsFitClass`, `WithinCapture`, for every set of frames and either byte order |
| | `ClassFitsHolds`, `PayloadExactHolds`, `OptionsInOrderHolds` | `ClassFits`, `PayloadExact`, `OptionsInOrder`, for every set of frames of which those with all headers are `WellFormed` |
| | `KnownAreWellFormed` | frames that jpcap sends are `WellFormed`, whatever `Sendable` object they are made of (`FramesAreKnown`) |
| | `FieldsArriveHolds`, `OctetsOnWireHolds`, `DataArrivesHolds` | the three invariants, for every set of frames that are `FramesAreKnown`: the fields named in `FieldsArrive`, those named in `OctetsOnWire`, and the data with the lengths of IPv4 and UDP |
| | `ChecksumsRightHolds` | `ChecksumsRight`, for those that are `FramesAreSummed` too |
| `PacketLoop_proofs` | `LoopInvariant` | `[]LoopInv`, the inductive invariant |
| | `OwnReceiverHolds`, `RefsInUseHolds` | the two invariants, for any captors, threads and depth, with calls that overlap as they like |
| `CaptureQueue_proofs` | `HandledOnceHolds`, `HandledInOrderHolds` | the two invariants, for any capacity, handlers, packets, workers and changes |
| `InterfaceSelection_proofs` | `OpensSelectedHolds`, `ShowsAddressesHolds` | the two invariants, for any interfaces, addresses and scans |

The assumptions are those of the modules (`SessionAssumption`, `PacketAssumption`, `FilterAssumption`, `PanelAssumption`, `ViewerAssumption`,
`InstancesAssumption`, `OctetsAssumption`, `DecodeAssumption`, `BuildAssumption`, `LoopAssumption`, `QueueAssumption`, `SelectionAssumption`,
`ConversationsAssumption`), which TLC evaluates on the runs.  Most say which constants are numbers, and that null is none of the
things it stands in for.  `FilterAssumption` says what `get_packet` makes of a protocol, and `PanelAssumption` that a text is an
address, a number, nothing or none of these.

*CaptureSession.*  `OneRunning` is not inductive: that Start finds no running thread follows from the disabled button, which
is `StopInv` (a running thread is `t` and Start is disabled).  `LateAtMostOne` needs to know where a thread may be after it
stored its late packet (`LateInv`): on its way to the loop test, with the flag set or about to be set again.  `ClearSparesRunning` follows from `StopInv`:
inside Clear its button was enabled, so no capture ran, and none starts before it is done.  That calm use leaves one thread at work is
`CalmInv`, which the statistics need.  `ListInv` and `CaptorInv` make the steps of `addPacket` and the table type-correct.
With the types these are inductive (`CoreInv`), step by step over the actions, whoever clicks what.

The rest of `SessionInv` is about calm use.  `LoadedInv` and `ClearedInv` say what `Load` has read and what `clearCapture` has still to
reset, at each `pc`; they hold because one thread at a time is at work.  `AccountInv` makes the total the sum of the four
protocols, up to the packet that is between two counters, and `CountsInv` makes each counter the number of packets of its kind in the
list, up to the packet that is in the list and not counted yet.  Appending a packet adds one to a cardinality (`CountedAppend` and its
siblings); the filter in force changes what is shown and no counter.  `ScreenInv` has three parts: `Mirrored` (rows, posted packets and
the one in hand are the capture), `Numbered` (each row's number is that of the rows printed whole before it, and `lineCount` the next) and
`Displayed` (once all is printed that was stored, the statistics on the screen are the counters).
Each is disturbed by all steps of `addPacket`, by the runnable of `printPacket`, and by Clear, Open and the filters, which list
the console anew.  The rows that a filter leaves come from `SelectSeq`, which is defined recursively and which the
provers cannot unfold; so the console is typed only while it shows the whole capture, which is when the properties speak of it.

*JpcapInstances.*  The invariant is the types, with the entry an object looks at, and, as long as calls are proper, where each
object with an ID stands to the table: at most one object is between test and store, and its entry is free; owners
have distinct entries that are taken; an object in use has its handle under its ID.  The refinement maps each ID to its owner.

*FilterPanel, PacketViewer.*  `ViewerInv` is the form and the filter (`PanelInv`), the list (`SessionTypeOK`), the buttons and the
window.  The filter is exclusive because the form is, and the form because each box takes the ticks of the others.  Exclusiveness is
also what `AppliesWanted` needs: `FilterIPCheck` has a test for each end that is named, and `Wanted`, which says what the user asked for, one for
the end that was chosen; they agree because at most one is.  `SteadyView` keeps the number inside a list that grows, which keeps every packet at its place;
`FollowIsIP` follows the buttons through handlers that throw half-way.  What the loops do for a list of any length is proved of `Kept`:
the library's induction rule takes an operator and cannot be used here, so the proofs take the least length at which a
claim fails, which exists as the order of the naturals is well-founded, and find that it does not fail there (`LeastNumber`,
`Induction`).  `KeptOccurrences` says that the loop keeps what it should as often as the list has it, and `TextOccurrences` the same of the octets that the
loop over the payloads appends, by the lengths of the two parts of a concatenation (`OccurrencesConcat`).  `StreamKeepsDirection` follows,
since packets of one direction pass the test of `handleFollowStream`.

*Conversations.*  `ShownOnce` needs that a source heads one conversation and a destination has one place in it (`DistinctInv`), and that
the lines printed so far are those of the conversations passed, each once (`LinesInv`).  `AllConversations` needs that what the walk has
passed is collected, and what is collected is in the capture (`WalkInv`); the capture only grows, so neither is undone.

*PacketDecode.*  The setters fit although `tproto` may be read unset: the object's class and the second pass both follow the same
value, so the invariant says at each `pc` what the class has been decided from.  `WithinCapture` rests on the clamp of `clen` after the
first pass, with `short` arithmetic that may wrap: lemmas say where `ToShort` keeps a number and where it takes it round once.

That object and frame agree needs to know what a frame is.  `WellFormed` says it from the octets alone: the type behind the link
header, the length in the network header, the chain of IPv6 extension headers place by place, the protocol at its end and the length
of the header of that.  Frames that were cut inside a header, or are no frames, are free: the theorems hold with any of them in between, since
each frame starts anew.  Of the frames the standards allow it leaves out those that `get_packet` gets wrong, each of which is in section 5 or named
where `FrameLayout` leaves it out: lengths beyond a `short`, a length or type field that is the number of a transport protocol, RARP, TCP,
UDP or ICMP behind an extension header, routing headers; also an IPv6 frame cut right behind its first header and extension
headers of more than 127 units, whose length no longer fits a `jbyte`.  Neither hypothesis nor theorem bounds the length of the chain.
`LayoutInv` has two parts.  `FirstPassRight` follows the class: `clen` is what was captured behind the link header, and
Create comes to the protocol that is carried (`Found`), or to none where none is, in particular to none behind an extension header, where the pass reads the version
of the IPv6 header for a protocol number (96 to 111) and stops.  `SecondPassRight` follows the layout: at each extension header, the options made are those
before it, `ext` is where it starts and `hlen` how far that is from the network header; after the clamp `clen` is what is left of the shorter of packet and capture.
TLC checks `LayoutInv` on the frames of `wire` if it is added to the cfg.

*PacketBuild, SendReceive.*  Everything is said with `Lies(o, at, s)`: the octets `s` lie in `o` from `at` on.  Lemmas about `\o` say where each
part of a header lies in it (`TwoParts` up to `NineParts`), others that a part of a part lies in the whole (`LiesWithin`), so each field that a
`set_` function writes is found at its place in the frame, and `OctetAt`, `WordAt` and `OctetsAt` read it there.  What is put together from
bits (type of service, flags, version with class and flow label) is taken apart again by arithmetic.  With lengths and places known a frame
that was sent is `WellFormed`, case by case over the classes (`KnownAreWellFormed`); so all that is proved of well-formed frames holds of
it, and `ObjectRead`, which is invariant with `LayoutInv` (`ReadAlways`), says that each header was read where it lies.  Fields, octets and data follow.

The checksums need sums of any length.  `SumOf` is a recursive function; `SumDefined` finds it by the least number of words of which it is not
what its definition says, and induction over sets of numbers gives the rest.  Numbers are `Alike` when they differ by a multiple of 65535, which is what
ones' complement cannot tell.  To swap the octets of all words is to shift the sum by an octet (`SumSwapped`), so a sum over words in the order of
the host is right in that of the network; the complement of a sum makes it 0 (`ComplementAdds`); the message that is summed is the one that is
sent, but for the checksum (`TCPBlank` and its siblings); and an even part, like the pseudo header, can be summed apart (`TotalOfParts`).
`FramesAreSummed` is needed: `OddEcho` of section 5 is a frame without it.

*PacketLoop.*  `EntriesInv` says of each call that goes on where the entry of its captor stands: it is of that captor, no older than the call, and
its own unless the call overlapped.  That needs to know which calls share a captor (`OverlapInv`: all of them overlapped), that a
reference left behind is one of an overlapped call (`LeftInv`), and that the next number is new (`NumbersInv`).  Nothing is assumed of who
calls what; what an overlap does to the receivers is `HandlerAnalyzes` of section 5.

*CaptureQueue.*  A packet that was polled is older than every one that waits (`QueueInv`), so nobody polls it again; packets of two workers
differ, and the handlers left on a worker's list have not had its packet (`WorkerInv`).  With one worker they have had older ones only.

*InterfaceSelection.*  Until a scan finds something else, the items of the combo box are the names of the static list, so an index
is good for both.  That the window shows all addresses is that no slot is left empty: slots grow with the addresses, so two addresses never
share one, and there are as many as the first pass counted (`SlotsFilled`).

Only model-checked: liveness and the fairness it needs, `StoredIsPrinted`, `StopTerminates` and `Reaches`, which are out of the
prover's reach.  Every invariant and every other action property that a passing run lists is a theorem.

## 5. Where the code deviates

These are statements of comments and change logs, or what a user would expect, that TLC refutes on what the code does.  The first two are runs.  For the others
the property stands in its module and no run lists it, as it fails: put it alone as INVARIANT (or PROPERTY, where so marked) into
a copy of the named cfg, with `Frames <-` the set that is named.

| Property | Configuration | What the code does |
|---|---|---|
| `StopCanReenable` | `stop_reenables` | `startCapture` (`Controller.java:153`) disables Start and Clear before it looks for an interface; without one Stop fails and re-enables nothing |
| `CaptorOutlivesWriter` | `dump_close` | closing a writer (`JpcapWriter.c:47`) closes the pcap handle of its captor |
| `WholePayloads` | `viewer` | `handleFollowStream` (`PacketViewerController.java:278`, 318) stops before the last octet of each payload |
| `HandlerAnalyzes` | `loops` | a call inside a receiver, or of another thread, on the same captor overwrites its entry (`JpcapCaptor.c:447`) |
| `AllPrinted` | `contents` | `formatPacketInfo` (`PacketManager.java:188`) casts a fragment or a truncated packet to the class of its protocol; its row keeps no text |
| `FormApplied` (PROPERTY) | `viewer` | `checkEmptyFilters` (`Controller.java:578`) takes an address and a port without a protocol for no filter, and an emptied field keeps what an earlier Apply set |
| `FollowsConversation` (PROPERTY) | `viewer` | `handleFollowStream` (`PacketViewerController.java:263`) leaves out replies and takes in strangers that share a port and an address |
| `OpensSelected` without `~rescanned` | `interfaces` | the index into the combo box is looked up in a list that was scanned anew (`NetworkInterfaceManager.java:62`) |
| `ClearSparesRunning` without `~opening` | `captures` | Open is never disabled: during a capture it takes the list from under it (`Controller.java:610`) |
| `ReturnsCount` | `loops` | `loopPacket` returns 0 when the count was reached (`JpcapCaptor.c:468`), where `JpcapCaptor.java:132` promises the number of packets |
| `ClassFits` | `wire`, `LengthFrames` | the length field of an IEEE 802.3 frame is used as a transport protocol (`JpcapCaptor.c:784`) |
| `ClassFits` | `wire`, `ExtendedTCP` | the pass over the extension headers starts at the IPv6 header (`JpcapCaptor.c:740`): TCP behind one is not found |
| `OptionsInOrder` | `wire`, `RoutedFrames` | a routing header moves `data` twice (`packet_ipv6.c:133`) |
| `TruncatedWithinCapture` | `wire`, `CutTCP` | a packet without its whole transport header is not cut to what was captured (`JpcapCaptor.c:858`) |
| `PayloadExact` | `wire`, `BigFrames` | a packet of more than 32767 octets is taken for an empty one, as lengths are `short`s (`JpcapCaptor.c:699`) |
| `FragmentFlags` | `wire`, `UnfragmentedFrames` | the flags are tested without `ntohs` (`packet_ip.c:50`) |
| `EchoIdentifier` | `wire`, `EchoFrames` | identifier and sequence number lose an octet to a shift (`packet_icmp.c:40`) |
| `IdentArrives` | `wire` | `analyze_ip` hands the identification to a setter that takes a `short` (`packet_ip.c:55`, `IPPacket.java:244`): above 32767 it is negative |
| `TimesArrive` | `wire` | times and masks of ICMP are sent with `htonl` (`packet_icmp.c:161`, 171) and read without `ntohl` (103, 111) |
| `ARPFieldsSet` | `wire`, `ReverseARP` | an RARP frame makes an `ARPPacket` that is never filled in (`JpcapCaptor.c:812`) |
| `SavedAsCaptured` | `wire`, `PaddedARP` | padding is not in the object, so `writePacket` saves what its buffer held (`JpcapWriter.c:72`) |
| `OffsetOnWire` | `wire`, `FragmentSent` | the offset is swapped in `set_ip` (`packet_ip.c:88`) and again in `set_packet` (`JpcapSender.c:323`) |
| `ChecksumsRight` | `wire`, `OddEcho` | an odd last octet is summed with the octet behind it (`JpcapSender.c:346`) |
| `PayloadLengthRight`, `IPv6ChecksumsRight` | `wire`, `IPv6Sent` | the IPv6 length counts the header and is not swapped (`JpcapSender.c:274`); the sum reads addresses where IPv4 has them (354) |
| `OptionsArrive` | `wire`, `OptionSent` | `set_tcp` writes no options (`packet_tcp.c:82`) |

The frames of `wire` are chosen so that these are known and kept apart: what it shows, it shows of the rest.

## 6. Not modelled

* Packet formatting (`formatPacketTCP` and its siblings, `toString` of the packet classes): text.  Whether a packet can be formatted at all,
  which decides about rows and buttons, is `Formattable` of `Packets`.
* The packet classes' fields, setters and getters as such: records in the modules that fill and read them.
* The application shell (`Main`, the fxml files, `closeApp`): opens windows and exits, without state.
* Filters, timeouts, non-blocking mode and statistics of a captor: handed to pcap unchanged.
* Router advertisements (`packet_icmp.c:69`, compiled only where `icmp_num_addrs` is a macro, which the headers in `include/`
  do not define), and the initialisation of field IDs in `set_Java_env`, which the first captor does before others exist.
* pcap, the kernel, the JVM and JavaFX, which the modules model from how the code uses them.
* WinPcap's headers (`src/main/c/win32/WpdPack`), which are vendored declarations and most of the C lines of the repository, and
  samples, installers, generated documentation and tests, which are no behaviour of the program.

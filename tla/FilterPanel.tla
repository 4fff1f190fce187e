---------------------------- MODULE FilterPanel ----------------------------
(***************************************************************************)
(* The filter form of the main window and the filter PacketManager keeps   *)
(* for it.  All handlers run on the JavaFX thread, one after another; of   *)
(* the rest of a session only what the form and the lists see of it is     *)
(* here: Start, the packets that come in, Stop, Clear and Open.            *)
(***************************************************************************)
EXTENDS PacketFilter, FiniteSets

CONSTANTS
  IPText,        \* what is typed into the address field: addresses or BadText
  PortText,      \* what is typed into the port field: numbers or BadText
  BadText,       \* text that is no address and no number
  Empty,         \* an empty field
  NoList,        \* filteredCapture is null
  Files,         \* what Open may load
  MaxCapture,    \* bound: packets that are captured into one list
  MaxClicks      \* bound: clicks and texts typed, but for Open

ASSUME PanelAssumption ==
  /\ IPText \subseteq Address \cup {BadText} /\ PortText \subseteq Int \cup {BadText}
  /\ BadText \notin Address \cup Int /\ Empty \notin Address \cup Int \cup {BadText}
  /\ NoList \notin Seq(Packet) /\ Files \subseteq Seq(Packet)
  /\ MaxCapture \in Nat /\ MaxClicks \in Nat

VARIABLES
  (* the form *)
  boxes,         \* the protocol boxes that are selected
  ipText, portText,
  ends,          \* the boxes "source" and "destination" that are selected
  disabled,      \* controls that are disabled: protocols, "ends", "buttons", "start"
  (* PacketManager *)
  filter, filterApplied,
  capture,       \* currentCapture
  filtered,      \* filteredCapture
  (* the session *)
  reader,        \* the capture thread: none, on, stopped (one packet may come) or done
  clicks         \* counts towards the bound MaxClicks

formVars == <<boxes, ipText, portText, ends>>
filterVars == <<filter, filterApplied, filtered>>
panelVars == <<formVars, disabled, filterVars, capture, reader, clicks>>

-----------------------------------------------------------------------------
\* "ends" are the address, the port and the boxes for source and destination,
\* "buttons" Apply and Clear Filters, "start" Start and Clear.
FilterFields == Protocols \cup {"ends", "buttons"}
Controls == FilterFields \cup {"start"}

Click == clicks < MaxClicks /\ clicks' = clicks + 1

Formattables(s) == \A i \in DOMAIN s : Formattable(s[i])

\* The filter the form asks for; a box for an end counts when there is an
\* address or a port it can be about.
FormFilter ==
  LET ip == IF ipText \in Address THEN ipText ELSE NoAddress
      port == IF portText \in Int THEN portText ELSE -1
  IN  [protocols |-> boxes, ip |-> ip, port |-> port,
       ends |-> IF ip # NoAddress \/ port # -1 THEN ends ELSE {}]

PanelInit ==
  /\ boxes = {} /\ ipText = Empty /\ portText = Empty /\ ends = {}
  /\ disabled = FilterFields
  /\ filter = NoFilter /\ filterApplied = FALSE
  /\ capture = <<>> /\ filtered = NoList
  /\ reader = "none" /\ clicks = 0

-----------------------------------------------------------------------------
(* The form *)

\* enablePortField.
PortFieldAfter(selected) ==
  IF selected = {"ARP"} THEN disabled \cup {"ends"} ELSE disabled \ {"ends"}

\* A protocol box is clicked: its handler takes the tick from all the others.
SelectProtocol(q) ==
  /\ q \notin disabled /\ Click
  /\ boxes' = (IF q \in boxes THEN boxes \ {q} ELSE boxes \cup {q}) \cap {q}
  /\ disabled' = PortFieldAfter(boxes')
  /\ UNCHANGED <<ipText, portText, ends, filterVars, capture, reader>>

\* Mutation: the other end keeps its tick.
SelectAnyEnd(e) ==
  /\ "ends" \notin disabled /\ Click
  /\ ends' = IF e \in ends THEN ends \ {e} ELSE ends \cup {e}
  /\ UNCHANGED <<boxes, ipText, portText, disabled, filterVars, capture, reader>>

SelectEnd(e) ==
  /\ "ends" \notin disabled /\ Click
  /\ ends' = IF e \in ends THEN ends \ {e} ELSE {e}
  /\ UNCHANGED <<boxes, ipText, portText, disabled, filterVars, capture, reader>>

TypeText ==
  /\ "ends" \notin disabled /\ Click
  /\ \/ ipText' \in IPText \cup {Empty} /\ UNCHANGED portText
     \/ portText' \in PortText \cup {Empty} /\ UNCHANGED ipText
  /\ UNCHANGED <<boxes, ends, disabled, filterVars, capture, reader>>

-----------------------------------------------------------------------------
(* Apply *)

\* As checkEmptyFilters has it.
CheckEmptyFilters == ~(boxes # {} \/ ipText = Empty \/ portText = Empty)

\* setIPAddressFilter, when the address is valid.
WithIP(f) == IF ipText \in Address THEN [f EXCEPT !.ip = ipText, !.ends = ends] ELSE f

\* setSourcePort, when the field is not empty.
WithPort(f) == IF portText = Empty THEN f ELSE [f EXCEPT !.port = portText, !.ends = ends]

ApplyNothing ==
  /\ CheckEmptyFilters
  /\ UNCHANGED filterVars

\* Integer.parseInt throws, after the address was set.
ApplyBadPort ==
  /\ ~CheckEmptyFilters /\ portText = BadText
  /\ filter' = WithIP(filter)
  /\ filterApplied' = (filterApplied \/ ipText \in Address)
  /\ UNCHANGED filtered

InstallFilters ==
  /\ ~CheckEmptyFilters /\ portText # BadText
  /\ filter' = [WithPort(WithIP(filter)) EXCEPT !.protocols = boxes]
  /\ filterApplied' = TRUE
  /\ filtered' = FilteredPackets(filter', capture)

ApplyFilters ==
  /\ "buttons" \notin disabled /\ Click
  /\ ApplyNothing \/ ApplyBadPort \/ InstallFilters
  /\ UNCHANGED <<formVars, disabled, capture, reader>>

-----------------------------------------------------------------------------
(* Clearing of filters and of the capture, and the rest of the session *)

\* Mutation: the port is not reset.
ForgetMostFilters ==
  /\ filter' = [NoFilter EXCEPT !.port = filter.port] /\ filterApplied' = FALSE
  /\ UNCHANGED filtered

\* PacketManager.clearFilters: the filtered list stays.
ForgetFilters ==
  /\ filter' = NoFilter /\ filterApplied' = FALSE
  /\ UNCHANGED filtered

ClearForm == boxes' = {} /\ ipText' = Empty /\ portText' = Empty /\ ends' = {}

\* The fields are enabled once all packets are printed, which a packet that
\* cannot be formatted prevents.
ClearFilters ==
  /\ "buttons" \notin disabled /\ Click
  /\ ForgetFilters /\ ClearForm
  /\ disabled' = IF Formattables(capture) THEN disabled \ FilterFields ELSE disabled
  /\ UNCHANGED <<capture, reader>>

\* Filters survive a Start; the filtered list is that of the old capture.  When
\* no interface is selected there is no new thread.
StartCapture ==
  /\ "start" \notin disabled /\ Click
  /\ capture' = <<>> /\ disabled' = Controls
  /\ reader' \in {"on", reader}
  /\ UNCHANGED <<formVars, filterVars>>

\* PacketManager.addPacket.
AddPacket(p) ==
  /\ reader \in {"on", "stopped"} /\ Len(capture) < MaxCapture
  /\ capture' = Append(capture, p)
  /\ reader' = IF reader = "on" THEN "on" ELSE "done"
  /\ UNCHANGED <<formVars, disabled, filterVars, clicks>>

\* Without a thread it throws.
StopCapture ==
  /\ reader # "none" /\ Click
  /\ disabled' = {}
  /\ reader' = IF reader = "on" THEN "stopped" ELSE reader
  /\ UNCHANGED <<formVars, filterVars, capture>>

ClearCapture ==
  /\ "start" \notin disabled /\ Click
  /\ capture' = <<>> /\ ForgetFilters /\ ClearForm
  /\ disabled' = FilterFields
  /\ UNCHANGED reader

\* Open clears first; a dialog that is cancelled leaves the form disabled.  Its
\* wait for the user is one step here, and several in CaptureSession.  It is always
\* possible, and not counted as a click.
OpenCapture ==
  /\ ForgetFilters /\ ClearForm
  /\ \/ capture' \in Files /\ disabled' = disabled \ FilterFields
     \/ capture' = <<>> /\ disabled' = disabled \cup FilterFields
  /\ UNCHANGED <<reader, clicks>>

PanelNext ==
  \/ \E q \in Protocols : SelectProtocol(q)
  \/ \E e \in Ends : SelectEnd(e)
  \/ TypeText \/ ApplyFilters \/ ClearFilters
  \/ StartCapture \/ StopCapture \/ ClearCapture \/ OpenCapture
  \/ \E p \in Packet : AddPacket(p)

PanelSpec == PanelInit /\ [][PanelNext]_panelVars

-----------------------------------------------------------------------------
(* Properties *)

PanelTypeOK ==
  /\ boxes \subseteq Protocols /\ ends \subseteq Ends /\ disabled \subseteq Controls
  /\ ipText \in IPText \cup {Empty} /\ portText \in PortText \cup {Empty}
  /\ filter \in Filter /\ filterApplied \in BOOLEAN
  /\ capture \in Seq(Packet) /\ filtered \in Seq(Packet) \cup {NoList}
  /\ reader \in {"none", "on", "stopped", "done"} /\ clicks \in 0..MaxClicks

\* The filter never asks one packet to be of two protocols, or both ends to have
\* one address and port, whatever was ticked, applied and ticked again.
FilterExclusive ==
  /\ \A q, r \in boxes : q = r
  /\ \A q, r \in filter.protocols : q = r
  /\ \A d, e \in ends : d = e
  /\ \A d, e \in filter.ends : d = e

\* Once filters are cleared, by any of the three ways there are, nothing of them
\* is left to be mixed into the next ones.
ClearedIsClear == ~filterApplied => filter = NoFilter

\* What the form asks for, put into words: a packet of a selected protocol, ICMP
\* with its kin, whose chosen ends have the address and the port; ARP, which has
\* neither, is let through.
Wanted(p) ==
  LET chosen == IF ends = {} THEN Ends ELSE ends
      at == [e \in Ends |-> IF e = "source" THEN <<SrcIP[p], SrcPort[p]>>
                            ELSE <<DstIP[p], DstPort[p]>>]
      kin == [q \in Protocols |-> IF q = "ICMP" THEN {"ICMP", "IGMP", "ICMPv6"} ELSE {q}]
      isARP == Class[p] = "ARP"
  IN  /\ boxes # {} => \E q \in boxes : IF isARP THEN q = "ARP" ELSE Protocol[p] \in kin[q]
      /\ \/ isARP
         \/ ipText \notin Address /\ (portText = Empty \/ portText <= 0)
         \/ /\ HasPorts(p)
            /\ ipText \in Address => \E e \in chosen : at[e][1] = ipText
            /\ portText \in Int /\ portText > 0 => \E e \in chosen : at[e][2] = portText

\* With no filter left over, Apply finds the packets the form asks for.
AppliesWanted ==
  [][ApplyFilters /\ InstallFilters /\ filter = NoFilter
       => filtered' = Kept(capture, {p \in Packet : Wanted(p)})]_panelVars

\* "Sets all currently selected filters in the Packet Manager": after Apply its
\* filter is the one the form asks for, when the port is a number.
FormApplied ==
  [][ApplyFilters /\ portText # BadText => filter' = FormFilter]_panelVars
=============================================================================

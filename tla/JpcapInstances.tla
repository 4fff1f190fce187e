--------------------------- MODULE JpcapInstances ---------------------------
(***************************************************************************)
(* The table of jpcap instances: the IDs that captors and senders reserve  *)
(* (JpcapInstance), the pcap handles the native side keeps under those IDs *)
(* (pcds), the one raw socket and the one dump file of the library.        *)
(*                                                                         *)
(* Objects are opened by threads that nothing synchronises, so reserveID   *)
(* tests one entry a step and takes it in the next, and a handle is looked *)
(* for, opened and stored in separate steps.  Every call that Java allows  *)
(* is a step; "proper" remembers whether they kept to what the library     *)
(* relies on.                                                              *)
(***************************************************************************)
EXTENDS Integers

CONSTANTS
  Object,        \* captors and senders, each opened once
  Writer,        \* the JpcapWriter objects, and the files they are opened on
  None,          \* NULL
  MaxInstances,  \* MAX_NUMBER_OF_INSTANCE, 255 in the code
  RAW_SOCKET_ID  \* no entry of the table, 99999 in the code

ASSUME InstancesAssumption ==
  /\ None \notin Object \cup Writer
  /\ MaxInstances \in Nat \ {0}
  /\ RAW_SOCKET_ID \in Nat /\ RAW_SOCKET_ID >= MaxInstances

VARIABLES
  (* JpcapInstance *)
  instanciatedFlag, \* which IDs are taken
  ID,            \* the ID of each object, -1 before it has one
  (* each object *)
  kind,          \* how it was made: captor, sender, raw or shared
  pc,            \* how far its opening or closing is
  at,            \* the entry reserveID looks at
  (* the native side *)
  pcds,          \* under each ID, the object whose handle is there, or None
  handle,        \* what became of the handle of each object
  soc,           \* the raw socket: none yet, open, or a number that was closed
  pdt,           \* the writer whose dump file is open, or None
  pcdd,          \* the handle the dump file was opened for, or None
  (* each writer *)
  wpc,           \* new, open, closed or failed
  (* history, read by properties alone *)
  proper         \* see Reserving, Close and CloseDump

objectVars == <<instanciatedFlag, ID, kind, pc, at>>
handleVars == <<pcds, handle>>
writerVars == <<pdt, pcdd, wpc>>
vars == <<objectVars, handleVars, soc, writerVars, proper>>

-----------------------------------------------------------------------------
Ids == 0..(MaxInstances - 1)

Kinds == {"captor", "sender", "raw", "shared"}

\* In reserveID.
Reserving(o) == pc[o] \in {"scan", "take"}

\* Owner of the entry at[o], from the end of reserveID to that of unreserveID.
\* An object whose opening fails keeps its entry, and so does a raw socket.
Owner(o) ==
  /\ kind[o] # "shared"
  /\ pc[o] \in {"check", "open", "rawOpen", "opened", "unreserve", "leaked"}

\* Captors and senders that openDevice or openFile returned.
InUse(o) == pc[o] = "opened" /\ kind[o] \in {"captor", "sender"}

Goto(o, label) == pc' = [pc EXCEPT ![o] = label]

Init ==
  /\ instanciatedFlag = [i \in Ids |-> FALSE]
  /\ ID = [o \in Object |-> -1]
  /\ kind = [o \in Object |-> "captor"]
  /\ pc = [o \in Object |-> "unborn"]
  /\ at = [o \in Object |-> 0]
  /\ pcds = [i \in Ids |-> None]
  /\ handle = [o \in Object |-> "none"]
  /\ soc = "none"
  /\ pdt = None /\ pcdd = None
  /\ wpc = [w \in Writer |-> "new"]
  /\ proper = TRUE

-----------------------------------------------------------------------------
(* JpcapInstance.reserveID, called by the constructors *)

\* openDevice, openFile or openRawSocket is called.
New(o, k) ==
  /\ pc[o] = "unborn" /\ k # "shared"
  /\ kind' = [kind EXCEPT ![o] = k]
  /\ Goto(o, "scan")
  /\ proper' = (proper /\ \A p \in Object : ~Reserving(p))
  /\ UNCHANGED <<instanciatedFlag, ID, at, handleVars, soc, writerVars>>

TestFlag(o) ==
  /\ pc[o] = "scan" /\ at[o] < MaxInstances
  /\ IF instanciatedFlag[at[o]]
     THEN at' = [at EXCEPT ![o] = @ + 1] /\ UNCHANGED pc
     ELSE Goto(o, "take") /\ UNCHANGED at
  /\ UNCHANGED <<instanciatedFlag, ID, kind, handleVars, soc, writerVars, proper>>

\* Mutation: the flag is not set.
TakeWithoutFlag(o) ==
  /\ pc[o] = "take"
  /\ ID' = [ID EXCEPT ![o] = at[o]]
  /\ Goto(o, IF kind[o] = "raw" THEN "rawOpen" ELSE "check")
  /\ UNCHANGED <<instanciatedFlag, kind, at, handleVars, soc, writerVars, proper>>

TakeID(o) ==
  /\ pc[o] = "take"
  /\ ID' = [ID EXCEPT ![o] = at[o]]
  /\ instanciatedFlag' = [instanciatedFlag EXCEPT ![at[o]] = TRUE]
  /\ Goto(o, IF kind[o] = "raw" THEN "rawOpen" ELSE "check")
  /\ UNCHANGED <<kind, at, handleVars, soc, writerVars, proper>>

\* Unable to open a device: 255 devices are already opened.
TableFull(o) ==
  /\ pc[o] = "scan" /\ at[o] = MaxInstances
  /\ Goto(o, "refused")
  /\ UNCHANGED <<instanciatedFlag, ID, kind, at, handleVars, soc, writerVars, proper>>

-----------------------------------------------------------------------------
(* Opening a device or a file *)

\* Another Jpcap instance is being used: the exception loses the object.
CheckHandle(o) ==
  /\ pc[o] = "check"
  /\ Goto(o, IF pcds[ID[o]] # None THEN "leaked" ELSE "open")
  /\ UNCHANGED <<instanciatedFlag, ID, kind, at, handleVars, soc, writerVars, proper>>

OpenHandle(o) ==
  /\ pc[o] = "open"
  /\ \E opens \in BOOLEAN :
       /\ pcds' = [pcds EXCEPT ![ID[o]] = IF opens THEN o ELSE None]
       /\ handle' = [handle EXCEPT ![o] = IF opens THEN "live" ELSE "none"]
       /\ Goto(o, IF opens THEN "opened" ELSE "leaked")
  /\ UNCHANGED <<instanciatedFlag, ID, kind, at, soc, writerVars, proper>>

\* getJpcapSenderInstance of the captor c: a sender with the captor's ID.
ShareCaptor(o, c) ==
  /\ pc[o] = "unborn"
  /\ kind[c] = "captor" /\ pc[c] \in {"opened", "unreserve", "closed"}
  /\ kind' = [kind EXCEPT ![o] = "shared"]
  /\ ID' = [ID EXCEPT ![o] = ID[c]]
  /\ Goto(o, "opened")
  /\ UNCHANGED <<instanciatedFlag, at, handleVars, soc, writerVars, proper>>

\* Raw Socket is already opened: any number in soc_num will do.
RefuseRaw(o) ==
  /\ pc[o] = "rawOpen" /\ soc # "none"
  /\ Goto(o, "leaked")
  /\ UNCHANGED <<instanciatedFlag, ID, kind, at, handleVars, soc, writerVars, proper>>

\* The ID that was reserved is overwritten.
OpenRaw(o) ==
  /\ pc[o] = "rawOpen" /\ soc = "none"
  /\ \/ /\ soc' = "open"
        /\ ID' = [ID EXCEPT ![o] = RAW_SOCKET_ID]
        /\ Goto(o, "opened")
     \/ Goto(o, "leaked") /\ UNCHANGED <<soc, ID>>
  /\ UNCHANGED <<instanciatedFlag, kind, at, handleVars, writerVars, proper>>

-----------------------------------------------------------------------------
(* Closing: close may be called on anything that was opened, and again *)

CanClose(o) == pc[o] = "opened" \/ (pc[o] = "closed" /\ kind[o] # "raw")

\* Mutation: the closed handle is left in pcds.
CloseWithoutReset(o) ==
  LET h == pcds[ID[o]] IN
  IF h = None
  THEN UNCHANGED handleVars
  ELSE handle' = [handle EXCEPT ![h] = "gone"] /\ UNCHANGED pcds

NativeClose(o) ==
  LET h == pcds[ID[o]] IN
  IF h = None
  THEN UNCHANGED handleVars
  ELSE /\ handle' = [handle EXCEPT ![h] = "gone"]
       /\ pcds' = [pcds EXCEPT ![ID[o]] = None]

\* Mutation: the ID is given back here, and by unreserveID again.
GiveBackTwice(o) ==
  /\ CanClose(o) /\ kind[o] # "raw"
  /\ NativeClose(o)
  /\ instanciatedFlag' = [instanciatedFlag EXCEPT ![ID[o]] = FALSE]
  /\ Goto(o, "unreserve")
  /\ proper' = (proper /\ pc[o] = "opened" /\ kind[o] # "shared")
  /\ UNCHANGED <<ID, kind, at, soc, writerVars>>

Close(o) ==
  /\ CanClose(o) /\ kind[o] # "raw"
  /\ NativeClose(o)
  /\ Goto(o, "unreserve")
  /\ proper' = (proper /\ pc[o] = "opened" /\ kind[o] # "shared")
  /\ UNCHANGED <<instanciatedFlag, ID, kind, at, soc, writerVars>>

UnreserveID(o) ==
  /\ pc[o] = "unreserve"
  /\ instanciatedFlag' = [instanciatedFlag EXCEPT ![ID[o]] = FALSE]
  /\ Goto(o, "closed")
  /\ UNCHANGED <<ID, kind, at, handleVars, soc, writerVars, proper>>

\* soc_num keeps the number; unreserveID, with 99999, is out of bounds.
CloseRaw(o) ==
  /\ CanClose(o) /\ kind[o] = "raw"
  /\ soc' = "closed"
  /\ Goto(o, "leaked")
  /\ UNCHANGED <<instanciatedFlag, ID, kind, at, handleVars, writerVars, proper>>

-----------------------------------------------------------------------------
(* JpcapWriter: its dump file is global to the library, so a second writer   *)
(* redirects the packets of the first.  writePacket changes no state here.   *)

OpenDump(w, c) ==
  /\ wpc[w] = "new"
  /\ kind[c] = "captor" /\ pc[c] \in {"opened", "unreserve", "closed"}
  /\ IF pcds[ID[c]] = None
     THEN wpc' = [wpc EXCEPT ![w] = "failed"] /\ UNCHANGED <<pdt, pcdd>>
     ELSE \E opens \in BOOLEAN :
            /\ pcdd' = pcds[ID[c]]
            /\ pdt' = IF opens THEN w ELSE None
            /\ wpc' = [wpc EXCEPT ![w] = IF opens THEN "open" ELSE "failed"]
  /\ UNCHANGED <<objectVars, handleVars, soc, proper>>

\* Closes the dump file, and frees the handle of the captor, closed or not.
CloseDump(w) ==
  /\ wpc[w] = "open"
  /\ IF pdt = None
     THEN UNCHANGED <<pcdd, handleVars, proper>>
     ELSE /\ handle' = [handle EXCEPT ![pcdd] = "gone"]
          /\ pcdd' = None
          /\ proper' = FALSE
          /\ UNCHANGED pcds
  /\ pdt' = None
  /\ wpc' = [wpc EXCEPT ![w] = "closed"]
  /\ UNCHANGED <<objectVars, soc>>

-----------------------------------------------------------------------------
Next ==
  \/ \E o \in Object :
       \/ \E k \in Kinds : New(o, k)
       \/ TestFlag(o) \/ TakeID(o) \/ TableFull(o)
       \/ CheckHandle(o) \/ OpenHandle(o)
       \/ \E c \in Object : ShareCaptor(o, c)
       \/ RefuseRaw(o) \/ OpenRaw(o)
       \/ Close(o) \/ UnreserveID(o) \/ CloseRaw(o)
  \/ \E w \in Writer :
       \/ \E c \in Object : OpenDump(w, c)
       \/ CloseDump(w)

Spec == Init /\ [][Next]_vars

-----------------------------------------------------------------------------
(* Properties *)

TypeOK ==
  /\ instanciatedFlag \in [Ids -> BOOLEAN]
  /\ ID \in [Object -> Ids \cup {-1, RAW_SOCKET_ID}]
  /\ kind \in [Object -> Kinds]
  /\ pc \in [Object -> {"unborn", "scan", "take", "refused", "check", "open",
                        "rawOpen", "opened", "unreserve", "closed", "leaked"}]
  /\ at \in [Object -> 0..MaxInstances]
  /\ pcds \in [Ids -> Object \cup {None}]
  /\ handle \in [Object -> {"none", "live", "gone"}]
  /\ soc \in {"none", "open", "closed"}
  /\ pdt \in Writer \cup {None} /\ pcdd \in Object \cup {None}
  /\ wpc \in [Writer -> {"new", "open", "closed", "failed"}]
  /\ proper \in BOOLEAN

------------------------------------------------------------------------
\* While objects are opened one after another, each closed once and none
\* through its shared sender: an ID belongs to one object (reserveID and
\* unreserveID), and every entry that is taken has an owner.
OneOwner ==
  proper =>
    /\ \A o \in Object : Owner(o) => instanciatedFlag[at[o]]
    /\ \A o, p \in Object : Owner(o) /\ Owner(p) /\ at[o] = at[p] => o = p
    /\ \A i \in Ids : instanciatedFlag[i] => \E o \in Object : Owner(o) /\ at[o] = i

\* Likewise, what native code finds in pcds is the live handle of the object
\* in use under that ID, whatever was opened, refused and closed before: a
\* captor reads from the interface it opened, and nobody is told that
\* "Another Jpcap instance is being used."
OwnHandle ==
  proper =>
    /\ \A o \in Object : InUse(o) => pcds[ID[o]] = o
    /\ \A i \in Ids : pcds[i] # None =>
         InUse(pcds[i]) /\ ID[pcds[i]] = i /\ handle[pcds[i]] = "live"

\* The table implements an allocator of IDs as long as the calls are proper.
owner == [i \in Ids |-> IF \E o \in Object : Owner(o) /\ at[o] = i
                        THEN CHOOSE o \in Object : Owner(o) /\ at[o] = i
                        ELSE None]

Pool == INSTANCE InstancePool WITH Resource <- Ids, holder <- owner

\* Under proper use the scan of the flags and the two stores of reserveID are
\* as good as one step that hands out a free ID, and what close gives back is
\* the ID of the object that is closed.
ImplementsPool == Pool!Init /\ [][proper' => [Pool!Next]_owner]_vars

\* JpcapWriter.close closes the dump file, and no more: the handle that a
\* captor in use has under its ID stays alive.
CaptorOutlivesWriter ==
  \A o \in Object : InUse(o) /\ pcds[ID[o]] = o => handle[o] = "live"
=============================================================================

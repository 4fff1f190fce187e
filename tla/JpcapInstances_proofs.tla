----------------------- MODULE JpcapInstances_proofs -----------------------
(***************************************************************************)
(* For any number of objects, writers and instances: under proper use an   *)
(* ID belongs to one object, and the handle under it is its own.           *)
(***************************************************************************)
EXTENDS JpcapInstances, TLAPS

USE InstancesAssumption DEF Ids

\* The types, and that reserveID takes no entry beyond the table and native
\* code looks up none, whatever the calls.
InTable ==
  \A o \in Object :
    /\ pc[o] = "take" => at[o] \in Ids
    /\ pc[o] = "rawOpen" => kind[o] = "raw"
    /\ kind[o] = "shared" => pc[o] \in {"opened", "unreserve", "closed"}
    /\ pc[o] \in {"check", "open", "unreserve", "closed"} => kind[o] # "raw"
    /\ kind[o] # "raw" /\ pc[o] \in {"check", "open", "opened", "unreserve", "closed"}
         => ID[o] \in Ids

TypeInv == TypeOK /\ InTable

\* One object at a time is in reserveID, and the entry it is about to take
\* is still free.
ReservingInv ==
  /\ \A o, p \in Object : Reserving(o) /\ Reserving(p) => o = p
  /\ \A o \in Object : pc[o] = "take" => ~instanciatedFlag[at[o]]

\* The ID of an owner is the entry it took; only a raw socket has another one,
\* and it has no handle.
IDInv ==
  \A o \in Object : Owner(o) =>
    /\ at[o] \in Ids
    /\ kind[o] # "raw" => ID[o] = at[o]

\* A shared sender is not closed.
SharedInv == \A o \in Object : kind[o] = "shared" => pc[o] = "opened"

TableInv == ReservingInv /\ IDInv /\ SharedInv /\ OneOwner /\ OwnHandle

IInv == TypeInv /\ (proper => TableInv)

-----------------------------------------------------------------------------
\* The types, whatever the calls: they are what the functions need to be
\* updated at all.
LEMMA InitTypes == Init => TypeInv
BY DEF Init, TypeInv, InTable, TypeOK, Kinds

LEMMA NextTypes == ASSUME TypeInv, [Next]_vars PROVE TypeInv'
<1> USE DEF TypeInv, InTable, TypeOK, Kinds, Goto, objectVars, handleVars, writerVars
<1>1. ASSUME NEW o \in Object, NEW k \in Kinds, New(o, k) PROVE TypeInv'
  BY <1>1 DEF New
<1>2. ASSUME NEW o \in Object, TestFlag(o) PROVE TypeInv'
  <2>1. CASE instanciatedFlag[at[o]]
    <3>1. at' = [at EXCEPT ![o] = at[o] + 1] /\ at[o] + 1 \in 0..MaxInstances
      BY <1>2, <2>1 DEF TestFlag
    <3> QED
      BY <1>2, <2>1, <3>1 DEF TestFlag
  <2>2. CASE ~instanciatedFlag[at[o]]
    <3>1. at[o] \in Ids /\ UNCHANGED at /\ pc' = [pc EXCEPT ![o] = "take"]
      BY <1>2, <2>2 DEF TestFlag
    <3> QED
      BY <1>2, <3>1 DEF TestFlag
  <2> QED
    BY <2>1, <2>2
<1>3. ASSUME NEW o \in Object, TakeID(o) PROVE TypeInv'
  <2>1. at[o] \in Ids
    BY <1>3 DEF TakeID
  <2> QED
    BY <1>3, <2>1 DEF TakeID
<1>4. ASSUME NEW o \in Object, TableFull(o) PROVE TypeInv'
  BY <1>4 DEF TableFull
<1>5. ASSUME NEW o \in Object, CheckHandle(o) PROVE TypeInv'
  BY <1>5 DEF CheckHandle
<1>6. ASSUME NEW o \in Object, OpenHandle(o) PROVE TypeInv'
  <2> PICK opens \in BOOLEAN :
         /\ pcds' = [pcds EXCEPT ![ID[o]] = IF opens THEN o ELSE None]
         /\ handle' = [handle EXCEPT ![o] = IF opens THEN "live" ELSE "none"]
         /\ pc' = [pc EXCEPT ![o] = IF opens THEN "opened" ELSE "leaked"]
    BY <1>6 DEF OpenHandle
  <2>1. CASE opens
    BY <1>6, <2>1 DEF OpenHandle
  <2>2. CASE ~opens
    BY <1>6, <2>2 DEF OpenHandle
  <2> QED
    BY <2>1, <2>2
<1>7. ASSUME NEW o \in Object, NEW c \in Object, ShareCaptor(o, c) PROVE TypeInv'
  <2>1. ID[c] \in Ids \cup {-1, RAW_SOCKET_ID}
    OBVIOUS
  <2>2. ID' = [ID EXCEPT ![o] = ID[c]] /\ kind' = [kind EXCEPT ![o] = "shared"]
    BY <1>7 DEF ShareCaptor
  <2> QED
    BY <1>7, <2>1, <2>2 DEF ShareCaptor
<1>8. ASSUME NEW o \in Object, RefuseRaw(o) PROVE TypeInv'
  BY <1>8 DEF RefuseRaw
<1>9. ASSUME NEW o \in Object, OpenRaw(o) PROVE TypeInv'
  <2>1. kind[o] = "raw" /\ UNCHANGED <<kind, at>>
    BY <1>9 DEF OpenRaw
  <2>2. CASE ID' = [ID EXCEPT ![o] = RAW_SOCKET_ID] /\ pc' = [pc EXCEPT ![o] = "opened"]
    <3>1. TypeOK'
      BY <1>9, <2>2 DEF OpenRaw
    <3>2. InTable'
      BY <2>1, <2>2
    <3> QED
      BY <3>1, <3>2
  <2>3. CASE UNCHANGED ID /\ pc' = [pc EXCEPT ![o] = "leaked"]
    <3>1. TypeOK'
      BY <1>9, <2>3 DEF OpenRaw
    <3>2. InTable'
      BY <2>1, <2>3
    <3> QED
      BY <3>1, <3>2
  <2> QED
    BY <1>9, <2>2, <2>3 DEF OpenRaw
<1>10. ASSUME NEW o \in Object, Close(o) PROVE TypeInv'
  <2>1. ID[o] \in Ids /\ kind[o] # "raw" /\ pc' = [pc EXCEPT ![o] = "unreserve"]
    BY <1>10 DEF Close, CanClose
  <2>2. pcds' \in [Ids -> Object \cup {None}] /\ handle' \in [Object -> {"none", "live", "gone"}]
    BY <1>10, ZenonT(40) DEF Close, NativeClose
  <2> QED
    BY <1>10, <2>1, <2>2, ZenonT(40) DEF Close
<1>11. ASSUME NEW o \in Object, UnreserveID(o) PROVE TypeInv'
  BY <1>11 DEF UnreserveID
<1>12. ASSUME NEW o \in Object, CloseRaw(o) PROVE TypeInv'
  BY <1>12 DEF CloseRaw
<1>13. ASSUME NEW w \in Writer, NEW c \in Object, OpenDump(w, c) PROVE TypeInv'
  <2>1. InTable'
    BY <1>13 DEF OpenDump
  <2>2. TypeOK'
    <3>1. CASE pcds[ID[c]] = None
      <4>1. wpc' = [wpc EXCEPT ![w] = "failed"] /\ UNCHANGED <<pdt, pcdd>>
        BY <1>13, <3>1 DEF OpenDump
      <4> QED
        BY <1>13, <4>1 DEF OpenDump
    <3>2. CASE pcds[ID[c]] # None
      <4> PICK opens \in BOOLEAN :
             /\ pdt' = IF opens THEN w ELSE None
             /\ wpc' = [wpc EXCEPT ![w] = IF opens THEN "open" ELSE "failed"]
        BY <1>13, <3>2 DEF OpenDump
      <4>1. ID[c] \in Ids /\ pcdd' = pcds[ID[c]]
        BY <1>13, <3>2 DEF OpenDump
      <4>2. pcdd' \in Object \cup {None}
        BY <4>1
      <4> QED
        BY <1>13, <4>2 DEF OpenDump
    <3> QED
      BY <3>1, <3>2
  <2> QED
    BY <2>1, <2>2
<1>14. ASSUME NEW w \in Writer, CloseDump(w) PROVE TypeInv'
  <2>1. CASE pdt = None
    BY <1>14, <2>1 DEF CloseDump
  <2>2. CASE pdt # None
    BY <1>14, <2>2 DEF CloseDump
  <2> QED
    BY <2>1, <2>2
<1>15. CASE UNCHANGED vars
  BY <1>15 DEF vars
<1> QED
  BY <1>1, <1>2, <1>3, <1>4, <1>5, <1>6, <1>7, <1>8, <1>9, <1>10, <1>11,
     <1>12, <1>13, <1>14, <1>15 DEF Next

-----------------------------------------------------------------------------
\* Nothing returns to proper use.
LEMMA ProperBefore == ASSUME [Next]_vars, proper' PROVE proper
BY DEF Next, vars, New, TestFlag, TakeID, TableFull, CheckHandle, OpenHandle,
       ShareCaptor, RefuseRaw, OpenRaw, Close, UnreserveID, CloseRaw, OpenDump,
       CloseDump

LEMMA InitTable == Init => TableInv
BY DEF Init, TableInv, ReservingInv, Reserving, IDInv, SharedInv, OneOwner, Owner, OwnHandle,
       InUse

\* Writers leave the table alone as long as none of them closes.
LEMMA TableFrame ==
  ASSUME TableInv, UNCHANGED <<objectVars, handleVars>>, proper' => proper
  PROVE  TableInv'
BY DEF TableInv, ReservingInv, Reserving, IDInv, SharedInv, OneOwner, Owner, OwnHandle, InUse,
       objectVars, handleVars

\* reserveID.
LEMMA ReserveTable ==
  ASSUME TypeInv, TableInv, proper, proper', NEW o \in Object,
         (\E k \in Kinds : New(o, k)) \/ TestFlag(o) \/ TakeID(o) \/ TableFull(o)
  PROVE  TableInv'
<1> USE DEF TableInv, TypeInv, InTable, TypeOK, Goto, handleVars
<1>1. ASSUME NEW k \in Kinds, New(o, k) PROVE TableInv'
  <2>1. ReservingInv'
    BY <1>1, ZenonT(40) DEF New, ReservingInv, Reserving
  <2>2. \A p \in Object : Owner(p)' <=> Owner(p)
    BY <1>1 DEF New, Owner
  <2>3. \A p \in Object : InUse(p)' <=> InUse(p)
    BY <1>1 DEF New, InUse
  <2>4. IDInv'
    <3>1. \A p \in Object : Owner(p) => p # o
      BY <1>1 DEF New, Owner
    <3> QED
      BY <1>1, <2>2, <3>1 DEF New, IDInv
  <2>5. OneOwner'
    BY <1>1, <2>2 DEF New, OneOwner
  <2>7. SharedInv'
    BY <1>1 DEF New, SharedInv
  <2>6. OwnHandle'
    BY <1>1, <2>3 DEF New, OwnHandle
  <2> QED
    BY <2>1, <2>4, <2>5, <2>6, <2>7
<1>2. ASSUME TestFlag(o) PROVE TableInv'
  <2>1. ReservingInv'
    BY <1>2, ZenonT(40) DEF TestFlag, ReservingInv, Reserving
  <2>2. \A p \in Object : /\ Owner(p)' <=> Owner(p)
                          /\ Owner(p) => at'[p] = at[p]
    BY <1>2 DEF TestFlag, Owner
  <2>3. \A p \in Object : InUse(p)' <=> InUse(p)
    BY <1>2 DEF TestFlag, InUse
  <2>4. IDInv'
    BY <1>2, <2>2 DEF TestFlag, IDInv
  <2>5. OneOwner'
    BY <1>2, <2>2 DEF TestFlag, OneOwner
  <2>7. SharedInv'
    BY <1>2 DEF TestFlag, SharedInv
  <2>6. OwnHandle'
    BY <1>2, <2>3 DEF TestFlag, OwnHandle
  <2> QED
    BY <2>1, <2>4, <2>5, <2>6, <2>7
<1>3. ASSUME TakeID(o) PROVE TableInv'
  <2>0. at[o] \in Ids /\ ~instanciatedFlag[at[o]] /\ kind[o] # "shared"
    BY <1>3 DEF TakeID, ReservingInv
  <2>1. ReservingInv'
    BY <1>3 DEF TakeID, ReservingInv, Reserving
  <2>2. \A p \in Object : Owner(p)' <=> Owner(p) \/ p = o
    BY <1>3, <2>0 DEF TakeID, Owner
  <2>3. \A p \in Object : InUse(p)' <=> InUse(p)
    BY <1>3 DEF TakeID, InUse
  <2>4. IDInv'
    BY <1>3, <2>0, <2>2 DEF TakeID, IDInv
  <2>5. OneOwner'
    <3>1. \A p \in Object : Owner(p) => at[p] # at[o]
      BY <2>0, <1>3 DEF OneOwner
    <3>2. instanciatedFlag' = [instanciatedFlag EXCEPT ![at[o]] = TRUE] /\ at' = at
      BY <1>3 DEF TakeID
    <3>3. \A p \in Object : Owner(p)' => instanciatedFlag'[at'[p]]
      BY <2>0, <2>2, <3>2 DEF OneOwner, IDInv
    <3>4. \A p, q \in Object : Owner(p)' /\ Owner(q)' /\ at'[p] = at'[q] => p = q
      BY <2>2, <3>1, <3>2 DEF OneOwner
    <3>5. \A i \in Ids : instanciatedFlag'[i] => \E p \in Object : Owner(p)' /\ at'[p] = i
      BY <2>0, <2>2, <3>2 DEF OneOwner
    <3> QED
      BY <3>3, <3>4, <3>5 DEF OneOwner
  <2>7. SharedInv'
    BY <1>3 DEF TakeID, SharedInv
  <2>6. OwnHandle'
    BY <1>3, <2>3 DEF TakeID, OwnHandle, InUse
  <2> QED
    BY <2>1, <2>4, <2>5, <2>6, <2>7
<1>4. ASSUME TableFull(o) PROVE TableInv'
  BY <1>4 DEF TableFull, ReservingInv, Reserving, IDInv, SharedInv, OneOwner, Owner, OwnHandle,
              InUse
<1> QED
  BY <1>1, <1>2, <1>3, <1>4

\* Opening a handle or the raw socket, or being refused it.
LEMMA OpenTable ==
  ASSUME TypeInv, TableInv, NEW o \in Object, proper, proper',
         CheckHandle(o) \/ OpenHandle(o) \/ RefuseRaw(o) \/ OpenRaw(o)
  PROVE  TableInv'
<1> USE DEF TableInv, TypeInv, InTable, TypeOK, Goto, handleVars
<1>0. PICK label \in {"open", "opened", "leaked"} : pc' = [pc EXCEPT ![o] = label]
  BY DEF CheckHandle, OpenHandle, RefuseRaw, OpenRaw
<1>1. /\ Owner(o) /\ pc[o] \in {"check", "open", "rawOpen"}
      /\ UNCHANGED <<instanciatedFlag, kind, at>>
  BY DEF CheckHandle, OpenHandle, RefuseRaw, OpenRaw, Owner
<1>2. \A p \in Object : Owner(p)' <=> Owner(p)
  BY <1>0, <1>1 DEF Owner
<1>3. ReservingInv'
  BY <1>0, <1>1 DEF ReservingInv, Reserving
<1>4. IDInv'
  BY <1>1, <1>2 DEF IDInv, CheckHandle, OpenHandle, RefuseRaw, OpenRaw
<1>5. OneOwner'
  BY <1>1, <1>2 DEF OneOwner
<1>7. SharedInv'
  BY <1>0, <1>1 DEF SharedInv, Owner
<1>6. OwnHandle'
  <2>1. CASE CheckHandle(o)
    <3>1. \A p \in Object : InUse(p)' <=> InUse(p)
      BY <2>1 DEF CheckHandle, InUse
    <3> QED
      BY <2>1, <3>1 DEF CheckHandle, OwnHandle
  <2>2. CASE RefuseRaw(o) \/ OpenRaw(o)
    <3>1. kind[o] = "raw"
      BY <2>2 DEF RefuseRaw, OpenRaw
    <3>2. \A p \in Object : InUse(p)' <=> InUse(p)
      BY <1>0, <1>1, <3>1 DEF InUse
    <3>3. \A p \in Object : InUse(p) => ID'[p] = ID[p]
      BY <2>2, <3>1 DEF RefuseRaw, OpenRaw, InUse
    <3>4. UNCHANGED <<pcds, handle>>
      BY <2>2 DEF RefuseRaw, OpenRaw
    <3> QED
      BY <3>2, <3>3, <3>4 DEF OwnHandle
  <2>3. CASE OpenHandle(o)
    <3>1. ID[o] = at[o] /\ at[o] \in Ids /\ kind[o] \in {"captor", "sender"} /\ UNCHANGED ID
      BY <1>1, <2>3 DEF OpenHandle, IDInv, Owner, Kinds
    <3>2. \A p \in Object : InUse(p) => Owner(p) /\ p # o /\ ID[p] # ID[o]
      BY <1>1, <3>1 DEF InUse, Owner, IDInv, OneOwner
    <3>3. PICK opens \in BOOLEAN :
            /\ pcds' = [pcds EXCEPT ![ID[o]] = IF opens THEN o ELSE None]
            /\ handle' = [handle EXCEPT ![o] = IF opens THEN "live" ELSE "none"]
            /\ pc' = [pc EXCEPT ![o] = IF opens THEN "opened" ELSE "leaked"]
      BY <2>3 DEF OpenHandle
    <3>4. CASE opens
      <4>1. \A p \in Object : InUse(p)' <=> InUse(p) \/ p = o
        BY <1>1, <3>1, <3>3, <3>4 DEF InUse
      <4> QED
        BY <3>1, <3>2, <3>3, <3>4, <4>1 DEF OwnHandle
    <3>5. CASE ~opens
      <4>1. \A p \in Object : InUse(p)' <=> InUse(p)
        BY <1>1, <2>3, <3>3, <3>5 DEF InUse, OpenHandle
      <4> QED
        BY <3>1, <3>2, <3>3, <3>5, <4>1 DEF OwnHandle
    <3> QED
      BY <3>4, <3>5
  <2> QED
    BY <2>1, <2>2, <2>3
<1> QED
  BY <1>3, <1>4, <1>5, <1>6, <1>7

\* Closing, and giving back the ID.
LEMMA CloseTable ==
  ASSUME TypeInv, TableInv, NEW o \in Object, proper, proper',
         Close(o) \/ UnreserveID(o) \/ CloseRaw(o)
  PROVE  TableInv'
<1> USE DEF TableInv, TypeInv, InTable, TypeOK, Goto
<1>1. CASE Close(o)
  <2>1. /\ Owner(o) /\ InUse(o) /\ ID[o] = at[o] /\ at[o] \in Ids
        /\ pc' = [pc EXCEPT ![o] = "unreserve"]
        /\ UNCHANGED <<instanciatedFlag, ID, kind, at>>
    BY <1>1 DEF Close, Owner, InUse, IDInv, Kinds
  <2>2. \A p \in Object : Owner(p)' <=> Owner(p)
    BY <2>1 DEF Owner
  <2>3. ReservingInv'
    BY <2>1 DEF ReservingInv, Reserving, InUse
  <2>4. IDInv'
    BY <2>1, <2>2 DEF IDInv
  <2>5. OneOwner'
    BY <2>1, <2>2 DEF OneOwner
  <2>6. pcds[ID[o]] = o
    BY <2>1 DEF OwnHandle
  <2>7. pcds' = [pcds EXCEPT ![ID[o]] = None] /\ handle' = [handle EXCEPT ![o] = "gone"]
    BY <1>1, <2>6 DEF Close, NativeClose
  <2>8. \A p \in Object : InUse(p)' <=> InUse(p) /\ p # o
    BY <2>1 DEF InUse
  <2>9. \A p \in Object : InUse(p) /\ p # o => ID[p] # ID[o]
    BY <2>6 DEF OwnHandle
  <2>10. \A i \in Ids : i # ID[o] => pcds[i] # o
    BY <2>1 DEF OwnHandle
  <2>11. OwnHandle'
    BY <2>1, <2>7, <2>8, <2>9, <2>10 DEF OwnHandle
  <2>12. SharedInv'
    BY <2>1 DEF SharedInv, Owner
  <2> QED
    BY <2>3, <2>4, <2>5, <2>11, <2>12
<1>2. CASE UnreserveID(o)
  <2>1. /\ Owner(o) /\ ID[o] = at[o] /\ at[o] \in Ids
        /\ pc[o] = "unreserve" /\ pc' = [pc EXCEPT ![o] = "closed"]
        /\ instanciatedFlag' = [instanciatedFlag EXCEPT ![at[o]] = FALSE]
        /\ UNCHANGED <<ID, kind, at, pcds, handle>>
    BY <1>2 DEF UnreserveID, Owner, IDInv, SharedInv, handleVars
  <2>2. \A p \in Object : Owner(p)' <=> Owner(p) /\ p # o
    BY <2>1 DEF Owner
  <2>3. \A p \in Object : InUse(p)' <=> InUse(p)
    BY <2>1 DEF InUse
  <2>4. ReservingInv'
    BY <2>1 DEF ReservingInv, Reserving
  <2>5. IDInv'
    BY <2>1, <2>2 DEF IDInv
  <2>6. OneOwner'
    BY <2>1, <2>2 DEF OneOwner, IDInv
  <2>7. OwnHandle'
    BY <2>1, <2>3 DEF OwnHandle
  <2>8. SharedInv'
    BY <2>1 DEF SharedInv
  <2> QED
    BY <2>4, <2>5, <2>6, <2>7, <2>8
<1>3. CASE CloseRaw(o)
  <2>1. /\ kind[o] = "raw" /\ pc[o] = "opened" /\ pc' = [pc EXCEPT ![o] = "leaked"]
        /\ UNCHANGED <<instanciatedFlag, ID, kind, at, pcds, handle>>
    BY <1>3 DEF CloseRaw, CanClose, handleVars
  <2>2. \A p \in Object : Owner(p)' <=> Owner(p)
    BY <2>1 DEF Owner
  <2>3. \A p \in Object : InUse(p)' <=> InUse(p)
    BY <2>1 DEF InUse
  <2>4. ReservingInv' /\ SharedInv'
    BY <2>1 DEF ReservingInv, Reserving, SharedInv
  <2>5. IDInv' /\ OneOwner' /\ OwnHandle'
    BY <2>1, <2>2, <2>3 DEF IDInv, OneOwner, OwnHandle
  <2> QED
    BY <2>4, <2>5
<1> QED
  BY <1>1, <1>2, <1>3

\* getJpcapSenderInstance reserves nothing.
LEMMA ShareTable ==
  ASSUME TypeInv, TableInv, NEW o \in Object, NEW c \in Object, ShareCaptor(o, c)
  PROVE  TableInv'
<1> USE DEF TableInv, TypeInv, InTable, TypeOK, Goto, handleVars
<1>1. /\ pc[o] = "unborn" /\ ID' = [ID EXCEPT ![o] = ID[c]]
      /\ pc' = [pc EXCEPT ![o] = "opened"] /\ kind' = [kind EXCEPT ![o] = "shared"]
      /\ UNCHANGED <<instanciatedFlag, at, pcds, handle, proper>>
  BY DEF ShareCaptor
<1>2. \A p \in Object : (Owner(p)' <=> Owner(p)) /\ (Owner(p) => p # o)
  BY <1>1 DEF Owner
<1>3. \A p \in Object : (InUse(p)' <=> InUse(p)) /\ (InUse(p) => p # o)
  BY <1>1 DEF InUse
<1>4. ReservingInv' /\ SharedInv'
  BY <1>1 DEF ReservingInv, Reserving, SharedInv
<1>5. IDInv'
  BY <1>1, <1>2 DEF IDInv
<1>6. OneOwner'
  BY <1>1, <1>2 DEF OneOwner
<1>7. OwnHandle'
  BY <1>1, <1>3 DEF OwnHandle
<1> QED
  BY <1>4, <1>5, <1>6, <1>7

LEMMA NextTable == ASSUME TypeInv, TableInv, proper, proper', [Next]_vars PROVE TableInv'
<1>1. ASSUME NEW o \in Object,
             (\E k \in Kinds : New(o, k)) \/ TestFlag(o) \/ TakeID(o) \/ TableFull(o)
      PROVE  TableInv'
  BY <1>1, ReserveTable
<1>2. ASSUME NEW o \in Object,
             CheckHandle(o) \/ OpenHandle(o) \/ RefuseRaw(o) \/ OpenRaw(o)
      PROVE  TableInv'
  BY <1>2, OpenTable
<1>3. ASSUME NEW o \in Object, Close(o) \/ UnreserveID(o) \/ CloseRaw(o)
      PROVE  TableInv'
  BY <1>3, CloseTable
<1>4. ASSUME NEW o \in Object, NEW c \in Object, ShareCaptor(o, c) PROVE TableInv'
  BY <1>4, ShareTable
<1>5. ASSUME NEW w \in Writer,
             (\E c \in Object : OpenDump(w, c)) \/ CloseDump(w)
      PROVE  TableInv'
  <2>1. UNCHANGED <<objectVars, handleVars>>
    BY <1>5 DEF OpenDump, CloseDump
  <2> QED
    BY <2>1, TableFrame
<1>6. CASE UNCHANGED vars
  BY <1>6, TableFrame DEF vars
<1> QED
  BY <1>1, <1>2, <1>3, <1>4, <1>5, <1>6 DEF Next

-----------------------------------------------------------------------------
\* The inductive invariant: the types always, the table while use is proper.
THEOREM Invariance == Spec => []IInv
<1>1. Init => IInv
  BY InitTypes, InitTable DEF IInv
<1>2. IInv /\ [Next]_vars => IInv'
  BY NextTypes, NextTable, ProperBefore DEF IInv
<1> QED
  BY <1>1, <1>2, PTL DEF Spec

\* Whatever the calls, every variable keeps its type.
THEOREM Types == Spec => []TypeOK
<1>1. IInv => TypeOK
  BY DEF IInv, TypeInv
<1> QED
  BY <1>1, Invariance, PTL

\* For any number of objects and IDs: an ID has one owner under proper use.
THEOREM OneOwnerHolds == Spec => []OneOwner
<1>1. IInv => OneOwner
  BY DEF IInv, TableInv, OneOwner
<1> QED
  BY <1>1, Invariance, PTL

\* For any number of objects and IDs: the handle under an ID is the live
\* handle of the object in use under it.
THEOREM OwnHandleHolds == Spec => []OwnHandle
<1>1. IInv => OwnHandle
  BY DEF IInv, TableInv, OwnHandle
<1> QED
  BY <1>1, Invariance, PTL

-----------------------------------------------------------------------------
(* The table implements InstancePool *)

\* The refinement mapping gives every owner its entry and nothing else.
LEMMA OwnerMap ==
  ASSUME TypeInv, TableInv, proper, NEW i \in Ids
  PROVE  /\ \A o \in Object : owner[i] = o <=> Owner(o) /\ at[o] = i
         /\ owner[i] = None <=> ~instanciatedFlag[i]
<1>1. CASE \E o \in Object : Owner(o) /\ at[o] = i
  <2>1. owner[i] \in Object /\ Owner(owner[i]) /\ at[owner[i]] = i
    BY <1>1 DEF owner
  <2> QED
    BY <2>1 DEF TableInv, OneOwner
<1>2. CASE ~\E o \in Object : Owner(o) /\ at[o] = i
  <2>1. owner[i] = None
    BY <1>2 DEF owner
  <2> QED
    BY <1>2, <2>1 DEF TableInv, OneOwner
<1> QED
  BY <1>1, <1>2

LEMMA OwnerMapNext ==
  ASSUME TypeInv', TableInv', proper', NEW i \in Ids
  PROVE  /\ \A o \in Object : owner'[i] = o <=> Owner(o)' /\ at'[o] = i
         /\ owner'[i] = None <=> ~instanciatedFlag'[i]
<1>1. CASE \E o \in Object : Owner(o)' /\ at'[o] = i
  <2>1. owner'[i] \in Object /\ Owner(owner[i])' /\ at'[owner'[i]] = i
    BY <1>1 DEF owner
  <2> QED
    BY <2>1 DEF TableInv, OneOwner
<1>2. CASE ~\E o \in Object : Owner(o)' /\ at'[o] = i
  <2>1. owner'[i] = None
    BY <1>2 DEF owner
  <2> QED
    BY <1>2, <2>1 DEF TableInv, OneOwner
<1> QED
  BY <1>1, <1>2

LEMMA OwnerFunction == owner = [i \in Ids |-> owner[i]] /\ owner' = [i \in Ids |-> owner'[i]]
BY DEF owner

LEMMA OwnerRange ==
  ASSUME NEW i \in Ids
  PROVE  owner[i] \in Object \cup {None} /\ owner'[i] \in Object \cup {None}
<1>1. owner[i] \in Object \cup {None}
  <2>1. CASE \E o \in Object : Owner(o) /\ at[o] = i
    BY <2>1 DEF owner
  <2>2. CASE ~\E o \in Object : Owner(o) /\ at[o] = i
    BY <2>2 DEF owner
  <2> QED
    BY <2>1, <2>2
<1>2. owner'[i] \in Object \cup {None}
  <2>1. CASE \E o \in Object : Owner(o)' /\ at'[o] = i
    BY <2>1 DEF owner
  <2>2. CASE ~\E o \in Object : Owner(o)' /\ at'[o] = i
    BY <2>2 DEF owner
  <2> QED
    BY <2>1, <2>2
<1> QED
  BY <1>1, <1>2

\* A step that leaves the owners and their entries alone is a stutter.
LEMMA SameOwners ==
  ASSUME TypeInv, TypeInv', TableInv, TableInv', proper, proper',
         \A p \in Object : (Owner(p)' <=> Owner(p)) /\ (Owner(p) => at'[p] = at[p])
  PROVE  owner' = owner
<1>1. ASSUME NEW i \in Ids PROVE owner'[i] = owner[i]
  <2>1. /\ \A o \in Object : owner[i] = o <=> Owner(o) /\ at[o] = i
        /\ \A o \in Object : owner'[i] = o <=> Owner(o)' /\ at'[o] = i
    BY OwnerMap, OwnerMapNext
  <2> QED
    BY <2>1, OwnerRange
<1> QED
  BY <1>1, OwnerFunction

\* Every step of the table is a step of the pool, or none.
LEMMA PoolStep ==
  ASSUME TypeInv, TypeInv', TableInv, TableInv', proper, proper', [Next]_vars
  PROVE  Pool!Next \/ owner' = owner
<1> USE DEF Goto
<1>1. ASSUME NEW o \in Object, TakeID(o) PROVE Pool!Next
  <2>1. /\ pc[o] = "take" /\ kind[o] # "shared" /\ at[o] \in Ids
        /\ ~instanciatedFlag[at[o]]
    BY <1>1 DEF TakeID, TypeInv, InTable, TableInv, ReservingInv
  <2>2. \A p \in Object : (Owner(p)' <=> Owner(p) \/ p = o) /\ at'[p] = at[p]
    BY <1>1, <2>1 DEF TakeID, Owner, TypeInv, TypeOK
  <2>3. owner[at[o]] = None
    BY <2>1, OwnerMap
  <2>4. \A j \in Ids : owner[j] # o
    BY <2>1, OwnerMap DEF Owner
  <2>5. ASSUME NEW i \in Ids
        PROVE  owner'[i] = IF i = at[o] THEN o ELSE owner[i]
    <3>1. /\ \A p \in Object : owner[i] = p <=> Owner(p) /\ at[p] = i
          /\ \A p \in Object : owner'[i] = p <=> Owner(p)' /\ at'[p] = i
      BY OwnerMap, OwnerMapNext
    <3> QED
      BY <2>2, <3>1, OwnerRange
  <2>6. owner' = [owner EXCEPT ![at[o]] = o]
    BY <2>1, <2>5, OwnerFunction
  <2>7. Pool!Reserve(o, at[o])
    BY <2>3, <2>4, <2>6 DEF Pool!Reserve
  <2> QED
    BY <2>1, <2>7 DEF Pool!Next
<1>2. ASSUME NEW o \in Object, UnreserveID(o) PROVE Pool!Next
  <2>1. Owner(o) /\ at[o] \in Ids /\ pc[o] = "unreserve"
    BY <1>2 DEF UnreserveID, Owner, TableInv, IDInv, SharedInv
  <2>2. \A p \in Object : (Owner(p)' <=> Owner(p) /\ p # o) /\ at'[p] = at[p]
    BY <1>2, <2>1 DEF UnreserveID, Owner, TypeInv, TypeOK
  <2>3. owner[at[o]] = o
    BY <2>1, OwnerMap
  <2>4. ASSUME NEW i \in Ids
        PROVE  owner'[i] = IF i = at[o] THEN None ELSE owner[i]
    <3>1. /\ \A p \in Object : owner[i] = p <=> Owner(p) /\ at[p] = i
          /\ \A p \in Object : owner'[i] = p <=> Owner(p)' /\ at'[p] = i
      BY OwnerMap, OwnerMapNext
    <3> QED
      BY <2>1, <2>2, <3>1, OwnerRange
  <2>5. owner' = [owner EXCEPT ![at[o]] = None]
    BY <2>1, <2>4, OwnerFunction
  <2>6. Pool!Unreserve(at[o])
    BY <2>3, <2>5 DEF Pool!Unreserve
  <2> QED
    BY <2>1, <2>6 DEF Pool!Next
<1>3. ASSUME NEW o \in Object,
             \/ \E k \in Kinds : New(o, k)
             \/ TestFlag(o) \/ TableFull(o) \/ CheckHandle(o) \/ OpenHandle(o)
             \/ \E c \in Object : ShareCaptor(o, c)
             \/ RefuseRaw(o) \/ OpenRaw(o) \/ Close(o) \/ CloseRaw(o)
      PROVE  owner' = owner
  <2>1. \A p \in Object : (Owner(p)' <=> Owner(p)) /\ (Owner(p) => at'[p] = at[p])
    <3>1. CASE \/ \E k \in Kinds : New(o, k)
               \/ \E c \in Object : ShareCaptor(o, c)
               \/ TableFull(o)
      <4>1. CASE \E k \in Kinds : New(o, k)
        BY <4>1 DEF New, Owner, TypeInv, TypeOK
      <4>2. CASE \E c \in Object : ShareCaptor(o, c)
        BY <4>2 DEF ShareCaptor, Owner, TypeInv, TypeOK
      <4>3. CASE TableFull(o)
        BY <4>3 DEF TableFull, Owner, TypeInv, TypeOK
      <4> QED
        BY <3>1, <4>1, <4>2, <4>3
    <3>2. CASE TestFlag(o)
      BY <3>2 DEF TestFlag, Owner, TypeInv, TypeOK
    <3>3. CASE CheckHandle(o) \/ OpenHandle(o) \/ RefuseRaw(o) \/ OpenRaw(o)
      <4>1. PICK label \in {"open", "opened", "leaked"} : pc' = [pc EXCEPT ![o] = label]
        BY <3>3 DEF CheckHandle, OpenHandle, RefuseRaw, OpenRaw
      <4>2. pc[o] \in {"check", "open", "rawOpen"} /\ UNCHANGED <<kind, at>>
        BY <3>3 DEF CheckHandle, OpenHandle, RefuseRaw, OpenRaw
      <4> QED
        BY <4>1, <4>2 DEF Owner, TypeInv, TypeOK
    <3>4. CASE Close(o) \/ CloseRaw(o)
      <4>1. pc[o] = "opened" /\ UNCHANGED <<kind, at>>
        BY <3>4 DEF Close, CloseRaw, CanClose
      <4>2. PICK label \in {"unreserve", "leaked"} : pc' = [pc EXCEPT ![o] = label]
        BY <3>4 DEF Close, CloseRaw
      <4> QED
        BY <4>1, <4>2 DEF Owner, TypeInv, TypeOK
    <3> QED
      BY <1>3, <3>1, <3>2, <3>3, <3>4
  <2> QED
    BY <2>1, SameOwners
<1>4. ASSUME \/ \E w \in Writer, c \in Object : OpenDump(w, c)
             \/ \E w \in Writer : CloseDump(w)
             \/ UNCHANGED vars
      PROVE  owner' = owner
  <2>1. UNCHANGED objectVars
    BY <1>4 DEF OpenDump, CloseDump, vars
  <2>2. \A p \in Object : (Owner(p)' <=> Owner(p)) /\ (Owner(p) => at'[p] = at[p])
    BY <2>1 DEF objectVars, Owner
  <2> QED
    BY <2>2, SameOwners
<1> QED
  BY <1>1, <1>2, <1>3, <1>4 DEF Next

\* For any number of objects and IDs the table, under proper use, implements
\* the allocator: reserveID and unreserveID are atomic as far as anyone can tell.
THEOREM PoolImplemented == Spec => ImplementsPool
<1>1. Init => IInv
  BY InitTypes, InitTable DEF IInv
<1>2. Init => Pool!Init
  BY DEF Init, Pool!Init, owner, Owner
<1>3. IInv /\ IInv' /\ [Next]_vars => [proper' => [Pool!Next]_owner]_vars
  BY PoolStep, ProperBefore DEF IInv
<1> QED
  BY <1>1, <1>2, <1>3, Invariance, PTL DEF Spec, ImplementsPool
=============================================================================

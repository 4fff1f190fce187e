---------------------------- MODULE InstancePool ----------------------------
(***************************************************************************)
(* What JpcapInstance promises the classes built on it: an object gets a   *)
(* free ID in one step, has it to itself, and gives back its own.          *)
(***************************************************************************)
CONSTANTS Object, Resource, None

VARIABLE holder  \* the object each ID belongs to, or None

Init == holder = [i \in Resource |-> None]

Reserve(o, i) ==
  /\ holder[i] = None
  /\ \A j \in Resource : holder[j] # o
  /\ holder' = [holder EXCEPT ![i] = o]

Unreserve(i) ==
  /\ holder[i] # None
  /\ holder' = [holder EXCEPT ![i] = None]

Next ==
  \/ \E o \in Object, i \in Resource : Reserve(o, i)
  \/ \E i \in Resource : Unreserve(i)

Spec == Init /\ [][Next]_holder
=============================================================================

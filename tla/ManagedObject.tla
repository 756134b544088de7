---------------------------- MODULE ManagedObject ----------------------------
(***************************************************************************)
(* What a resource of the provider promises about the objects it manages,  *)
(* without handlers, calls, states and failures: which object is its own,  *)
(* which ones are deleted because of it, and when it lets go of one.       *)
(*                                                                         *)
(* It owns one object at a time, it never takes over an object it did not  *)
(* create, it deletes no other than its own, and it lets go only of what   *)
(* is gone or going. ResourceLifecycle.tla is the mechanism, the CRUD      *)
(* handlers and Terraform's core, and is shown to implement this module.   *)
(***************************************************************************)
CONSTANTS Ids,    \* UUIDs of objects
          None    \* no object

VARIABLES waits,   \* deleting takes until the object is gone
          owned,   \* the object the resource manages
          known,   \* the objects it was told of and that exist
          doomed   \* those of them that are being deleted

vars == <<waits, owned, known, doomed>>

Init ==
    /\ waits \in BOOLEAN
    /\ owned = None /\ known = {} /\ doomed = {}

\* A new object, and only when there is none.
Adopt(i) ==
    /\ owned = None /\ i \notin known
    /\ owned' = i /\ known' = known \cup {i}
    /\ UNCHANGED <<waits, doomed>>

\* The resource deletes what it owns.
Condemn ==
    /\ owned \in known
    /\ doomed' = doomed \cup {owned}
    /\ UNCHANGED <<waits, owned, known>>

\* It lets go of an object that is gone, or going if it does not wait.
Disown ==
    /\ owned # None
    /\ owned \in known => owned \in doomed /\ ~waits
    /\ owned' = None
    /\ UNCHANGED <<waits, known, doomed>>

\* The server removes an object, or somebody else does.
Vanish(i) ==
    /\ i \in known
    /\ known' = known \ {i} /\ doomed' = doomed \ {i}
    /\ UNCHANGED <<waits, owned>>

Next == Condemn \/ Disown \/ \E i \in Ids : Adopt(i) \/ Vanish(i)

Spec == Init /\ [][Next]_vars
=============================================================================

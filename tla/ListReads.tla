------------------------------ MODULE ListReads ------------------------------
(***************************************************************************)
(* What the provider's list cache promises to the resources that read      *)
(* through it, without saying how: a list call answers with some version   *)
(* of the list that is no older than the newest change this client had     *)
(* seen acknowledged when the call began, or it fails.                     *)
(*                                                                         *)
(* ListCache.tla is the mechanism of internal/client/client.go and is      *)
(* shown to implement this module.                                         *)
(***************************************************************************)
EXTENDS Integers

CONSTANTS Paths,     \* list endpoints, one cache key each
          Readers,   \* list calls, each made once
          PathOf     \* the endpoint a call reads

VARIABLES version,   \* version[p]: how many changes the server has applied
          acked,     \* acked[p]: the newest change acknowledged to this client
          phase,     \* phase[r]: where call r is
          floor,     \* floor[r]: acked[PathOf[r]] when call r began
          result     \* result[r]: the version call r answered with, 0 before

vars == <<version, acked, phase, floor, result>>

Init ==
    /\ version = [p \in Paths |-> 0]
    /\ acked = [p \in Paths |-> 0]
    /\ phase = [r \in Readers |-> "idle"]
    /\ floor = [r \in Readers |-> 0]
    /\ result = [r \in Readers |-> 0]

\* The server applies a change, whoever asked for it.
Change(p) ==
    /\ version' = [version EXCEPT ![p] = @ + 1]
    /\ UNCHANGED <<acked, phase, floor, result>>

\* A mutation of this client is acknowledged. Acknowledgements may arrive in
\* another order than the changes they stand for.
Acknowledge(p) ==
    /\ \E v \in acked[p]..version[p] : acked' = [acked EXCEPT ![p] = v]
    /\ UNCHANGED <<version, phase, floor, result>>

Begin(r) ==
    /\ phase[r] = "idle"
    /\ phase' = [phase EXCEPT ![r] = "reading"]
    /\ floor' = [floor EXCEPT ![r] = acked[PathOf[r]]]
    /\ UNCHANGED <<version, acked, result>>

Answer(r) ==
    /\ phase[r] = "reading"
    /\ \E v \in floor[r]..version[PathOf[r]] : result' = [result EXCEPT ![r] = v]
    /\ phase' = [phase EXCEPT ![r] = "answered"]
    /\ UNCHANGED <<version, acked, floor>>

Fail(r) ==
    /\ phase[r] = "reading"
    /\ phase' = [phase EXCEPT ![r] = "failed"]
    /\ UNCHANGED <<version, acked, floor, result>>

Next ==
    \/ \E p \in Paths : Change(p) \/ Acknowledge(p)
    \/ \E r \in Readers : Begin(r) \/ Answer(r) \/ Fail(r)

Spec == Init /\ [][Next]_vars
=============================================================================

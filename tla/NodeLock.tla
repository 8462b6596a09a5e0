------------------------------ MODULE NodeLock ------------------------------
(***************************************************************************)
(* What the background queues promise about the nodes: between the moment  *)
(* a locking task is queued and the moment it lands, the task owns its     *)
(* node's version.  Nobody else moves it, and the version the task         *)
(* installs is the successor of the version it captured.                   *)
(***************************************************************************)
EXTENDS Integers

CONSTANT Nodes

VARIABLES
  owner,    \* per node, no claim or the one claim on it: its id and its base
  version   \* per node, the version at its cursor

vars == <<owner, version>>

Claim == [id : Nat, base : Nat]

Init ==
  /\ owner = [n \in Nodes |-> {}]
  /\ version = [n \in Nodes |-> 0]

(* A task is queued: it captures the version and owns it from now.         *)
Acquire(n) ==
  /\ owner[n] = {}
  /\ \E claim \in owner'[n] : owner'[n] = {claim} /\ claim.base = version[n]
  /\ version'[n] = version[n]

(* The task lands with a result built on the version it captured.          *)
Commit(n) ==
  /\ \E claim \in owner[n] : version'[n] = claim.base + 1
  /\ owner'[n] = {}

(* The task is cancelled, fails, or changes nothing.                       *)
Release(n) ==
  /\ owner[n] # {}
  /\ owner'[n] = {}
  /\ version'[n] = version[n]

(* Anyone else moves the cursor, only while nobody owns the version.       *)
Move(n) ==
  /\ owner[n] = {}
  /\ version'[n] = version[n] + 1
  /\ owner'[n] = {}

Keep(n) == owner'[n] = owner[n] /\ version'[n] = version[n]

(* One step of the queues may touch several nodes: a landing, and the      *)
(* waiting tasks of other nodes that could not be started.                 *)
Next ==
  /\ owner' \in [Nodes -> SUBSET Claim]
  /\ version' \in [Nodes -> Nat]
  /\ \A n \in Nodes : Acquire(n) \/ Commit(n) \/ Release(n) \/ Move(n) \/ Keep(n)

Spec == Init /\ [][Next]_vars

=============================================================================

--------------------------- MODULE FiberLifecycle ---------------------------
(***************************************************************************)
(* What a fiber promises those who watch its state: a plugin is loaded one *)
(* generation at a time, and whatever a generation registered is cleaned   *)
(* up before the fiber waits, fails or ends, so before the next generation *)
(* starts.                                                                 *)
(***************************************************************************)
EXTENDS Naturals

VARIABLES
  state,   \* the published FiberState
  gen,     \* the generations started so far
  held     \* the generations whose cleanups have not run

vars == <<state, gen, held>>

Resting == {"Pending", "Failed", "Disposed"}

Init == state = "Pending" /\ gen = 0 /\ held = {}

(* A generation starts from a clean slate, *)
Start ==
  /\ state = "Pending" /\ held = {}
  /\ state' = "Loading" /\ gen' = gen + 1 /\ held' = held

(* registers its effects, *)
Register == state = "Loading" /\ held' = {gen} /\ UNCHANGED <<state, gen>>

(* runs, *)
Activate ==
  /\ state = "Loading" /\ held = {gen}
  /\ state' = "Active" /\ UNCHANGED <<gen, held>>

(* is stopped - but not once disposed -, *)
Stop ==
  /\ state \notin {"Unloading", "Disposed"}
  /\ state' = "Unloading" /\ UNCHANGED <<gen, held>>

(* cleaned up, *)
Clean == state = "Unloading" /\ held' = {} /\ UNCHANGED <<state, gen>>

(* and only then at rest. *)
Rest ==
  /\ state = "Unloading" /\ held = {}
  /\ state' \in Resting /\ UNCHANGED <<gen, held>>

Next == Start \/ Register \/ Activate \/ Stop \/ Clean \/ Rest

Spec == Init /\ [][Next]_vars
=============================================================================

---------------------------- MODULE ModuleLifecycle ----------------------------
(***************************************************************************)
(* What the runtime promises about module initializers                     *)
(* (runtime/module.h; docs/architecture.md, "Module lifecycle"):           *)
(* uninitialized -> initializing -> initialized or failed, dependencies    *)
(* first, each at most once, and the entry only after all of them.         *)
(* Nothing here says how a module runs.                                    *)
(***************************************************************************)
EXTENDS Naturals, Sequences

VARIABLES
  mods,   \* state of each module, in registration (dependency) order
  run     \* "preparing", "entered" or "stopped"

vars == <<mods, run>>

States == {"Uninitialized", "Initializing", "Initialized", "Failed"}

Init ==
  /\ mods \in Seq({"Uninitialized"})
  /\ run = "preparing"

Ready(k) == \A j \in 1..(k - 1) : mods[j] = "Initialized"

Begin(k) ==
  /\ run = "preparing"
  /\ mods[k] = "Uninitialized"
  /\ Ready(k)
  /\ mods' = [mods EXCEPT ![k] = "Initializing"]
  /\ UNCHANGED run

Complete(k) ==
  /\ mods[k] = "Initializing"
  /\ mods' = [mods EXCEPT ![k] = "Initialized"]
  /\ UNCHANGED run

Fail(k) ==
  /\ mods[k] = "Initializing"
  /\ mods' = [mods EXCEPT ![k] = "Failed"]
  /\ run' = "stopped"

\* the entry starts
Enter ==
  /\ run = "preparing"
  /\ \A k \in DOMAIN mods : mods[k] = "Initialized"
  /\ run' = "entered"
  /\ UNCHANGED mods

\* a run is refused because of an earlier failure
Refuse ==
  /\ run = "preparing"
  /\ \E k \in DOMAIN mods : mods[k] = "Failed"
  /\ run' = "stopped"
  /\ UNCHANGED mods

Leave == run = "entered" /\ run' = "stopped" /\ UNCHANGED mods

Again == run = "stopped" /\ run' = "preparing" /\ UNCHANGED mods

Next ==
  \/ \E k \in DOMAIN mods : Begin(k) \/ Complete(k) \/ Fail(k)
  \/ Enter \/ Refuse \/ Leave \/ Again

Spec == Init /\ [][Next]_vars
-----------------------------------------------------------------------------
TypeOK == mods \in Seq(States) /\ run \in {"preparing", "entered", "stopped"}

\* The entry only runs once every module is initialized.
EnteredInitialized == run = "entered" => \A k \in DOMAIN mods : mods[k] = "Initialized"

\* Only one module is ever being initialized, all those before it are
\* initialized and none after it has started.
OneAtATime ==
  \A k \in DOMAIN mods : mods[k] # "Uninitialized" =>
    \A j \in 1..(k - 1) : mods[j] = "Initialized"

\* An initializer that ended, well or badly, never runs again.
NeverAgain ==
  [][\A k \in DOMAIN mods : mods[k] \in {"Initialized", "Failed"} => mods'[k] = mods[k]]_vars
==============================================================================

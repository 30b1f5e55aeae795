------------------------- MODULE ModuleLifecycleProofs -------------------------
(***************************************************************************)
(* The promises of ModuleLifecycle hold for any number of modules.         *)
(***************************************************************************)
EXTENDS ModuleLifecycle, TLAPS

\* Why the entry is safe: besides the order, a module being initialized means
\* that preparation is in progress.
Inv ==
  /\ TypeOK
  /\ OneAtATime
  /\ EnteredInitialized
  /\ \A k \in DOMAIN mods : mods[k] = "Initializing" => run = "preparing"

LEMMA InitInv == Init => Inv
  BY DEF Init, Inv, TypeOK, States, OneAtATime, EnteredInitialized

LEMMA StepInv == Inv /\ [Next]_vars => Inv'
<1> SUFFICES ASSUME Inv, [Next]_vars PROVE Inv'
  OBVIOUS
<1> USE DEF Inv, TypeOK, States, OneAtATime, EnteredInitialized, Ready
<1>1. ASSUME NEW k \in DOMAIN mods, Begin(k) PROVE Inv'
  BY <1>1 DEF Begin
<1>2. ASSUME NEW k \in DOMAIN mods, Complete(k) PROVE Inv'
  BY <1>2 DEF Complete
<1>3. ASSUME NEW k \in DOMAIN mods, Fail(k) PROVE Inv'
  BY <1>3 DEF Fail
<1>4. CASE Enter
  BY <1>4 DEF Enter
<1>5. CASE Refuse
  BY <1>5 DEF Refuse
<1>6. CASE Leave
  BY <1>6 DEF Leave
<1>7. CASE Again
  BY <1>7 DEF Again
<1>8. CASE UNCHANGED vars
  BY <1>8 DEF vars
<1> QED
  BY <1>1, <1>2, <1>3, <1>4, <1>5, <1>6, <1>7, <1>8 DEF Next

LEMMA Invariance == Spec => []Inv
  BY InitInv, StepInv, PTL DEF Spec

\* The entry only runs once every module is initialized, however many there are.
THEOREM EntrySafe == Spec => []EnteredInitialized
<1>1. Inv => EnteredInitialized
  BY DEF Inv
<1> QED
  BY <1>1, Invariance, PTL

\* Modules are initialized in registration order, one at a time.
THEOREM InOrder == Spec => []OneAtATime
<1>1. Inv => OneAtATime
  BY DEF Inv
<1> QED
  BY <1>1, Invariance, PTL

\* A module that is initialized or failed stays so: no initializer runs twice.
THEOREM AtMostOnce == Spec => NeverAgain
<1> DEFINE Kept == \A k \in DOMAIN mods : mods[k] \in {"Initialized", "Failed"} => mods'[k] = mods[k]
<1>1. ASSUME Inv, [Next]_vars PROVE [Kept]_vars
  <2>1. ASSUME NEW k \in DOMAIN mods, Begin(k) \/ Complete(k) \/ Fail(k) PROVE Kept
    BY <1>1, <2>1 DEF Begin, Complete, Fail, Inv, TypeOK
  <2>2. ASSUME Enter \/ Refuse \/ Leave \/ Again PROVE Kept
    BY <2>2 DEF Enter, Refuse, Leave, Again
  <2> QED
    BY <1>1, <2>1, <2>2 DEF Next
<1> QED
  BY <1>1, Invariance, PTL DEF Spec, NeverAgain
==============================================================================

---------------------------- MODULE DeviceState ----------------------------
(***************************************************************************)
(* The lifecycle of a pooled device instance (internal/pool/state.go).     *)
(* "New" is not a state of the program: it marks an instance id that       *)
(* createInstance has not used yet.                                        *)
(***************************************************************************)

DeviceStates == {"Creating", "Booting", "Warm", "Allocated", "Resetting",
                 "Destroying", "Error"}

\* The table TransitionTo consults; Destroying is terminal.
validTransitions ==
  [s \in DeviceStates |->
     CASE s = "Creating"   -> {"Booting", "Warm", "Error", "Destroying"}
       [] s = "Booting"    -> {"Warm", "Error", "Destroying"}
       [] s = "Warm"       -> {"Allocated", "Destroying", "Error"}
       [] s = "Allocated"  -> {"Resetting", "Destroying", "Error"}
       [] s = "Resetting"  -> {"Warm", "Error", "Destroying"}
       [] s = "Error"      -> {"Destroying", "Booting", "Resetting", "Warm"}
       [] s = "Destroying" -> {}]

CanTransitionTo(s, target) == target \in validTransitions[s]
=============================================================================

---------------------------- MODULE PolaritySource ----------------------------
(***************************************************************************)
(* What the rest of the program relies on of dev_polarity.c: the polarity  *)
(* is unpowered without a bus, and a direction it shows is the one the pin *)
(* showed when the polarity took it.  SysState and Rod contain the         *)
(* polarity in this form; PolarityWindow implements it with the debounce   *)
(* window.                                                                 *)
(***************************************************************************)

VARIABLES
  pol,      \* what Polarity_GetState returns
  powered,  \* there is a bus voltage
  shown     \* the direction the pin shows

sourceVars == <<pol, powered, shown>>

SourceInit == pol = "unknown" /\ powered \in BOOLEAN /\ shown \in {"fwd", "rev"}

Source_Scan ==
  /\ pol' = IF powered THEN shown ELSE "unpowered"
  /\ UNCHANGED <<powered, shown>>

Source_Init == pol' = "unknown" /\ UNCHANGED <<powered, shown>>

Source_Supply ==
  /\ powered' \in BOOLEAN /\ shown' \in {"fwd", "rev"}
  /\ UNCHANGED pol

SourceNext == Source_Scan \/ Source_Init \/ Source_Supply

SourceSpec == SourceInit /\ [][SourceNext]_sourceVars
=============================================================================

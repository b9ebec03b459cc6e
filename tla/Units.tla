-------------------------------- MODULE Units --------------------------------
(***************************************************************************)
(* The units of the core that share no state, side by side: the divider,   *)
(* the multiplier, the byte lanes of the load/store unit, the CLINT, the   *)
(* branch counters and the return-address stack.  A behaviour exercises    *)
(* one of them; the others keep their initial state.                       *)
(***************************************************************************)
EXTENDS Divider, Multiplier, ByteLanes, Clint, Predictor

VARIABLE unit

UnitsInit ==
  /\ unit \in {"div", "mul", "lanes", "clint", "satcnt", "ras"}
  /\ Init /\ MulInit /\ LanesInit /\ ClintInit
  /\ IF unit = "satcnt" THEN SatInit ELSE sat = SatReset(0, FALSE)
  /\ IF unit = "ras" THEN RasInit
     ELSE ras = RasReset([i \in Slots |-> CHOOSE t \in Targets : TRUE])

UnitsNext ==
  /\ UNCHANGED unit
  /\ \/ unit = "div" /\ Next /\ UNCHANGED <<mul, ls, clint, sat, ras>>
     \/ unit = "mul" /\ MulNext /\ UNCHANGED <<vars, ls, clint, sat, ras>>
     \/ unit = "lanes" /\ LanesNext /\ UNCHANGED <<vars, mul, clint, sat, ras>>
     \/ unit = "clint" /\ ClintNext /\ UNCHANGED <<vars, mul, ls, sat, ras>>
     \/ unit = "satcnt" /\ SatNext /\ UNCHANGED <<vars, mul, ls, clint, ras>>
     \/ unit = "ras" /\ RasNext /\ UNCHANGED <<vars, mul, ls, clint, sat>>

unitsVars == <<vars, mul, ls, clint, sat, ras, unit>>

UnitsSpec == UnitsInit /\ [][UnitsNext]_unitsVars
=============================================================================

------------------------------ MODULE MCTrips ------------------------------
(* Trips of a plug-in hybrid, over legs that cut a trip and legs that don't. *)
EXTENDS Trips

Drive(minutes, km, used) == [minutes |-> minutes, km |-> km, used |-> used, burnt |-> 0, told |-> {"level", "fuel"}]

MCLegs ==
    { Drive(2, 0, 0),                              \* nothing happens
      Drive(10, 0, 0),                             \* a stop
      Drive(10, 0, -3),                            \* a charge
      Drive(10, 5, 1),                             \* a drive
      Drive(10, 5, -4),                            \* a descent
      Drive(10, 5, 90),                            \* an implausible consumption
      Drive(130, 5, 1),                            \* a silence
      [Drive(10, 5, 0) EXCEPT !.told = {"level"}], \* no fuel level
      [Drive(10, 1, 0) EXCEPT !.burnt = -20],      \* a refuelling
      [Drive(10, 5, 1) EXCEPT !.told = {"fuel"}] }  \* a level PSA makes up

\* The hypothesis under which the ended trips stay.
ASSUME MCAssumption == FuelIsSteady
=============================================================================

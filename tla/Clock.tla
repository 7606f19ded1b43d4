-------------------------------- MODULE Clock --------------------------------
(* The clock of the server, time.Now, in whole units of whoever reads it.    *)
EXTENDS Integers

CONSTANT MaxTime      \* bound: how long a behaviour goes on

ASSUME ClockAssumption == MaxTime \in Nat

VARIABLE now

ClockInit == now = 0

Tick == now < MaxTime /\ now' = now + 1
=============================================================================

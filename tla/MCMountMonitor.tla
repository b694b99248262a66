--------------------------- MODULE MCMountMonitor ---------------------------
(* MountMonitor for TLC: two sets of thresholds; forecasts that are good, far off, late
   only, or off in a burst. *)
EXTENDS MountMonitor

MCBands == {[green |-> 8, yellow |-> 6, orange |-> 4, red |-> 2],
            [green |-> 4, yellow |-> 3, orange |-> 2, red |-> 1]}

Forecast(error, late, burst) == [error |-> error, late |-> late, burst |-> burst]
MCObservations == {Forecast(0, FALSE, FALSE), Forecast(100, TRUE, FALSE),
                   Forecast(0, TRUE, FALSE), Forecast(100, TRUE, TRUE)}
=============================================================================

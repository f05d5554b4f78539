---------------------------- MODULE MCDaikinTank -----------------------------
(* Model-checking instances of DaikinTank. *)
EXTENDS DaikinTank

\* Two plan rows, the second taking over from the first within the day.
MCStart    == <<0, 2>>
MCEnd      == <<3, 6>>
MCTarget   == <<Normal, Setback>>
MCPowerful == <<FALSE, FALSE>>
MCDay      == <<0, 0>>
MCBackoff  == <<0, 1>>
MCStandoff == {5}

\* One row, which may take over from a boost.
MCOneStart    == <<2>>
MCOneEnd      == <<4>>
MCOneTarget   == <<Setback>>
MCOnePowerful == <<FALSE>>
MCOneDay      == <<0>>
MCOneStandoff == {3}
=============================================================================

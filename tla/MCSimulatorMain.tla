--------------------------- MODULE MCSimulatorMain ---------------------------
(***************************************************************************)
(* An instance of SimulatorMain for TLC: two senders, one of which names   *)
(* its exception, a client that only holds its connection, and command     *)
(* lines with a few options, enough names among them to overrun the table. *)
(* Six descriptors are enough for two ports, the debugger and all clients; *)
(* each trace file leaves one less.                                        *)
(***************************************************************************)
EXTENDS SimulatorMain

CONSTANTS named, silent, holder

MCIrqName == [s \in {named, silent} |-> IF s = named THEN "data abort" ELSE "none"]

MCOptions == {<<"d", 1>>, <<"d", 2>>, <<"g", 1>>, <<"i", 1>>,
              <<"r", "">>, <<"t", "">>, <<"?", "">>}
=============================================================================

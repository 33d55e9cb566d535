--------------------------- MODULE DirMergeClaims ---------------------------
(* What the handbook says of the folder merge, where the code does something *)
(* else.                                                                     *)
EXTENDS MCDirMerge

\* Handbook: "Select Simulate it if you want to see what would be done without
\* actually doing it."  A merge started as a simulation only ever simulates.
\* (onDoubleClick() resets m_bSimulatedMergeStarted under a paused simulation,
\* and the next F7 goes on for real.)
SimulationStaysSimulation == phase = "execute" /\ asked = "simulation" => sim
=============================================================================

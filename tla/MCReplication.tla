----------------------------- MODULE MCReplication -----------------------------
(***************************************************************************)
(* The instance of Replication for TLC: one replica that may lose its link *)
(* and be started again; one and a password that changes twice; two, of    *)
(* which one may stop reading.                                             *)
(***************************************************************************)
EXTENDS Replication

CONSTANTS r1, r2

Room(servers, nlinks, nstream, flips, stalls, faults) ==
  [replicas |-> servers, links |-> nlinks, stream |-> nstream, flips |-> flips,
   stalls |-> stalls, faults |-> faults]

MCScenarios ==
  {Room({r1}, 2, 3, 0, 1, 1), Room({r1}, 1, 2, 2, 0, 0), Room({r1, r2}, 2, 2, 0, 1, 0)}

===============================================================================

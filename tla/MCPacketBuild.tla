---------------------------- MODULE MCPacketBuild ----------------------------
(***************************************************************************)
(* Two commands over one guidance file and one Go file that is over a      *)
(* limit.                                                                  *)
(***************************************************************************)
EXTENDS PacketBuild, TLC

CONSTANTS p, q, direction, source

OneBuildEach == [proc \in Procs |-> 1]

\* Both commands may ask for the same, in one second or in two.
MCRequests ==
  {[slug |-> "s", expected |-> AnyRevision, form |-> "json"],
   [slug |-> "u", expected |-> 0, form |-> "stdout"]}

ProcSymmetry == Permutations(Procs)
=============================================================================

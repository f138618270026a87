------------------------------- MODULE GenId -------------------------------
(***************************************************************************)
(* The generation counter that separates audio of different barge-ins.     *)
(* Every audio frame carries one byte, gen_id; every confirmed barge-in    *)
(* increments the session's counter modulo 256.  Both ends decide with     *)
(* serial number arithmetic (RFC 1982) whether a frame is from the past:   *)
(* codec.gen_id_is_stale and OutputController._is_stale_gen on the server, *)
(* AudioFrameHeader.isStale on the client.                                 *)
(***************************************************************************)
EXTENDS Integers

CONSTANT GenMod   \* number of generations before the counter wraps (256)

ASSUME GenModAssumption == /\ GenMod \in Nat
                           /\ GenMod >= 4
                           /\ GenMod % 2 = 0

Gen == 0 .. GenMod - 1

(* (gen_id + 1) & 0xFF for a generation in range.                          *)
NextGen(g) == IF g = GenMod - 1 THEN 0 ELSE g + 1

(* (current - frame) & 0xFF for two generations in range: how many         *)
(* increments lead from frame to current.                                  *)
Age(frame, current) ==
  IF frame <= current THEN current - frame ELSE current - frame + GenMod

(* The frame lies in the half of the circle behind the current generation. *)
IsStale(frame, current) ==
  /\ 0 < Age(frame, current)
  /\ 2 * Age(frame, current) < GenMod
=============================================================================

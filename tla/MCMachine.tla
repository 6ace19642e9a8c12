------------------------------- MODULE MCMachine -------------------------------
(* Registers of two 2-bit halves, a tick every third clock.  The hart also  *)
(* writes whole registers, single halves of mtime, msip, a misaligned run of *)
(* lanes, too few lanes, none, and an offset without a register.             *)
EXTENDS Machine

MCAlarms == {1, 4, 6}
Write(offset, lanes, value) == [offset |-> offset, lanes |-> lanes, value |-> value]
MCPokes  == {Write(MTIME, 0 .. 7, 14), Write(MTIME, HighLanes, 0), Write(MTIMECMP, 0 .. 7, 3),
             Write(MSIP, LowLanes, 1), Write(MTIMECMP, 2 .. 5, 0), Write(MTIMECMP, 0 .. 2, 0),
             Write(MTIME, {}, 0), Write(MTIME - 8, LowLanes, 0)}
=============================================================================

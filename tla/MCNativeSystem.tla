--------------------------- MODULE MCNativeSystem ---------------------------
EXTENDS NativeSystem, TLC

(* Matrices with odd elements only, and with some of either kind. *)
MCMatrix(w, x, y, z) ==
  (<<1, 1>> :> w) @@ (<<1, 2>> :> x) @@ (<<2, 1>> :> y) @@ (<<2, 2>> :> z)
MCFilled == {MCMatrix(1, 3, 3, 2)}
MCGarbage == {MCMatrix(0, 0, 0, 0), MCMatrix(1, 2, 3, 0)}

(* A loop overflows the lower counter, the pair, both in sum, or nothing. *)
MCLoads == {[ticks |-> 1, instr |-> 1, l1d |-> 1],
            [ticks |-> 5, instr |-> 7, l1d |-> 2],
            [ticks |-> 8, instr |-> 10, l1d |-> 5]}

MCSetMasks == {{}, {1}, {0, 1}}
=============================================================================

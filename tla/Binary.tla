------------------------------- MODULE Binary -------------------------------
(***************************************************************************)
(* Numbers by their bits: powers of two, which are the sizes of the cache  *)
(* and of an element, and the conjunction with a mask.                     *)
(*                                                                         *)
(* They are recursive functions, whose equations a proof can unfold, which *)
(* it could not do with ^ and with the operators of the Bitwise module.    *)
(***************************************************************************)
EXTENDS Integers

(* 1 << n *)
pow2[n \in Nat] == IF n = 0 THEN 1 ELSE 2 * pow2[n - 1]

(* Whether x has bit n. *)
BitSet(x, n) == (x \div pow2[n]) % 2 = 1

(* x & mask, where mask is the set of its bits, all below width.           *)
AndBits(x, mask, width) ==
  LET kept[n \in 0 .. width] ==
        IF n = 0 THEN 0
        ELSE kept[n - 1] + (IF n - 1 \in mask /\ BitSet(x, n - 1)
                            THEN pow2[n - 1] ELSE 0)
  IN  kept[width]
=============================================================================

------------------------------- MODULE Widths -------------------------------
(***************************************************************************)
(* The widths of the program's integers.  Byte, that is u8: the bytes of   *)
(* registers, unit addresses, positions of bits.  Size, that is u16:       *)
(* addresses and lengths computed from them.                               *)
(***************************************************************************)
EXTENDS Integers

CONSTANTS
    Byte,       \* number of values of a u8, 2^8 in the code
    Size        \* number of values of a u16, 2^16 in the code
ASSUME WidthAssumption == Byte \in Nat \ {0, 1} /\ Size \in Nat \ {0}

Wrap(n) == n % Size
=============================================================================

------------------------------ MODULE CachePkg ------------------------------
(***************************************************************************)
(* rtl/cpu/cache/cache_pkg.sv: the parameters the parts of the data side   *)
(* share, and how an address is cut up.  The offset of a byte in its word  *)
(* is not an address here: a word has lanes.                               *)
(***************************************************************************)
EXTENDS Naturals

CONSTANTS
  Depth,   (* WB_DEPTH                                      *)
  Tag,     (* address tags                                  *)
  Set,     (* cache sets (addr_idx)                         *)
  Words,   (* WORDS_PER_LINE                                *)
  Lane,    (* byte lanes of a word                          *)
  Byte     (* values of one byte                            *)

ASSUME SizesAssumption ==
  Depth \in Nat \ {0} /\ Words \in Nat \ {0} /\ Tag # {} /\ Set # {}
ASSUME BytesAssumption == Lane # {} /\ Byte # {}

Sel      == 0 .. Words - 1
WordAddr == [tag : Tag, idx : Set, sel : Sel]
Word     == [Lane -> Byte]
=============================================================================

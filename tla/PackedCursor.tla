---------------------------- MODULE PackedCursor ----------------------------
(* A version and an index in one machine word of Word values, the index    *)
(* in its low part: Base is 2^IndexBits.                                   *)
EXTENDS Naturals

CONSTANTS Base, Word

make(version, index) == (version * Base + index) % Word
index(raw) == raw % Base
version(raw) == raw \div Base
addIndex(raw, count) == (raw + count) % Word
nextRound(raw, bump) == (raw - index(raw) + (IF bump THEN Base ELSE 0)) % Word
=============================================================================

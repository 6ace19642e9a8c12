--------------------------------- MODULE Packed ---------------------------------
(***************************************************************************)
(* src/packed.hpp: bit fields inside the packed vectors of a Verilated     *)
(* model.  A vector is [bits, words]: the bits of its C++ type, and its    *)
(* words from the least significant on.  A scalar type may be narrower     *)
(* than a word; the array of a wide signal is a whole number of words.     *)
(***************************************************************************)
EXTENDS Integers, FiniteSetsExt

CONSTANTS
  WordBits,  \* 32
  ByteBits   \* 8

ASSUME PackedAssumption == WordBits \in Nat \ {0} /\ ByteBits \in Nat \ {0}

word(signal, index) ==
  IF index * WordBits >= signal.bits THEN 0 ELSE signal.words[index]

(* The word keeps the bits its type has.                                   *)
set_word(signal, index, value) ==
  [signal EXCEPT !.words[index] =
     value % 2^Min({WordBits, signal.bits - index * WordBits})]

bit(signal, index) == (word(signal, index \div WordBits) \div 2^(index % WordBits)) % 2 = 1

set_bit(signal, index, value) ==
  LET w       == index \div WordBits
      current == word(signal, w)
      place   == 2^(index % WordBits)
      cleared == current - place * ((current \div place) % 2)
  IN  set_word(signal, w, cleared + IF value THEN place ELSE 0)

(* The piece of a field that the loop handles at `copied': it ends with    *)
(* the field or with the word.  Mutant: it does not stop at the word.      *)
CountUncut(lsb, width, copied) == width - copied
Count(lsb, width, copied) == Min({width - copied, WordBits - ((lsb + copied) % WordBits)})

RECURSIVE read_from(_, _, _, _)
read_from(signal, lsb, width, copied) ==
  IF copied >= width THEN 0
  ELSE LET at     == lsb + copied
           count  == Count(lsb, width, copied)
           part   == (word(signal, at \div WordBits) \div 2^(at % WordBits)) % 2^count
       IN  part * 2^copied + read_from(signal, lsb, width, copied + count)

read_u64(signal, lsb, width) == read_from(signal, lsb, width, 0)

(* A word with `count' bits at `offset' replaced by the low bits of value. *)
Replaced(current, offset, count, value) ==
  LET old == (current \div 2^offset) % 2^count
  IN  current - old * 2^offset + (value % 2^count) * 2^offset

RECURSIVE write_from(_, _, _, _, _)
write_from(signal, lsb, width, value, copied) ==
  IF copied >= width THEN signal
  ELSE LET at     == lsb + copied
           count  == Count(lsb, width, copied)
           index  == at \div WordBits
       IN  write_from(set_word(signal, index,
                               Replaced(word(signal, index), at % WordBits, count,
                                        value \div 2^copied)),
                      lsb, width, value, copied + count)

write_u64(signal, lsb, width, value) == write_from(signal, lsb, width, value, 0)

read_bytes(signal, lsb, size) ==
  [i \in 0 .. size - 1 |-> read_u64(signal, lsb + i * ByteBits, ByteBits)]

RECURSIVE write_bytes(_, _, _, _)
write_bytes(signal, lsb, size, value) ==
  IF size = 0 THEN signal
  ELSE write_u64(write_bytes(signal, lsb, size - 1, value),
                 lsb + (size - 1) * ByteBits, ByteBits, value[size - 1])
=============================================================================

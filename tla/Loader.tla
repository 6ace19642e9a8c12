--------------------------------- MODULE Loader ---------------------------------
(***************************************************************************)
(* ImageLoadPlan of src/elf_loader.cpp: what it accepts, the chunks it     *)
(* plans and the pieces in which it loads them.                            *)
(*                                                                         *)
(* A file is a record with its size and, when it may be an ELF image, the  *)
(* fields of its header and its program headers.  The byte at offset o of  *)
(* file f is the pair <<f, o>>.  An integer field is a number up to Top.   *)
(***************************************************************************)
EXTENDS AddressMap, SequencesExt

CONSTANTS
  File,        \* [file name -> record]; a name outside its domain is missing
  HeaderSize,  \* the size of the ELF header, by class
  EntrySize,   \* the size of a program header, by class
  PageBytes    \* the size of the array ZEROS

ASSUME LoaderAssumption ==
  /\ PageBytes \in Nat \ {0}
  /\ DOMAIN HeaderSize = {32, 64} /\ DOMAIN EntrySize = {32, 64}

ExtendedCount == 65535

(* require_range, and checked_add and checked_multiply.                    *)
InRange(offset, length, capacity) == offset <= capacity /\ length <= capacity - offset
AddFits(lhs, rhs)      == rhs <= Top - lhs
MultiplyFits(lhs, rhs) == lhs = 0 \/ rhs <= Top \div lhs

-----------------------------------------------------------------------------
(* validate_load_target; `ram' gives the capacity of each loadable device. *)
ValidTarget(ms, ram, segment) ==
  LET k == resolve(ms, segment.load_address, segment.memory_size)
  IN  /\ k # 0
      /\ ms[k].device \in DOMAIN ram
      /\ InRange(segment.load_address - ms[k].base, segment.memory_size, ram[ms[k].device])

(* parse_header throws nothing.  `ident' stands for the magic, the byte    *)
(* order and the two version fields.                                       *)
ValidHeader(f) ==
  /\ f.ident /\ f.class \in {32, 64}
  /\ InRange(0, HeaderSize[f.class], f.size)
  /\ f.ehsize >= HeaderSize[f.class]
  /\ f.phnum # ExtendedCount
  /\ f.phnum # 0 => f.phentsize >= EntrySize[f.class]
  /\ MultiplyFits(f.phnum, f.phentsize)
  /\ InRange(f.phoff, f.phnum * f.phentsize, f.size)

(* The physical address decides where a segment is loaded, if it has one.  *)
LoadAddress(p) == IF p.paddr # 0 THEN p.paddr ELSE p.vaddr

Segment(name, p) == [load_address |-> LoadAddress(p), file_size |-> p.filesz,
                     memory_size |-> p.memsz, file |-> name, offset |-> p.offset]

PowerOfTwo(n) == \E k \in 0 .. n : 2^k = n

(* parse_program_header throws nothing.                                    *)
ValidProgramHeader(ms, ram, f, p) ==
  p.load =>
    /\ p.filesz <= p.memsz
    /\ InRange(p.offset, p.filesz, f.size)
    /\ p.align > 1 => PowerOfTwo(p.align) /\ p.vaddr % p.align = p.offset % p.align
    /\ AddFits(LoadAddress(p), p.memsz)
    /\ p.memsz # 0 => ValidTarget(ms, ram, Segment("", p))

(* parse_load_segments, for a file whose program headers are valid.        *)
LoadSegments(name) ==
  LET loads == SelectSeq(File[name].ph, LAMBDA p : p.load /\ p.memsz # 0)
  IN  [k \in DOMAIN loads |-> Segment(name, loads[k])]

(* validate_no_overlap: neighbours in the order of the load addresses.     *)
NoOverlap(segments) ==
  LET sorted == SortSeq(segments, LAMBDA s, t : s.load_address < t.load_address)
  IN  \A k \in 2 .. Len(sorted) :
        sorted[k - 1].load_address + sorted[k - 1].memory_size <= sorted[k].load_address

(* add_elf: the file is missing or refused, or its segments are planned.   *)
ValidElf(ms, ram, name) ==
  /\ name \in DOMAIN File
  /\ ValidHeader(File[name])
  /\ \A k \in DOMAIN File[name].ph : ValidProgramHeader(ms, ram, File[name], File[name].ph[k])
  /\ NoOverlap(LoadSegments(name))

(* add_raw: an empty file plans nothing.                                   *)
RawSegment(name, address) ==
  [load_address |-> address, file_size |-> File[name].size,
   memory_size |-> File[name].size, file |-> name, offset |-> 0]

ValidRaw(ms, ram, name, address) ==
  /\ name \in DOMAIN File
  /\ File[name].size # 0 =>
       AddFits(address, File[name].size) /\ ValidTarget(ms, ram, RawSegment(name, address))

RawSegments(name, address) ==
  IF File[name].size = 0 THEN <<>> ELSE <<RawSegment(name, address)>>

-----------------------------------------------------------------------------
(* The first loop of apply: chunk n has a target and shares no byte of its *)
(* device with an earlier chunk.  Mutant: bus addresses are compared.      *)
DisjointOnBus(ms, a, b) ==
  \/ a.load_address >= b.load_address + b.memory_size
  \/ b.load_address >= a.load_address + a.memory_size
DisjointChunks(ms, a, b) ==
  LET ma == ms[resolve(ms, a.load_address, a.memory_size)]
      mb == ms[resolve(ms, b.load_address, b.memory_size)]
      ao == a.load_address - ma.base
      bo == b.load_address - mb.base
  IN  \/ ma.device # mb.device
      \/ ao >= bo + b.memory_size
      \/ bo >= ao + a.memory_size

ValidChunk(ms, ram, chunks, n) ==
  /\ ValidTarget(ms, ram, chunks[n])
  /\ \A k \in 1 .. n - 1 : DisjointChunks(ms, chunks[n], chunks[k])

(* The piece of a chunk that apply_segment loads when `done' bytes of it   *)
(* are loaded: the data in one call, then zeros page by page.              *)
PieceSize(chunk, done) ==
  IF done < chunk.file_size THEN chunk.file_size
  ELSE Min({chunk.memory_size - done, PageBytes})

PieceByte(chunk, n) == IF n < chunk.file_size THEN <<chunk.file, chunk.offset + n>> ELSE <<"zero", 0>>

(* AddressSpace::load of the bytes first .. first + size - 1 of a chunk.   *)
Loads(ms, ram, chunk, first, size) ==
  ValidTarget(ms, ram, [load_address |-> chunk.load_address + first, memory_size |-> size])

Loaded(ms, memory, chunk, first, size) ==
  LET m    == ms[resolve(ms, chunk.load_address + first, size)]
      from == chunk.load_address + first - m.base
  IN  [memory EXCEPT ![m.device] =
         [o \in DOMAIN @ |-> IF o \in from .. from + size - 1
                             THEN PieceByte(chunk, first + o - from) ELSE @[o]]]
=============================================================================

---------------------------------- MODULE Elf ----------------------------------
(***************************************************************************)
(* The program c_vm_c: main() reads three headers off the front of an      *)
(* object file (readObjectFile), parses the ELF header, the first program  *)
(* header and a section header, prints them and frees its buffers.  The    *)
(* code is modelled as built on x86-64, the only way it compiles.          *)
(*                                                                         *)
(* A C integer of n bytes is the sequence of its bytes, most significant   *)
(* first; a file is the sequence of its bytes; a buffer of the memory bank *)
(* is a function on offsets, empty when it is the null pointer.            *)
(***************************************************************************)
EXTENDS Words, SequencesExt

CONSTANTS
  Files,     \* the contents the file at the hard-coded path may have
  NoFile,    \* the path names nothing fopen() can open
  Garbage    \* what four bytes of an uninitialized local may hold

ASSUME ElfAssumption ==
  /\ \A f \in Files : f \in Seq(Byte)
  /\ NoFile \notin Files
  /\ Garbage # {} /\ Garbage \subseteq [1 .. 4 -> Byte]

VARIABLES
  file,            \* what is at the path
  position,        \* of the FILE: how many bytes have been read
  elf_ptr,         \* the buffers of mem_bank
  ph_ptr,
  sh_ptr,
  elf_info,        \* the locals of main(), << >> before they are assigned
  programHeader,
  sectionHeader,
  printed,         \* what each of the print functions wrote, oldest first
  step,            \* what main() does next; see Steps
  status           \* the message of the failed check, "none" while there is none

buffers == <<elf_ptr, ph_ptr, sh_ptr>>
headers == <<elf_info, programHeader, sectionHeader>>
vars == <<file, position, buffers, headers, printed, step, status>>

Steps == {"calloc", "fopen", "read elf", "read program", "read section",
          "parse elf", "parse program", "parse section",
          "print elf", "print program", "print section", "free", "ended"}

ELF_HEADER_MAX_SIZE == 64
PROGRAM_HEADER_MAX_SIZE == 56
SECTION_HEADER_MAX_SIZE == 64

-------------------------------------------------------------------------------
(* Byte order. *)

(* Mutation of swap32: the halves stay where they are. *)
swap32Halves(v) == <<v[2], v[1], v[4], v[3]>>

swap16(v) == <<v[2], v[1]>>
swap32(v) == swap16(SubSeq(v, 3, 4)) \o swap16(SubSeq(v, 1, 2))

(* Mutation of swap64: value >> 32 is left out. *)
swap64LowOnly(v) == swap32(SubSeq(v, 5, 8)) \o <<0, 0, 0, 0>>

swap64(v) == swap32(SubSeq(v, 5, 8)) \o swap32(SubSeq(v, 1, 4))

(* The loops that shift n bytes from an offset on into a variable that is 0. *)
Loop(p, offset, n) == [i \in 1 .. n |-> p[offset + i - 1]]

(* storeData() into an eight-byte member: four bytes for a 32-bit file, which *)
(* land in its low half, eight for a 64-bit one.                              *)
storeData(p, member, offset32, offset64, bitDepth) ==
  IF bitDepth = 32 THEN SubSeq(member, 1, 4) \o Loop(p, offset32, 4)
                   ELSE Loop(p, offset64, 8)

(* The same loop over a local that was never initialized, the last byte taken *)
(* from offset 1 of the buffer: three shifts push all of the old value out    *)
(* but its low byte.                                                          *)
(* Mutation of LoopOver: the last byte is that of the field. *)
LoopOverField(old, p, offset) ==
  LET low == old[4] + p[offset] - And8(old[4], p[offset])
  IN <<low, p[offset + 1], p[offset + 2], p[offset + 3]>>

OrByte(x, y) == x + y - And8(x, y)
LoopOver(old, p, offset) ==
  <<OrByte(old[4], p[offset]), p[offset + 1], p[offset + 2], p[1]>>

-------------------------------------------------------------------------------
Init ==
  /\ file \in Files \cup {NoFile}
  /\ position = 0
  /\ elf_ptr = << >> /\ ph_ptr = << >> /\ sh_ptr = << >>
  /\ elf_info = << >> /\ programHeader = << >> /\ sectionHeader = << >>
  /\ printed = << >>
  /\ step = "calloc"
  /\ status = "none"

Zeros(size) == [i \in 0 .. size - 1 |-> 0]

initMemoryBank ==
  /\ step = "calloc"
  /\ elf_ptr' = Zeros(ELF_HEADER_MAX_SIZE)
  /\ ph_ptr' = Zeros(PROGRAM_HEADER_MAX_SIZE)
  /\ sh_ptr' = Zeros(SECTION_HEADER_MAX_SIZE)
  /\ step' = "fopen"
  /\ UNCHANGED <<file, position, headers, printed, status>>

(* exit(-1) with a message. *)
Fail(message) == step' = "ended" /\ status' = message
Proceed(next) == step' = next /\ UNCHANGED status

OpenFile ==
  /\ step = "fopen"
  /\ IF file = NoFile THEN Fail("Wrong path") ELSE Proceed("read elf")
  /\ UNCHANGED <<file, position, buffers, headers, printed>>

(* fread() of up to size bytes: a short count is as good as a full one, the   *)
(* rest of the buffer keeps its zeros; only a count of 0 is an error.         *)
Available == Len(file) - position
FilledFrom(buffer) ==
  [i \in DOMAIN buffer |-> IF i < Available THEN file[position + i + 1] ELSE buffer[i]]
Advance(size) == position' = position + (IF size < Available THEN size ELSE Available)

ReadElfHeader ==
  /\ step = "read elf"
  /\ elf_ptr' = FilledFrom(elf_ptr)
  /\ Advance(ELF_HEADER_MAX_SIZE)
  /\ IF Available = 0 THEN Fail("elf header") ELSE Proceed("read program")
  /\ UNCHANGED <<file, ph_ptr, sh_ptr, headers, printed>>

(* Mutation of ReadProgramHeader: it reads into the first buffer's place. *)
ReadProgramHeaderAgain ==
  /\ step = "read program"
  /\ ph_ptr' = [i \in DOMAIN ph_ptr |-> IF i < Len(file) THEN file[i + 1] ELSE 0]
  /\ Advance(PROGRAM_HEADER_MAX_SIZE)
  /\ IF Available = 0 THEN Fail("program header") ELSE Proceed("read section")
  /\ UNCHANGED <<file, elf_ptr, sh_ptr, headers, printed>>

ReadProgramHeader ==
  /\ step = "read program"
  /\ ph_ptr' = FilledFrom(ph_ptr)
  /\ Advance(PROGRAM_HEADER_MAX_SIZE)
  /\ IF Available = 0 THEN Fail("program header") ELSE Proceed("read section")
  /\ UNCHANGED <<file, elf_ptr, sh_ptr, headers, printed>>

(* Mutation of ReadSectionHeader: it waits for the file to grow. *)
ReadSectionHeaderRetry ==
  /\ step = "read section"
  /\ Available > 0
  /\ sh_ptr' = FilledFrom(sh_ptr)
  /\ Advance(SECTION_HEADER_MAX_SIZE)
  /\ Proceed("parse elf")
  /\ UNCHANGED <<file, elf_ptr, ph_ptr, headers, printed>>

ReadSectionHeader ==
  /\ step = "read section"
  /\ sh_ptr' = FilledFrom(sh_ptr)
  /\ Advance(SECTION_HEADER_MAX_SIZE)
  /\ IF Available = 0 THEN Fail("section header") ELSE Proceed("parse elf")
  /\ UNCHANGED <<file, elf_ptr, ph_ptr, headers, printed>>

-------------------------------------------------------------------------------
(* parseElfHeader() *)

(* The magic number is refused when all four bytes differ from what they are  *)
(* compared with, two of which are written in decimal.                        *)
MagicAccepted(p) == p[0] = 127 \/ p[1] = 45 \/ p[2] = 76 \/ p[3] = 46

(* The checks in their order, each with the message of its exit(-1).          *)
Checks(p) ==
  << <<MagicAccepted(p), "Incorrect magic number">>,
     <<p[4] \in {1, 2},  "Could not determine bit depth">>,
     <<p[5] \in {1, 2},  "Could not determine endianness">>,
     <<p[7] <= 18,       "Unknown abi os">>,
     <<\A i \in 9 .. 15 : p[i] = 0, "EI_PAD should be zero">> >>

(* Mutation of FirstFailure: every check runs, and the last message stays. *)
LastFailure(p) ==
  LET failed == {i \in DOMAIN Checks(p) : ~Checks(p)[i][1]}
  IN IF failed = {} THEN "none" ELSE Checks(p)[Max(failed)][2]

FirstFailure(p) ==
  LET failed == {i \in DOMAIN Checks(p) : ~Checks(p)[i][1]}
  IN IF failed = {} THEN "none" ELSE Checks(p)[Min(failed)][2]

(* Where the fields of the ELF header are in a 32-bit and in a 64-bit file.   *)
E_OFFSET ==
  [type                    |-> <<16, 16>>,  isa               |-> <<18, 18>>,
   entryPointOffset        |-> <<24, 24>>,  programHeaderOffset |-> <<28, 32>>,
   sectionHeaderOffset     |-> <<32, 40>>,  flags             |-> <<36, 48>>,
   elfHeaderSize           |-> <<40, 52>>,  programHeaderSize |-> <<42, 54>>,
   programHeaderEntriesNum |-> <<44, 56>>,  sectionHeaderSize |-> <<46, 58>>,
   sectionHeaderEntriesNum |-> <<48, 60>>,  sectionHeaderIndex |-> <<50, 62>>]

(* The fields, at the offsets of their width.  The byte order of the file is  *)
(* not consulted: every field is swapped but flags, and the addresses are     *)
(* swapped as eight bytes even when only four were stored.                    *)
ElfFields(p) ==
  LET depth == IF p[4] = 1 THEN 32 ELSE 64
      At(field) == E_OFFSET[field][IF depth = 64 THEN 2 ELSE 1]
      Half(field) == swap16(Loop(p, At(field), 2))
      Address(field) ==
        swap64(storeData(p, <<0, 0, 0, 0, 0, 0, 0, 0>>, E_OFFSET[field][1],
                         E_OFFSET[field][2], depth))
  IN [bit_depth               |-> depth,
      isLittleEndian          |-> p[5] = 1,
      isElfOriginalVersion    |-> p[6] = 1,
      abiOs                   |-> p[7],
      abiVersion              |-> p[8],
      type                    |-> Half("type"),
      isa                     |-> Half("isa"),
      entryPointOffset        |-> Address("entryPointOffset"),
      programHeaderOffset     |-> Address("programHeaderOffset"),
      sectionHeaderOffset     |-> Address("sectionHeaderOffset"),
      flags                   |-> Loop(p, At("flags"), 4),
      elfHeaderSize           |-> Half("elfHeaderSize"),
      programHeaderSize       |-> Half("programHeaderSize"),
      programHeaderEntriesNum |-> Half("programHeaderEntriesNum"),
      sectionHeaderSize       |-> Half("sectionHeaderSize"),
      sectionHeaderEntriesNum |-> Half("sectionHeaderEntriesNum"),
      sectionHeaderIndex      |-> Half("sectionHeaderIndex")]

parseElfHeader ==
  /\ step = "parse elf"
  /\ LET failure == FirstFailure(elf_ptr)
     IN IF failure # "none" THEN Fail(failure) /\ UNCHANGED elf_info
        ELSE Proceed("parse program") /\ elf_info' = ElfFields(elf_ptr)
  /\ UNCHANGED <<file, position, buffers, programHeader, sectionHeader, printed>>

P_OFFSET ==
  [type |-> 0, flags |-> 4, fileImage |-> 8, virtualAddress |-> 16,
   physAddress |-> 24, fileSize |-> 32, memorySize |-> 40, align |-> 48]

(* parseProgramHeader(): the first entry of the table, taken to follow the    *)
(* ELF header at once, whatever programHeaderOffset says, and to be that of a *)
(* 64-bit file.                                                               *)
parseProgramHeader ==
  /\ step = "parse program"
  /\ \E oldType, oldFlags \in Garbage :
       LET Address(field) == swap64(Loop(ph_ptr, P_OFFSET[field], 8))
       IN programHeader' =
            [ph_type         |-> swap32(LoopOver(oldType, ph_ptr, P_OFFSET["type"])),
             ph_flags        |-> swap32(LoopOver(oldFlags, ph_ptr, P_OFFSET["flags"])),
             ph_segmentFlags |-> <<0, 0, 0, 0>>,
             ph_fileImageSegmentOffset64 |-> Address("fileImage"),
             ph_segmentVAddr64           |-> Address("virtualAddress"),
             ph_segmentPhysAddr64        |-> Address("physAddress"),
             ph_segmentSizeInFileImage64 |-> Address("fileSize"),
             ph_segmentSizeInMemory64    |-> Address("memorySize"),
             ph_align64                  |-> Address("align")]
  /\ Proceed("parse section")
  /\ UNCHANGED <<file, position, buffers, elf_info, sectionHeader, printed>>

(* parseSectionHeader() fills a local and has no return statement: main()     *)
(* goes on with whatever its own variable holds.                              *)
parseSectionHeader ==
  /\ step = "parse section"
  /\ \E name, type \in Garbage :
       sectionHeader' = [sh_offsetToNameString |-> name, sh_type |-> type]
  /\ Proceed("print elf")
  /\ UNCHANGED <<file, position, buffers, elf_info, programHeader, printed>>

-------------------------------------------------------------------------------
(* The names.  A value that has a name of its own stands for that name.       *)

Unnamed == << >>                 \* "Undetermined", "An Unknown type"
ProcessorSpecific == <<256>>     \* "Processor-specific"

OS_ABI == 0 .. 17
ISA ==
  {<<0, v>> : v \in (0 .. 10) \cup {14} \cup (19 .. 23) \cup (36 .. 62)
                      \cup {140, 183, 243, 247}} \cup {<<1, 1>>}
ET == {<<0, v>> : v \in 1 .. 4}
ET_BOUNDS == {<<254, 0>>, <<254, 255>>, <<255, 0>>, <<255, 255>>}
PT == {<<0, 0, 0, v>> : v \in 0 .. 7}
PT_BOUNDS == {<<96, 0, 0, 0>>, <<111, 255, 255, 255>>, <<112, 0, 0, 0>>,
              <<127, 255, 255, 255>>}

stringifyAbiOs(abiOs) == IF abiOs \in OS_ABI THEN <<abiOs>> ELSE Unnamed
stringifyIsa(isa) == IF isa \in ISA THEN isa ELSE Unnamed

(* Of the ranges of processor-specific types only the bounds have a case.     *)
stringifyElfType(type) ==
  CASE type \in ET -> type
    [] type \in ET_BOUNDS -> ProcessorSpecific
    [] OTHER -> Unnamed
stringifyProgramHeaderType(type) ==
  CASE type \in PT -> type
    [] type \in PT_BOUNDS -> ProcessorSpecific
    [] OTHER -> Unnamed

(* The print functions write every member, three of the ELF header and the    *)
(* type of the segment by name.                                               *)
Write(what) == printed' = Append(printed, what)

printElfData ==
  /\ step = "print elf"
  /\ Write([elf_info EXCEPT !.abiOs = stringifyAbiOs(@), !.type = stringifyElfType(@),
                            !.isa = stringifyIsa(@)])
  /\ Proceed("print program")
  /\ UNCHANGED <<file, position, buffers, headers>>

printProgramHeaderData ==
  /\ step = "print program"
  /\ Write([programHeader EXCEPT !.ph_type = stringifyProgramHeaderType(@)])
  /\ Proceed("print section")
  /\ UNCHANGED <<file, position, buffers, headers>>

printSectionHeaderData ==
  /\ step = "print section"
  /\ Write(sectionHeader)
  /\ Proceed("free")
  /\ UNCHANGED <<file, position, buffers, headers>>

(* Mutation of destroyMemoryBank: a pointer keeps its value. *)
destroyInPart ==
  /\ step = "free"
  /\ ph_ptr' = << >> /\ sh_ptr' = << >>
  /\ Proceed("ended")
  /\ UNCHANGED <<file, position, elf_ptr, headers, printed>>

destroyMemoryBank ==
  /\ step = "free"
  /\ elf_ptr' = << >> /\ ph_ptr' = << >> /\ sh_ptr' = << >>
  /\ Proceed("ended")
  /\ UNCHANGED <<file, position, headers, printed>>

Next ==
  \/ initMemoryBank \/ OpenFile
  \/ ReadElfHeader \/ ReadProgramHeader \/ ReadSectionHeader
  \/ parseElfHeader \/ parseProgramHeader \/ parseSectionHeader
  \/ printElfData \/ printProgramHeaderData \/ printSectionHeaderData
  \/ destroyMemoryBank

Spec == Init /\ [][Next]_vars

FairSpec == Spec /\ WF_vars(Next)

-------------------------------------------------------------------------------
(* Properties. *)

(* Types: a number is the sequence of its bytes.  The buffers are all there   *)
(* or all gone; the addresses, flags, type, machine and section header index  *)
(* of the ELF header, and the type and flags of the program header, have the  *)
(* width of their C members; a run prints each header once at most.           *)
Number(n) == [1 .. n -> Byte]
TypeOK ==
  /\ step \in Steps
  /\ file # NoFile => position \in 0 .. Len(file)
  /\ <<elf_ptr, ph_ptr, sh_ptr>> = << << >>, << >>, << >> >>
     \/ /\ elf_ptr \in [0 .. ELF_HEADER_MAX_SIZE - 1 -> Byte]
        /\ ph_ptr \in [0 .. PROGRAM_HEADER_MAX_SIZE - 1 -> Byte]
        /\ sh_ptr \in [0 .. SECTION_HEADER_MAX_SIZE - 1 -> Byte]
  /\ elf_info # << >> =>
       /\ elf_info.bit_depth \in {32, 64}
       /\ {elf_info.entryPointOffset, elf_info.programHeaderOffset,
           elf_info.sectionHeaderOffset} \subseteq Number(8)
       /\ elf_info.flags \in Number(4)
       /\ {elf_info.type, elf_info.isa, elf_info.sectionHeaderIndex} \subseteq Number(2)
  /\ programHeader # << >> =>
       {programHeader.ph_type, programHeader.ph_flags} \subseteq Number(4)
  /\ Len(printed) <= 3

(* n bytes of the file from an offset on, those past its end being 0, and the *)
(* number they spell when the least significant byte comes first.             *)
Stored(offset, n) ==
  [i \in 1 .. n |-> IF offset + i <= Len(file) THEN file[offset + i] ELSE 0]
LittleEndian(offset, n) == Reverse(Stored(offset, n))

Parsed == programHeader # << >>

(* However the file ends, in the middle of a header too, the three buffers    *)
(* hold its first 184 bytes in order, padded with zeros; a file that ends     *)
(* before the third header is not parsed at all.                              *)
BuffersHoldTheFile ==
  step \in {"parse elf", "parse program", "parse section", "print elf",
           "print program", "print section", "free"} =>
    /\ Len(file) > ELF_HEADER_MAX_SIZE + PROGRAM_HEADER_MAX_SIZE
    /\ Loop(elf_ptr, 0, 64) \o Loop(ph_ptr, 0, 56) \o Loop(sh_ptr, 0, 64) = Stored(0, 184)

(* What is printed for the ELF header of a 64-bit file is what the file holds *)
(* at the offsets of that format, in little-endian order; so are the sixteen  *)
(* bit fields of a 32-bit file.  (The flags are printed in file order.)       *)
ElfHeaderAsStored ==
  Parsed =>
    /\ elf_info.type = LittleEndian(16, 2)
    /\ elf_info.isa = LittleEndian(18, 2)
    /\ elf_info.bit_depth = 64 =>
         /\ elf_info.entryPointOffset = LittleEndian(24, 8)
         /\ elf_info.programHeaderOffset = LittleEndian(32, 8)
         /\ elf_info.sectionHeaderOffset = LittleEndian(40, 8)
         /\ elf_info.flags = Stored(48, 4)
    /\ LET sizes == IF elf_info.bit_depth = 64 THEN 52 ELSE 40
       IN <<elf_info.elfHeaderSize, elf_info.programHeaderSize,
            elf_info.programHeaderEntriesNum, elf_info.sectionHeaderSize,
            elf_info.sectionHeaderEntriesNum, elf_info.sectionHeaderIndex>>
          = [i \in 1 .. 6 |-> LittleEndian(sizes + 2 * (i - 1), 2)]

(* Whatever the uninitialized locals hold, the addresses and sizes of the     *)
(* program header are those the file holds after its ELF header, and of the   *)
(* two fields they do reach, the bytes other than the low one and the one     *)
(* taken from the wrong offset.                                               *)
ProgramHeaderAsStored ==
  Parsed =>
    /\ <<programHeader.ph_fileImageSegmentOffset64, programHeader.ph_segmentVAddr64,
         programHeader.ph_segmentPhysAddr64, programHeader.ph_segmentSizeInFileImage64,
         programHeader.ph_segmentSizeInMemory64, programHeader.ph_align64>>
       = [i \in 1 .. 6 |-> LittleEndian(64 + 8 * i, 8)]
    /\ SubSeq(programHeader.ph_type, 2, 3) = SubSeq(LittleEndian(64, 4), 2, 3)
    /\ SubSeq(programHeader.ph_flags, 2, 3) = SubSeq(LittleEndian(68, 4), 2, 3)

(* What the names that are printed tell of the file.  18 passes the check of  *)
(* the ABI and has no name.  A file that says it is big-endian is printed as  *)
(* such, and its type and machine, stored in that order, are not recognised.  *)
(* The segment is never said to be processor-specific: the byte that is taken *)
(* from offset 1 stands twice in the type, and in none of the four values.    *)
PrintedNames ==
  /\ Len(printed) >= 1 =>
       LET elf == printed[1] IN
         /\ elf.abiOs = Unnamed <=> file[8] = 18
         /\ elf.isLittleEndian <=> file[6] = 1
         /\ LittleEndian(16, 2) \in ET => elf.type = LittleEndian(16, 2)
         /\ LittleEndian(18, 2) \in ISA => elf.isa = LittleEndian(18, 2)
         /\ Stored(16, 2) \in ET => elf.type = Unnamed
         /\ Stored(18, 2) \in ISA \ {<<0, 0>>, <<1, 1>>} => elf.isa # Stored(18, 2)
  /\ Len(printed) >= 2 => printed[2].ph_type # ProcessorSpecific

(* No header is printed of a file that fails a check, and a file with several *)
(* flaws is refused for the first in the order of the format.                 *)
Flaws ==
  {c \in 4 .. 9 : \/ c \in {4, 5} /\ file[c + 1] \notin {1, 2}
                  \/ c = 7 /\ file[8] > 18
                  \/ c = 9 /\ \E i \in 9 .. 15 : file[i + 1] # 0}
MessageOf(c) ==
  CASE c = 4 -> "Could not determine bit depth"
    [] c = 5 -> "Could not determine endianness"
    [] c = 7 -> "Unknown abi os"
    [] c = 9 -> "EI_PAD should be zero"
RefusedForTheFirstFlaw ==
  /\ Parsed => Flaws = {}
  /\ status \in {MessageOf(c) : c \in {4, 5, 7, 9}} => status = MessageOf(Min(Flaws))

(* The program always ends, and frees its buffers unless it failed.           *)
Ends == <>(step = "ended" /\ (status = "none" => elf_ptr = << >>))

(* What the comments say: only a file that starts with the ELF magic number   *)
(* is parsed.                                                                 *)
OnlyElfIsParsed == Parsed => Stored(0, 4) = <<127, 69, 76, 70>>

(* What main.c says, that the output can be checked against a hex dump of the *)
(* file, of a 32-bit one: the entry point is the address its header holds,    *)
(* and the type of the first segment the one the file holds.                  *)
AsDumped ==
  Parsed /\ elf_info.bit_depth = 32 =>
    /\ elf_info.entryPointOffset = <<0, 0, 0, 0>> \o LittleEndian(24, 4)
    /\ programHeader.ph_type = LittleEndian(64, 4)
==============================================================================

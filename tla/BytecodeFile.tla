---------------------------- MODULE BytecodeFile ----------------------------
(***************************************************************************)
(* The file that carries a program from the compiler to the machine: the   *)
(* serializer (src/src/util/serialize.cpp and the serialize functions of   *)
(* src/src/bytecode) and the loader (readProgram in src/src/vm/vm.cpp).    *)
(* Here a text is the tuple of its characters.  A file is a sequence of    *)
(* bytes; a byte is a digit of a word, an opcode or a character, and a     *)
(* word is IntBytes digits, the lowest first.                              *)
(***************************************************************************)
EXTENDS Bytecode, SequencesExt

CONSTANTS
  Base,       \* the values of a byte of a word; 256 in the code
  IntBytes    \* the bytes of a word; 8 in the code

Nul == "NUL"

Flat(parts) == FlattenSeq(parts)

-----------------------------------------------------------------------------
\* What a digit is worth that follows d others, and one more than the numbers of a
\* word.
Place[d \in 0 .. IntBytes] == IF d = 0 THEN 1 ELSE Base * Place[d - 1]
WordLimit == Place[IntBytes]

-----------------------------------------------------------------------------
(***************************************************************************)
(* Writing.  The program of the compiler is a list of methods, the main    *)
(* method first; a method lists its variables, the fields of its class and *)
(* its blocks, each a name with its code.                                  *)
(***************************************************************************)
WriteInteger(n) == [d \in 1 .. IntBytes |-> (n \div Place[d - 1]) % Base]
WriteString(s)  == WriteInteger(Len(s)) \o s
WriteStringVector(list) == WriteInteger(Len(list)) \o Flat([i \in DOMAIN list |-> WriteString(list[i])])

WriteInstruction(instr) ==
  <<instr.op>> \o
  (IF instr.op \in StringOps THEN WriteString(instr.str)
   ELSE IF instr.op = "CONST" THEN WriteInteger(instr.num) ELSE <<>>)

WriteBlock(block) ==
  WriteString(block.name) \o WriteInteger(Len(block.code))
    \o Flat([i \in DOMAIN block.code |-> WriteInstruction(block.code[i])])

WriteMethod(method) ==
  WriteString(method.name) \o WriteStringVector(method.variables)
    \o WriteStringVector(method.fields) \o WriteInteger(Len(method.blocks))
    \o Flat([i \in DOMAIN method.blocks |-> WriteBlock(method.blocks[i])])

WriteMethods(count, methods) ==
  WriteMethod(Head(methods)) \o WriteInteger(count)
    \o Flat([i \in DOMAIN Tail(methods) |-> WriteMethod(methods[i + 1])])

\* A slip: the main method is counted among the methods that follow it.
SerializeCountingMain(methods) == WriteMethods(Len(methods), methods)

Serialize(methods) == WriteMethods(Len(methods) - 1, methods)

-----------------------------------------------------------------------------
(***************************************************************************)
(* Reading.  A reader has a file and the position before the next byte.    *)
(* What a read finds missing stays as it was initialized, and from then on *)
(* the stream has failed and delivers nothing.  Every read returns what it *)
(* read and the reader after it.                                           *)
(***************************************************************************)
Got(value, reader) == [value |-> value, reader |-> reader]

\* The next n bytes, or all that are left of them.
Bytes(reader, n) ==
  LET left == Len(reader.file) - reader.at IN
  SubSeq(reader.file, reader.at + 1, reader.at + IF left < n THEN left ELSE n)

Past(reader, n) == [reader EXCEPT !.at = IF Len(reader.file) < @ + n THEN Len(reader.file) ELSE @ + n]

\* The number with these digits.
NumberOf(digits) ==
  LET sum[d \in 0 .. Len(digits)] ==
        IF d = 0 THEN 0 ELSE sum[d - 1] + digits[d] * Place[d - 1]
  IN  sum[Len(digits)]

ReadInteger(reader) == Got(NumberOf(Bytes(reader, IntBytes)), Past(reader, IntBytes))

\* The same bytes as a number in two's complement.
ReadSignedInteger(reader) ==
  LET word == ReadInteger(reader) IN
  IF 2 * word.value < WordLimit THEN word ELSE Got(word.value - WordLimit, word.reader)

ReadString(reader) ==
  LET length == ReadInteger(reader)
      chars  == Bytes(length.reader, length.value)
  IN  Got([i \in 1 .. length.value |-> IF i <= Len(chars) THEN chars[i] ELSE Nul],
          Past(length.reader, length.value))

\* A slip: an opcode that is not there is the last of the opcodes.
ReadOpcodeStop(reader) ==
  LET byte == Bytes(reader, 1) IN
  Got(IF byte = <<>> THEN "STOP" ELSE byte[1], Past(reader, 1))

ReadOpcode(reader) ==
  LET byte == Bytes(reader, 1) IN
  Got(IF byte = <<>> THEN "ADD" ELSE byte[1], Past(reader, 1))

ReadInstruction(reader) ==
  LET op     == ReadOpcode(reader)
      text   == ReadString(op.reader)
      number == ReadSignedInteger(op.reader)
  IN  IF op.value \in StringOps THEN Got(WithText(op.value, text.value), text.reader)
      ELSE IF op.value = "CONST" THEN Got(Const(number.value), number.reader)
      ELSE Got(Plain(op.value), op.reader)

\* A count, and so many of what read reads.
ReadList(read(_), reader) ==
  LET count == ReadInteger(reader)
      list[i \in 0 .. count.value] ==
        IF i = 0 THEN Got(<<>>, count.reader)
        ELSE LET before == list[i - 1]
                 one    == read(before.reader)
             IN  Got(Append(before.value, one.value), one.reader)
  IN  list[count.value]

ReadStringVector(reader) == ReadList(ReadString, reader)
ReadCode(reader)         == ReadList(ReadInstruction, reader)

ReadBlock(reader) ==
  LET name == ReadString(reader)
      code == ReadCode(name.reader)
  IN  Got([name |-> name.value, code |-> code.value], code.reader)

ReadBlocks(reader) == ReadList(ReadBlock, reader)

ReadMethod(reader) ==
  LET name      == ReadString(reader)
      variables == ReadStringVector(name.reader)
      fields    == ReadStringVector(variables.reader)
      blocks    == ReadBlocks(fields.reader)
  IN  Got([name |-> name.value, variables |-> variables.value, fields |-> fields.value,
           blocks |-> blocks.value], blocks.reader)

ReadMethods(reader) == ReadList(ReadMethod, reader)

\* Of entries with one name the map keeps the first.
Named(list, name) == list[Min({i \in DOMAIN list : list[i].name = name})]

AsMethod(method) ==
  [locals |-> ToSet(method.variables), fields |-> ToSet(method.fields),
   blocks |-> [b \in {method.blocks[i].name : i \in DOMAIN method.blocks} |->
                 Named(method.blocks, b).code]]

\* The machine's program: the main method and a map of the others.
AsProgram(methods) ==
  [main |-> Head(methods).name,
   methods |-> [m \in {methods[i].name : i \in DOMAIN methods} |-> AsMethod(Named(methods, m))]]

ReadProgram(file) ==
  LET main   == ReadMethod([file |-> file, at |-> 0])
      others == ReadMethods(main.reader)
  IN  AsProgram(<<main.value>> \o others.value)
=============================================================================

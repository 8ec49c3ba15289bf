------------------------------ MODULE Delivery ------------------------------
(***************************************************************************)
(* From the compiler to the machine through a file that may be cut short:  *)
(* the compiler does not check that it wrote all of it, and the machine    *)
(* does not check that it read all of it.  The machine runs the program    *)
(* as generated, and then what it loads from the file.                     *)
(***************************************************************************)
EXTENDS VM, BytecodeFile

CONSTANT Sources   \* programs of the compiler

\* What a word can count.
Lists(S) == {list \in Seq(S) : Len(list) < WordLimit}

SourceCode ==
  {Plain(op) : op \in NoArgOps} \cup {WithText(op, str) : op \in StringOps, str \in Text}
    \cup {Const(num) : num \in Value}
SourceBlocks  == [name : Text, code : Lists(SourceCode)]
SourceMethods == [name : Text, variables : Lists(Text), fields : Lists(Text), blocks : Lists(SourceBlocks)]

\* A word holds the numbers of the machine, and a text is a tuple of characters.
ASSUME WordAssumption ==
  Base \in Nat \ {0} /\ IntBytes \in Nat /\ WordLimit = 2 * HalfWord
ASSUME CharactersAssumption == \A t \in Text : t \in Lists(ToSet(t))
\* Text has also what is read of a text that is not all there.
ASSUME CutTextAssumption ==
  \A t \in Text : \A n \in 0 .. Len(t) :
    /\ [i \in 1 .. n |-> Nul] \in Text
    /\ [i \in 1 .. Len(t) |-> IF i <= n THEN t[i] ELSE Nul] \in Text
ASSUME SourcesAssumption == Sources \subseteq Lists(SourceMethods) \ {<<>>}

VARIABLES
  source,    \* the program that was compiled
  loaded,    \* how many bytes of its file the machine was given; -1 before that
  expected   \* how the run of the program as generated ended

deliveryVars == <<vars, source, loaded, expected>>

\* What the machine reads from the first bytes of the file of a program.
Copies ==
  [s \in Sources |->
     LET file == Serialize(s) IN
     [length \in 0 .. Len(file) |-> ReadProgram(SubSeq(file, 1, length))]]

Unknown == [output |-> <<>>, status |-> "running"]

DInit ==
  /\ source \in Sources
  /\ loaded = -1
  /\ expected = Unknown
  /\ Init /\ program = AsProgram(source)

RunStep == Step /\ UNCHANGED <<source, loaded, expected>>

\* The machine is started on the first bytes of the file, all of them, some, or
\* none, as when the file cannot be opened.
LoadFile ==
  /\ loaded = -1 /\ ~Running
  /\ loaded' \in DOMAIN Copies[source]
  /\ program' = Copies[source][loaded']
  /\ expected' = [output |-> output, status |-> status]
  /\ current' = NewActivation(program', program'.main)
  /\ activations' = <<>> /\ dataStack' = <<>> /\ objects' = <<>> /\ arrays' = <<>>
  /\ output' = <<>>
  /\ status' = "running"
  /\ UNCHANGED source

DEnded == loaded >= 0 /\ ~Running /\ UNCHANGED deliveryVars

DNext == RunStep \/ LoadFile \/ DEnded

\* The machine's loop runs by itself, and the user runs it on the file.
DSpec == DInit /\ [][DNext]_deliveryVars /\ WF_deliveryVars(RunStep \/ LoadFile)

-----------------------------------------------------------------------------
\* Type correctness: what the machine is given to run, damaged or not, is a
\* program, and the machine's state has its type.
DeliveryTypeOK ==
  /\ TypeOK
  /\ loaded \in {-1} \cup DOMAIN Copies[source]
  /\ expected.status \in Status

\* A file that was written and read completely is the program that was compiled.
WholeFileIsProgram ==
  loaded = Len(Serialize(source)) => program = AsProgram(source)

\* A file that was cut short never makes the machine print anything else: it
\* prints what the program prints, as far as it gets, and if it stops as a
\* program should it has printed everything.  What is missing is read as
\* additions and as names of nothing, and a run that comes to it ends there.
CutFilePrintsPrefix ==
  loaded >= 0 =>
    /\ IsPrefix(output, expected.output)
    /\ status = "stopped" => expected.status = "stopped" /\ output = expected.output

\* Nor does it make the machine run on for ever.
CutFileEnds == <>(loaded >= 0 /\ ~Running)
=============================================================================

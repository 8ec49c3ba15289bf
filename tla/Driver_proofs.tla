---------------------------- MODULE Driver_proofs ----------------------------
(***************************************************************************)
(* Proofs, for every set of sources and any number of compiles, of what    *)
(* main promises: its exit status is the one due to the source, success    *)
(* without a fault leaves every file complete, and a compile that does not *)
(* accept its source leaves the program of the compile before.             *)
(***************************************************************************)
EXTENDS Driver, TLAPS

(***************************************************************************)
(* The inductive invariant: what each location of main knows of the source,*)
(* and what it has done to the streams and the disk.                       *)
(***************************************************************************)
Writing == {"st", "listing", "program", "return"}
Coded   == {"draw"} \cup Writing
Typed   == {"tree", "graph", "code"} \cup Coded

Decided ==
  /\ pc # "idle" => said = {} /\ runs > 0
  /\ pc \in {"parse", "table", "types"} \cup Typed => ~lexOnly
  /\ pc = "lex" => lexOnly
  /\ pc \in {"table", "types"} \cup Typed => ~source.met /\ source.refused \notin {"syntax", "number"}
  /\ pc \in {"types"} \cup Typed => source.refused # "table"
  /\ pc \in Typed => source.refused # "types"
  /\ pc \in Coded => source.refused # "code"

Opened == \A f \in Files : streams[f] = "written" => pc \in Writing

Done ==
  /\ pc \in {"graph", "code"} \cup Coded /\ faults = {} => disk["tree.dot"] = Text("all")
  /\ pc \in Writing => streams["cfg.dot"] = "written"
  /\ pc \in Writing \ {"st"} /\ faults = {} => streams["st.dot"] = "written"
  /\ pc \in {"program", "return"} /\ faults = {} => streams["bytecode.txt"] = "written"
  /\ pc = "return" /\ faults = {} => streams["prog.bc"] = "written"

DriverInv ==
  /\ TypeOK /\ Decided /\ Opened /\ Done
  /\ ExitIsVerdict /\ SuccessIsComplete

-----------------------------------------------------------------------------
(***************************************************************************)
(* Type correctness.                                                       *)
(***************************************************************************)
\* Any part of the text of a source may be on the disk.
LEMMA TextType ==
  ASSUME TypeOK, NEW size \in Sizes
  PROVE  Text(size) \in Contents
BY DEF TypeOK, Text, Contents

\* The codes that main returns are exit statuses.
LEMMA CodesAre ==
  /\ SUCCESS \in Codes /\ FAILURE \in Codes /\ LEXICAL_ERROR \in Codes /\ SYNTAX_ERROR \in Codes
  /\ SEMANTIC_ERROR \in Codes /\ ABORTED \in Codes /\ KILLED \in Codes
BY DEF Codes, FAILURE, LEXICAL_ERROR

\* What the end of a process leaves has the right type.
LEMMA EndType ==
  ASSUME TypeOK, NEW code \in Codes,
         NEW reached, End(code, reached), \A f \in Written : reached[f] \in Sizes
  PROVE  /\ pc' \in Locations
         /\ disk' \in [Files -> Contents]
         /\ streams' \in [Files -> {"closed", "open", "written"}]
         /\ status' \in Codes
BY TextType DEF TypeOK, End, Locations, NoStreams, Written

\* The two ways to end that lose or keep what is in the buffers.
LEMMA ReturnType ==
  ASSUME TypeOK, NEW code \in Codes,
         Return(code) \/ Die(code)
  PROVE  /\ pc' \in Locations
         /\ disk' \in [Files -> Contents]
         /\ streams' \in [Files -> {"closed", "open", "written"}]
         /\ status' \in Codes
         /\ faults' \subseteq Files \cup {"output", "source"}
<1>1. PICK reached \in [Written -> Sizes] :
        End(code, reached) /\ faults' \subseteq faults \cup Written
  BY DEF Return, Die
<1>2. \A f \in Written : reached[f] \in Sizes
  OBVIOUS
<1> QED
  BY <1>1, <1>2, EndType DEF TypeOK, Written

\* When nothing was written to a stream, the end of the process changes no file.
LEMMA QuietEnd ==
  ASSUME TypeOK, Written = {}, NEW code, NEW reached, End(code, reached)
  PROVE  disk' = disk
BY DEF TypeOK, End

LEMMA FailType ==
  ASSUME TypeOK, Written = {}, NEW what \in Files \cup {"output", "source"}, NEW code \in Codes, Fail(what, code)
  PROVE  /\ pc' \in Locations
         /\ disk' \in [Files -> Contents]
         /\ streams' \in [Files -> {"closed", "open", "written"}]
         /\ status' \in Codes
         /\ faults' \subseteq Files \cup {"output", "source"}
         /\ said' \subseteq Phases \cup {"lexical", "environment"}
<1>1. End(code, NoStreams) /\ \A f \in Written : NoStreams[f] \in Sizes
  BY DEF Fail
<1> QED
  BY <1>1, EndType DEF TypeOK, Fail

\* Outside the last locations nothing has been written to a stream.
LEMMA NothingWritten ==
  ASSUME TypeOK, Opened, pc \notin Writing
  PROVE  Written = {}
BY DEF Opened, Written

LEMMA TypeInductive ==
  ASSUME TypeOK, Opened, Next
  PROVE  TypeOK'
<1> USE DEF inputs
<1>1. CASE Start
  BY <1>1, RunsAssumption DEF Start, TypeOK, Locations
<1>2. CASE MakeDirectory
  <2>1. CASE Fail("output", ABORTED) \/ Fail("output", FAILURE)
    BY <1>2, <2>1, FailType, NothingWritten, CodesAre DEF MakeDirectory, TypeOK, Writing
  <2>2. CASE Proceed("load")
    BY <1>2, <2>2 DEF MakeDirectory, Proceed, TypeOK, Locations
  <2> QED  BY <1>2, <2>1, <2>2 DEF MakeDirectory
<1>3. CASE LoadSource
  <2>1. CASE Fail("source", FAILURE)
    BY <1>3, <2>1, FailType, NothingWritten, CodesAre DEF LoadSource, TypeOK, Writing
  <2>2. CASE Proceed(IF lexOnly THEN "lex" ELSE "parse")
    BY <1>3, <2>2 DEF LoadSource, Proceed, TypeOK, Locations
  <2> QED  BY <1>3, <2>1, <2>2 DEF LoadSource
<1>4. CASE LexOnly
  <2>1. /\ Return(LEXICAL_ERROR) \/ Return(SUCCESS)
        /\ said' \subseteq said \cup {"lexical"}
    BY <1>4 DEF LexOnly, Refuse
  <2> QED  BY <1>4, <2>1, ReturnType, CodesAre DEF LexOnly, TypeOK
<1>5. CASE Parse
  <2>1. CASE Proceed("table")
    BY <1>5, <2>1 DEF Parse, Proceed, TypeOK, Locations
  <2>2. CASE ~Proceed("table")
    <3>1. /\ Return(SYNTAX_ERROR) \/ Return(LEXICAL_ERROR) \/ Die(ABORTED)
          /\ said' \subseteq said \cup {"lexical", "syntax", "number"}
      BY <1>5, <2>2 DEF Parse, Refuse
    <3> QED  BY <1>5, <3>1, ReturnType, CodesAre DEF Parse, TypeOK, Phases
  <2> QED  BY <2>1, <2>2
<1>6. CASE BuildTable
  <2>1. CASE Proceed("types")
    BY <1>6, <2>1 DEF BuildTable, Proceed, TypeOK, Locations
  <2>2. CASE Refuse("table", SEMANTIC_ERROR)
    BY <1>6, <2>2, ReturnType, CodesAre DEF BuildTable, Refuse, TypeOK, Phases
  <2> QED  BY <1>6, <2>1, <2>2 DEF BuildTable
<1>7. CASE CheckTypes
  <2>1. CASE Proceed("tree")
    BY <1>7, <2>1 DEF CheckTypes, Proceed, TypeOK, Locations
  <2>2. CASE Refuse("types", SEMANTIC_ERROR)
    BY <1>7, <2>2, ReturnType, CodesAre DEF CheckTypes, Refuse, TypeOK, Phases
  <2> QED  BY <1>7, <2>1, <2>2 DEF CheckTypes
<1>8. CASE WriteTree
  <2>1. "tree.dot" \in Files /\ \A size \in Sizes : Text(size) \in Contents
    BY TextType DEF Files
  <2> QED  BY <1>8, <2>1 DEF WriteTree, TypeOK, Locations
<1>9. CASE OpenGraph
  <2>1. CASE Fail("cfg.dot", FAILURE)
    BY <1>9, <2>1, FailType, NothingWritten, CodesAre DEF OpenGraph, TypeOK, Writing, Files
  <2>2. CASE ~Fail("cfg.dot", FAILURE)
    <3>1. "cfg.dot" \in Files /\ Text("none") \in Contents
      BY TextType DEF Files, Sizes
    <3> QED  BY <1>9, <2>2, <3>1 DEF OpenGraph, TypeOK, Locations
  <2> QED  BY <2>1, <2>2
<1>10. CASE GenerateCode
  <2>1. CASE Proceed("draw")
    BY <1>10, <2>1 DEF GenerateCode, Proceed, TypeOK, Locations
  <2>2. CASE Refuse("code", SEMANTIC_ERROR)
    BY <1>10, <2>2, ReturnType, CodesAre DEF GenerateCode, Refuse, TypeOK, Phases
  <2> QED  BY <1>10, <2>1, <2>2 DEF GenerateCode
<1>11. CASE DrawGraph
  BY <1>11 DEF DrawGraph, TypeOK, Locations
<1>12. CASE WriteTable \/ WriteListing \/ WriteProgram
  <2>1. Files \subseteq Files \cup {"output", "source"} /\ Text("none") \in Contents
    BY TextType DEF Sizes
  <2>2. PICK file \in Files : Write(file) /\ pc' \in Locations
    BY <1>12 DEF WriteTable, WriteListing, WriteProgram, Files, Locations
  <2> QED  BY <2>1, <2>2 DEF Write, TypeOK
<1>13. CASE Succeed
  BY <1>13, ReturnType, CodesAre DEF Succeed, TypeOK
<1>14. CASE Kill
  BY <1>14, ReturnType, CodesAre DEF Kill, TypeOK
<1> QED
  BY <1>1, <1>2, <1>3, <1>4, <1>5, <1>6, <1>7, <1>8, <1>9, <1>10, <1>11, <1>12, <1>13, <1>14 DEF Next

-----------------------------------------------------------------------------
(***************************************************************************)
(* The other parts of the invariant.  A step either goes on to a location  *)
(* of main or ends the compile.                                            *)
(***************************************************************************)
\* However a compile ends, main is left and its streams are closed.
LEMMA EndsIdle ==
  ASSUME NEW code, NEW phase, Return(code) \/ Die(code) \/ Fail(phase, code) \/ Refuse(phase, code)
  PROVE  pc' = "idle" /\ streams' = NoStreams
BY DEF Return, Die, Fail, Refuse, End

LEMMA DecidedInductive ==
  ASSUME TypeOK, Decided, Next
  PROVE  Decided'
<1> USE DEF inputs, Writing, Coded, Typed
<1>1. CASE pc' = "idle"
  BY <1>1 DEF Decided
<1>2. CASE Start
  BY <1>2 DEF Start, Decided, TypeOK
<1>3. CASE pc' # "idle" /\ ~Start
  <2>1. pc # "idle" /\ UNCHANGED <<source, lexOnly, runs, said>>
    BY <1>3, EndsIdle DEF Next, MakeDirectory, LoadSource, LexOnly, Parse, BuildTable, CheckTypes,
       WriteTree, OpenGraph, GenerateCode, DrawGraph, WriteTable, WriteListing, WriteProgram, Write,
       Succeed, Kill, Proceed
  <2>2. CASE MakeDirectory \/ LoadSource \/ LexOnly
    BY <1>3, <2>1, <2>2, EndsIdle DEF MakeDirectory, LoadSource, LexOnly, Proceed, Decided
  <2>3. CASE Parse
    BY <1>3, <2>1, <2>3, EndsIdle DEF Parse, Proceed, Decided
  <2>4. CASE BuildTable \/ CheckTypes
    BY <1>3, <2>1, <2>4, EndsIdle DEF BuildTable, CheckTypes, Proceed, Decided
  <2>5. CASE WriteTree \/ OpenGraph \/ GenerateCode \/ DrawGraph
    BY <1>3, <2>1, <2>5, EndsIdle DEF WriteTree, OpenGraph, GenerateCode, DrawGraph, Proceed, Decided
  <2>6. CASE WriteTable \/ WriteListing \/ WriteProgram
    BY <1>3, <2>1, <2>6 DEF WriteTable, WriteListing, WriteProgram, Decided
  <2>7. CASE Succeed \/ Kill
    BY <1>3, <2>7, EndsIdle DEF Succeed, Kill
  <2> QED
    BY <1>3, <2>2, <2>3, <2>4, <2>5, <2>6, <2>7 DEF Next
<1> QED
  BY <1>1, <1>2, <1>3

LEMMA OpenedInductive ==
  ASSUME TypeOK, Opened, Next
  PROVE  Opened'
<1> USE DEF inputs, Writing
<1>1. CASE streams' = NoStreams
  BY <1>1 DEF Opened, NoStreams
<1>2. CASE streams' = streams /\ ~(pc \in Writing /\ pc' \notin Writing)
  BY <1>2 DEF Opened
<1>3. CASE OpenGraph
  BY <1>1, <1>3, EndsIdle DEF OpenGraph, Opened, TypeOK
<1>4. CASE DrawGraph
  BY <1>4 DEF DrawGraph, Opened
<1>5. CASE WriteTable \/ WriteListing \/ WriteProgram
  BY <1>5 DEF WriteTable, WriteListing, WriteProgram, Opened
<1>6. CASE Start \/ MakeDirectory \/ LoadSource \/ LexOnly \/ Parse \/ BuildTable \/ CheckTypes \/ WriteTree
            \/ GenerateCode \/ Succeed \/ Kill
  BY <1>1, <1>2, <1>6, EndsIdle DEF Start, MakeDirectory, LoadSource, LexOnly, Parse, BuildTable, CheckTypes,
     WriteTree, GenerateCode, Succeed, Kill, Proceed
<1> QED
  BY <1>3, <1>4, <1>5, <1>6 DEF Next

LEMMA DoneInductive ==
  ASSUME TypeOK, Done, Next
  PROVE  Done'
<1> USE DEF inputs, Writing, Coded
<1>1. CASE pc' \notin {"graph", "code"} \cup Coded
  BY <1>1 DEF Done
<1>2. CASE WriteTree
  <2>1. "tree.dot" \in Files
    BY DEF Files
  <2> QED  BY <1>2, <2>1 DEF WriteTree, Done, TypeOK, Text
<1>3. CASE OpenGraph /\ pc' = "code"
  <2>1. disk' = [disk EXCEPT !["cfg.dot"] = Text("none")] /\ faults' = faults /\ source' = source
    BY <1>3, EndsIdle DEF OpenGraph
  <2> QED  BY <1>3, <2>1 DEF OpenGraph, Done, TypeOK, Text
<1>4. CASE GenerateCode /\ pc' = "draw"
  BY <1>4, EndsIdle DEF GenerateCode, Proceed, Done, Text
<1>5. CASE DrawGraph
  <2>1. "cfg.dot" \in Files
    BY DEF Files
  <2> QED  BY <1>5, <2>1 DEF DrawGraph, Done, TypeOK, Text
<1>6. CASE WriteTable \/ WriteListing \/ WriteProgram
  <2>1. {"tree.dot", "cfg.dot", "st.dot", "bytecode.txt", "prog.bc"} = Files
    BY DEF Files
  <2>2. CASE WriteTable
    BY <2>1, <2>2 DEF WriteTable, Write, Done, TypeOK, Text
  <2>3. CASE WriteListing
    BY <2>1, <2>3 DEF WriteListing, Write, Done, TypeOK, Text
  <2>4. CASE WriteProgram
    BY <2>1, <2>4 DEF WriteProgram, Write, Done, TypeOK, Text
  <2> QED  BY <1>6, <2>2, <2>3, <2>4
<1>7. CASE ~(WriteTree \/ OpenGraph \/ GenerateCode \/ DrawGraph \/ WriteTable \/ WriteListing \/ WriteProgram)
  <2>1. pc' \notin {"graph", "code"} \cup Coded
    BY <1>7, EndsIdle DEF Next, Start, MakeDirectory, LoadSource, LexOnly, Parse, BuildTable, CheckTypes,
       Succeed, Kill, Proceed
  <2> QED  BY <1>1, <2>1
<1>8. OpenGraph => pc' \in {"idle", "code"}
  BY EndsIdle DEF OpenGraph
<1>9. GenerateCode => pc' \in {"idle", "draw"}
  BY EndsIdle DEF GenerateCode, Proceed
<1> QED
  BY <1>1, <1>2, <1>3, <1>4, <1>5, <1>6, <1>7, <1>8, <1>9

-----------------------------------------------------------------------------
(***************************************************************************)
(* The promises.                                                           *)
(***************************************************************************)
\* What main exits with when it returns.
LEMMA Exits ==
  ASSUME NEW code, Return(code) \/ Die(code)
  PROVE  status' = code /\ faults \subseteq faults'
BY DEF Return, Die, End

LEMMA VerdictInductive ==
  ASSUME TypeOK, Decided, Next, pc' = "idle", status' # KILLED
  PROVE  ExitIsVerdict'
<1> USE DEF inputs, SUCCESS, FAILURE, LEXICAL_ERROR, SYNTAX_ERROR, SEMANTIC_ERROR, ABORTED
<1>0. pc # "idle" /\ UNCHANGED <<source, lexOnly, runs>> /\ said = {}
  BY DEF Next, Start, MakeDirectory, LoadSource, LexOnly, Parse, BuildTable, CheckTypes, WriteTree, OpenGraph,
     GenerateCode, DrawGraph, WriteTable, WriteListing, WriteProgram, Write, Succeed, Kill, Decided
<1>1. ASSUME NEW what, NEW code, code # SUCCESS, Fail(what, code)  PROVE ExitIsVerdict'
  BY <1>1 DEF Fail, End, ExitIsVerdict
<1>2. CASE MakeDirectory \/ LoadSource \/ OpenGraph
  BY <1>1, <1>2 DEF MakeDirectory, LoadSource, OpenGraph, Proceed
<1>3. CASE LexOnly
  BY <1>0, <1>3, Exits DEF LexOnly, Refuse, ExitIsVerdict, Due, Decided
<1>4. CASE Parse
  BY <1>0, <1>4, Exits DEF Parse, Refuse, Proceed, ExitIsVerdict, Due, Decided
<1>5. CASE BuildTable \/ CheckTypes
  BY <1>0, <1>5, Exits DEF BuildTable, CheckTypes, Refuse, Proceed, ExitIsVerdict, Due, Decided, Typed
<1>6. CASE GenerateCode
  BY <1>0, <1>6, Exits DEF GenerateCode, Refuse, Proceed, ExitIsVerdict, Due, Decided, Typed
<1>7. CASE Succeed
  <2>1. source.refused = "none" /\ ~source.met /\ ~lexOnly
    BY <1>7, SourcesAssumption DEF Succeed, Decided, Typed, Coded, Writing, TypeOK, Phases
  <2> QED  BY <1>0, <1>7, <2>1, Exits DEF Succeed, ExitIsVerdict, Due
<1>8. CASE Kill
  BY <1>8, Exits DEF Kill
<1>9. Next => MakeDirectory \/ LoadSource \/ OpenGraph \/ LexOnly \/ Parse \/ BuildTable \/ CheckTypes
               \/ GenerateCode \/ Succeed \/ Kill
  BY DEF Next, Start, WriteTree, DrawGraph, WriteTable, WriteListing, WriteProgram
<1> QED
  BY <1>2, <1>3, <1>4, <1>5, <1>6, <1>7, <1>8, <1>9

LEMMA CompleteInductive ==
  ASSUME TypeOK, Decided, Done, Next, pc' = "idle"
  PROVE  SuccessIsComplete'
<1> USE DEF inputs, SUCCESS, FAILURE, LEXICAL_ERROR, SYNTAX_ERROR, SEMANTIC_ERROR, ABORTED, KILLED
<1>1. CASE Succeed
  <2> SUFFICES ASSUME faults' = {}, NEW f \in Files
               PROVE  disk'[f] = Text("all")'
    BY DEF SuccessIsComplete
  <2>1. PICK reached \in [Written -> Sizes] :
          End(SUCCESS, reached) /\ faults' = faults \cup {g \in Written : reached[g] # "all"}
    BY <1>1 DEF Succeed, Return
  <2>2. faults = {} /\ \A g \in Written : reached[g] = "all"
    BY <2>1
  <2>3. source' = source
    BY <1>1 DEF Succeed
  <2>4. f \in Written \/ disk[f] = Text("all")
    BY <1>1, <2>2 DEF Succeed, Done, Written, Writing, Coded, Files
  <2> QED  BY <2>1, <2>2, <2>3, <2>4 DEF End, Text
<1>2. CASE LexOnly
  <2>1. lexOnly'
    BY <1>2 DEF LexOnly, Decided
  <2> QED  BY <2>1 DEF SuccessIsComplete
<1>3. CASE ~Succeed /\ ~LexOnly
  <2>1. status' # SUCCESS
    BY <1>3, Exits DEF Next, Start, MakeDirectory, LoadSource, Parse, BuildTable, CheckTypes, WriteTree, OpenGraph,
     GenerateCode, DrawGraph, WriteTable, WriteListing, WriteProgram, Kill, Refuse, Proceed, Fail, End
  <2> QED  BY <2>1 DEF SuccessIsComplete
<1> QED
  BY <1>1, <1>2, <1>3

\* The invariant holds from the start and is kept by every step.
LEMMA InvInit ==
  ASSUME Init
  PROVE  DriverInv
<1>1. TypeOK
  <2>1. disk \in [Files -> Contents] /\ streams \in [Files -> {"closed", "open", "written"}]
    BY DEF Init, NoStreams, Contents
  <2>2. runs \in 0 .. MaxRuns
    BY RunsAssumption DEF Init
  <2>3. pc \in Locations /\ status \in Codes
    BY CodesAre DEF Init, Locations
  <2>4. lexOnly \in BOOLEAN /\ directory \in BOOLEAN /\ source \in Sources
    BY DEF Init
  <2> QED  BY <2>1, <2>2, <2>3, <2>4 DEF Init, TypeOK
<1>2. Decided /\ Opened /\ Done
  BY DEF Init, Decided, Opened, Done, NoStreams, Writing, Coded, Typed
<1>3. ExitIsVerdict /\ SuccessIsComplete
  BY DEF Init, ExitIsVerdict, SuccessIsComplete
<1> QED
  BY <1>1, <1>2, <1>3 DEF DriverInv

LEMMA InvNext ==
  ASSUME DriverInv, [Next]_vars
  PROVE  DriverInv'
<1>1. CASE UNCHANGED vars
  <2>1. (TypeOK /\ Decided /\ Opened /\ Done)'
    BY <1>1 DEF vars, DriverInv, TypeOK, Decided, Opened, Done, Text
  <2>2. Due' = Due
    BY <1>1 DEF vars, Due
  <2>3. (ExitIsVerdict /\ SuccessIsComplete)'
    BY <1>1, <2>2 DEF vars, DriverInv, ExitIsVerdict, SuccessIsComplete, Text
  <2> QED  BY <2>1, <2>3 DEF DriverInv
<1>2. CASE Next
  <2>1. TypeOK' /\ Decided' /\ Opened' /\ Done'
    BY <1>2, TypeInductive, DecidedInductive, OpenedInductive, DoneInductive DEF DriverInv
  <2>2. CASE pc' # "idle"
    BY <2>1, <2>2 DEF DriverInv, ExitIsVerdict, SuccessIsComplete
  <2>3. CASE pc' = "idle"
    <3>1. SuccessIsComplete'
      BY <1>2, <2>3, CompleteInductive DEF DriverInv
    <3>2. ExitIsVerdict'
      BY <1>2, <2>3, VerdictInductive DEF DriverInv, ExitIsVerdict
    <3> QED  BY <2>1, <3>1, <3>2 DEF DriverInv
  <2> QED  BY <2>2, <2>3
<1> QED
  BY <1>1, <1>2

\* Only the end of a compile in its last locations, and the steps of those, touch
\* the program, the listing and the drawing of the table.
LEMMA ProgramStep ==
  ASSUME DriverInv, Next
  PROVE  \A f \in {"st.dot", "bytecode.txt", "prog.bc"} :
           disk'[f] # disk[f] => Accepted /\ ~lexOnly
<1> SUFFICES ASSUME NEW f \in {"st.dot", "bytecode.txt", "prog.bc"}, disk'[f] # disk[f]
             PROVE  Accepted /\ ~lexOnly
  OBVIOUS
<1>1. f \in Files /\ f # "tree.dot" /\ f # "cfg.dot"
  BY DEF Files
<1>2. CASE pc \in Writing
  BY <1>2, SourcesAssumption DEF DriverInv, Decided, Accepted, Typed, Coded, TypeOK, Phases, Writing
<1>3. CASE pc \notin Writing
  <2>1. Written = {}
    BY <1>3, NothingWritten DEF DriverInv
  <2>2. ASSUME NEW code, NEW what, NEW phase, Return(code) \/ Die(code) \/ Fail(what, code) \/ Refuse(phase, code)
        PROVE  disk' = disk
    BY <2>1, <2>2, QuietEnd DEF DriverInv, Return, Die, Fail, Refuse
  <2>3. ASSUME NEW l, Proceed(l)  PROVE disk' = disk
    BY <2>3 DEF Proceed
  <2>4. disk'[f] = disk[f]
    BY <1>1, <1>3, <2>2, <2>3 DEF DriverInv, TypeOK, Next, Start, MakeDirectory, LoadSource, LexOnly, Parse, BuildTable,
       CheckTypes, WriteTree, OpenGraph, GenerateCode, DrawGraph, WriteTable, WriteListing, WriteProgram, Writing,
       Succeed, Kill
  <2> QED  BY <2>4
<1> QED
  BY <1>2, <1>3

-----------------------------------------------------------------------------
(***************************************************************************)
(* The theorems.                                                           *)
(***************************************************************************)
THEOREM DriverInvariant == Spec => []DriverInv
<1>1. Init => DriverInv
  BY InvInit
<1>2. DriverInv /\ [Next]_vars => DriverInv'
  BY InvNext
<1> QED
  BY <1>1, <1>2, PTL DEF Spec

\* The type invariant of the driver, for all sources.
THEOREM TypeCorrect == Spec => []TypeOK
<1>1. DriverInv => TypeOK
  BY DEF DriverInv
<1> QED
  BY <1>1, DriverInvariant, PTL

\* A reason was reported exactly when the exit status is not SUCCESS, whatever the
\* environment refuses; and the status is the one due to the source unless the
\* environment refused what main depends on: for all sources.
THEOREM ExitStatus == Spec => []ExitIsVerdict
<1>1. DriverInv => ExitIsVerdict
  BY DEF DriverInv
<1> QED
  BY <1>1, DriverInvariant, PTL

\* A compile that exits with SUCCESS and met no fault has left five complete files of
\* its own source, whatever was in them before.
THEOREM Completeness == Spec => []SuccessIsComplete
<1>1. DriverInv => SuccessIsComplete
  BY DEF DriverInv
<1> QED
  BY <1>1, DriverInvariant, PTL

\* The program of a compile stays until another source is accepted: no refusal, no
\* exception, no missing file and no signal before that touches it.
THEOREM ProgramKept == Spec => RefusedLeavesProgram
<1>1. DriverInv /\ [Next]_vars =>
        [\A f \in {"st.dot", "bytecode.txt", "prog.bc"} :
           disk'[f] # disk[f] => Accepted /\ ~lexOnly]_vars
  BY ProgramStep
<1> QED
  BY <1>1, DriverInvariant, PTL DEF Spec, RefusedLeavesProgram
=============================================================================

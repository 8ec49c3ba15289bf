------------------------------- MODULE Driver -------------------------------
(***************************************************************************)
(* The compiler's main function (src/src/main.cpp), run again and again in *)
(* one directory: which phases of a compile run, how it exits, and what    *)
(* it leaves in the five files of the output directory when a phase        *)
(* refuses the source, a file cannot be opened or written, an exception    *)
(* leaves main, or the process is killed.                                  *)
(*                                                                         *)
(* A source is known by what the phases have to say of it: whether the     *)
(* lexer meets invalid tokens in all of it ("invalid") and in the part     *)
(* that the parser reads ("met"), and which phase refuses it ("refused").  *)
(***************************************************************************)
EXTENDS Naturals

CONSTANTS
  Sources,   \* the sources compiled
  MaxRuns    \* how many compiles a session has

\* "number" is an integer literal for which std::stoi throws out of the parser.
Phases == {"syntax", "table", "types", "code", "number"}

\* A parser that comes to the end has read all of the source.
ASSUME SourcesAssumption ==
  \A s \in Sources :
    /\ s.invalid \in BOOLEAN /\ s.met \in BOOLEAN
    /\ s.met => s.invalid
    /\ s.refused \in Phases \cup {"none"}
    /\ s.refused \notin {"syntax", "number"} => s.met = s.invalid
    /\ \A t \in Sources : s.name = t.name => s = t
ASSUME RunsAssumption == MaxRuns \in Nat

SUCCESS == 0
FAILURE == 1          \* of the environment; shares its value with LEXICAL_ERROR
LEXICAL_ERROR == 1
SYNTAX_ERROR == 2
SEMANTIC_ERROR == 4
ABORTED == 134
KILLED == 137

Files == {"tree.dot", "cfg.dot", "st.dot", "bytecode.txt", "prog.bc"}
Sizes == {"none", "part", "all"}

VARIABLES
  pc,         \* where main is; "idle" between two compiles
  source,     \* what is compiled
  lexOnly,    \* whether --lex was given
  directory,  \* whether the output directory exists
  disk,       \* for each output file, whose text it has and how much of it
  streams,    \* "closed", "open", or "written" when text may still be buffered
  said,       \* the phases that printed a message in this compile
  status,     \* the exit status of the last compile
  faults,     \* what the environment refused in this compile
  runs        \* the compiles started

inputs == <<source, lexOnly, runs>>
vars == <<pc, source, lexOnly, directory, disk, streams, said, status, faults, runs>>

Locations ==
  {"idle", "directory", "load", "lex", "parse", "table", "types", "tree", "graph", "code",
   "draw", "st", "listing", "program", "return"}

Absent == [of |-> "nobody", size |-> "none"]
Text(size) == [of |-> source.name, size |-> size]
NoStreams == [f \in Files |-> "closed"]

Init ==
  /\ pc = "idle" /\ source \in Sources /\ lexOnly = FALSE
  /\ directory = FALSE
  /\ disk = [f \in Files |-> Absent]
  /\ streams = NoStreams
  /\ said = {} /\ status = SUCCESS /\ faults = {} /\ runs = 0

-----------------------------------------------------------------------------
(***************************************************************************)
(* Leaving main.                                                           *)
(***************************************************************************)
Written == {f \in Files : streams[f] = "written"}

\* The process ends; so much of what was written to a stream is in its file.
End(code, reached) ==
  /\ pc' = "idle"
  /\ status' = code
  /\ streams' = NoStreams
  /\ disk' = [f \in Files |-> IF f \in Written THEN Text(reached[f]) ELSE disk[f]]

\* A slip: main is left without its destructors, as exit leaves it.
ReturnAtOnce(code) ==
  /\ \E reached \in [Written -> Sizes] : End(code, reached)
  /\ UNCHANGED faults

\* A return: the destructors of the streams write what is left in their buffers.
\* Nobody asks whether they could.
Return(code) ==
  \E reached \in [Written -> Sizes] :
    /\ End(code, reached)
    /\ faults' = faults \cup {f \in Written : reached[f] # "all"}

\* An exception that nobody catches, or a signal: what is in the buffers is lost.
Die(code) ==
  /\ \E reached \in [Written -> Sizes] : End(code, reached)
  /\ UNCHANGED faults

\* The environment refuses something main depends on.
Fail(what, code) ==
  /\ End(code, NoStreams)
  /\ said' = said \cup {"environment"}
  /\ faults' = faults \cup {what}

Refuse(phase, code) == said' = said \cup {phase} /\ Return(code)

Proceed(location) == pc' = location /\ UNCHANGED <<disk, streams, said, status, faults>>

-----------------------------------------------------------------------------
(***************************************************************************)
(* The steps of main.                                                      *)
(***************************************************************************)
\* A slip: one compile more than there are.
StartOneMore ==
  /\ pc = "idle" /\ runs <= MaxRuns
  /\ pc' = "directory"
  /\ source' \in Sources /\ lexOnly' \in BOOLEAN
  /\ said' = {} /\ faults' = {} /\ runs' = runs + 1
  /\ UNCHANGED <<directory, disk, streams, status>>

Start ==
  /\ pc = "idle" /\ runs < MaxRuns
  /\ pc' = "directory"
  /\ source' \in Sources /\ lexOnly' \in BOOLEAN
  /\ said' = {} /\ faults' = {} /\ runs' = runs + 1
  /\ UNCHANGED <<directory, disk, streams, status>>

\* The output directory is made even for a compile that writes nothing.  When that is
\* refused, create_directory throws and nobody catches it; it returns false, which
\* main takes for a failure, when another process has made the directory just now.
MakeDirectory ==
  /\ pc = "directory"
  /\ \/ directory' = TRUE /\ Proceed("load")
     \/ ~directory /\ directory' = FALSE /\ Fail("output", ABORTED)
     \/ ~directory /\ directory' = TRUE /\ Fail("output", FAILURE)
  /\ UNCHANGED inputs

LoadSource ==
  /\ pc = "load"
  /\ \/ Proceed(IF lexOnly THEN "lex" ELSE "parse")
     \/ Fail("source", FAILURE)
  /\ UNCHANGED <<inputs, directory>>

LexOnly ==
  /\ pc = "lex"
  /\ \/ source.invalid /\ Refuse("lexical", LEXICAL_ERROR)
     \/ ~source.invalid /\ Return(SUCCESS) /\ UNCHANGED said
  /\ UNCHANGED <<inputs, directory>>

\* A slip: the invalid tokens are asked for first, and decide the exit status.
ParseLexicalFirst ==
  /\ pc = "parse"
  /\ \/ source.refused = "number" /\ said' = said \cup {"number"} /\ Die(ABORTED)
     \/ /\ source.refused # "number"
        /\ IF source.met THEN Refuse("lexical", LEXICAL_ERROR)
           ELSE IF source.refused = "syntax" THEN Refuse("syntax", SYNTAX_ERROR)
           ELSE Proceed("table")
  /\ UNCHANGED <<inputs, directory>>

\* A syntax error is printed only if no invalid token was met before, but it
\* decides the exit status in either case.  The node of an integer literal converts
\* its text with std::stoi, and nobody catches what that throws.
Parse ==
  /\ pc = "parse"
  /\ \/ source.refused = "syntax" /\ Refuse(IF source.met THEN "lexical" ELSE "syntax", SYNTAX_ERROR)
     \/ source.refused = "number" /\ said' = said \cup {"number"} /\ Die(ABORTED)
     \/ /\ source.refused \notin {"syntax", "number"}
        /\ IF source.met THEN Refuse("lexical", LEXICAL_ERROR) ELSE Proceed("table")
  /\ UNCHANGED <<inputs, directory>>

BuildTable ==
  /\ pc = "table"
  /\ \/ source.refused = "table" /\ Refuse("table", SEMANTIC_ERROR)
     \/ source.refused # "table" /\ Proceed("types")
  /\ UNCHANGED <<inputs, directory>>

\* A slip: what the type checker refuses is reported, and compiled.
CheckTypesGoingOn ==
  /\ pc = "types" /\ pc' = "tree"
  /\ said' = said \cup (IF source.refused = "types" THEN {"types"} ELSE {})
  /\ UNCHANGED <<inputs, directory, disk, streams, status, faults>>

CheckTypes ==
  /\ pc = "types"
  /\ \/ source.refused = "types" /\ Refuse("types", SEMANTIC_ERROR)
     \/ source.refused # "types" /\ Proceed("tree")
  /\ UNCHANGED <<inputs, directory>>

\* generateGraphviz writes the syntax tree and closes its file.
WriteTree ==
  /\ pc = "tree"
  /\ pc' = "graph"
  /\ \/ /\ disk' = disk
        /\ faults' = faults \cup {"tree.dot"}
     \/ \E size \in Sizes :
          /\ disk' = [disk EXCEPT !["tree.dot"] = Text(size)]
          /\ faults' = faults \cup (IF size = "all" THEN {} ELSE {"tree.dot"})
  /\ UNCHANGED <<inputs, directory, streams, said, status>>

\* The one file that must be open; it is filled after the code is generated.
OpenGraph ==
  /\ pc = "graph"
  /\ \/ Fail("cfg.dot", FAILURE)
     \/ /\ pc' = "code"
        /\ disk' = [disk EXCEPT !["cfg.dot"] = Text("none")]
        /\ streams' = [streams EXCEPT !["cfg.dot"] = "open"]
        /\ UNCHANGED <<said, status, faults>>
  /\ UNCHANGED <<inputs, directory>>

GenerateCode ==
  /\ pc = "code"
  /\ \/ source.refused = "code" /\ Refuse("code", SEMANTIC_ERROR)
     \/ source.refused # "code" /\ Proceed("draw")
  /\ UNCHANGED <<inputs, directory>>

\* The passes run, and the graph they leave is written.
DrawGraph ==
  /\ pc = "draw"
  /\ pc' = "st"
  /\ streams' = [streams EXCEPT !["cfg.dot"] = "written"]
  /\ UNCHANGED <<inputs, directory, disk, said, status, faults>>

\* A file is opened, emptied and written to, if it can be opened.
Write(file) ==
  /\ \/ /\ disk' = [disk EXCEPT ![file] = Text("none")]
        /\ streams' = [streams EXCEPT ![file] = "written"]
        /\ faults' = faults
     \/ /\ faults' = faults \cup {file}
        /\ UNCHANGED <<disk, streams>>
  /\ UNCHANGED <<inputs, directory, said, status>>

WriteTable   == pc = "st"      /\ pc' = "listing" /\ Write("st.dot")
WriteListing == pc = "listing" /\ pc' = "program" /\ Write("bytecode.txt")
WriteProgram == pc = "program" /\ pc' = "return"  /\ Write("prog.bc")

Succeed ==
  /\ pc = "return"
  /\ Return(SUCCESS)
  /\ UNCHANGED <<inputs, directory, said>>

Kill ==
  /\ pc # "idle"
  /\ Die(KILLED)
  /\ UNCHANGED <<inputs, directory, said>>

Next ==
  \/ Start \/ MakeDirectory \/ LoadSource \/ LexOnly \/ Parse \/ BuildTable \/ CheckTypes
  \/ WriteTree \/ OpenGraph \/ GenerateCode \/ DrawGraph
  \/ WriteTable \/ WriteListing \/ WriteProgram \/ Succeed \/ Kill

Spec == Init /\ [][Next]_vars

-----------------------------------------------------------------------------
(***************************************************************************)
(* What main promises.                                                     *)
(***************************************************************************)
Contents == {Absent} \cup [of : {s.name : s \in Sources}, size : Sizes]

Codes == {SUCCESS, LEXICAL_ERROR, SYNTAX_ERROR, SEMANTIC_ERROR, ABORTED, KILLED}

\* Every variable has its type.
TypeOK ==
  /\ pc \in Locations
  /\ source \in Sources /\ lexOnly \in BOOLEAN /\ directory \in BOOLEAN
  /\ disk \in [Files -> Contents]
  /\ streams \in [Files -> {"closed", "open", "written"}]
  /\ said \subseteq Phases \cup {"lexical", "environment"}
  /\ status \in Codes
  /\ faults \subseteq Files \cup {"output", "source"}
  /\ runs \in 0 .. MaxRuns

\* Nothing is wrong with the source, as far as this compile looks at it.
Accepted == IF lexOnly THEN ~source.invalid ELSE ~source.met /\ source.refused = "none"

\* The status that is due to a source: a syntax error goes before the invalid tokens
\* met on the way to it, and these before what the later phases have to say.
Due ==
  IF lexOnly THEN IF source.invalid THEN LEXICAL_ERROR ELSE SUCCESS
  ELSE IF source.refused = "syntax" THEN SYNTAX_ERROR
  ELSE IF source.refused = "number" THEN ABORTED
  ELSE IF source.met THEN LEXICAL_ERROR
  ELSE IF source.refused = "none" THEN SUCCESS ELSE SEMANTIC_ERROR

\* A compile that ends by itself reports a reason exactly when it does not exit
\* with SUCCESS, whatever it could not write; and unless the environment refused
\* what main depends on, it exits with the status that is due to its source.
ExitIsVerdict ==
  pc = "idle" /\ runs > 0 /\ status # KILLED =>
    /\ said # {} <=> status # SUCCESS
    /\ "environment" \notin said => status = Due

\* A compile that returned SUCCESS, and met no fault, has left all five files
\* complete, and all of them of this source.
SuccessIsComplete ==
  pc = "idle" /\ runs > 0 /\ status = SUCCESS /\ faults = {} /\ ~lexOnly =>
    \A f \in Files : disk[f] = Text("all")

\* The program, the listing and the drawing of the table change only in a compile of
\* a source with which nothing is wrong: one that is refused, or aborted, or ends
\* early for another reason, leaves those of the compile before.
RefusedLeavesProgram ==
  [][\A f \in {"st.dot", "bytecode.txt", "prog.bc"} :
       disk'[f] # disk[f] => Accepted /\ ~lexOnly]_vars
=============================================================================

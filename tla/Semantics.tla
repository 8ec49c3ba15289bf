----------------------------- MODULE Semantics ------------------------------
(***************************************************************************)
(* The passes that share the symbol table, in the order src/main.cpp runs  *)
(* them: "declare" (SymbolTableVisitor) fills it, "check"                  *)
(* (TypeCheckVisitor) resolves names in it, "generate"                     *)
(* (IRGenerationVisitor) adds temporaries to it and "emit"                 *)
(* (CFG::generateBytecode) reads each method's variables from it.  The     *)
(* first two gate the rest.  A program is a sequence of classes, the main  *)
(* class first; bodies are reduced to what matters for names: the local    *)
(* declarations and the statements that use an identifier.                 *)
(***************************************************************************)
EXTENDS Scopes, FiniteSets

CONSTANTS
  Builtin,   \* the types that are no classes
  Programs   \* the programs to compile

VARIABLES
  program,   \* the program, never changed
  phase,     \* the pass that runs, or how the compilation ended
  agenda,    \* the visitor's call stack: the nodes left to visit
  table,     \* the symbol table
  errors,    \* the diagnostics: why, and at which line
  nextTemp,  \* CFG::temporaryIndex
  roots,     \* CFG::methodRoots, as class and method
  emitted    \* the methods handed to the bytecode program, in order

vars == <<program, phase, agenda, table, errors, nextTemp, roots, emitted>>

This     == <<"this">>
Main     == <<"main">>
Strings  == <<"String[]">>
Temp(n)  == <<"_t", n>>

Passes == <<"declare", "check", "generate", "emit", "done">>

(***************************************************************************)
(* What the parser hands over: a main class whose body only uses names,    *)
(* and classes of fields and methods.  A name is what the lexer takes for  *)
(* an identifier: it starts with a letter, and "this" is a keyword.        *)
(***************************************************************************)
IsSequence(s) == s \in Seq(ToSet(s))

IsName(id) == id # This /\ id[1] # "_t"

AreNamed(nodes) == IsSequence(nodes) /\ \A i \in DOMAIN nodes : IsName(nodes[i].id)

IsMethod(m) ==
  /\ AreNamed(m.params) /\ AreNamed(m.items)
  /\ \A i \in DOMAIN m.items : m.items[i].kind \in {"variable", "use"}

ASSUME ProgramAssumption ==
  \A p \in Programs :
    /\ IsSequence(p) /\ p # <<>>
    /\ IsSequence(p[1].items) /\ IsName(p[1].arg)
    /\ \A i \in DOMAIN p[1].items : p[1].items[i].kind = "use"
    /\ \A i \in 2 .. Len(p) :
         /\ AreNamed(p[i].fields) /\ IsSequence(p[i].methods)
         /\ \A k \in DOMAIN p[i].methods : IsMethod(p[i].methods[k])

-----------------------------------------------------------------------------
Task(kind, node)   == [kind |-> kind, node |-> node]
Tasks(kind, nodes) == [i \in DOMAIN nodes |-> Task(kind, nodes[i])]
Leave == Task("leave", <<>>)        \* the destructor of a ScopeExit

\* The items of a body are local declarations and uses.
OfKind(kind, items) ==
  FlattenSeq([i \in DOMAIN items |-> IF items[i].kind = kind THEN <<items[i]>> ELSE <<>>])
Items(items) == [i \in DOMAIN items |-> Task(items[i].kind, items[i])]

Classes(p)  == [i \in DOMAIN p |-> Task(IF i = 1 THEN "main" ELSE "class", p[i])]

node == Head(agenda).node

Doing(pass, kind) == phase = pass /\ agenda # <<>> /\ Head(agenda).kind = kind

Proceed(tasks) == agenda' = tasks \o Tail(agenda)

\* A slip: the guard that leaves the scope is there before the early return.
RefuseLeaving(why) ==
  /\ errors' = errors \cup {[why |-> why, line |-> node.line]}
  /\ Proceed(<<>>)
  /\ table' = Exit(table)

\* emit_error, and the visit ends.
Refuse(why) ==
  /\ errors' = errors \cup {[why |-> why, line |-> node.line]}
  /\ Proceed(<<>>)
  /\ UNCHANGED table

Enters(newTable, tasks) ==
  /\ table' = newTable
  /\ Proceed(tasks)
  /\ UNCHANGED errors

Semantic == UNCHANGED <<program, phase, nextTemp, roots, emitted>>

-----------------------------------------------------------------------------
Init ==
  /\ program \in Programs
  /\ phase = "declare"
  /\ agenda = Classes(program)
  /\ table = EmptyTable
  /\ errors = {}
  /\ nextTemp = 0
  /\ roots = <<>>
  /\ emitted = <<>>

LeaveScope ==
  /\ phase \in {"declare", "check", "generate"}
  /\ agenda # <<>> /\ Head(agenda).kind = "leave"
  /\ Enters(Exit(table), <<>>)
  /\ Semantic

-----------------------------------------------------------------------------
(***************************************************************************)
(* Declarations.                                                           *)
(***************************************************************************)
\* A new class, its scope and its variable "this".
OpenClass(id) ==
  LET added  == AddClass(table, id)
      class  == Lookup(added, "classes", id)
      inside == AddVariable(EnterClass(added, id, class), id, This)
  IN  AddToRecord(inside, class, "variables", This)

\* A new method of the current class, seen from the scope of the class.
NewMethod(t, type, id) ==
  AddToRecord(AddMethod(t, type, id), Current(t).record, "methods", id)

OpenMethod(t, type, id) ==
  LET added == NewMethod(t, type, id) IN
  EnterMethod(added, id, Lookup(added, "methods", id))

DeclareClass ==
  /\ Doing("declare", "class")
  /\ \/ /\ Found(table, "classes", node.id)
        /\ Refuse("duplicate")
     \/ /\ ~Found(table, "classes", node.id)
        /\ Enters(OpenClass(node.id),
                  Tasks("variable", node.fields) \o Tasks("method", node.methods)
                    \o <<Leave>>)
  /\ Semantic

\* The scope of main is left before the body, which declares nothing.  The main
\* class is the first that is visited (Parser::parse_goal): it is no duplicate.
DeclareMain ==
  /\ Doing("declare", "main")
  /\ Enters(Exit(AddVariable(OpenMethod(OpenClass(node.id), <<"void">>, Main),
                             Strings, node.arg)),
            <<Leave>>)
  /\ Semantic

DeclareMethod ==
  /\ Doing("declare", "method")
  /\ LET known == node.id \in DOMAIN Record(table, Current(table).record).methods IN
     \/ /\ known
        /\ Refuse("duplicate")
     \/ /\ ~known
        /\ Enters(OpenMethod(table, node.type, node.id),
                  Tasks("parameter", node.params)
                    \o Items(OfKind("variable", node.items)) \o <<Leave>>)
  /\ Semantic

DeclareParameter ==
  /\ Doing("declare", "parameter")
  /\ \/ /\ InScope(table, "variables", node.id)
        /\ Refuse("duplicate")
     \/ /\ ~InScope(table, "variables", node.id)
        /\ Enters(AddParameter(AddVariable(table, node.type, node.id),
                               Current(table).record, node.id), <<>>)
  /\ Semantic

\* A slip: a name of an enclosing scope cannot be declared again.
TakenAnywhere(id) == Found(table, "variables", id)

Taken(id) == InScope(table, "variables", id)

\* A field or a local variable.
DeclareVariable ==
  /\ Doing("declare", "variable")
  /\ \/ /\ Taken(node.id)
        /\ Refuse("duplicate")
     \/ /\ ~Taken(node.id)
        /\ Enters(AddToRecord(AddVariable(table, node.type, node.id),
                              Current(table).record, "variables", node.id), <<>>)
  /\ Semantic

-----------------------------------------------------------------------------
(***************************************************************************)
(* Checks: scopes are entered again, by name and without a record.         *)
(***************************************************************************)
CheckClass ==
  /\ Doing("check", "class")
  /\ Enters(EnterClass(table, node.id, NoRef),
            Tasks("variable", node.fields) \o Tasks("method", node.methods) \o <<Leave>>)
  /\ Semantic

\* A slip: the scope of main is looked for outside its class.
MainScopeAtRoot(id) == EnterMethod(EnterMethod(table, Main, NoRef), Main, NoRef)

MainScope(id) == EnterMethod(EnterClass(table, id, NoRef), Main, NoRef)

CheckMain ==
  /\ Doing("check", "main")
  /\ Enters(MainScope(node.id), Items(node.items) \o <<Leave, Leave>>)
  /\ Semantic

CheckMethod ==
  /\ Doing("check", "method")
  /\ Enters(EnterMethod(table, node.id, NoRef), Items(node.items) \o <<Leave>>)
  /\ Semantic

\* The type of a field or a local is known (that of a parameter is not checked).
CheckVariable ==
  /\ Doing("check", "variable")
  /\ LET known == node.type \in Builtin \/ Found(table, "classes", node.type) IN
     \/ /\ known
        /\ Enters(table, <<>>)
     \/ /\ ~known
        /\ Refuse("unknown type")
  /\ Semantic

\* A slip: a name that is not declared is no reason to refuse.
ResolvesToAnything(id) == TRUE

\* An identifier is a variable, or else a class, or else a method.
Resolves(id) == \E kind \in {"variables", "classes", "methods"} : Found(table, kind, id)

CheckUse ==
  /\ Doing("check", "use")
  /\ \/ /\ Resolves(node.id)
        /\ Enters(table, <<>>)
     \/ /\ ~Resolves(node.id)
        /\ Refuse("undeclared")
  /\ Semantic

-----------------------------------------------------------------------------
(***************************************************************************)
(* Generation: each use stands for an expression that takes a temporary.   *)
(***************************************************************************)
GenerateClass ==
  /\ Doing("generate", "class")
  /\ Enters(EnterClass(table, node.id, Lookup(table, "classes", node.id)),
            Tasks("method", node.methods) \o <<Leave>>)
  /\ Semantic

GenerateMain ==
  /\ Doing("generate", "main")
  /\ Enters(MainScope(node.id), Items(node.items) \o <<Leave, Leave>>)
  /\ roots' = Append(roots, <<node.id, Main>>)
  /\ UNCHANGED <<program, phase, nextTemp, emitted>>

GenerateMethod ==
  /\ Doing("generate", "method")
  /\ Enters(EnterMethod(table, node.id, Lookup(table, "methods", node.id)),
            Items(OfKind("use", node.items)) \o <<Leave>>)
  /\ roots' = Append(roots, <<Current(table).record.id, node.id>>)
  /\ UNCHANGED <<program, phase, nextTemp, emitted>>

GenerateUse ==
  /\ Doing("generate", "use")
  /\ Enters(AddVariable(table, <<"int">>, Temp(nextTemp)), <<>>)
  /\ nextTemp' = nextTemp + 1
  /\ UNCHANGED <<program, phase, roots, emitted>>

-----------------------------------------------------------------------------
\* What the bytecode program is told of a method whose scope is at path.
MethodTables(t, path) ==
  LET method == Record(t, t.scopes[path].record) IN
  [locals     |-> DOMAIN t.scopes[path].variables,
   fields     |-> DOMAIN t.scopes[Parent(path)].variables,
   parameters |-> [i \in DOMAIN method.parameters |-> method.parameters[i].id]]

EmitMethod ==
  /\ Doing("emit", "root")
  /\ LET resolved == ResolveScope(table, node[1], node[2]) IN
     /\ Enters(resolved.table, <<>>)
     /\ emitted' = Append(emitted, MethodTables(resolved.table, resolved.scope))
  /\ UNCHANGED <<program, phase, nextTemp, roots>>

-----------------------------------------------------------------------------
\* Every visitor starts from the root of the table; the code generator takes
\* the table as it is.
Starts(pass) ==
  /\ phase' = pass
  /\ agenda' = CASE pass = "done" -> <<>>
                 [] pass = "emit" -> Tasks("root", roots)
                 [] OTHER         -> Classes(program)
  /\ table' = IF pass \in {"emit", "done"} THEN table ELSE ToRoot(table)

NextPass ==
  /\ agenda = <<>> /\ errors = {}
  /\ \E i \in 1 .. Len(Passes) - 1 : phase = Passes[i] /\ Starts(Passes[i + 1])
  /\ UNCHANGED <<program, errors, nextTemp, roots, emitted>>

Reject ==
  /\ agenda = <<>> /\ errors # {} /\ phase \in {"declare", "check"}
  /\ phase' = "rejected"
  /\ UNCHANGED <<program, agenda, table, errors, nextTemp, roots, emitted>>

Ended == phase \in {"done", "rejected"} /\ UNCHANGED vars

Declare  == DeclareClass \/ DeclareMain \/ DeclareMethod \/ DeclareParameter \/ DeclareVariable
Check    == CheckClass \/ CheckMain \/ CheckMethod \/ CheckVariable \/ CheckUse
Generate == GenerateClass \/ GenerateMain \/ GenerateMethod \/ GenerateUse

Next == Declare \/ Check \/ Generate \/ EmitMethod \/ LeaveScope \/ NextPass \/ Reject \/ Ended

Spec == Init /\ [][Next]_vars
=============================================================================

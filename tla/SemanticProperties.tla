------------------------- MODULE SemanticProperties -------------------------
(***************************************************************************)
(* What the semantic passes owe a program, stated from its text.           *)
(***************************************************************************)
EXTENDS Semantics

ClassNodes  == ToSet(Tail(program))
Ids(nodes)  == {nodes[i].id : i \in DOMAIN nodes}
Locals(m)   == m.params \o OfKind("variable", m.items)
Uses(m)     == ToSet(OfKind("use", m.items))
IsTemp(id)  == id[1] = "_t"

ClassPath(c)     == <<<<"Class", c.id>>>>
MethodPath(c, m) == Append(ClassPath(c), <<"Method", m.id>>)

MainPath == <<<<"Class", program[1].id>>, <<"Method", Main>>>>

TypeOK ==
  /\ program \in Programs
  /\ phase \in ToSet(Passes) \cup {"rejected"}
  /\ table.current \in DOMAIN table.scopes
  /\ \A t \in ToSet(agenda) :
       t.kind \in {"main", "class", "method", "parameter", "variable", "use", "leave", "root"}
  /\ \A path \in DOMAIN table.scopes \ {Root} :
       LET ref == table.scopes[path].record IN
       /\ ref.kind = (IF Len(path) = 1 THEN "classes" ELSE "methods")
       /\ ref.path = Parent(path)
       /\ ref.id \in DOMAIN table.scopes[ref.path][ref.kind]
  /\ nextTemp \in Nat
  /\ Len(emitted) <= Len(roots)

\* As many scopes are open as will be left, whatever was refused on the way:
\* every pass starts and ends in the root (the ScopeExit guards, and the
\* early returns that come before them).
ScopesBalanced ==
  Len(table.current) = Cardinality({i \in DOMAIN agenda : agenda[i].kind = "leave"})

-----------------------------------------------------------------------------
\* The lines that declare a name their scope has already.
Repeats(nodes) ==
  {nodes[i].line : i \in {k \in DOMAIN nodes : \E j \in 1 .. k - 1 : nodes[j].id = nodes[k].id}}

DuplicateLines ==
  Repeats(program)
    \cup (UNION {Repeats(c.fields) \cup Repeats(c.methods) : c \in ClassNodes})
    \cup UNION {Repeats(Locals(m)) : m \in UNION {ToSet(c.methods) : c \in ClassNodes}}

LinesRefused(why) == {e.line : e \in {x \in errors : x.why = why}}

\* A program is refused for a duplicate if and only if it has one: classes,
\* methods of a class, fields of a class, parameters and locals of a method;
\* the same name in another scope is none (the look-ups of SymbolTableVisitor,
\* src/test_files/valid/SemanticDuplicateIdentifiersSeparateScope.java).
DuplicatesRejected ==
  phase # "declare" => (DuplicateLines = {} <=> LinesRefused("duplicate") = {})

\* The names a scope was declared with.
Written(path) ==
  [id \in {n \in DOMAIN table.scopes[path].variables : ~IsTemp(n)} |->
     table.scopes[path].variables[id]]

Types(nodes) ==
  [id \in Ids(nodes) |-> (CHOOSE n \in ToSet(nodes) : n.id = id).type]

\* Once the declarations are accepted the table is the tree that the program
\* spells out, types and parameter order included, and it stays so: entering
\* scopes again by name makes no new ones, and temporaries hide no name.
TableIsProgram ==
  phase # "declare" /\ LinesRefused("duplicate") = {} =>
    /\ DOMAIN table.scopes =
         {Root, Parent(MainPath), MainPath} \cup {ClassPath(c) : c \in ClassNodes}
           \cup UNION {{MethodPath(c, m) : m \in ToSet(c.methods)} : c \in ClassNodes}
    /\ Written(MainPath) = [id \in {program[1].arg} |-> Strings]
    /\ \A c \in ClassNodes :
         /\ Written(ClassPath(c)) = Emplace(Types(c.fields), This, c.id)
         /\ \A m \in ToSet(c.methods) :
              LET record == table.scopes[ClassPath(c)].methods[m.id] IN
              /\ Written(MethodPath(c, m)) = Types(Locals(m))
              /\ record.type = m.type
              /\ record.parameters =
                   [i \in DOMAIN m.params |->
                      [path |-> MethodPath(c, m), kind |-> "variables", id |-> m.params[i].id]]

-----------------------------------------------------------------------------
Emitted(c, m) == emitted[CHOOSE k \in DOMAIN roots : roots[k] = <<c.id, m.id>>]

\* The bytecode of a method lists its parameters in order, its own locals, as
\* many temporaries as its body takes, and the fields of its class; nothing of
\* another method (SymbolTable::resolveScope, CFG::generateBytecode).
EmittedAsDeclared ==
  phase = "done" =>
    /\ Len(emitted) = Len(roots)
    /\ \A c \in ClassNodes : \A m \in ToSet(c.methods) :
         LET e == Emitted(c, m) IN
         /\ e.parameters = [i \in DOMAIN m.params |-> m.params[i].id]
         /\ {id \in e.locals : ~IsTemp(id)} = Ids(Locals(m))
         /\ Cardinality({id \in e.locals : IsTemp(id)}) = Len(OfKind("use", m.items))
         /\ e.fields = Ids(c.fields) \cup {This}
    /\ \A j, k \in DOMAIN emitted : j # k =>
         \A id \in emitted[j].locals \cap emitted[k].locals : ~IsTemp(id)

\* When an accepted program's tables are emitted, an identifier used in a method is
\* in the method's tables, where the machine finds it, or it is the name of a class
\* or of a method of its class: visit_identifier_node accepts those as well, and the
\* last throw of VM::getVariableValue is for them alone.
UsesReachVariables ==
  phase = "done" =>
    \A c \in ClassNodes : \A m \in ToSet(c.methods) : \A use \in Uses(m) :
      \/ use.id \in Emitted(c, m).locals \cup Emitted(c, m).fields
      \/ use.id \in Ids(program) \cup Ids(c.methods)

-----------------------------------------------------------------------------
(***************************************************************************)
(* What the annotations of the test programs say, and the compiler does    *)
(* not do.                                                                 *)
(***************************************************************************)
\* src/test_files/semantic_errors/DuplicateIdentifiers.java marks every line
\* that declares a name again, inside a class that is itself a duplicate too.
EveryDuplicateReported ==
  phase # "declare" => LinesRefused("duplicate") = DuplicateLines

\* A name is used before the local declaration that is its only one.
EarlyUses(c, m) ==
  {m.items[i].line : i \in {k \in DOMAIN m.items :
     /\ m.items[k].kind = "use"
     /\ m.items[k].id \notin Ids(m.params) \cup Ids(c.fields)
     /\ m.items[k].id \in Ids(OfKind("variable", m.items))
     /\ m.items[k].id \notin Ids(OfKind("variable", SubSeq(m.items, 1, k)))}}

\* src/test_files/semantic_errors/InvalidDefinitions.java expects an error at a
\* line that uses a local variable before its declaration.
EarlyUsesReported ==
  phase \notin {"declare", "check"} =>
    UNION {UNION {EarlyUses(c, m) : m \in ToSet(c.methods)} : c \in ClassNodes}
      \subseteq {e.line : e \in errors}
=============================================================================

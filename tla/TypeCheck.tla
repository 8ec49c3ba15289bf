----------------------------- MODULE TypeCheck ------------------------------
(***************************************************************************)
(* The type checker (src/src/semantic/TypeCheckVisitor.cpp), on the trees  *)
(* of the parser.  A visit of a node is a task; so is what the visit does  *)
(* once its operands are visited, and the destructor that leaves a scope.  *)
(* A visit ends with a result: a type, the error type if something in the  *)
(* node was refused, and the node as TypeInfo describes it to the code     *)
(* generator, which only asks for the types of receivers: a call takes the *)
(* class of the method it calls.  The symbol table is the one              *)
(* SymbolTableVisitor builds of a program it accepts (module               *)
(* SemanticProperties, TableIsProgram).                                    *)
(***************************************************************************)
EXTENDS Ast, Scopes

CONSTANT Programs    \* trees of the parser, without duplicate declarations

VARIABLES
  root,      \* the program, never changed
  agenda,    \* the visitor's call stack, the next task first
  results,   \* what finished visits returned to the visits that wait
  table,     \* the symbol table
  errors,    \* the messages: why, and for which node
  verdict    \* "checking", "accepted" or "rejected"

vars == <<root, agenda, results, table, errors, verdict>>

IntType     == <<"int">>
BooleanType == <<"boolean">>
ArrayType   == <<"int[]">>
VoidType    == <<"void">>
ErrorType   == <<"<type-error>">>
Main      == <<"main">>

Builtin == {IntType, BooleanType, ArrayType}

-----------------------------------------------------------------------------
(***************************************************************************)
(* The declarations of a program, and the table made of them.              *)
(***************************************************************************)
ClassList(program) == IF program.kind = "MainClass" THEN <<program>> ELSE program.kids

\* Whatever the body of a class is: both lists, one of them, or nothing.
MemberList(class) ==
  LET body == class.kids[2] IN
  IF body.kind = "ClassBody" THEN body.kids[1].kids \o body.kids[2].kids ELSE body.kids

MethodKinds == {"Method", "MethodWithoutParameters"}

NameOf(declaration) ==
  IF declaration.kind \in {"Class", "MainClass"} THEN declaration.kids[1].text
  ELSE declaration.kids[2].text
DeclaredType(declaration) == declaration.kids[1].text

OfKinds(kinds, nodes) == SelectSeq(nodes, LAMBDA n : n.kind \in kinds)
FieldList(class)      == OfKinds({"Variable"}, MemberList(class))
MethodList(class)     == OfKinds(MethodKinds, MemberList(class))
ParameterList(method) == IF method.kind = "Method" THEN method.kids[3].kids ELSE <<>>
Body(method)          == Last(method.kids)
LocalList(method) ==
  IF Body(method).kind = "ReturnOnlyBody" THEN <<>>
  ELSE LET items == OfKinds({"VariableDeclaration"}, Body(method).kids[1].kids) IN
       [i \in DOMAIN items |-> items[i].kids[1]]

TypesOf(declarations) ==
  [x \in {NameOf(declarations[i]) : i \in DOMAIN declarations} |->
     LET d == CHOOSE i \in DOMAIN declarations : NameOf(declarations[i]) = x IN
     DeclaredType(declarations[d])]

MethodRecords(class) ==
  IF class.kind = "MainClass" THEN [x \in {Main} |-> [type |-> VoidType, parameters |-> <<>>]]
  ELSE [x \in {NameOf(MethodList(class)[i]) : i \in DOMAIN MethodList(class)} |->
          LET i == CHOOSE i \in DOMAIN MethodList(class) : NameOf(MethodList(class)[i]) = x
              method == MethodList(class)[i] IN
          [type |-> DeclaredType(method),
           parameters |-> [k \in DOMAIN ParameterList(method) |->
                             DeclaredType(ParameterList(method)[k])]]]

ClassScope(class) ==
  [record |-> NoRef, classes |-> Nothing, methods |-> MethodRecords(class),
   variables |-> Emplace(IF class.kind = "MainClass" THEN Nothing ELSE TypesOf(FieldList(class)),
                         This, NameOf(class))]

MethodScope(variables) == [EmptyScope(NoRef) EXCEPT !.variables = variables]

\* The scope at a path: the root has the classes.
ScopeAt(program, path) ==
  LET classes == ClassList(program)
      class   == CHOOSE c \in ToSet(classes) : path # Root /\ NameOf(c) = path[1][2]
      method  == CHOOSE m \in ToSet(MethodList(class)) : NameOf(m) = path[2][2]
  IN  CASE Len(path) = 0 -> [EmptyScope(NoRef) EXCEPT
                               !.classes = [x \in {NameOf(classes[i]) : i \in DOMAIN classes} |-> x]]
        [] Len(path) = 1 -> ClassScope(class)
        [] Len(path) = 2 /\ class.kind = "MainClass" ->
             MethodScope([x \in {class.kids[2].text} |-> <<"String[]">>])
        [] Len(path) = 2 /\ class.kind # "MainClass" ->
             MethodScope(TypesOf(ParameterList(method) \o LocalList(method)))

Paths(program) ==
  {Root} \cup
  UNION {{<<<<"Class", NameOf(c)>>>>} \cup
         {<<<<"Class", NameOf(c)>>, <<"Method", m>>>> : m \in DOMAIN MethodRecords(c)} :
           c \in ToSet(ClassList(program))}

TableOf(program) ==
  [scopes |-> [path \in Paths(program) |-> ScopeAt(program, path)], current |-> Root]

-----------------------------------------------------------------------------
(***************************************************************************)
(* Tasks and results.                                                      *)
(***************************************************************************)
Task(do, n)   == [do |-> do, node |-> n]
Visits(nodes) == [i \in DOMAIN nodes |-> Task("visit", nodes[i])]
Leave         == Task("leave", Node("Scope", <<>>, 0, <<>>))

node == Head(agenda).node

Doing(do, kinds) ==
  verdict = "checking" /\ agenda # <<>> /\ Head(agenda).do = do /\ node.kind \in kinds

Result(type, n) == [type |-> type, node |-> n]

\* The results of the last n visits.
Operands(n) == SubSeq(results, Len(results) - n + 1, Len(results))
Types(rs)   == [i \in DOMAIN rs |-> rs[i].type]
Trees(rs)   == [i \in DOMAIN rs |-> rs[i].node]

\* A slip: a node around something refused is judged like any other.
NothingFails(rs) == FALSE

Fails(rs) == \E i \in DOMAIN rs : rs[i].type = ErrorType

Proceed(tasks) == agenda' = tasks \o Tail(agenda)

Descend(tasks) ==
  /\ Proceed(tasks)
  /\ UNCHANGED <<root, results, table, errors, verdict>>

\* The visit returns a result, taking those of its n operands, having sent
\* these messages.
Deliver(n, result, whys) ==
  /\ Proceed(<<>>)
  /\ results' = Append(SubSeq(results, 1, Len(results) - n), result)
  /\ errors' = errors \o [i \in DOMAIN whys |-> [why |-> whys[i], node |-> node]]
  /\ UNCHANGED <<root, table, verdict>>

\* What most visits do once they have the types of their operands: an operand
\* that was refused makes for no further message.
Judge(n, good(_), type, tree, why) ==
  LET rs == Operands(n) IN
  \/ Fails(rs) /\ Deliver(n, Result(ErrorType, tree), <<>>)
  \/ ~Fails(rs) /\ good(Types(rs)) /\ Deliver(n, Result(type, tree), <<>>)
  \/ ~Fails(rs) /\ ~good(Types(rs)) /\ Deliver(n, Result(ErrorType, tree), <<why>>)

Operation(kinds, n, good(_), type) ==
  /\ Doing("finish", kinds)
  /\ Judge(n, good, type, [node EXCEPT !.kids = Trees(Operands(n))], "operands")

-----------------------------------------------------------------------------
(***************************************************************************)
(* Classes, methods and declarations.                                      *)
(***************************************************************************)
LeaveScope ==
  /\ Doing("leave", {"Scope"})
  /\ Proceed(<<>>)
  /\ table' = Exit(table)
  /\ UNCHANGED <<root, results, errors, verdict>>

EnterAnd(newTable, tasks) ==
  /\ table' = newTable
  /\ Proceed(tasks)
  /\ UNCHANGED <<root, results, errors, verdict>>

VisitClass ==
  \/ /\ Doing("visit", {"Class"})
     /\ EnterAnd(EnterClass(table, NameOf(node), NoRef),
                 <<Task("visit", node.kids[2]), Task("finish", node), Leave>>)
  \/ /\ Doing("finish", {"Class"})
     /\ Judge(1, LAMBDA ts : TRUE, VoidType,
              [node EXCEPT !.kids = <<@[1], Trees(Operands(1))[1]>>], "")

\* A slip: only the scope of main is left.
LeaveMainOnly == <<Leave>>

LeaveMain == <<Leave, Leave>>

VisitMainClass ==
  \/ /\ Doing("visit", {"MainClass"})
     /\ EnterAnd(EnterMethod(EnterClass(table, NameOf(node), NoRef), Main, NoRef),
                 <<Task("visit", node.kids[3]), Task("finish", node)>> \o LeaveMain)
  \/ /\ Doing("finish", {"MainClass"})
     /\ Judge(1, LAMBDA ts : TRUE, VoidType,
              [node EXCEPT !.kids = <<@[1], @[2], Trees(Operands(1))[1]>>], "")

\* A slip: the value is not compared with the type the method promises.
PromisesAnything(ts) == TRUE

Promises(ts) == Last(ts) = DeclaredType(node)

VisitMethod ==
  \/ /\ Doing("visit", MethodKinds)
     /\ EnterAnd(EnterMethod(table, NameOf(node), NoRef),
                 Visits(SubSeq(node.kids, 3, Len(node.kids))) \o <<Task("finish", node), Leave>>)
  \/ /\ Doing("finish", MethodKinds)
     /\ LET n == Len(node.kids) - 2 IN
        Judge(n, Promises, DeclaredType(node),
              [node EXCEPT !.kids = SubSeq(@, 1, 2) \o Trees(Operands(n))], "return type")

\* The type of a parameter is not looked up.
VisitParameter ==
  /\ Doing("visit", {"Parameter"})
  /\ Deliver(0, Result(DeclaredType(node), node), <<>>)

Known(type) == type \in Builtin \/ Found(table, "classes", type)

VisitVariable ==
  /\ Doing("visit", {"Variable"})
  /\ \/ Known(DeclaredType(node)) /\ Deliver(0, Result(DeclaredType(node), node), <<>>)
     \/ ~Known(DeclaredType(node)) /\ Deliver(0, Result(ErrorType, node), <<"unknown type">>)

\* A body has the type of the value it returns.
VisitMethodBody ==
  \/ /\ Doing("visit", {"MethodBody", "ReturnOnlyBody"})
     /\ Descend(Visits(node.kids) \o <<Task("finish", node)>>)
  \/ /\ Doing("finish", {"MethodBody", "ReturnOnlyBody"})
     /\ LET rs == Operands(Len(node.kids)) IN
        Judge(Len(node.kids), LAMBDA ts : TRUE, Last(rs).type, [node EXCEPT !.kids = Trees(rs)], "")

\* A list of any kind, and the nodes that wrap one item of a body.
GenericKinds == {"List", "ClassBody", "EmptyClassBody", "EmptyStatement", "Statement",
                 "VariableDeclaration"}

VisitGeneric ==
  \/ Doing("visit", GenericKinds) /\ Descend(Visits(node.kids) \o <<Task("finish", node)>>)
  \/ Operation(GenericKinds, Len(node.kids), LAMBDA ts : TRUE, VoidType)

-----------------------------------------------------------------------------
(***************************************************************************)
(* Expressions.                                                            *)
(***************************************************************************)
TypeAt(kind, id) == LET ref == Lookup(table, kind, id) IN table.scopes[ref.path][kind][id]

VisitLiteral ==
  \/ Doing("visit", {"Integer"}) /\ Deliver(0, Result(IntType, node), <<>>)
  \/ Doing("visit", {"True", "False"}) /\ Deliver(0, Result(BooleanType, node), <<>>)
  \/ Doing("visit", {"This"}) /\ Deliver(0, Result(TypeAt("variables", This), node), <<>>)

\* A slip: only variables have a type.
TypeOfVariable(id) == IF Found(table, "variables", id) THEN TypeAt("variables", id) ELSE ErrorType

\* A variable, or else a class, or else a method.
TypeOfName(id) ==
  CASE Found(table, "variables", id) -> TypeAt("variables", id)
    [] ~Found(table, "variables", id) /\ Found(table, "classes", id) -> id
    [] ~Found(table, "variables", id) /\ ~Found(table, "classes", id) ->
         IF Found(table, "methods", id) THEN TypeAt("methods", id).type ELSE ErrorType

VisitIdentifier ==
  /\ Doing("visit", {"Identifier"})
  /\ LET type == TypeOfName(node.text) IN
     Deliver(0, Result(type, node), IF type = ErrorType THEN <<"undeclared">> ELSE <<>>)

VisitOperands ==
  /\ Doing("visit", {"NOT", "NEW_ARRAY", "ARRAY_LOAD", "ARRAY_LENGTH", "PRINT"} \cup BinaryOps)
  /\ Descend(Visits(node.kids) \o <<Task("finish", node)>>)

Arithmetic  == Operation({"ADD", "SUB", "MUL", "DIV"}, 2, LAMBDA ts : ts = <<IntType, IntType>>, IntType)
BooleanOp   == Operation({"AND", "OR"}, 2, LAMBDA ts : ts = <<BooleanType, BooleanType>>, BooleanType)
Comparison  == Operation({"LT", "GT"}, 2, LAMBDA ts : ts = <<IntType, IntType>>, BooleanType)

\* A slip: any two values of one type can be compared.
SameType(ts) == ts[1] = ts[2]

Equatable(ts) == ts \in {<<IntType, IntType>>, <<BooleanType, BooleanType>>}

EqualTo     == Operation({"EQ"}, 2, Equatable, BooleanType)
Negation    == Operation({"NOT"}, 1, LAMBDA ts : ts = <<BooleanType>>, BooleanType)
ArrayAccess == Operation({"ARRAY_LOAD"}, 2, LAMBDA ts : ts = <<ArrayType, IntType>>, IntType)
ArrayLength == Operation({"ARRAY_LENGTH"}, 1, LAMBDA ts : ts = <<ArrayType>>, IntType)
ArrayAllocation == Operation({"NEW_ARRAY"}, 1, LAMBDA ts : ts = <<IntType>>, ArrayType)

ClassAllocation ==
  /\ Doing("visit", {"NEW"})
  /\ \/ Found(table, "classes", node.text) /\ Deliver(0, Result(node.text, node), <<>>)
     \/ /\ ~Found(table, "classes", node.text)
        /\ Deliver(0, Result(ErrorType, node), <<"unknown class">>)

-----------------------------------------------------------------------------
(***************************************************************************)
(* Calls: the receiver first; the arguments only once the method is known. *)
(***************************************************************************)
MethodsOf(type) == table.scopes[<<<<"Class", type>>>>].methods

VisitCall ==
  /\ Doing("visit", {"CALL"})
  /\ Descend(<<Task("visit", node.kids[1]), Task("resolve", node)>>)

Resolve ==
  /\ Doing("resolve", {"CALL"})
  /\ LET receiver == Operands(1)[1]
         resolved == /\ Found(table, "classes", receiver.type)
                     /\ node.text \in DOMAIN MethodsOf(receiver.type)
     IN
     \/ receiver.type = ErrorType /\ Deliver(1, Result(ErrorType, node), <<>>)
     \/ /\ receiver.type # ErrorType /\ ~resolved
        /\ Deliver(1, Result(ErrorType, node), <<"no such method">>)
     \/ resolved /\ Descend(Visits(Tail(node.kids)) \o <<Task("finish", node)>>)

\* A slip: the number of arguments is not compared.
MismatchesOfTypes(parameters, types) ==
  SelectSeq([i \in 1 .. Min({Len(parameters), Len(types)}) |->
               IF types[i] \in {ErrorType, parameters[i]} THEN "" ELSE "argument"],
            LAMBDA why : why # "")

\* The messages about arguments of these types.
Mismatches(parameters, types) ==
  (IF Len(parameters) = Len(types) THEN <<>> ELSE <<"argument count">>) \o
  SelectSeq([i \in 1 .. Min({Len(parameters), Len(types)}) |->
               IF types[i] \in {ErrorType, parameters[i]} THEN "" ELSE "argument"],
            LAMBDA why : why # "")

MethodCall ==
  /\ Doing("finish", {"CALL"})
  /\ LET n        == Len(node.kids)
         receiver == Operands(n)[1]
         method   == MethodsOf(receiver.type)[node.text]
         types    == Tail(Types(Operands(n)))
         whys     == Mismatches(method.parameters, types)
         compared == SubSeq(types, 1, Min({Len(method.parameters), Len(types)}))
         refused  == whys # <<>> \/ ErrorType \in ToSet(compared)
     IN  Deliver(n, Result(IF refused THEN ErrorType ELSE method.type,
                           CallNode(receiver.node, receiver.type \o node.text,
                                    Tail(Trees(Operands(n))))), whys)

-----------------------------------------------------------------------------
(***************************************************************************)
(* Statements.                                                             *)
(***************************************************************************)
Assignment ==
  \/ /\ Doing("visit", {"Assign"})
     /\ Descend(Visits(<<Identifier(node.text), node.kids[1]>>) \o <<Task("finish", node)>>)
  \/ /\ Doing("finish", {"Assign"})
     /\ Judge(2, LAMBDA ts : ts[1] = ts[2], VoidType,
              [node EXCEPT !.kids = <<Operands(2)[2].node>>], "assignment")

\* The index is visited before the array; each of the three has its message.
ArrayAssignment ==
  \/ /\ Doing("visit", {"ArrayAssign"})
     /\ Descend(Visits(<<node.kids[1], Identifier(node.text), node.kids[2]>>)
                  \o <<Task("finish", node)>>)
  \/ /\ Doing("finish", {"ArrayAssign"})
     /\ LET rs   == Operands(3)
            owed == <<IntType, ArrayType, IntType>>
            bad  == SelectSeq(<<1, 2, 3>>, LAMBDA i : rs[i].type \notin {ErrorType, owed[i]})
        IN  Deliver(3, Result(IF Types(rs) = owed THEN VoidType ELSE ErrorType,
                              [node EXCEPT !.kids = <<rs[1].node, rs[3].node>>]),
                    [i \in DOMAIN bad |-> "element"])

PrintStatement == Operation({"PRINT"}, 1, LAMBDA ts : TRUE, VoidType)

ControlKinds == {"If", "IfElse", "While"}

\* The condition is judged before the statements are visited.
ControlStatement ==
  \/ /\ Doing("visit", ControlKinds)
     /\ Descend(<<Task("visit", node.kids[1]), Task("condition", node)>>)
  \/ /\ Doing("condition", ControlKinds)
     /\ LET rs == Operands(1) IN
        /\ Proceed(Visits(Tail(node.kids)) \o <<Task("finish", node)>>)
        /\ results' = Append(SubSeq(results, 1, Len(results) - 1),
                             Result(IF rs[1].type = BooleanType THEN BooleanType ELSE ErrorType, rs[1].node))
        /\ errors' = IF rs[1].type \in {ErrorType, BooleanType} THEN errors
                     ELSE Append(errors, [why |-> "condition", node |-> node])
        /\ UNCHANGED <<root, table, verdict>>
  \/ Operation(ControlKinds, Len(node.kids), LAMBDA ts : TRUE, VoidType)

-----------------------------------------------------------------------------
Init ==
  /\ root \in Programs
  /\ agenda = <<Task("visit", root)>>
  /\ results = <<>>
  /\ table = TableOf(root)
  /\ errors = <<>>
  /\ verdict = "checking"

\* check_types returns the number of errors; main.cpp goes on if it is 0.
Conclude ==
  /\ verdict = "checking" /\ agenda = <<>>
  /\ verdict' = IF errors = <<>> THEN "accepted" ELSE "rejected"
  /\ UNCHANGED <<root, agenda, results, table, errors>>

Ended == verdict # "checking" /\ UNCHANGED vars

Structure   == VisitClass \/ VisitMainClass \/ VisitMethod \/ VisitParameter \/ VisitVariable
                 \/ VisitMethodBody \/ VisitGeneric \/ LeaveScope
Expressions == VisitLiteral \/ VisitIdentifier \/ VisitOperands \/ Arithmetic \/ BooleanOp
                 \/ Comparison \/ EqualTo \/ Negation \/ ArrayAccess \/ ArrayLength
                 \/ ArrayAllocation \/ ClassAllocation \/ VisitCall \/ Resolve \/ MethodCall
Statements  == Assignment \/ ArrayAssignment \/ PrintStatement \/ ControlStatement

Next == Structure \/ Expressions \/ Statements \/ Conclude \/ Ended

Spec == Init /\ [][Next]_vars
=============================================================================

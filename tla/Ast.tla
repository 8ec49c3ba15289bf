-------------------------------- MODULE Ast ---------------------------------
(***************************************************************************)
(* Syntax trees as the type checker leaves them: every name resolves, and  *)
(* a call knows the method it calls ("Class.method", from the static type  *)
(* of the receiver).  A node is a kind, a text, a number and its children; *)
(* nodes for operators and allocations take the name of the opcode they    *)
(* become.                                                                 *)
(***************************************************************************)
EXTENDS Bytecode

CONSTANT MaxDepth   \* no tree is deeper; bounds AllNodes

Node(kind, text, num, kids) == [kind |-> kind, text |-> text, num |-> num, kids |-> kids]

\* Expressions.
Integer(n)         == Node("Integer", <<>>, n, <<>>)
True               == Node("True", <<>>, 0, <<>>)
False              == Node("False", <<>>, 0, <<>>)
ThisNode           == Node("This", <<>>, 0, <<>>)
Identifier(x)      == Node("Identifier", x, 0, <<>>)
Op(op, lhs, rhs)   == Node(op, <<>>, 0, <<lhs, rhs>>)
NotNode(e)         == Node("NOT", <<>>, 0, <<e>>)
NewNode(class)     == Node("NEW", class, 0, <<>>)
NewArrayNode(e)    == Node("NEW_ARRAY", <<>>, 0, <<e>>)
Element(a, i)      == Node("ARRAY_LOAD", <<>>, 0, <<a, i>>)
Length(a)          == Node("ARRAY_LENGTH", <<>>, 0, <<a>>)
CallNode(receiver, method, arguments) == Node("CALL", method, 0, <<receiver>> \o arguments)

\* Statements.
Assign(x, e)         == Node("Assign", x, 0, <<e>>)
ArrayAssign(x, i, e) == Node("ArrayAssign", x, 0, <<i, e>>)
PrintNode(e)         == Node("PRINT", <<>>, 0, <<e>>)
IfNode(c, s)         == Node("If", <<>>, 0, <<c, s>>)
IfElse(c, s, t)      == Node("IfElse", <<>>, 0, <<c, s, t>>)
While(c, s)          == Node("While", <<>>, 0, <<c, s>>)
List(statements)     == Node("List", <<>>, 0, statements)
Return(e)            == Node("RET", <<>>, 0, <<e>>)

\* Declarations, as the parser makes them.
TypeName(name)      == Node("Type", name, 0, <<>>)
Declared(kind, type, x) == Node(kind, <<>>, 0, <<TypeName(type), Identifier(x)>>)

ExpressionLeaves == {"Integer", "True", "False", "This", "Identifier"}
ShortCircuit     == {"AND", "OR"}

Children(node) == {node.kids[i] : i \in DOMAIN node.kids}

AllNodes(root) ==
  LET level[d \in 0 .. MaxDepth] ==
        IF d = 0 THEN {root} ELSE UNION {Children(n) : n \in level[d - 1]}
  IN  UNION {level[d] : d \in 0 .. MaxDepth}

\* A && or || whose right operand contains another one.
RightNested(root) ==
  \E n \in AllNodes(root) :
    /\ n.kind \in ShortCircuit
    /\ \E k \in AllNodes(n.kids[2]) : k.kind \in ShortCircuit
=============================================================================

--------------------------- MODULE TypeProperties ---------------------------
(***************************************************************************)
(* What the type checker owes a program: the typing rules of the language, *)
(* the faults they find, and what an accepted program may do when it runs. *)
(***************************************************************************)
EXTENDS TypeCheck

(***************************************************************************)
(* The rules.  A place is the method a node belongs to; a name means a     *)
(* variable, else a class, else a method, of the place or around it.       *)
(***************************************************************************)
Method(class, m)  == CHOOSE d \in ToSet(MethodList(class)) : NameOf(d) = m
ClassOfName(name) == CHOOSE c \in ToSet(ClassList(root)) : NameOf(c) = name
ClassNames        == {NameOf(c) : c \in ToSet(ClassList(root))}

Places == UNION {{<<NameOf(c), m>> : m \in DOMAIN MethodRecords(c)} : c \in ToSet(ClassList(root))}

InMainOf(place) == ClassOfName(place[1]).kind = "MainClass"

FieldTypes(place) ==
  IF InMainOf(place) THEN Nothing ELSE TypesOf(FieldList(ClassOfName(place[1])))
LocalTypes(place) ==
  IF InMainOf(place) THEN [x \in {ClassOfName(place[1]).kids[2].text} |-> <<"String[]">>]
  ELSE LET d == Method(ClassOfName(place[1]), place[2]) IN TypesOf(ParameterList(d) \o LocalList(d))

Meanings(place) ==
  LocalTypes(place) @@ FieldTypes(place) @@ [c \in ClassNames |-> c]
    @@ [m \in DOMAIN MethodRecords(ClassOfName(place[1])) |->
          MethodRecords(ClassOfName(place[1]))[m].type]

\* What an operator takes, in every combination, and what it makes.
Takes ==
  [ADD |-> {<<IntType, IntType>>}, SUB |-> {<<IntType, IntType>>},
   MUL |-> {<<IntType, IntType>>}, DIV |-> {<<IntType, IntType>>},
   LT  |-> {<<IntType, IntType>>}, GT  |-> {<<IntType, IntType>>},
   EQ  |-> {<<IntType, IntType>>, <<BooleanType, BooleanType>>},
   AND |-> {<<BooleanType, BooleanType>>}, OR |-> {<<BooleanType, BooleanType>>},
   NOT |-> {<<BooleanType>>}, ARRAY_LOAD |-> {<<ArrayType, IntType>>},
   ARRAY_LENGTH |-> {<<ArrayType>>}, NEW_ARRAY |-> {<<IntType>>}]
Makes(op) ==
  CASE op \in {"ADD", "SUB", "MUL", "DIV", "ARRAY_LOAD", "ARRAY_LENGTH"} -> IntType
    [] op \in {"LT", "GT", "EQ", "AND", "OR", "NOT"} -> BooleanType
    [] op = "NEW_ARRAY" -> ArrayType

Callable(class, m) == class \in ClassNames /\ m \in DOMAIN MethodRecords(ClassOfName(class))

\* The type of an expression, or the error type.
RECURSIVE TypeIn(_, _)
TypeIn(place, e) ==
  LET kids == [i \in DOMAIN e.kids |-> TypeIn(place, e.kids[i])]
      record == MethodRecords(ClassOfName(kids[1]))[e.text]
      names  == Meanings(place)
  IN
  CASE e.kind = "Integer"         -> IntType
    [] e.kind \in {"True", "False"} -> BooleanType
    [] e.kind = "This"            -> place[1]
    [] e.kind = "NEW"             -> IF e.text \in ClassNames THEN e.text ELSE ErrorType
    [] e.kind = "Identifier"      -> IF e.text \in DOMAIN names THEN names[e.text] ELSE ErrorType
    [] e.kind = "CALL"            ->
         IF Callable(kids[1], e.text) /\ record.parameters = Tail(kids) THEN record.type ELSE ErrorType
    [] e.kind \in DOMAIN Takes    -> IF kids \in Takes[e.kind] THEN Makes(e.kind) ELSE ErrorType

-----------------------------------------------------------------------------
(***************************************************************************)
(* The faults: the nodes that are wrong although nothing in them is.  The  *)
(* arguments of a call are judged only if there is a method to call.       *)
(***************************************************************************)
Declares(types, d) == DeclaredType(d) \in Builtin \cup types

\* The nodes a node is judged after, and their types.
JudgedFirst(place, n) ==
  CASE n.kind = "Assign"      -> <<Identifier(n.text)>> \o n.kids
    [] n.kind = "ArrayAssign" -> <<n.kids[1], Identifier(n.text), n.kids[2]>>
    [] n.kind = "CALL"        -> IF Callable(TypeIn(place, n.kids[1]), n.text) THEN n.kids
                                 ELSE <<n.kids[1]>>
    [] n.kind = "Variable"    -> <<>>
    [] OTHER                  -> n.kids

\* The arguments are not those of the method.
Misfit(class, m, types) ==
  LET owed == MethodRecords(ClassOfName(class))[m].parameters IN
  \/ Len(owed) # Len(types)
  \/ \E i \in DOMAIN owed : types[i] \notin {ErrorType, owed[i]}

IsFault(place, n, types) ==
  LET sound == ErrorType \notin ToSet(types) IN
  CASE n.kind = "Variable"     -> ~Declares(ClassNames, n)
    [] n.kind = "Assign"       -> sound /\ types[1] # types[2]
    [] n.kind = "ArrayAssign"  ->
         \E i \in 1 .. 3 : types[i] \notin {ErrorType, <<IntType, ArrayType, IntType>>[i]}
    [] n.kind \in ControlKinds -> types[1] \notin {ErrorType, BooleanType}
    [] n.kind = "CALL"         ->
         /\ types[1] # ErrorType
         /\ Callable(types[1], n.text) => Misfit(types[1], n.text, Tail(types))
    [] n.kind \in DOMAIN Takes \cup {"Identifier", "NEW"} -> sound /\ TypeIn(place, n) = ErrorType
    [] OTHER                   -> FALSE

ExpressionKinds == DOMAIN Takes \cup ExpressionLeaves \cup {"NEW", "CALL"}

RECURSIVE FaultsOf(_, _)
FaultsOf(place, n) ==
  LET operands == JudgedFirst(place, n)
      types == [i \in DOMAIN operands |->
                  IF operands[i].kind \in ExpressionKinds THEN TypeIn(place, operands[i]) ELSE VoidType]
  IN  (IF IsFault(place, n, types) THEN {n} ELSE {}) \cup
      UNION {FaultsOf(place, operands[i]) : i \in DOMAIN operands}

BodyAt(place) ==
  IF InMainOf(place) THEN ClassOfName(place[1]).kids[3]
  ELSE Body(Method(ClassOfName(place[1]), place[2]))

\* A method whose body is sound returns what it promises.
ReturnFaults(place) ==
  IF InMainOf(place) THEN {}
  ELSE LET method == Method(ClassOfName(place[1]), place[2])
           value  == Last(BodyAt(place).kids)
       IN  IF FaultsOf(place, BodyAt(place)) = {} /\ TypeIn(place, value) # DeclaredType(method)
           THEN {method} ELSE {}

Faults ==
  UNION {FaultsOf(place, BodyAt(place)) \cup ReturnFaults(place) : place \in Places} \cup
  UNION {{d \in ToSet(FieldList(c)) : ~Declares(ClassNames, d)} :
           c \in {c \in ToSet(ClassList(root)) : c.kind # "MainClass"}}

-----------------------------------------------------------------------------
(***************************************************************************)
(* What happens when the program runs: for every slot (a field, a          *)
(* variable, the result of a method) the classes and types of the values   *)
(* it may come to hold, a variable that was never set holding the zero of  *)
(* its type, or no object.  Calls go where the checked tree sends them.    *)
(***************************************************************************)
Checked == results[1].node

CheckedClasses == IF Checked.kind = "MainClass" THEN <<Checked>> ELSE Checked.kids
CheckedBody(place) ==
  LET class == CHOOSE c \in ToSet(CheckedClasses) : NameOf(c) = place[1] IN
  IF class.kind = "MainClass" THEN class.kids[3] ELSE Body(Method(class, place[2]))

Slot(class, m, x) == <<class, m, x>>
Answer == <<>>
Fields  == <<>>

SlotOf(place, x) ==
  IF x \in DOMAIN LocalTypes(place) THEN Slot(place[1], place[2], x) ELSE Slot(place[1], Fields, x)
IsVariable(place, x) == x \in DOMAIN LocalTypes(place) \cup DOMAIN FieldTypes(place)

Slots == UNION {{SlotOf(p, x) : x \in DOMAIN LocalTypes(p) \cup DOMAIN FieldTypes(p)}
                  \cup {Slot(p[1], p[2], Answer)} : p \in Places}

Callee(call) == <<SubSeq(call.text, 1, 1), SubSeq(call.text, 2, 2)>>
ParameterNames(place) ==
  LET list == ParameterList(Method(ClassOfName(place[1]), place[2])) IN
  [i \in DOMAIN list |-> NameOf(list[i])]

Zero == [s \in Slots |->
  IF s[3] = Answer THEN {}
  ELSE LET place == IF s[2] = Fields THEN CHOOSE p \in Places : p[1] = s[1] ELSE <<s[1], s[2]>>
           isParameter == s[2] # Fields /\ ~InMainOf(place)
                            /\ s[3] \in ToSet(ParameterNames(place))
           type == IF s[2] = Fields THEN FieldTypes(place)[s[3]] ELSE LocalTypes(place)[s[3]]
       IN  IF isParameter THEN {} ELSE {type} \cap {IntType, BooleanType}]

\* What an expression may be.
Values(place, e, holds) ==
  CASE e.kind = "Integer"           -> {IntType}
    [] e.kind \in {"True", "False"} -> {BooleanType}
    [] e.kind = "This"              -> {place[1]}
    [] e.kind = "NEW"               -> {e.text}
    [] e.kind = "Identifier"        -> IF IsVariable(place, e.text) THEN holds[SlotOf(place, e.text)] ELSE {}
    [] e.kind = "CALL"              -> holds[Slot(Callee(e)[1], Callee(e)[2], Answer)]
    [] e.kind \in DOMAIN Takes      -> {Makes(e.kind)}

\* Every value that reaches a slot.
Moves(holds) ==
  UNION {LET body == CheckedBody(p) IN
    UNION {LET values(e) == Values(p, e, holds) IN
      CASE n.kind = "Assign" ->
             IF IsVariable(p, n.text) THEN {<<SlotOf(p, n.text), values(n.kids[1])>>} ELSE {}
        [] n.kind = "CALL" ->
             {<<Slot(Callee(n)[1], Callee(n)[2], ParameterNames(Callee(n))[i]), values(n.kids[i+1])>> :
                i \in DOMAIN ParameterNames(Callee(n)) \cap 1 .. Len(n.kids) - 1}
        [] n.kind \in {"MethodBody", "ReturnOnlyBody"} ->
             {<<Slot(p[1], p[2], Answer), values(Last(n.kids))>>}
        [] OTHER -> {} : n \in AllNodes(body)} : p \in Places}

RECURSIVE Settle(_)
Settle(holds) ==
  LET moves == Moves(holds)
      next  == [s \in Slots |-> holds[s] \cup UNION {m[2] : m \in {m \in moves : m[1] = s}}]
  IN  IF next = holds THEN holds ELSE Settle(next)

\* The nodes that get a value they cannot work with, or name no variable.
GoesWrong ==
  LET holds == Settle(Zero) IN
  UNION {
    {n \in AllNodes(CheckedBody(p)) :
       LET values == [i \in DOMAIN n.kids |-> Values(p, n.kids[i], holds)] IN
       CASE n.kind \in DOMAIN Takes ->
              \A w \in Takes[n.kind] : \E i \in DOMAIN w : ~(values[i] \subseteq {w[i]})
         [] n.kind \in ControlKinds -> ~(values[1] \subseteq {BooleanType})
         [] n.kind \in {"Identifier", "Assign"} -> ~IsVariable(p, n.text)
         [] n.kind = "ArrayAssign" ->
              \/ ~(values[1] \cup values[2] \subseteq {IntType})
              \/ IF IsVariable(p, n.text) THEN ~(holds[SlotOf(p, n.text)] \subseteq {ArrayType}) ELSE TRUE
         [] n.kind = "CALL" ->
              \/ ~(values[1] \subseteq {Callee(n)[1]})
              \/ Len(ParameterNames(Callee(n))) # Len(n.kids) - 1
         [] OTHER -> FALSE} : p \in Places}

NamesNoVariable(n) ==
  /\ n.kind \in {"Identifier", "Assign", "ArrayAssign"}
  /\ \E p \in Places : ~IsVariable(p, n.text) /\ n.text \in DOMAIN Meanings(p)

-----------------------------------------------------------------------------
\* Type correctness: a visit under way has its results, and one is left at the end.
TypeOK ==
  /\ verdict \in {"checking", "accepted", "rejected"}
  /\ \A i \in DOMAIN agenda : agenda[i].do \in {"visit", "finish", "resolve", "condition", "leave"}
  /\ Len(table.current) <= 2
  /\ verdict # "checking" => agenda = <<>> /\ Len(results) = 1

\* The scopes the checker has entered by name are those the symbol table has, so
\* that no look-up misses a declaration because it walks through a scope that
\* nextChild has just made; and each is left again, whatever was refused in it.
ScopesAreThoseDeclared == verdict # "checking" => table = TableOf(root)

\* The messages are about exactly the faults of the program, however deep in it
\* and whatever else is wrong: a program is accepted if and only if it is well
\* typed, nothing is refused without a message, and what is refused is not
\* refused again by every node around it.
MessagesAreTheFaults ==
  verdict # "checking" =>
    /\ {errors[i].node : i \in DOMAIN errors} = Faults
    /\ results[1].type = ErrorType <=> Faults # {}

\* An accepted program never computes with a value of a wrong type, calls a
\* method on an object of a class other than the one the call was bound to, or
\* passes too few or too many arguments.  Only a name of a class or of a method,
\* which the checker gives a type, has no value when it runs.
NeverGoesWrong ==
  verdict = "accepted" => \A n \in GoesWrong : NamesNoVariable(n)

=============================================================================

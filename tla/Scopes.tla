------------------------------- MODULE Scopes -------------------------------
(***************************************************************************)
(* The symbol table (src/semantic/SymbolTable.cpp, Scope.cpp): a tree of   *)
(* scopes and the scope it is currently in.  A scope is named by the path  *)
(* of child names from the root; what C++ holds as a pointer to a record   *)
(* is a reference: the scope that owns the record, its map and its name.   *)
(***************************************************************************)
EXTENDS SequencesExt, Integers

Root  == <<>>
Null  == <<<<"null">>>>                       \* the parent of the root
NoRef == [path |-> Null, kind |-> "none", id |-> <<>>]

Parent(path) == IF path = Root THEN Null ELSE Front(path)

Nothing == [x \in {} |-> x]

\* A slip: an entry that is there is replaced.
EmplaceReplacing(map, key, value) ==
  [k \in DOMAIN map \cup {key} |-> IF k = key THEN value ELSE map[k]]

\* std::unordered_map::emplace and insert: an entry that is there stays.
Emplace(map, key, value) ==
  [k \in DOMAIN map \cup {key} |-> IF k \in DOMAIN map THEN map[k] ELSE value]

EmptyScope(record) ==
  [record |-> record, variables |-> Nothing, methods |-> Nothing, classes |-> Nothing]

EmptyTable == [scopes |-> [p \in {Root} |-> EmptyScope(NoRef)], current |-> Root]

Current(table) == table.scopes[table.current]

-----------------------------------------------------------------------------
\* Scope::nextChild: the child of that name, made with the record if there is none.
Enter(table, child, record) ==
  LET path == Append(table.current, child) IN
  [scopes  |-> Emplace(table.scopes, path, EmptyScope(record)),
   current |-> path]

EnterClass(table, id, record)  == Enter(table, <<"Class", id>>, record)
EnterMethod(table, id, record) == Enter(table, <<"Method", id>>, record)

Exit(table)   == [table EXCEPT !.current = Parent(@)]
ToRoot(table) == [table EXCEPT !.current = Root]

AddVariable(table, type, id) ==
  [table EXCEPT !.scopes[table.current].variables = Emplace(@, id, type)]

AddMethod(table, type, id) ==
  [table EXCEPT !.scopes[table.current].methods =
     Emplace(@, id, [type |-> type, parameters |-> <<>>, variables |-> Nothing])]

AddClass(table, id) ==
  [table EXCEPT !.scopes[table.current].classes =
     Emplace(@, id, [variables |-> Nothing, methods |-> Nothing])]

-----------------------------------------------------------------------------
(***************************************************************************)
(* Look-ups walk from the current scope outwards; kind is "variables",     *)
(* "methods" or "classes".                                                 *)
(***************************************************************************)
Holders(table, kind, id) ==
  {path \in {SubSeq(table.current, 1, i) : i \in 0 .. Len(table.current)} :
     id \in DOMAIN table.scopes[path][kind]}

Found(table, kind, id)   == Holders(table, kind, id) # {}
InScope(table, kind, id) == id \in DOMAIN Current(table)[kind]

Lookup(table, kind, id) ==
  LET holders == Holders(table, kind, id) IN
  [path |-> CHOOSE p \in holders : \A q \in holders : Len(q) <= Len(p),
   kind |-> kind, id |-> id]

Record(table, ref) == table.scopes[ref.path][ref.kind][ref.id]

\* Class::addVariable, Class::addMethod, Method::addVariable.
AddToRecord(table, ref, kind, id) ==
  [table EXCEPT !.scopes[ref.path][ref.kind][ref.id][kind] =
     Emplace(@, id, Lookup(table, kind, id))]

\* Method::addParameter.
AddParameter(table, ref, id) ==
  [table EXCEPT !.scopes[ref.path][ref.kind][ref.id].parameters =
     Append(@, Lookup(table, "variables", id))]

\* A slip: the scope of the class is not left again.
ResolveScopeLeavingOnce(table, class, method) ==
  LET ref    == Lookup(table, "classes", class)
      inside == EnterMethod(EnterClass(table, class, ref), method,
                            Record(table, ref).methods[method])
  IN  [table |-> Exit(inside), scope |-> inside.current]

\* SymbolTable::resolveScope: the scope of a method, Null if there is none; a
\* class without the method leaves the table in the scope of that class.
ResolveScope(table, class, method) ==
  LET ref     == Lookup(table, "classes", class)
      inClass == EnterClass(table, class, ref)
      inside  == EnterMethod(inClass, method, Record(table, ref).methods[method])
  IN  IF ~Found(table, "classes", class) THEN [table |-> table, scope |-> Null]
      ELSE IF method \notin DOMAIN Record(table, ref).methods
           THEN [table |-> inClass, scope |-> Null]
      ELSE [table |-> Exit(Exit(inside)), scope |-> inside.current]
=============================================================================

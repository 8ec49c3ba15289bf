-------------------------- MODULE Semantics_proofs --------------------------
(***************************************************************************)
(* The passes over the shared symbol table leave every scope they enter,   *)
(* refuse exactly the programs with duplicates, keep the table equal to    *)
(* the program's text, and emit for every method of an accepted program    *)
(* the tables its declaration spells out, for all programs: proofs of      *)
(* TypeOK, ScopesBalanced, DuplicatesRejected, TableIsProgram,             *)
(* EmittedAsDeclared and UsesReachVariables.                               *)
(***************************************************************************)
EXTENDS SemanticProperties, SequenceLemmas, FiniteSetTheorems

-----------------------------------------------------------------------------
(***************************************************************************)
(* What is left of a sequence from a place on.                             *)
(***************************************************************************)
From(s, i) == SubSeq(s, i, Len(s))

LEMMA FromAll ==
  ASSUME NEW S, NEW s \in Seq(S)
  PROVE  From(s, 1) = s
  BY DEF From

LEMMA FromNone ==
  ASSUME NEW S, NEW s \in Seq(S), NEW r \in Seq(S)
  PROVE  From(s, Len(s) + 1) = <<>> /\ <<>> \o r = r
  BY DEF From

\* The sequence starts with x, and then there is the rest.
Starting(s, x, rest) == s # <<>> /\ Head(s) = x /\ Tail(s) = rest

LEMMA FromSome ==
  ASSUME NEW S, NEW s \in Seq(S), NEW i \in 1 .. Len(s), NEW r \in Seq(S)
  PROVE  /\ From(s, i) \in Seq(S) /\ From(s, i + 1) \in Seq(S)
         /\ Starting(From(s, i) \o r, s[i], From(s, i + 1) \o r)
<1> DEFINE a == From(s, i) \o r
           b == From(s, i + 1) \o r
<1>1. /\ From(s, i) \in Seq(S) /\ Len(From(s, i)) = Len(s) - i + 1
      /\ \A j \in 1 .. Len(s) - i + 1 : From(s, i)[j] = s[i + j - 1]
  BY DEF From
<1>2. /\ From(s, i + 1) \in Seq(S) /\ Len(From(s, i + 1)) = Len(s) - i
      /\ \A j \in 1 .. Len(s) - i : From(s, i + 1)[j] = s[i + j]
  BY DEF From
<1>3. /\ a \in Seq(S) /\ Len(a) = Len(s) - i + 1 + Len(r)
      /\ \A j \in 1 .. Len(a) : a[j] = IF j <= Len(s) - i + 1 THEN s[i + j - 1]
                                       ELSE r[j - (Len(s) - i + 1)]
  <2> DEFINE c == From(s, i)
  <2>1. /\ a \in Seq(S) /\ Len(a) = Len(c) + Len(r)
        /\ \A j \in 1 .. Len(c) + Len(r) : a[j] = IF j <= Len(c) THEN c[j] ELSE r[j - Len(c)]
    BY <1>1, ConcatProperties
  <2>2. Len(c) = Len(s) - i + 1 /\ \A j \in 1 .. Len(s) - i + 1 : c[j] = s[i + j - 1]
    BY <1>1
  <2> HIDE DEF a, c
  <2> QED  BY <2>1, <2>2
<1>4. /\ b \in Seq(S) /\ Len(b) = Len(s) - i + Len(r)
      /\ \A j \in 1 .. Len(b) : b[j] = IF j <= Len(s) - i THEN s[i + j]
                                       ELSE r[j - (Len(s) - i)]
  <2> DEFINE c == From(s, i + 1)
  <2>1. /\ b \in Seq(S) /\ Len(b) = Len(c) + Len(r)
        /\ \A j \in 1 .. Len(c) + Len(r) : b[j] = IF j <= Len(c) THEN c[j] ELSE r[j - Len(c)]
    BY <1>2, ConcatProperties
  <2>2. Len(c) = Len(s) - i /\ \A j \in 1 .. Len(s) - i : c[j] = s[i + j]
    BY <1>2
  <2> HIDE DEF b, c
  <2> QED  BY <2>1, <2>2
<1> HIDE DEF a, b
<1>5. a # <<>> /\ Head(a) = s[i]
  BY <1>3
<1>6. Tail(a) \in Seq(S) /\ Len(Tail(a)) = Len(a) - 1 /\ \A j \in 1 .. Len(a) - 1 : Tail(a)[j] = a[j + 1]
  BY <1>3, <1>5
<1>7. Tail(a) = b
  <2>1. Len(Tail(a)) = Len(b)
    BY <1>3, <1>4, <1>6
  <2>2. ASSUME NEW j \in 1 .. Len(b)
        PROVE  Tail(a)[j] = b[j]
    <3>1. j \in 1 .. Len(a) - 1 /\ j + 1 \in 1 .. Len(a)
      BY <1>3, <1>4
    <3>2. Tail(a)[j] = a[j + 1]
      BY <3>1, <1>6
    <3> QED  BY <3>1, <3>2, <1>3, <1>4
  <2> QED  BY <2>1, <2>2, <1>4, <1>6, SeqEqual
<1>8. Starting(a, s[i], b)
  BY <1>5, <1>7 DEF Starting
<1> QED  BY <1>1, <1>2, <1>8 DEF a, b

-----------------------------------------------------------------------------
(***************************************************************************)
(* The parts of a table, and what each operation makes of them.            *)
(***************************************************************************)
IsFunction(f) == f = [k \in DOMAIN f |-> f[k]]

MethodRecord(type, parameters, variables) ==
  [type |-> type, parameters |-> parameters, variables |-> variables]

ClassRecord(variables, methods) == [variables |-> variables, methods |-> methods]

Scope(record, variables, methods, classes) ==
  [record |-> record, variables |-> variables, methods |-> methods, classes |-> classes]

IsScope(s) ==
  /\ s = Scope(s.record, s.variables, s.methods, s.classes)
  /\ IsFunction(s.methods)
  /\ \A id \in DOMAIN s.methods : LET r == s.methods[id] IN
       r = MethodRecord(r.type, r.parameters, r.variables)
  /\ IsFunction(s.classes)
  /\ \A id \in DOMAIN s.classes : LET r == s.classes[id] IN
       r = ClassRecord(r.variables, r.methods)

IsTable(t) ==
  /\ t = [scopes |-> t.scopes, current |-> t.current]
  /\ IsFunction(t.scopes)
  /\ \A path \in DOMAIN t.scopes : IsScope(t.scopes[path])

\* The table with another scope at the path.
Put(t, path, s) ==
  [scopes  |-> [p \in DOMAIN t.scopes |-> IF p = path THEN s ELSE t.scopes[p]],
   current |-> t.current]

PutMethod(s, id, r) ==
  Scope(s.record, s.variables, [k \in DOMAIN s.methods |-> IF k = id THEN r ELSE s.methods[k]],
        s.classes)

PutClass(s, id, r) ==
  Scope(s.record, s.variables, s.methods,
        [k \in DOMAIN s.classes |-> IF k = id THEN r ELSE s.classes[k]])

LEMMA ScopesReplaced ==
  ASSUME NEW t, IsTable(t), NEW scopes
  PROVE  [t EXCEPT !.scopes = scopes] = [scopes |-> scopes, current |-> t.current]
<1>1. t = [scopes |-> t.scopes, current |-> t.current]
  BY DEF IsTable
<1> QED  BY <1>1

LEMMA ScopeReplaced ==
  ASSUME NEW t, IsTable(t), NEW path \in DOMAIN t.scopes, NEW s
  PROVE  /\ [t EXCEPT !.scopes = [t.scopes EXCEPT ![path] = s]] = Put(t, path, s)
         /\ IsScope(s) => IsTable(Put(t, path, s))
         /\ Put(t, path, s).current = t.current
         /\ DOMAIN Put(t, path, s).scopes = DOMAIN t.scopes
         /\ \A p \in DOMAIN t.scopes :
              Put(t, path, s).scopes[p] = IF p = path THEN s ELSE t.scopes[p]
<1> DEFINE scopes == [t.scopes EXCEPT ![path] = s]
<1>1. [t EXCEPT !.scopes = scopes] = [scopes |-> scopes, current |-> t.current]
  BY ScopesReplaced
<1>2. IsFunction(t.scopes)
  BY DEF IsTable
<1>3. scopes = [p \in DOMAIN t.scopes |-> IF p = path THEN s ELSE t.scopes[p]]
  BY <1>2 DEF IsFunction
<1> HIDE DEF scopes
<1>4. [t EXCEPT !.scopes = scopes] = Put(t, path, s)
  BY <1>1, <1>3 DEF Put
<1>5. /\ Put(t, path, s).current = t.current
      /\ DOMAIN Put(t, path, s).scopes = DOMAIN t.scopes
      /\ \A p \in DOMAIN t.scopes :
           Put(t, path, s).scopes[p] = IF p = path THEN s ELSE t.scopes[p]
  BY DEF Put
<1>6. ASSUME IsScope(s)
      PROVE  IsTable(Put(t, path, s))
  <2>1. \A p \in DOMAIN t.scopes : IsScope(Put(t, path, s).scopes[p])
    BY <1>5, <1>6 DEF IsTable
  <2>2. /\ Put(t, path, s) = [scopes |-> Put(t, path, s).scopes, current |-> Put(t, path, s).current]
        /\ IsFunction(Put(t, path, s).scopes)
    BY DEF Put, IsFunction
  <2> QED  BY <2>1, <2>2, <1>5 DEF IsTable
<1> QED  BY <1>4, <1>5, <1>6 DEF scopes

LEMMA EmplaceIs ==
  ASSUME NEW map, NEW key, NEW value
  PROVE  /\ IsFunction(Emplace(map, key, value))
         /\ DOMAIN Emplace(map, key, value) = DOMAIN map \cup {key}
         /\ \A k \in DOMAIN map : Emplace(map, key, value)[k] = map[k]
         /\ key \notin DOMAIN map => Emplace(map, key, value)[key] = value
         /\ IsFunction(map) /\ key \in DOMAIN map => Emplace(map, key, value) = map
  BY DEF Emplace, IsFunction

LEMMA AddVariableIs ==
  ASSUME NEW t, IsTable(t), t.current \in DOMAIN t.scopes, NEW type, NEW id
  PROVE  LET s == t.scopes[t.current]
             n == Scope(s.record, Emplace(s.variables, id, type), s.methods, s.classes)
         IN  AddVariable(t, type, id) = Put(t, t.current, n) /\ IsScope(n)
<1> DEFINE s == t.scopes[t.current]
           map == Emplace(s.variables, id, type)
           n == Scope(s.record, map, s.methods, s.classes)
<1>1. AddVariable(t, type, id)
        = [t EXCEPT !.scopes = [t.scopes EXCEPT ![t.current] = [s EXCEPT !.variables = map]]]
  BY DEF AddVariable
<1>2. IsScope(s)
  BY DEF IsTable
<1> HIDE DEF s, map
<1>3. [s EXCEPT !.variables = map] = n /\ IsScope(n)
  BY <1>2 DEF IsScope, Scope
<1> HIDE DEF n
<1>4. AddVariable(t, type, id) = Put(t, t.current, n)
  <2>1. AddVariable(t, type, id) = [t EXCEPT !.scopes = [t.scopes EXCEPT ![t.current] = n]]
    BY <1>1, <1>3
  <2> QED  BY <2>1, ScopeReplaced
<1> QED  BY <1>3, <1>4 DEF s, map, n

LEMMA AddMethodIs ==
  ASSUME NEW t, IsTable(t), t.current \in DOMAIN t.scopes, NEW type, NEW id
  PROVE  LET s == t.scopes[t.current]
             n == Scope(s.record, s.variables,
                        Emplace(s.methods, id, MethodRecord(type, <<>>, Nothing)), s.classes)
         IN  AddMethod(t, type, id) = Put(t, t.current, n) /\ IsScope(n)
<1> DEFINE s == t.scopes[t.current]
           r == MethodRecord(type, <<>>, Nothing)
           map == Emplace(s.methods, id, r)
           n == Scope(s.record, s.variables, map, s.classes)
<1>1. AddMethod(t, type, id)
        = [t EXCEPT !.scopes = [t.scopes EXCEPT ![t.current] = [s EXCEPT !.methods = map]]]
  BY DEF AddMethod, MethodRecord
<1>2. IsScope(s)
  BY DEF IsTable
<1>3. /\ IsFunction(map)
      /\ \A k \in DOMAIN map : map[k] = IF k \in DOMAIN s.methods THEN s.methods[k] ELSE r
  BY DEF Emplace, IsFunction
<1>4. r = MethodRecord(r.type, r.parameters, r.variables)
  BY DEF MethodRecord
<1> HIDE DEF s, map, r
<1>5. [s EXCEPT !.methods = map] = n
  BY <1>2 DEF IsScope, Scope
<1>6. /\ n = Scope(n.record, n.variables, n.methods, n.classes)
      /\ n.methods = map /\ n.classes = s.classes
  BY DEF Scope
<1> HIDE DEF n
<1>7. IsScope(n)
  BY <1>2, <1>3, <1>4, <1>6 DEF IsScope
<1>8. AddMethod(t, type, id) = Put(t, t.current, n)
  <2>1. AddMethod(t, type, id) = [t EXCEPT !.scopes = [t.scopes EXCEPT ![t.current] = n]]
    BY <1>1, <1>5
  <2> QED  BY <2>1, ScopeReplaced
<1> QED  BY <1>7, <1>8 DEF s, map, n, r

LEMMA AddClassIs ==
  ASSUME NEW t, IsTable(t), t.current \in DOMAIN t.scopes, NEW id
  PROVE  LET s == t.scopes[t.current]
             n == Scope(s.record, s.variables, s.methods,
                        Emplace(s.classes, id, ClassRecord(Nothing, Nothing)))
         IN  AddClass(t, id) = Put(t, t.current, n) /\ IsScope(n)
<1> DEFINE s == t.scopes[t.current]
           r == ClassRecord(Nothing, Nothing)
           map == Emplace(s.classes, id, r)
           n == Scope(s.record, s.variables, s.methods, map)
<1>1. AddClass(t, id)
        = [t EXCEPT !.scopes = [t.scopes EXCEPT ![t.current] = [s EXCEPT !.classes = map]]]
  BY DEF AddClass, ClassRecord
<1>2. IsScope(s)
  BY DEF IsTable
<1>3. /\ IsFunction(map)
      /\ \A k \in DOMAIN map : map[k] = IF k \in DOMAIN s.classes THEN s.classes[k] ELSE r
  BY DEF Emplace, IsFunction
<1>4. r = ClassRecord(r.variables, r.methods)
  BY DEF ClassRecord
<1> HIDE DEF s, map, r
<1>5. [s EXCEPT !.classes = map] = n
  BY <1>2 DEF IsScope, Scope
<1>6. /\ n = Scope(n.record, n.variables, n.methods, n.classes)
      /\ n.methods = s.methods /\ n.classes = map
  BY DEF Scope
<1> HIDE DEF n
<1>7. IsScope(n)
  BY <1>2, <1>3, <1>4, <1>6 DEF IsScope
<1>8. AddClass(t, id) = Put(t, t.current, n)
  <2>1. AddClass(t, id) = [t EXCEPT !.scopes = [t.scopes EXCEPT ![t.current] = n]]
    BY <1>1, <1>5
  <2> QED  BY <2>1, ScopeReplaced
<1> QED  BY <1>7, <1>8 DEF s, map, n, r

LEMMA FieldByName ==
  ASSUME NEW s, NEW kind, NEW x
  PROVE  /\ kind = "classes" => s[kind] = s.classes /\ [s EXCEPT ![kind] = x] = [s EXCEPT !.classes = x]
         /\ kind = "methods" => s[kind] = s.methods /\ [s EXCEPT ![kind] = x] = [s EXCEPT !.methods = x]
         /\ kind = "variables" => s[kind] = s.variables /\ [s EXCEPT ![kind] = x] = [s EXCEPT !.variables = x]
  OBVIOUS

LEMMA EntryReplaced ==
  ASSUME NEW f, IsFunction(f), NEW id \in DOMAIN f, NEW r
  PROVE  [f EXCEPT ![id] = r] = [k \in DOMAIN f |-> IF k = id THEN r ELSE f[k]]
  BY DEF IsFunction

LEMMA ClassReplaced ==
  ASSUME NEW t, IsTable(t), NEW ref, ref.kind = "classes", ref.path \in DOMAIN t.scopes,
         ref.id \in DOMAIN t.scopes[ref.path].classes, NEW variables, NEW methods
  PROVE  LET s == t.scopes[ref.path]
             r == ClassRecord(variables, methods)
             n == PutClass(s, ref.id, r)
         IN  /\ [t EXCEPT !.scopes = [t.scopes EXCEPT ![ref.path] = [s EXCEPT ![ref.kind] =
                   [s[ref.kind] EXCEPT ![ref.id] = r]]]] = Put(t, ref.path, n)
             /\ IsScope(n)
<1> DEFINE s == t.scopes[ref.path]
           r == ClassRecord(variables, methods)
           map == [k \in DOMAIN s.classes |-> IF k = ref.id THEN r ELSE s.classes[k]]
           n == Scope(s.record, s.variables, s.methods, map)
<1>1. IsScope(s)
  BY DEF IsTable
<1>2. ref.id \in DOMAIN s.classes
  OBVIOUS
<1>3. r = ClassRecord(r.variables, r.methods)
  BY DEF ClassRecord
<1> HIDE DEF s, r
<1>4. [s[ref.kind] EXCEPT ![ref.id] = r] = map
  <2>1. s[ref.kind] = s.classes
    BY FieldByName
  <2>2. IsFunction(s.classes)
    BY <1>1 DEF IsScope
  <2> QED  BY <2>1, <2>2, <1>2, EntryReplaced
<1>5. /\ IsFunction(map) /\ DOMAIN map = DOMAIN s.classes
      /\ \A k \in DOMAIN map : map[k] = IF k = ref.id THEN r ELSE s.classes[k]
  BY DEF IsFunction
<1> HIDE DEF map
<1>6. [s EXCEPT ![ref.kind] = map] = n
  <2>1. [s EXCEPT ![ref.kind] = map] = [s EXCEPT !.classes = map]
    BY FieldByName
  <2>2. [s EXCEPT !.classes = map] = n
    BY <1>1 DEF IsScope, Scope
  <2> QED  BY <2>1, <2>2
<1>7. /\ n = Scope(n.record, n.variables, n.methods, n.classes)
      /\ n.methods = s.methods /\ n.classes = map
  BY DEF Scope
<1> HIDE DEF n
<1>8. IsScope(n)
  BY <1>1, <1>3, <1>5, <1>7 DEF IsScope
<1>9. [t EXCEPT !.scopes = [t.scopes EXCEPT ![ref.path] = n]] = Put(t, ref.path, n)
  BY ScopeReplaced
<1>10. [t EXCEPT !.scopes = [t.scopes EXCEPT ![ref.path] = [s EXCEPT ![ref.kind] =
          [s[ref.kind] EXCEPT ![ref.id] = r]]]] = Put(t, ref.path, n)
  BY <1>4, <1>6, <1>9
<1> QED  BY <1>8, <1>10 DEF s, r, n, map, PutClass

LEMMA MethodReplaced ==
  ASSUME NEW t, IsTable(t), NEW ref, ref.kind = "methods", ref.path \in DOMAIN t.scopes,
         ref.id \in DOMAIN t.scopes[ref.path].methods, NEW type, NEW parameters, NEW variables
  PROVE  LET s == t.scopes[ref.path]
             r == MethodRecord(type, parameters, variables)
             n == PutMethod(s, ref.id, r)
         IN  /\ [t EXCEPT !.scopes = [t.scopes EXCEPT ![ref.path] = [s EXCEPT ![ref.kind] =
                   [s[ref.kind] EXCEPT ![ref.id] = r]]]] = Put(t, ref.path, n)
             /\ IsScope(n)
<1> DEFINE s == t.scopes[ref.path]
           r == MethodRecord(type, parameters, variables)
           map == [k \in DOMAIN s.methods |-> IF k = ref.id THEN r ELSE s.methods[k]]
           n == Scope(s.record, s.variables, map, s.classes)
<1>1. IsScope(s)
  BY DEF IsTable
<1>2. ref.id \in DOMAIN s.methods
  OBVIOUS
<1>3. r = MethodRecord(r.type, r.parameters, r.variables)
  BY DEF MethodRecord
<1> HIDE DEF s, r
<1>4. [s[ref.kind] EXCEPT ![ref.id] = r] = map
  <2>1. s[ref.kind] = s.methods
    BY FieldByName
  <2>2. IsFunction(s.methods)
    BY <1>1 DEF IsScope
  <2> QED  BY <2>1, <2>2, <1>2, EntryReplaced
<1>5. /\ IsFunction(map) /\ DOMAIN map = DOMAIN s.methods
      /\ \A k \in DOMAIN map : map[k] = IF k = ref.id THEN r ELSE s.methods[k]
  BY DEF IsFunction
<1> HIDE DEF map
<1>6. [s EXCEPT ![ref.kind] = map] = n
  <2>1. [s EXCEPT ![ref.kind] = map] = [s EXCEPT !.methods = map]
    BY FieldByName
  <2>2. [s EXCEPT !.methods = map] = n
    BY <1>1 DEF IsScope, Scope
  <2> QED  BY <2>1, <2>2
<1>7. /\ n = Scope(n.record, n.variables, n.methods, n.classes)
      /\ n.methods = map /\ n.classes = s.classes
  BY DEF Scope
<1> HIDE DEF n
<1>8. IsScope(n)
  BY <1>1, <1>3, <1>5, <1>7 DEF IsScope
<1>9. [t EXCEPT !.scopes = [t.scopes EXCEPT ![ref.path] = n]] = Put(t, ref.path, n)
  BY ScopeReplaced
<1>10. [t EXCEPT !.scopes = [t.scopes EXCEPT ![ref.path] = [s EXCEPT ![ref.kind] =
          [s[ref.kind] EXCEPT ![ref.id] = r]]]] = Put(t, ref.path, n)
  BY <1>4, <1>6, <1>9
<1> QED  BY <1>8, <1>10 DEF s, r, n, map, PutMethod

\* Class::addVariable and Class::addMethod.
LEMMA AddToClassIs ==
  ASSUME NEW t, IsTable(t), NEW ref, ref.kind = "classes", ref.path \in DOMAIN t.scopes,
         ref.id \in DOMAIN t.scopes[ref.path].classes, NEW id
  PROVE  LET s == t.scopes[ref.path]
             r == s.classes[ref.id]
             variable == PutClass(s, ref.id, ClassRecord(
                           Emplace(r.variables, id, Lookup(t, "variables", id)), r.methods))
             method == PutClass(s, ref.id, ClassRecord(
                           r.variables, Emplace(r.methods, id, Lookup(t, "methods", id))))
         IN  /\ AddToRecord(t, ref, "variables", id) = Put(t, ref.path, variable)
             /\ IsScope(variable)
             /\ AddToRecord(t, ref, "methods", id) = Put(t, ref.path, method)
             /\ IsScope(method)
<1> DEFINE s == t.scopes[ref.path]
           r == s.classes[ref.id]
           x == Emplace(r.variables, id, Lookup(t, "variables", id))
           y == Emplace(r.methods, id, Lookup(t, "methods", id))
           variable == PutClass(s, ref.id, ClassRecord(x, r.methods))
           method   == PutClass(s, ref.id, ClassRecord(r.variables, y))
<1>1. r = ClassRecord(r.variables, r.methods)
  BY DEF IsTable, IsScope
<1>2. s[ref.kind] = s.classes
  BY FieldByName
<1>3. AddToRecord(t, ref, "variables", id)
        = [t EXCEPT !.scopes = [t.scopes EXCEPT ![ref.path] = [s EXCEPT ![ref.kind] =
            [s[ref.kind] EXCEPT ![ref.id] = [s[ref.kind][ref.id] EXCEPT !.variables =
               Emplace(s[ref.kind][ref.id].variables, id, Lookup(t, "variables", id))]]]]]
  BY FieldByName DEF AddToRecord
<1>4. AddToRecord(t, ref, "methods", id)
        = [t EXCEPT !.scopes = [t.scopes EXCEPT ![ref.path] = [s EXCEPT ![ref.kind] =
            [s[ref.kind] EXCEPT ![ref.id] = [s[ref.kind][ref.id] EXCEPT !.methods =
               Emplace(s[ref.kind][ref.id].methods, id, Lookup(t, "methods", id))]]]]]
  BY FieldByName DEF AddToRecord
<1>5. [s[ref.kind][ref.id] EXCEPT !.variables =
          Emplace(s[ref.kind][ref.id].variables, id, Lookup(t, "variables", id))]
        = ClassRecord(x, r.methods)
  <2> HIDE DEF s
  <2>1. s[ref.kind][ref.id] = r
    BY <1>2
  <2> HIDE DEF r
  <2> QED  BY <1>1, <2>1 DEF ClassRecord
<1>6. [s[ref.kind][ref.id] EXCEPT !.methods =
          Emplace(s[ref.kind][ref.id].methods, id, Lookup(t, "methods", id))]
        = ClassRecord(r.variables, y)
  <2> HIDE DEF s
  <2>1. s[ref.kind][ref.id] = r
    BY <1>2
  <2> HIDE DEF r
  <2> QED  BY <1>1, <2>1 DEF ClassRecord
<1>7. /\ [t EXCEPT !.scopes = [t.scopes EXCEPT ![ref.path] = [s EXCEPT ![ref.kind] =
              [s[ref.kind] EXCEPT ![ref.id] = ClassRecord(x, r.methods)]]]]
           = Put(t, ref.path, variable)
      /\ IsScope(variable)
  <2> HIDE DEF x, r
  <2> QED  BY ClassReplaced
<1>8. /\ [t EXCEPT !.scopes = [t.scopes EXCEPT ![ref.path] = [s EXCEPT ![ref.kind] =
              [s[ref.kind] EXCEPT ![ref.id] = ClassRecord(r.variables, y)]]]]
           = Put(t, ref.path, method)
      /\ IsScope(method)
  <2> HIDE DEF y, r
  <2> QED  BY ClassReplaced
<1> HIDE DEF s, r, x, y, variable, method
<1>9. /\ AddToRecord(t, ref, "variables", id) = Put(t, ref.path, variable)
      /\ AddToRecord(t, ref, "methods", id) = Put(t, ref.path, method)
  BY <1>3, <1>4, <1>5, <1>6, <1>7, <1>8
<1> QED  BY <1>7, <1>8, <1>9 DEF s, r, x, y, variable, method

LEMMA MethodToClass ==
  ASSUME NEW t, IsTable(t), NEW ref, NEW path, NEW class, NEW id,
         ref.kind = "classes", ref.path = path, ref.id = class,
         path \in DOMAIN t.scopes, class \in DOMAIN t.scopes[path].classes
  PROVE  LET z == t.scopes[path]
             r == z.classes[class]
             o == PutClass(z, class, ClassRecord(
                    r.variables, Emplace(r.methods, id, Lookup(t, "methods", id))))
         IN  AddToRecord(t, ref, "methods", id) = Put(t, path, o) /\ IsScope(o)
BY AddToClassIs

\* Method::addVariable and Method::addParameter.
LEMMA AddToMethodIs ==
  ASSUME NEW t, IsTable(t), NEW ref, ref.kind = "methods", ref.path \in DOMAIN t.scopes,
         ref.id \in DOMAIN t.scopes[ref.path].methods, NEW id
  PROVE  LET s == t.scopes[ref.path]
             r == s.methods[ref.id]
             variable == PutMethod(s, ref.id, MethodRecord(r.type, r.parameters,
                           Emplace(r.variables, id, Lookup(t, "variables", id))))
             parameter == PutMethod(s, ref.id, MethodRecord(r.type,
                            Append(r.parameters, Lookup(t, "variables", id)), r.variables))
         IN  /\ AddToRecord(t, ref, "variables", id) = Put(t, ref.path, variable)
             /\ IsScope(variable)
             /\ AddParameter(t, ref, id) = Put(t, ref.path, parameter)
             /\ IsScope(parameter)
<1> DEFINE s == t.scopes[ref.path]
           r == s.methods[ref.id]
           x == Emplace(r.variables, id, Lookup(t, "variables", id))
           y == Append(r.parameters, Lookup(t, "variables", id))
           variable  == PutMethod(s, ref.id, MethodRecord(r.type, r.parameters, x))
           parameter == PutMethod(s, ref.id, MethodRecord(r.type, y, r.variables))
<1>1. r = MethodRecord(r.type, r.parameters, r.variables)
  BY DEF IsTable, IsScope
<1>2. s[ref.kind] = s.methods
  BY FieldByName
<1>3. AddToRecord(t, ref, "variables", id)
        = [t EXCEPT !.scopes = [t.scopes EXCEPT ![ref.path] = [s EXCEPT ![ref.kind] =
            [s[ref.kind] EXCEPT ![ref.id] = [s[ref.kind][ref.id] EXCEPT !.variables =
               Emplace(s[ref.kind][ref.id].variables, id, Lookup(t, "variables", id))]]]]]
  BY FieldByName DEF AddToRecord
<1>4. AddParameter(t, ref, id)
        = [t EXCEPT !.scopes = [t.scopes EXCEPT ![ref.path] = [s EXCEPT ![ref.kind] =
            [s[ref.kind] EXCEPT ![ref.id] = [s[ref.kind][ref.id] EXCEPT !.parameters =
               Append(s[ref.kind][ref.id].parameters, Lookup(t, "variables", id))]]]]]
  BY DEF AddParameter
<1>5. [s[ref.kind][ref.id] EXCEPT !.variables =
          Emplace(s[ref.kind][ref.id].variables, id, Lookup(t, "variables", id))]
        = MethodRecord(r.type, r.parameters, x)
  <2> HIDE DEF s
  <2>1. s[ref.kind][ref.id] = r
    BY <1>2
  <2> HIDE DEF r
  <2> QED  BY <1>1, <2>1 DEF MethodRecord
<1>6. [s[ref.kind][ref.id] EXCEPT !.parameters =
          Append(s[ref.kind][ref.id].parameters, Lookup(t, "variables", id))]
        = MethodRecord(r.type, y, r.variables)
  <2> HIDE DEF s
  <2>1. s[ref.kind][ref.id] = r
    BY <1>2
  <2> HIDE DEF r
  <2> QED  BY <1>1, <2>1, SMTT(30) DEF MethodRecord
<1>7. /\ [t EXCEPT !.scopes = [t.scopes EXCEPT ![ref.path] = [s EXCEPT ![ref.kind] =
              [s[ref.kind] EXCEPT ![ref.id] = MethodRecord(r.type, r.parameters, x)]]]]
           = Put(t, ref.path, variable)
      /\ IsScope(variable)
  <2> HIDE DEF x, r
  <2> QED  BY MethodReplaced
<1>8. /\ [t EXCEPT !.scopes = [t.scopes EXCEPT ![ref.path] = [s EXCEPT ![ref.kind] =
              [s[ref.kind] EXCEPT ![ref.id] = MethodRecord(r.type, y, r.variables)]]]]
           = Put(t, ref.path, parameter)
      /\ IsScope(parameter)
  <2> HIDE DEF y, r
  <2> QED  BY MethodReplaced
<1> HIDE DEF s, r, x, y, variable, parameter
<1>9. /\ AddToRecord(t, ref, "variables", id) = Put(t, ref.path, variable)
      /\ AddParameter(t, ref, id) = Put(t, ref.path, parameter)
  BY <1>3, <1>4, <1>5, <1>6, <1>7, <1>8
<1> QED  BY <1>7, <1>8, <1>9 DEF s, r, x, y, variable, parameter

-----------------------------------------------------------------------------
(***************************************************************************)
(* Paths of the root, of a class and of a method.                          *)
(***************************************************************************)
LEMMA PathLengths ==
  ASSUME NEW x, NEW y
  PROVE  /\ Len(Root) = 0 /\ Len(<<x>>) = 1 /\ Len(<<x, y>>) = 2
         /\ <<x>>[1] = x /\ <<x, y>>[1] = x /\ <<x, y>>[2] = y
         /\ <<x>> # Root /\ <<x, y>> # Root
         /\ \A z : <<x, y>> # <<z>>
  BY DEF Root

LEMMA PathSteps ==
  ASSUME NEW x, NEW y
  PROVE  /\ Append(Root, x) = <<x>> /\ Append(<<x>>, y) = <<x, y>>
         /\ Parent(<<x>>) = Root /\ Parent(<<x, y>>) = <<x>>
<1> DEFINE S == {x, y}
<1>0. <<x>> \in Seq(S) /\ <<y>> \in Seq(S) /\ <<x, y>> \in Seq(S)
  OBVIOUS
<1>1. Append(Root, x) = <<x>> /\ Append(<<x>>, y) = <<x, y>>
  <2> DEFINE a == Append(<<x>>, y)
  <2>1. a \in Seq(S) /\ Len(a) = 2 /\ a[1] = x /\ a[2] = y
    BY <1>0, PathLengths
  <2> HIDE DEF a
  <2>2. a = <<x, y>>
    BY <1>0, <2>1, PathLengths, SeqEqual
  <2>3. Append(Root, x) = <<x>>
    BY DEF Root
  <2> QED  BY <2>2, <2>3 DEF a
<1>2. Front(<<x>>) = Root
  BY DEF Front, Root
<1>3. Front(<<x, y>>) = <<x>>
  <2> DEFINE f == SubSeq(<<x, y>>, 1, 1)
  <2>1. f \in Seq(S) /\ Len(f) = 1 /\ f[1] = x
    BY <1>0, PathLengths, SubSeqProperties
  <2>2. Front(<<x, y>>) = f
    BY PathLengths DEF Front
  <2> HIDE DEF f
  <2> QED  BY <1>0, <2>1, <2>2, PathLengths, SeqEqual
<1> QED  BY <1>1, <1>2, <1>3, PathLengths DEF Parent

Enclosing(path) == {SubSeq(path, 1, i) : i \in 0 .. Len(path)}

LEMMA EnclosingPaths ==
  ASSUME NEW x, NEW y
  PROVE  /\ Enclosing(Root) = {Root}
         /\ Enclosing(<<x>>) = {Root, <<x>>}
         /\ Enclosing(<<x, y>>) = {Root, <<x>>, <<x, y>>}
<1>1. \A path : SubSeq(path, 1, 0) = Root
  BY SubSeqEmpty DEF Root
<1>2. Enclosing(Root) = {Root}
  BY <1>1, PathLengths DEF Enclosing
<1>3. SubSeq(<<x>>, 1, 1) = <<x>>
  <2>1. <<x>> \in Seq({x})
    OBVIOUS
  <2> QED  BY <2>1, PathLengths, SubSeqFull
<1>4. Enclosing(<<x>>) = {Root, <<x>>}
  <2> DEFINE f(i) == SubSeq(<<x>>, 1, i)
  <2>1. f(0) = Root /\ f(1) = <<x>>
    BY <1>1, <1>3
  <2>2. Enclosing(<<x>>) = {f(i) : i \in {0, 1}}
    BY PathLengths DEF Enclosing
  <2> HIDE DEF f
  <2> QED  BY <2>1, <2>2
<1>5. SubSeq(<<x, y>>, 1, 2) = <<x, y>> /\ SubSeq(<<x, y>>, 1, 1) = <<x>>
  <2>1. <<x, y>> \in Seq({x, y}) /\ <<x>> \in Seq({x, y})
    OBVIOUS
  <2>2. SubSeq(<<x, y>>, 1, 2) = <<x, y>>
    BY <2>1, PathLengths, SubSeqFull
  <2> DEFINE u == SubSeq(<<x, y>>, 1, 1)
  <2>3. u \in Seq({x, y}) /\ Len(u) = 1 /\ u[1] = x
    BY <2>1, PathLengths, SubSeqProperties
  <2> HIDE DEF u
  <2>4. u = <<x>>
    BY <2>1, <2>3, PathLengths, SeqEqual
  <2> QED  BY <2>2, <2>4 DEF u
<1>6. Enclosing(<<x, y>>) = {Root, <<x>>, <<x, y>>}
  <2> DEFINE f(i) == SubSeq(<<x, y>>, 1, i)
  <2>1. f(0) = Root /\ f(1) = <<x>> /\ f(2) = <<x, y>>
    BY <1>1, <1>5
  <2>2. Enclosing(<<x, y>>) = {f(i) : i \in {0, 1, 2}}
    BY PathLengths DEF Enclosing
  <2> HIDE DEF f
  <2> QED  BY <2>1, <2>2
<1> QED  BY <1>2, <1>4, <1>6

IsPath(path) == path = Root \/ (\E x : path = <<x>>) \/ (\E x, y : path = <<x, y>>)

LEMMA LookupInScope ==
  ASSUME NEW t, IsPath(t.current), NEW kind, NEW id, id \in DOMAIN t.scopes[t.current][kind]
  PROVE  Lookup(t, kind, id) = [path |-> t.current, kind |-> kind, id |-> id]
<1> DEFINE holders == {path \in Enclosing(t.current) : id \in DOMAIN t.scopes[path][kind]}
<1>1. Holders(t, kind, id) = holders
  BY DEF Holders, Enclosing
<1>2. t.current \in Enclosing(t.current)
  <2>1. CASE t.current = Root
    BY <2>1, EnclosingPaths
  <2>2. ASSUME NEW x, t.current = <<x>>
        PROVE  t.current \in Enclosing(t.current)
    BY <2>2, EnclosingPaths
  <2>3. ASSUME NEW x, NEW y, t.current = <<x, y>>
        PROVE  t.current \in Enclosing(t.current)
    <3>1. Enclosing(<<x, y>>) = {Root, <<x>>, <<x, y>>}
      BY EnclosingPaths
    <3> QED  BY <2>3, <3>1
  <2> QED  BY <2>1, <2>2, <2>3 DEF IsPath
<1>3. \A q \in Enclosing(t.current) :
         /\ Len(q) \in Nat /\ Len(q) <= Len(t.current)
         /\ Len(t.current) <= Len(q) => q = t.current
  <2>1. CASE t.current = Root
    <3>1. Enclosing(Root) = {Root} /\ Len(Root) = 0
      BY EnclosingPaths, PathLengths
    <3> QED  BY <2>1, <3>1
  <2>2. CASE \E x : t.current = <<x>>
    <3>1. PICK x : t.current = <<x>>
      BY <2>2
    <3>2. Enclosing(t.current) = {Root, t.current} /\ Len(Root) = 0 /\ Len(t.current) = 1
      BY <3>1, EnclosingPaths, PathLengths
    <3> SUFFICES ASSUME NEW q \in Enclosing(t.current)
                 PROVE  /\ Len(q) \in Nat /\ Len(q) <= Len(t.current)
                        /\ Len(t.current) <= Len(q) => q = t.current
      OBVIOUS
    <3>3. q = t.current \/ Len(q) = 0
      BY <3>2
    <3>4. Len(t.current) = 1
      BY <3>2
    <3>5. CASE q = t.current
      <4>1. Len(q) = 1
        BY <3>4, <3>5, Zenon
      <4>2. Len(q) \in Nat /\ Len(q) <= Len(t.current)
        BY <3>4, <4>1
      <4> QED  BY <3>5, <4>2, Zenon
    <3>6. CASE Len(q) = 0
      BY <3>4, <3>6
    <3> QED  BY <3>3, <3>5, <3>6
  <2>3. CASE \E x, y : t.current = <<x, y>>
    <3>1. PICK x, y : t.current = <<x, y>>
      BY <2>3
    <3>2. /\ Enclosing(<<x, y>>) = {Root, <<x>>, <<x, y>>}
          /\ Len(Root) = 0 /\ Len(<<x>>) = 1 /\ Len(<<x, y>>) = 2
      BY EnclosingPaths, PathLengths
    <3> QED  BY <3>1, <3>2
  <2> QED  BY <2>1, <2>2, <2>3 DEF IsPath
<1>4. t.current \in holders
  BY <1>2
<1>5. \A q \in holders : Len(q) <= Len(t.current) /\ (Len(t.current) <= Len(q) => q = t.current)
  BY <1>3
<1> HIDE DEF holders
<1>6. (CHOOSE p \in holders : \A q \in holders : Len(q) <= Len(p)) = t.current
  BY <1>4, <1>5
<1> QED  BY <1>1, <1>6 DEF Lookup

LEMMA FoundAtRoot ==
  ASSUME NEW t, t.current = Root, NEW kind, NEW id
  PROVE  Found(t, kind, id) <=> id \in DOMAIN t.scopes[Root][kind]
<1>1. Holders(t, kind, id) = {path \in {Root} : id \in DOMAIN t.scopes[path][kind]}
  BY EnclosingPaths DEF Holders, Enclosing
<1> QED  BY <1>1 DEF Found

\* The table is in the scope at the path, which is new and empty if there was none.
Entered(t, u, path, record) ==
  /\ IsTable(u) /\ u.current = path
  /\ DOMAIN u.scopes = DOMAIN t.scopes \cup {path}
  /\ \A p \in DOMAIN t.scopes : u.scopes[p] = t.scopes[p]
  /\ path \notin DOMAIN t.scopes => u.scopes[path] = Scope(record, Nothing, Nothing, Nothing)
  /\ path \in DOMAIN t.scopes => u = [scopes |-> t.scopes, current |-> path]

LEMMA EnterIs ==
  ASSUME NEW t, IsTable(t), NEW child, NEW record
  PROVE  Entered(t, Enter(t, child, record), Append(t.current, child), record)
<1> DEFINE path == Append(t.current, child)
           empty == Scope(record, Nothing, Nothing, Nothing)
           scopes == Emplace(t.scopes, path, empty)
           u == [scopes |-> scopes, current |-> path]
<1>1. Enter(t, child, record) = u
  BY DEF Enter, EmptyScope, Scope
<1>2. IsScope(empty)
  BY DEF IsScope, Scope, IsFunction, Nothing
<1> HIDE DEF path, empty
<1>3. /\ IsFunction(scopes) /\ DOMAIN scopes = DOMAIN t.scopes \cup {path}
      /\ \A p \in DOMAIN t.scopes : scopes[p] = t.scopes[p]
      /\ path \notin DOMAIN t.scopes => scopes[path] = empty
      /\ path \in DOMAIN t.scopes => scopes = t.scopes
  <2>1. IsFunction(t.scopes)
    BY DEF IsTable
  <2>2. \A k, v : /\ IsFunction(Emplace(t.scopes, k, v))
                  /\ DOMAIN Emplace(t.scopes, k, v) = DOMAIN t.scopes \cup {k}
                  /\ \A p \in DOMAIN t.scopes : Emplace(t.scopes, k, v)[p] = t.scopes[p]
                  /\ k \notin DOMAIN t.scopes => Emplace(t.scopes, k, v)[k] = v
                  /\ k \in DOMAIN t.scopes => Emplace(t.scopes, k, v) = t.scopes
    BY <2>1 DEF Emplace, IsFunction
  <2> QED  BY <2>2
<1> HIDE DEF scopes
<1>4. IsTable(u)
  <2>1. \A p \in DOMAIN scopes : IsScope(scopes[p])
    BY <1>2, <1>3 DEF IsTable
  <2> QED  BY <2>1, <1>3 DEF IsTable
<1>5. u.current = path /\ u.scopes = scopes
  OBVIOUS
<1> HIDE DEF u
<1>6. path \in DOMAIN t.scopes => u = [scopes |-> t.scopes, current |-> path]
  BY <1>3 DEF u
<1>7. Enter(t, child, record) = u /\ path = Append(t.current, child)
      /\ empty = Scope(record, Nothing, Nothing, Nothing)
  BY <1>1 DEF path, empty
<1>8. Entered(t, u, path, record)
  BY <1>3, <1>4, <1>5, <1>6, <1>7 DEF Entered
<1> QED  BY <1>7, <1>8

-----------------------------------------------------------------------------
(***************************************************************************)
(* The tree.  Below the root there are the scopes of classes and below     *)
(* those the scopes of methods, each known to the scope around it; the     *)
(* record of a class knows the methods that its scope knows.               *)
(***************************************************************************)
ClassStep(id)  == <<"Class", id>>
MethodStep(id) == <<"Method", id>>

ClassAt(t, path, id) ==
  /\ path = <<ClassStep(id)>> /\ id \in DOMAIN t.scopes[Root].classes
  /\ t.scopes[path].record = [path |-> Root, kind |-> "classes", id |-> id]
  /\ DOMAIN t.scopes[path].methods = DOMAIN t.scopes[Root].classes[id].methods
  /\ DOMAIN t.scopes[path].classes = {}

MethodAt(t, path, class, id) ==
  /\ path = <<ClassStep(class), MethodStep(id)>>
  /\ <<ClassStep(class)>> \in DOMAIN t.scopes
  /\ id \in DOMAIN t.scopes[<<ClassStep(class)>>].methods
  /\ t.scopes[path].record = [path |-> <<ClassStep(class)>>, kind |-> "methods", id |-> id]
  /\ DOMAIN t.scopes[path].methods = {} /\ DOMAIN t.scopes[path].classes = {}

Tree(t) ==
  /\ IsTable(t)
  /\ Root \in DOMAIN t.scopes /\ t.current \in DOMAIN t.scopes
  /\ DOMAIN t.scopes[Root].variables = {} /\ DOMAIN t.scopes[Root].methods = {}
  /\ \A path \in DOMAIN t.scopes : path # Root =>
       (\E id : ClassAt(t, path, id)) \/ (\E class, id : MethodAt(t, path, class, id))

\* The scopes and the names of classes and methods are the same.
SameTree(t, u) ==
  /\ IsTable(u) /\ DOMAIN u.scopes = DOMAIN t.scopes
  /\ \A path \in DOMAIN t.scopes :
       /\ u.scopes[path].record = t.scopes[path].record
       /\ DOMAIN u.scopes[path].methods = DOMAIN t.scopes[path].methods
       /\ DOMAIN u.scopes[path].classes = DOMAIN t.scopes[path].classes
  /\ u.scopes[Root].variables = t.scopes[Root].variables
  /\ \A id \in DOMAIN t.scopes[Root].classes :
       DOMAIN u.scopes[Root].classes[id].methods = DOMAIN t.scopes[Root].classes[id].methods

\* The types and the parameters of the methods known at a path are the same.
SameMethods(t, u, path) ==
  \A id \in DOMAIN t.scopes[path].methods :
    /\ u.scopes[path].methods[id].type = t.scopes[path].methods[id].type
    /\ u.scopes[path].methods[id].parameters = t.scopes[path].methods[id].parameters

LEMMA SameTreeOn ==
  ASSUME NEW t, Tree(t), NEW v, SameTree(t, v), NEW u, SameTree(v, u)
  PROVE  SameTree(t, u)
<1>1. Root \in DOMAIN t.scopes
  BY DEF Tree
<1> QED  BY <1>1 DEF SameTree

LEMMA TreeKept ==
  ASSUME NEW t, Tree(t), NEW u, SameTree(t, u), u.current \in DOMAIN u.scopes
  PROVE  Tree(u)
<1>1. /\ IsTable(u)
      /\ Root \in DOMAIN u.scopes /\ u.current \in DOMAIN u.scopes
      /\ DOMAIN u.scopes[Root].variables = {} /\ DOMAIN u.scopes[Root].methods = {}
  BY DEF Tree, SameTree
<1>2. ASSUME NEW path \in DOMAIN u.scopes, path # Root
      PROVE  (\E id : ClassAt(u, path, id)) \/ (\E class, id : MethodAt(u, path, class, id))
  <2>1. path \in DOMAIN t.scopes
    BY DEF SameTree
  <2>2. ASSUME NEW id, ClassAt(t, path, id)
        PROVE  ClassAt(u, path, id)
    BY <2>1, <2>2 DEF ClassAt, SameTree, Tree
  <2>3. ASSUME NEW class, NEW id, MethodAt(t, path, class, id)
        PROVE  MethodAt(u, path, class, id)
    BY <2>1, <2>3 DEF MethodAt, SameTree
  <2> QED  BY <1>2, <2>1, <2>2, <2>3 DEF Tree
<1> QED  BY <1>1, <1>2 DEF Tree

LEMMA TreePaths ==
  ASSUME NEW t, Tree(t), NEW path \in DOMAIN t.scopes
  PROVE  IsPath(path)
<1>1. CASE path = Root
  BY <1>1 DEF IsPath
<1>2. ASSUME NEW id, ClassAt(t, path, id)
      PROVE  IsPath(path)
  BY <1>2 DEF IsPath, ClassAt
<1>3. ASSUME NEW class, NEW id, MethodAt(t, path, class, id)
      PROVE  IsPath(path)
  BY <1>3 DEF IsPath, MethodAt
<1> QED  BY <1>1, <1>2, <1>3 DEF Tree

\* A variable is added to the current scope, below the root.
LEMMA VariableAdded ==
  ASSUME NEW t, Tree(t), t.current # Root, NEW type, NEW id
  PROVE  LET u == AddVariable(t, type, id) IN
         /\ Tree(u) /\ SameTree(t, u) /\ u.current = t.current
         /\ \A path \in DOMAIN t.scopes :
              /\ u.scopes[path].methods = t.scopes[path].methods
              /\ u.scopes[path].classes = t.scopes[path].classes
              /\ path # t.current => u.scopes[path] = t.scopes[path]
         /\ u.scopes[t.current].variables = Emplace(t.scopes[t.current].variables, id, type)
<1> DEFINE s == t.scopes[t.current]
           n == Scope(s.record, Emplace(s.variables, id, type), s.methods, s.classes)
           u == Put(t, t.current, n)
<1>1. IsTable(t) /\ t.current \in DOMAIN t.scopes /\ Root \in DOMAIN t.scopes
  BY DEF Tree
<1>2. AddVariable(t, type, id) = u /\ IsScope(n)
  BY <1>1, AddVariableIs
<1>3. /\ n.record = s.record /\ n.methods = s.methods /\ n.classes = s.classes
      /\ n.variables = Emplace(s.variables, id, type)
  BY DEF Scope
<1> HIDE DEF n
<1>4. /\ IsTable(u) /\ u.current = t.current /\ DOMAIN u.scopes = DOMAIN t.scopes
      /\ \A p \in DOMAIN t.scopes : u.scopes[p] = IF p = t.current THEN n ELSE t.scopes[p]
  BY <1>1, <1>2, ScopeReplaced
<1> HIDE DEF u
<1>5. \A p \in DOMAIN t.scopes :
        /\ u.scopes[p].record = t.scopes[p].record
        /\ u.scopes[p].methods = t.scopes[p].methods
        /\ u.scopes[p].classes = t.scopes[p].classes
        /\ p # t.current => u.scopes[p] = t.scopes[p]
  BY <1>3, <1>4
<1>6. SameTree(t, u)
  BY <1>1, <1>4, <1>5 DEF SameTree
<1>7. Tree(u)
  BY <1>1, <1>4, <1>6, TreeKept
<1> QED  BY <1>1, <1>2, <1>3, <1>4, <1>5, <1>6, <1>7

\* A variable is added to a record: no scope sees a difference but in the
\* variables of its methods and classes, which nothing reads.
LEMMA VariableRecorded ==
  ASSUME NEW t, Tree(t), NEW path \in DOMAIN t.scopes, path # Root, NEW id
  PROVE  LET u == AddToRecord(t, t.scopes[path].record, "variables", id) IN
         /\ Tree(u) /\ SameTree(t, u) /\ u.current = t.current
         /\ \A p \in DOMAIN t.scopes :
              u.scopes[p].variables = t.scopes[p].variables /\ SameMethods(t, u, p)
<1> DEFINE ref == t.scopes[path].record
           u == AddToRecord(t, ref, "variables", id)
           Goal == /\ Tree(u) /\ SameTree(t, u) /\ u.current = t.current
                   /\ \A p \in DOMAIN t.scopes :
                        u.scopes[p].variables = t.scopes[p].variables /\ SameMethods(t, u, p)
<1>1. IsTable(t) /\ t.current \in DOMAIN t.scopes /\ Root \in DOMAIN t.scopes
  BY DEF Tree
<1>2. ASSUME NEW class, ClassAt(t, path, class)
      PROVE  Goal
  <2> DEFINE s == t.scopes[Root]
             r == s.classes[class]
             x == Emplace(r.variables, id, Lookup(t, "variables", id))
             n == PutClass(s, class, ClassRecord(x, r.methods))
  <2>1. ref.kind = "classes" /\ ref.path = Root /\ ref.id = class /\ class \in DOMAIN s.classes
    BY <1>2 DEF ClassAt
  <2> HIDE DEF ref
  <2>2. u = Put(t, Root, n) /\ IsScope(n)
    BY <1>1, <2>1, AddToClassIs
  <2>3. /\ n.record = s.record /\ n.variables = s.variables /\ n.methods = s.methods
        /\ DOMAIN n.classes = DOMAIN s.classes
        /\ \A k \in DOMAIN s.classes : n.classes[k].methods = s.classes[k].methods
    BY DEF PutClass, Scope, ClassRecord
  <2> HIDE DEF n, u
  <2>4. /\ IsTable(u) /\ u.current = t.current /\ DOMAIN u.scopes = DOMAIN t.scopes
        /\ \A p \in DOMAIN t.scopes : u.scopes[p] = IF p = Root THEN n ELSE t.scopes[p]
    BY <1>1, <2>2, ScopeReplaced
  <2>5. SameTree(t, u)
    BY <1>1, <2>3, <2>4 DEF SameTree
  <2>6. Tree(u)
    BY <1>1, <2>4, <2>5, TreeKept
  <2>7. \A p \in DOMAIN t.scopes :
          u.scopes[p].variables = t.scopes[p].variables /\ u.scopes[p].methods = t.scopes[p].methods
    BY <2>3, <2>4
  <2> QED  BY <2>4, <2>5, <2>6, <2>7 DEF SameMethods
<1>3. ASSUME NEW class, NEW method, MethodAt(t, path, class, method)
      PROVE  Goal
  <2> DEFINE outer == <<ClassStep(class)>>
             s == t.scopes[outer]
             r == s.methods[method]
             x == Emplace(r.variables, id, Lookup(t, "variables", id))
             n == PutMethod(s, method, MethodRecord(r.type, r.parameters, x))
  <2>1. /\ ref.kind = "methods" /\ ref.path = outer /\ ref.id = method
        /\ outer \in DOMAIN t.scopes /\ method \in DOMAIN s.methods /\ outer # Root
    BY <1>3, PathLengths DEF MethodAt
  <2> HIDE DEF ref, outer
  <2>2. u = Put(t, outer, n) /\ IsScope(n)
    BY <1>1, <2>1, AddToMethodIs
  <2>3. /\ n.record = s.record /\ n.variables = s.variables /\ n.classes = s.classes
        /\ DOMAIN n.methods = DOMAIN s.methods
        /\ \A k \in DOMAIN s.methods : /\ n.methods[k].type = s.methods[k].type
                                       /\ n.methods[k].parameters = s.methods[k].parameters
    BY DEF PutMethod, Scope, MethodRecord
  <2> HIDE DEF n, u
  <2>4. /\ IsTable(u) /\ u.current = t.current /\ DOMAIN u.scopes = DOMAIN t.scopes
        /\ \A p \in DOMAIN t.scopes : u.scopes[p] = IF p = outer THEN n ELSE t.scopes[p]
    <3>1. /\ IsScope(n) => IsTable(Put(t, outer, n))
          /\ Put(t, outer, n).current = t.current
          /\ DOMAIN Put(t, outer, n).scopes = DOMAIN t.scopes
          /\ \A p \in DOMAIN t.scopes :
               Put(t, outer, n).scopes[p] = IF p = outer THEN n ELSE t.scopes[p]
      BY <1>1, <2>1, ScopeReplaced
    <3> QED  BY <2>2, <3>1
  <2>5. SameTree(t, u)
    BY <1>1, <2>1, <2>3, <2>4 DEF SameTree
  <2>6. Tree(u)
    BY <1>1, <2>4, <2>5, TreeKept
  <2>7. \A p \in DOMAIN t.scopes :
          u.scopes[p].variables = t.scopes[p].variables /\ SameMethods(t, u, p)
    BY <2>3, <2>4 DEF SameMethods
  <2> QED  BY <2>4, <2>5, <2>6, <2>7
<1> QED  BY <1>2, <1>3 DEF Tree

\* The method of a class has one more parameter, the variable of the scope.
Parameterized(t, u, class, method, parameter) ==
  LET outer == <<ClassStep(class)>> IN
  /\ \A p \in DOMAIN t.scopes : p # outer => SameMethods(t, u, p)
  /\ outer \in DOMAIN t.scopes /\ method \in DOMAIN t.scopes[outer].methods
  /\ \A k \in DOMAIN t.scopes[outer].methods :
       /\ u.scopes[outer].methods[k].type = t.scopes[outer].methods[k].type
       /\ u.scopes[outer].methods[k].parameters =
            IF k = method THEN Append(t.scopes[outer].methods[k].parameters, parameter)
            ELSE t.scopes[outer].methods[k].parameters

\* Method::addParameter.
LEMMA ParameterRecorded ==
  ASSUME NEW t, Tree(t), NEW class, NEW method, NEW id,
         t.current = <<ClassStep(class), MethodStep(method)>>,
         id \in DOMAIN t.scopes[t.current].variables
  PROVE  LET u == AddParameter(t, t.scopes[t.current].record, id) IN
         /\ Tree(u) /\ SameTree(t, u) /\ u.current = t.current
         /\ \A p \in DOMAIN t.scopes : u.scopes[p].variables = t.scopes[p].variables
         /\ Parameterized(t, u, class, method,
                          [path |-> t.current, kind |-> "variables", id |-> id])
<1> DEFINE ref == t.scopes[t.current].record
           u == AddParameter(t, ref, id)
           outer == <<ClassStep(class)>>
           s == t.scopes[outer]
           r == s.methods[method]
           x == Lookup(t, "variables", id)
           n == PutMethod(s, method, MethodRecord(r.type, Append(r.parameters, x), r.variables))
<1>1. IsTable(t) /\ t.current \in DOMAIN t.scopes /\ Root \in DOMAIN t.scopes /\ t.current # Root
  BY PathLengths DEF Tree
<1>2. MethodAt(t, t.current, class, method)
  <2>1. ASSUME NEW c, ClassAt(t, t.current, c)
        PROVE  FALSE
    BY <2>1, PathLengths DEF ClassAt
  <2>2. PICK c, m : MethodAt(t, t.current, c, m)
    BY <1>1, <2>1 DEF Tree
  <2>3. c = class /\ m = method
    BY <2>2 DEF MethodAt, ClassStep, MethodStep
  <2> QED  BY <2>2, <2>3
<1>3. /\ ref.kind = "methods" /\ ref.path = outer /\ ref.id = method
      /\ outer \in DOMAIN t.scopes /\ method \in DOMAIN s.methods /\ outer # Root
  BY <1>2, PathLengths DEF MethodAt
<1>4. x = [path |-> t.current, kind |-> "variables", id |-> id]
  <2>1. IsPath(t.current)
    BY DEF IsPath
  <2>2. id \in DOMAIN t.scopes[t.current]["variables"]
    BY FieldByName
  <2> QED  BY <2>1, <2>2, LookupInScope
<1> HIDE DEF ref, outer, x
<1>5. u = Put(t, outer, n) /\ IsScope(n)
  BY <1>1, <1>3, AddToMethodIs DEF x
<1>6. /\ n.record = s.record /\ n.variables = s.variables /\ n.classes = s.classes
      /\ DOMAIN n.methods = DOMAIN s.methods
      /\ \A k \in DOMAIN s.methods :
           /\ n.methods[k].type = s.methods[k].type
           /\ n.methods[k].parameters = IF k = method THEN Append(s.methods[k].parameters, x)
                                        ELSE s.methods[k].parameters
  BY DEF PutMethod, Scope, MethodRecord
<1> HIDE DEF n, u
<1>7. /\ IsTable(u) /\ u.current = t.current /\ DOMAIN u.scopes = DOMAIN t.scopes
      /\ \A p \in DOMAIN t.scopes : u.scopes[p] = IF p = outer THEN n ELSE t.scopes[p]
  BY <1>1, <1>3, <1>5, ScopeReplaced
<1>8. SameTree(t, u)
  BY <1>1, <1>3, <1>6, <1>7 DEF SameTree
<1>9. Tree(u)
  BY <1>1, <1>7, <1>8, TreeKept
<1>10. \A p \in DOMAIN t.scopes : u.scopes[p].variables = t.scopes[p].variables
  BY <1>6, <1>7
<1>11. \A p \in DOMAIN t.scopes : p # outer => SameMethods(t, u, p)
  BY <1>7 DEF SameMethods
<1>12. \A k \in DOMAIN s.methods :
         /\ u.scopes[outer].methods[k].type = s.methods[k].type
         /\ u.scopes[outer].methods[k].parameters =
              IF k = method
              THEN Append(s.methods[k].parameters, [path |-> t.current, kind |-> "variables", id |-> id])
              ELSE s.methods[k].parameters
  BY <1>3, <1>4, <1>6, <1>7
<1>13. Parameterized(t, u, class, method, [path |-> t.current, kind |-> "variables", id |-> id])
  BY <1>3, <1>11, <1>12 DEF Parameterized, outer
<1> QED  BY <1>7, <1>8, <1>9, <1>10, <1>13 DEF ref, u

\* A field or a local variable is declared.
LEMMA VariableDeclared ==
  ASSUME NEW t, Tree(t), t.current # Root, NEW type, NEW id
  PROVE  LET u == AddToRecord(AddVariable(t, type, id), Current(t).record, "variables", id) IN
         /\ Tree(u) /\ SameTree(t, u) /\ u.current = t.current
         /\ \A p \in DOMAIN t.scopes :
              /\ SameMethods(t, u, p)
              /\ p # t.current => u.scopes[p].variables = t.scopes[p].variables
         /\ u.scopes[t.current].variables = Emplace(t.scopes[t.current].variables, id, type)
<1> DEFINE v == AddVariable(t, type, id)
           u == AddToRecord(v, v.scopes[t.current].record, "variables", id)
<1>1. /\ Tree(v) /\ SameTree(t, v) /\ v.current = t.current
      /\ \A p \in DOMAIN t.scopes :
           /\ v.scopes[p].methods = t.scopes[p].methods
           /\ p # t.current => v.scopes[p] = t.scopes[p]
      /\ v.scopes[t.current].variables = Emplace(t.scopes[t.current].variables, id, type)
  BY VariableAdded
<1>2. t.current \in DOMAIN t.scopes /\ DOMAIN v.scopes = DOMAIN t.scopes
  BY <1>1 DEF Tree, SameTree
<1> HIDE DEF v
<1>3. v.scopes[t.current].record = Current(t).record
  BY <1>1, <1>2 DEF SameTree, Current
<1>4. /\ Tree(u) /\ SameTree(v, u) /\ u.current = v.current
      /\ \A p \in DOMAIN v.scopes :
           u.scopes[p].variables = v.scopes[p].variables /\ SameMethods(v, u, p)
  BY <1>1, <1>2, VariableRecorded
<1> HIDE DEF u
<1>5. SameTree(t, u)
  BY <1>1, <1>4, SameTreeOn
<1>6. \A p \in DOMAIN t.scopes : SameMethods(t, u, p)
  BY <1>1, <1>2, <1>4 DEF SameMethods
<1>7. /\ \A p \in DOMAIN t.scopes :
           p # t.current => u.scopes[p].variables = t.scopes[p].variables
      /\ u.scopes[t.current].variables = Emplace(t.scopes[t.current].variables, id, type)
  BY <1>1, <1>2, <1>4
<1>8. u = AddToRecord(AddVariable(t, type, id), Current(t).record, "variables", id)
  BY <1>3 DEF u, v
<1> QED  BY <1>1, <1>4, <1>5, <1>6, <1>7, <1>8

\* It does not matter whether the methods are read before a variable is added.
LEMMA ParameterizedBefore ==
  ASSUME NEW t, NEW v, NEW u, NEW class, NEW method, NEW x, DOMAIN v.scopes = DOMAIN t.scopes,
         \A p \in DOMAIN t.scopes : v.scopes[p].methods = t.scopes[p].methods,
         Parameterized(v, u, class, method, x)
  PROVE  Parameterized(t, u, class, method, x)
<1> DEFINE outer == <<ClassStep(class)>>
<1>1. outer \in DOMAIN t.scopes /\ v.scopes[outer].methods = t.scopes[outer].methods
  BY DEF Parameterized
<1>2. \A p \in DOMAIN t.scopes : p # outer => SameMethods(t, u, p)
  BY DEF Parameterized, SameMethods
<1> QED  BY <1>1, <1>2 DEF Parameterized

\* A parameter is declared.
LEMMA ParameterDeclared ==
  ASSUME NEW t, Tree(t), NEW class, NEW method, NEW type, NEW id,
         t.current = <<ClassStep(class), MethodStep(method)>>
  PROVE  LET u == AddParameter(AddVariable(t, type, id), Current(t).record, id) IN
         /\ Tree(u) /\ SameTree(t, u) /\ u.current = t.current
         /\ \A p \in DOMAIN t.scopes :
              p # t.current => u.scopes[p].variables = t.scopes[p].variables
         /\ u.scopes[t.current].variables = Emplace(t.scopes[t.current].variables, id, type)
         /\ Parameterized(t, u, class, method,
                          [path |-> t.current, kind |-> "variables", id |-> id])
<1> DEFINE v == AddVariable(t, type, id)
           u == AddParameter(v, v.scopes[v.current].record, id)
           x == [path |-> t.current, kind |-> "variables", id |-> id]
<1>1. /\ Tree(v) /\ SameTree(t, v) /\ v.current = t.current
      /\ \A p \in DOMAIN t.scopes :
           /\ v.scopes[p].methods = t.scopes[p].methods
           /\ p # t.current => v.scopes[p] = t.scopes[p]
      /\ v.scopes[t.current].variables = Emplace(t.scopes[t.current].variables, id, type)
  BY PathLengths, VariableAdded
<1>2. t.current \in DOMAIN t.scopes /\ DOMAIN v.scopes = DOMAIN t.scopes
  BY <1>1 DEF Tree, SameTree
<1> HIDE DEF v
<1>3. v.scopes[v.current].record = Current(t).record
  BY <1>1, <1>2 DEF SameTree, Current
<1>4. id \in DOMAIN v.scopes[v.current].variables
  BY <1>1 DEF Emplace
<1>5. /\ Tree(u) /\ SameTree(v, u) /\ u.current = v.current
      /\ \A p \in DOMAIN v.scopes : u.scopes[p].variables = v.scopes[p].variables
      /\ Parameterized(v, u, class, method, x)
  <2>1. v.current = <<ClassStep(class), MethodStep(method)>>
    BY <1>1
  <2>2. Tree(v) /\ v.current = t.current
    BY <1>1
  <2>3. /\ Tree(u) /\ SameTree(v, u) /\ u.current = v.current
        /\ \A p \in DOMAIN v.scopes : u.scopes[p].variables = v.scopes[p].variables
        /\ Parameterized(v, u, class, method, [path |-> v.current, kind |-> "variables", id |-> id])
    BY <1>4, <2>1, <2>2, ParameterRecorded
  <2> HIDE DEF u
  <2> QED  BY <2>2, <2>3
<1> HIDE DEF u, x
<1>6. SameTree(t, u)
  BY <1>1, <1>5, SameTreeOn
<1>7. /\ \A p \in DOMAIN t.scopes :
           p # t.current => u.scopes[p].variables = t.scopes[p].variables
      /\ u.scopes[t.current].variables = Emplace(t.scopes[t.current].variables, id, type)
  BY <1>1, <1>2, <1>5
<1>8. Parameterized(t, u, class, method, x)
  BY <1>1, <1>2, <1>5, ParameterizedBefore
<1>9. u = AddParameter(AddVariable(t, type, id), Current(t).record, id)
  BY <1>3 DEF u, v
<1> QED  BY <1>1, <1>5, <1>6, <1>7, <1>8, <1>9 DEF x

-----------------------------------------------------------------------------
(***************************************************************************)
(* New scopes.                                                             *)
(***************************************************************************)
\* The table has one more scope, at the path where it now is.
OneMore(t, u, path) ==
  /\ Tree(u) /\ u.current = path
  /\ path \notin DOMAIN t.scopes /\ DOMAIN u.scopes = DOMAIN t.scopes \cup {path}
  /\ DOMAIN u.scopes[path].methods = {}
  /\ \A p \in DOMAIN t.scopes :
       u.scopes[p].variables = t.scopes[p].variables /\ SameMethods(t, u, p)

ClassAdded(t, u, id) ==
  LET path == <<ClassStep(id)>> IN
  /\ OneMore(t, u, path)
  /\ \A p \in DOMAIN t.scopes : DOMAIN u.scopes[p].methods = DOMAIN t.scopes[p].methods
  /\ DOMAIN u.scopes[Root].classes = DOMAIN t.scopes[Root].classes \cup {id}
  /\ u.scopes[path].variables = Emplace(Nothing, This, id)

MethodAdded(t, u, class, type, id) ==
  LET outer == <<ClassStep(class)>>
      path  == <<ClassStep(class), MethodStep(id)>>
  IN
  /\ OneMore(t, u, path)
  /\ \A p \in DOMAIN t.scopes :
       p # outer => DOMAIN u.scopes[p].methods = DOMAIN t.scopes[p].methods
  /\ id \notin DOMAIN t.scopes[outer].methods
  /\ DOMAIN u.scopes[outer].methods = DOMAIN t.scopes[outer].methods \cup {id}
  /\ u.scopes[outer].methods[id].type = type /\ u.scopes[outer].methods[id].parameters = <<>>
  /\ DOMAIN u.scopes[Root].classes = DOMAIN t.scopes[Root].classes
  /\ u.scopes[path].variables = Nothing

\* Below the root a scope is that of a class or of a method.
LEMMA TreeKinds ==
  ASSUME NEW t, Tree(t), NEW class, NEW method
  PROVE  /\ <<ClassStep(class)>> \in DOMAIN t.scopes => ClassAt(t, <<ClassStep(class)>>, class)
         /\ <<ClassStep(class), MethodStep(method)>> \in DOMAIN t.scopes =>
              MethodAt(t, <<ClassStep(class), MethodStep(method)>>, class, method)
<1> DEFINE p == <<ClassStep(class)>>
           q == <<ClassStep(class), MethodStep(method)>>
<1>1. ASSUME p \in DOMAIN t.scopes
      PROVE  ClassAt(t, p, class)
  <2>1. p # Root /\ \A c, m : p # <<ClassStep(c), MethodStep(m)>>
    BY PathLengths
  <2>2. PICK c : ClassAt(t, p, c)
    BY <1>1, <2>1 DEF Tree, MethodAt
  <2>3. c = class
    BY <2>2 DEF ClassAt, ClassStep
  <2> QED  BY <2>2, <2>3
<1>2. ASSUME q \in DOMAIN t.scopes
      PROVE  MethodAt(t, q, class, method)
  <2>1. q # Root /\ \A c : q # <<ClassStep(c)>>
    BY PathLengths
  <2>2. PICK c, m : MethodAt(t, q, c, m)
    BY <1>2, <2>1 DEF Tree, ClassAt
  <2>3. c = class /\ m = method
    BY <2>2 DEF MethodAt, ClassStep, MethodStep
  <2> QED  BY <2>2, <2>3
<1> QED  BY <1>1, <1>2

LEMMA ClassOpened ==
  ASSUME Tree(table), table.current = Root, NEW id,
         id \notin DOMAIN table.scopes[Root].classes
  PROVE  ClassAdded(table, OpenClass(id), id)
<1> DEFINE t == table
           path == <<ClassStep(id)>>
           class == [path |-> Root, kind |-> "classes", id |-> id]
           s == t.scopes[Root]
           n == Scope(s.record, s.variables, s.methods,
                      Emplace(s.classes, id, ClassRecord(Nothing, Nothing)))
           added  == AddClass(t, id)
           e      == EnterClass(added, id, class)
           inside == AddVariable(e, id, This)
           u      == AddToRecord(inside, class, "variables", This)
<1>1. IsTable(t) /\ Root \in DOMAIN t.scopes
  BY DEF Tree
<1>2. added = Put(t, Root, n) /\ IsScope(n)
  BY <1>1, AddClassIs
<1>3. /\ n.record = s.record /\ n.variables = s.variables /\ n.methods = s.methods
      /\ DOMAIN n.classes = DOMAIN s.classes \cup {id}
      /\ \A k \in DOMAIN s.classes : n.classes[k] = s.classes[k]
      /\ n.classes[id] = ClassRecord(Nothing, Nothing)
  <2>1. n.classes = Emplace(s.classes, id, ClassRecord(Nothing, Nothing))
    BY DEF Scope
  <2>2. n.record = s.record /\ n.variables = s.variables /\ n.methods = s.methods
    BY DEF Scope
  <2> DEFINE old == s.classes
             new == n.classes
             r   == ClassRecord(Nothing, Nothing)
  <2>3. id \notin DOMAIN old /\ new = Emplace(old, id, r)
    BY <2>1
  <2> HIDE DEF old, new, r
  <2>4. /\ DOMAIN new = DOMAIN old \cup {id} /\ new[id] = r
        /\ \A k \in DOMAIN old : new[k] = old[k]
    BY <2>3 DEF Emplace
  <2> QED  BY <2>2, <2>4 DEF old, new, r
<1> HIDE DEF n, added
<1>4. /\ IsTable(added) /\ added.current = Root /\ DOMAIN added.scopes = DOMAIN t.scopes
      /\ \A p \in DOMAIN t.scopes : added.scopes[p] = IF p = Root THEN n ELSE t.scopes[p]
  BY <1>1, <1>2, ScopeReplaced
<1>5. Lookup(added, "classes", id) = class
  <2>1. IsPath(added.current)
    BY <1>4 DEF IsPath
  <2>2. id \in DOMAIN added.scopes[added.current]["classes"]
    BY <1>1, <1>3, <1>4, FieldByName
  <2> QED  BY <1>4, <2>1, <2>2, LookupInScope
<1>6. path \notin DOMAIN t.scopes /\ path # Root
  BY TreeKinds, PathLengths DEF ClassAt
<1>7. /\ IsTable(e) /\ e.current = path /\ DOMAIN e.scopes = DOMAIN t.scopes \cup {path}
      /\ \A p \in DOMAIN t.scopes : e.scopes[p] = IF p = Root THEN n ELSE t.scopes[p]
      /\ e.scopes[path] = Scope(class, Nothing, Nothing, Nothing)
  <2>1. Append(added.current, ClassStep(id)) = path
    BY <1>4, PathSteps
  <2>2. e = Enter(added, ClassStep(id), class)
    BY DEF EnterClass, ClassStep
  <2> HIDE DEF e, class, path
  <2>3. Entered(added, e, path, class)
    BY <1>4, <2>1, <2>2, EnterIs
  <2> QED  BY <1>4, <1>6, <2>3 DEF Entered
<1>8. Scope(class, Nothing, Nothing, Nothing).record = class
      /\ Scope(class, Nothing, Nothing, Nothing).variables = Nothing
      /\ DOMAIN Scope(class, Nothing, Nothing, Nothing).methods = {}
      /\ DOMAIN Scope(class, Nothing, Nothing, Nothing).classes = {}
      /\ DOMAIN ClassRecord(Nothing, Nothing).methods = {}
  BY DEF Scope, ClassRecord, Nothing
<1> HIDE DEF e
<1>9. Tree(e)
  <2>1. /\ Root \in DOMAIN e.scopes /\ e.current \in DOMAIN e.scopes
        /\ DOMAIN e.scopes[Root].variables = {} /\ DOMAIN e.scopes[Root].methods = {}
    BY <1>1, <1>3, <1>7 DEF Tree
  <2>2. ASSUME NEW p \in DOMAIN e.scopes, p # Root
        PROVE  (\E c : ClassAt(e, p, c)) \/ (\E c, m : MethodAt(e, p, c, m))
    <3>1. CASE p = path
      <4>1. ClassAt(e, path, id)
        BY <1>1, <1>3, <1>7, <1>8 DEF ClassAt
      <4> QED  BY <3>1, <4>1
    <3>2. CASE p # path
      <4>1. p \in DOMAIN t.scopes /\ e.scopes[p] = t.scopes[p]
        BY <1>7, <2>2, <3>2
      <4>2. ASSUME NEW c, ClassAt(t, p, c)
            PROVE  ClassAt(e, p, c)
        BY <1>1, <1>3, <1>7, <4>1, <4>2 DEF ClassAt
      <4>3. ASSUME NEW c, NEW m, MethodAt(t, p, c, m)
            PROVE  MethodAt(e, p, c, m)
        <5>1. e.scopes[<<ClassStep(c)>>] = t.scopes[<<ClassStep(c)>>]
          BY <1>7, <4>3, PathLengths DEF MethodAt
        <5> QED  BY <1>7, <4>1, <4>3, <5>1 DEF MethodAt
      <4> QED  BY <2>2, <4>1, <4>2, <4>3 DEF Tree
    <3> QED  BY <3>1, <3>2
  <2> QED  BY <1>7, <2>1, <2>2 DEF Tree
<1>10. /\ Tree(inside) /\ SameTree(e, inside) /\ inside.current = path
       /\ \A p \in DOMAIN e.scopes :
            /\ inside.scopes[p].methods = e.scopes[p].methods
            /\ p # path => inside.scopes[p] = e.scopes[p]
       /\ inside.scopes[path].variables = Emplace(e.scopes[path].variables, This, id)
  BY <1>6, <1>7, <1>9, VariableAdded
<1> HIDE DEF inside
<1>11. inside.scopes[path].record = class /\ path \in DOMAIN inside.scopes
  BY <1>7, <1>8, <1>10 DEF SameTree
<1>12. /\ Tree(u) /\ SameTree(inside, u) /\ u.current = path
       /\ \A p \in DOMAIN inside.scopes :
            u.scopes[p].variables = inside.scopes[p].variables /\ SameMethods(inside, u, p)
  <2>1. u = AddToRecord(inside, inside.scopes[path].record, "variables", This)
    BY <1>11
  <2> HIDE DEF u, path, class
  <2> QED  BY <1>6, <1>10, <1>11, <2>1, VariableRecorded
<1> HIDE DEF u, path, class
<1>13. DOMAIN inside.scopes = DOMAIN e.scopes /\ DOMAIN u.scopes = DOMAIN e.scopes
  BY <1>10, <1>12 DEF SameTree
<1>14. \A p \in DOMAIN t.scopes :
         /\ e.scopes[p].variables = t.scopes[p].variables
         /\ e.scopes[p].methods = t.scopes[p].methods
  BY <1>3, <1>7
<1>15. \A p \in DOMAIN t.scopes :
         /\ u.scopes[p].variables = t.scopes[p].variables
         /\ DOMAIN u.scopes[p].methods = DOMAIN t.scopes[p].methods
         /\ SameMethods(t, u, p)
  <2> SUFFICES ASSUME NEW p \in DOMAIN t.scopes
               PROVE  /\ u.scopes[p].variables = t.scopes[p].variables
                      /\ DOMAIN u.scopes[p].methods = DOMAIN t.scopes[p].methods
                      /\ SameMethods(t, u, p)
    OBVIOUS
  <2>1. p \in DOMAIN e.scopes /\ p # path
    BY <1>6, <1>7
  <2>2. inside.scopes[p].methods = t.scopes[p].methods /\ inside.scopes[p].variables = t.scopes[p].variables
    BY <1>10, <1>14, <2>1
  <2>3. /\ u.scopes[p].variables = inside.scopes[p].variables /\ SameMethods(inside, u, p)
        /\ DOMAIN u.scopes[p].methods = DOMAIN inside.scopes[p].methods
    BY <1>12, <1>13, <2>1 DEF SameTree
  <2> QED  BY <2>2, <2>3 DEF SameMethods
<1>16. /\ DOMAIN u.scopes[path].methods = {}
       /\ u.scopes[path].variables = Emplace(Nothing, This, id)
       /\ DOMAIN u.scopes[Root].classes = DOMAIN t.scopes[Root].classes \cup {id}
  <2>1. path \in DOMAIN e.scopes /\ Root \in DOMAIN e.scopes
    BY <1>1, <1>7
  <2>2. /\ DOMAIN u.scopes[path].methods = DOMAIN e.scopes[path].methods
        /\ DOMAIN u.scopes[Root].classes = DOMAIN e.scopes[Root].classes
    BY <1>10, <1>12, <1>13, <2>1 DEF SameTree
  <2>3. DOMAIN e.scopes[Root].classes = DOMAIN t.scopes[Root].classes \cup {id}
    BY <1>1, <1>3, <1>7
  <2> QED  BY <1>7, <1>8, <1>10, <1>12, <1>13, <2>1, <2>2, <2>3
<1>17. u = OpenClass(id)
  BY <1>5 DEF OpenClass, u, inside, e, added
<1>18. ClassAdded(t, u, id)
  BY <1>6, <1>7, <1>12, <1>13, <1>15, <1>16 DEF ClassAdded, OneMore, path
<1> QED  BY <1>17, <1>18

\* SymbolTable::addMethod and Class::addMethod: a class knows one more method.
Named(t, u, path, type, id) ==
  /\ Tree(u) /\ u.current = path /\ DOMAIN u.scopes = DOMAIN t.scopes
  /\ \A p \in DOMAIN t.scopes :
       /\ u.scopes[p].variables = t.scopes[p].variables /\ SameMethods(t, u, p)
       /\ DOMAIN u.scopes[p].classes = DOMAIN t.scopes[p].classes
       /\ p # path => DOMAIN u.scopes[p].methods = DOMAIN t.scopes[p].methods
  /\ DOMAIN u.scopes[path].methods = DOMAIN t.scopes[path].methods \cup {id}
  /\ u.scopes[path].methods[id] = MethodRecord(type, <<>>, Nothing)

LEMMA MethodNamed ==
  ASSUME NEW t, Tree(t), NEW class, NEW outer, outer = <<ClassStep(class)>>,
         t.current = outer, NEW type, NEW id, id \notin DOMAIN t.scopes[outer].methods
  PROVE  Named(t, NewMethod(t, type, id), outer, type, id)
<1> DEFINE s == t.scopes[outer]
           n == Scope(s.record, s.variables,
                      Emplace(s.methods, id, MethodRecord(type, <<>>, Nothing)), s.classes)
           added == AddMethod(t, type, id)
           ref == Current(t).record
           u == AddToRecord(added, ref, "methods", id)
<1>1. IsTable(t) /\ Root \in DOMAIN t.scopes /\ outer \in DOMAIN t.scopes /\ outer # Root
  BY PathLengths DEF Tree
<1>2. /\ ref = [path |-> Root, kind |-> "classes", id |-> class]
      /\ class \in DOMAIN t.scopes[Root].classes
      /\ DOMAIN s.methods = DOMAIN t.scopes[Root].classes[class].methods
  <2>1. ClassAt(t, outer, class)
    BY <1>1, TreeKinds
  <2> QED  BY <2>1 DEF ClassAt, Current
<1>3. added = Put(t, outer, n) /\ IsScope(n)
  BY <1>1, AddMethodIs
<1>4. /\ n.record = s.record /\ n.variables = s.variables /\ n.classes = s.classes
      /\ DOMAIN n.methods = DOMAIN s.methods \cup {id}
      /\ \A k \in DOMAIN s.methods : n.methods[k] = s.methods[k]
      /\ n.methods[id] = MethodRecord(type, <<>>, Nothing)
  <2>1. /\ n.record = s.record /\ n.variables = s.variables /\ n.classes = s.classes
        /\ n.methods = Emplace(s.methods, id, MethodRecord(type, <<>>, Nothing))
    BY DEF Scope
  <2> DEFINE old == s.methods
             new == n.methods
             r   == MethodRecord(type, <<>>, Nothing)
  <2>2. id \notin DOMAIN old /\ new = Emplace(old, id, r)
    BY <2>1
  <2> HIDE DEF old, new, r
  <2>3. /\ DOMAIN new = DOMAIN old \cup {id} /\ new[id] = r
        /\ \A k \in DOMAIN old : new[k] = old[k]
    BY <2>2 DEF Emplace
  <2> QED  BY <2>1, <2>3 DEF old, new, r
<1> HIDE DEF n, added
<1>5. /\ IsTable(added) /\ added.current = outer /\ DOMAIN added.scopes = DOMAIN t.scopes
      /\ \A p \in DOMAIN t.scopes : added.scopes[p] = IF p = outer THEN n ELSE t.scopes[p]
  <2>1. /\ IsScope(n) => IsTable(Put(t, outer, n))
        /\ Put(t, outer, n).current = t.current
        /\ DOMAIN Put(t, outer, n).scopes = DOMAIN t.scopes
        /\ \A p \in DOMAIN t.scopes :
             Put(t, outer, n).scopes[p] = IF p = outer THEN n ELSE t.scopes[p]
    BY <1>1, ScopeReplaced
  <2> QED  BY <1>3, <2>1
<1> DEFINE z == added.scopes[Root]
           r == z.classes[class]
           x == Emplace(r.methods, id, Lookup(added, "methods", id))
           o == PutClass(z, class, ClassRecord(r.variables, x))
<1>6. z = t.scopes[Root] /\ ref.kind = "classes" /\ ref.path = Root /\ ref.id = class
  BY <1>1, <1>2, <1>5
<1>7. u = Put(added, Root, o) /\ IsScope(o)
  <2>1. ref.path \in DOMAIN added.scopes /\ ref.id \in DOMAIN added.scopes[ref.path].classes
    BY <1>1, <1>2, <1>5, <1>6
  <2> HIDE DEF ref
  <2>2. /\ IsTable(added) /\ ref.kind = "classes" /\ ref.path = Root /\ ref.id = class
        /\ Root \in DOMAIN added.scopes /\ class \in DOMAIN added.scopes[Root].classes
    BY <1>5, <1>6, <2>1
  <2> QED  BY <2>2, MethodToClass
<1>8. /\ o.record = z.record /\ o.variables = z.variables /\ o.methods = z.methods
      /\ DOMAIN o.classes = DOMAIN z.classes
      /\ \A k \in DOMAIN z.classes :
           DOMAIN o.classes[k].methods = IF k = class THEN DOMAIN r.methods \cup {id}
                                         ELSE DOMAIN z.classes[k].methods
  <2>1. DOMAIN x = DOMAIN r.methods \cup {id}
    BY DEF Emplace
  <2> HIDE DEF x
  <2> QED  BY <2>1 DEF PutClass, Scope, ClassRecord
<1> HIDE DEF o, u, z, r, ref
<1>9. /\ IsTable(u) /\ u.current = outer /\ DOMAIN u.scopes = DOMAIN t.scopes
      /\ \A p \in DOMAIN t.scopes :
           u.scopes[p] = IF p = Root THEN o ELSE IF p = outer THEN n ELSE t.scopes[p]
  <2>1. /\ IsScope(o) => IsTable(Put(added, Root, o))
        /\ Put(added, Root, o).current = added.current
        /\ DOMAIN Put(added, Root, o).scopes = DOMAIN added.scopes
        /\ \A p \in DOMAIN added.scopes :
             Put(added, Root, o).scopes[p] = IF p = Root THEN o ELSE added.scopes[p]
    BY <1>1, <1>5, ScopeReplaced
  <2> QED  BY <1>5, <1>7, <2>1
<1>10. \A p \in DOMAIN t.scopes :
         /\ u.scopes[p].record = t.scopes[p].record
         /\ u.scopes[p].variables = t.scopes[p].variables
         /\ DOMAIN u.scopes[p].classes = DOMAIN t.scopes[p].classes
         /\ p # outer => u.scopes[p].methods = t.scopes[p].methods
  BY <1>1, <1>4, <1>6, <1>8, <1>9
<1>11. /\ DOMAIN u.scopes[outer].methods = DOMAIN t.scopes[outer].methods \cup {id}
       /\ u.scopes[outer].methods[id] = MethodRecord(type, <<>>, Nothing)
       /\ \A k \in DOMAIN t.scopes[outer].methods :
            u.scopes[outer].methods[k] = t.scopes[outer].methods[k]
  BY <1>1, <1>4, <1>9
<1>12. \A k \in DOMAIN t.scopes[Root].classes :
         DOMAIN u.scopes[Root].classes[k].methods =
           IF k = class THEN DOMAIN t.scopes[Root].classes[k].methods \cup {id}
           ELSE DOMAIN t.scopes[Root].classes[k].methods
  <2>1. u.scopes[Root] = o /\ z = t.scopes[Root] /\ r = z.classes[class]
    BY <1>1, <1>6, <1>9 DEF r
  <2> QED  BY <1>8, <2>1
<1>13. Tree(u)
  <2>1. /\ Root \in DOMAIN u.scopes /\ u.current \in DOMAIN u.scopes
        /\ DOMAIN u.scopes[Root].variables = {} /\ DOMAIN u.scopes[Root].methods = {}
    BY <1>1, <1>9, <1>10 DEF Tree
  <2>2. ASSUME NEW p \in DOMAIN u.scopes, p # Root
        PROVE  (\E c : ClassAt(u, p, c)) \/ (\E c, m : MethodAt(u, p, c, m))
    <3>1. p \in DOMAIN t.scopes
      BY <1>9
    <3>2. ASSUME NEW c, ClassAt(t, p, c)
          PROVE  ClassAt(u, p, c)
      <4>1. p = outer <=> c = class
        BY <3>2 DEF ClassAt, ClassStep
      <4>2. CASE c = class
        BY <1>1, <1>2, <1>10, <1>11, <1>12, <3>1, <3>2, <4>1, <4>2 DEF ClassAt
      <4>3. CASE c # class
        BY <1>1, <1>10, <1>12, <3>1, <3>2, <4>1, <4>3 DEF ClassAt
      <4> QED  BY <4>2, <4>3
    <3>3. ASSUME NEW c, NEW m, MethodAt(t, p, c, m)
          PROVE  MethodAt(u, p, c, m)
      <4>1. p # outer
        BY <3>3, PathLengths DEF MethodAt
      <4>2. <<ClassStep(c)>> \in DOMAIN t.scopes /\ m \in DOMAIN t.scopes[<<ClassStep(c)>>].methods
        BY <3>3 DEF MethodAt
      <4>3. m \in DOMAIN u.scopes[<<ClassStep(c)>>].methods
        BY <1>10, <1>11, <4>2
      <4> QED  BY <1>9, <1>10, <3>1, <3>3, <4>1, <4>2, <4>3 DEF MethodAt
    <3> QED  BY <2>2, <3>1, <3>2, <3>3 DEF Tree
  <2> QED  BY <1>9, <2>1, <2>2 DEF Tree
<1>14. \A p \in DOMAIN t.scopes : SameMethods(t, u, p)
  BY <1>10, <1>11 DEF SameMethods
<1>15. u = NewMethod(t, type, id)
  BY DEF u, added, ref, NewMethod
<1>16. Named(t, u, outer, type, id)
  BY <1>9, <1>10, <1>11, <1>13, <1>14 DEF Named
<1> QED  BY <1>15, <1>16

LEMMA MethodOpened ==
  ASSUME NEW t, Tree(t), NEW class, t.current = <<ClassStep(class)>>, NEW type, NEW id,
         id \notin DOMAIN t.scopes[t.current].methods
  PROVE  MethodAdded(t, OpenMethod(t, type, id), class, type, id)
<1> DEFINE outer == <<ClassStep(class)>>
           path  == <<ClassStep(class), MethodStep(id)>>
           ref   == [path |-> outer, kind |-> "methods", id |-> id]
           added == NewMethod(t, type, id)
           u     == EnterMethod(added, id, ref)
<1>1. /\ Tree(added) /\ added.current = outer /\ DOMAIN added.scopes = DOMAIN t.scopes
      /\ \A p \in DOMAIN t.scopes :
           /\ added.scopes[p].variables = t.scopes[p].variables /\ SameMethods(t, added, p)
           /\ DOMAIN added.scopes[p].classes = DOMAIN t.scopes[p].classes
           /\ p # outer => DOMAIN added.scopes[p].methods = DOMAIN t.scopes[p].methods
      /\ DOMAIN added.scopes[outer].methods = DOMAIN t.scopes[outer].methods \cup {id}
      /\ added.scopes[outer].methods[id] = MethodRecord(type, <<>>, Nothing)
  <2>1. t.current = outer /\ id \notin DOMAIN t.scopes[outer].methods
    OBVIOUS
  <2>2. Named(t, added, outer, type, id)
    BY <2>1, MethodNamed
  <2> QED  BY <2>2 DEF Named
<1> HIDE DEF added
<1>2. outer \in DOMAIN t.scopes /\ Root \in DOMAIN t.scopes
  BY DEF Tree
<1>3. Lookup(added, "methods", id) = ref
  <2>1. IsPath(added.current)
    BY <1>1 DEF IsPath
  <2>2. id \in DOMAIN added.scopes[added.current]["methods"]
    BY <1>1, <1>2, FieldByName
  <2> QED  BY <1>1, <2>1, <2>2, LookupInScope
<1>4. path \notin DOMAIN t.scopes /\ path # Root
  <2>1. path # Root
    BY PathLengths
  <2>2. ASSUME path \in DOMAIN t.scopes
        PROVE  FALSE
    <3>1. MethodAt(t, path, class, id)
      BY <2>2, TreeKinds
    <3> QED  BY <3>1 DEF MethodAt
  <2> QED  BY <2>1, <2>2
<1>5. /\ IsTable(u) /\ u.current = path /\ DOMAIN u.scopes = DOMAIN t.scopes \cup {path}
      /\ \A p \in DOMAIN t.scopes : u.scopes[p] = added.scopes[p]
      /\ u.scopes[path] = Scope(ref, Nothing, Nothing, Nothing)
  <2>1. Append(added.current, MethodStep(id)) = path
    BY <1>1, PathSteps
  <2>2. u = Enter(added, MethodStep(id), ref)
    BY DEF EnterMethod, MethodStep
  <2>3. IsTable(added)
    BY <1>1 DEF Tree
  <2> HIDE DEF u, ref, path
  <2>4. Entered(added, u, path, ref)
    BY <2>1, <2>2, <2>3, EnterIs
  <2> QED  BY <1>1, <1>4, <2>4 DEF Entered
<1>6. /\ Scope(ref, Nothing, Nothing, Nothing).record = ref
      /\ Scope(ref, Nothing, Nothing, Nothing).variables = Nothing
      /\ DOMAIN Scope(ref, Nothing, Nothing, Nothing).methods = {}
      /\ DOMAIN Scope(ref, Nothing, Nothing, Nothing).classes = {}
  BY DEF Scope, Nothing
<1> HIDE DEF u
<1>7. Tree(u)
  <2>1. /\ Root \in DOMAIN u.scopes /\ u.current \in DOMAIN u.scopes
        /\ DOMAIN u.scopes[Root].variables = {} /\ DOMAIN u.scopes[Root].methods = {}
    BY <1>1, <1>2, <1>5 DEF Tree
  <2>2. ASSUME NEW p \in DOMAIN u.scopes, p # Root
        PROVE  (\E c : ClassAt(u, p, c)) \/ (\E c, m : MethodAt(u, p, c, m))
    <3>1. CASE p = path
      <4>1. MethodAt(u, path, class, id)
        BY <1>1, <1>2, <1>5, <1>6 DEF MethodAt
      <4> QED  BY <3>1, <4>1
    <3>2. CASE p # path
      <4>1. p \in DOMAIN added.scopes /\ u.scopes[p] = added.scopes[p]
        BY <1>1, <1>5, <3>2
      <4>2. ASSUME NEW c, ClassAt(added, p, c)
            PROVE  ClassAt(u, p, c)
        BY <1>2, <1>5, <4>1, <4>2 DEF ClassAt
      <4>3. ASSUME NEW c, NEW m, MethodAt(added, p, c, m)
            PROVE  MethodAt(u, p, c, m)
        BY <1>1, <1>5, <4>1, <4>3 DEF MethodAt
      <4> QED  BY <1>1, <2>2, <4>1, <4>2, <4>3 DEF Tree
    <3> QED  BY <3>1, <3>2
  <2> QED  BY <1>5, <2>1, <2>2 DEF Tree
<1>8. \A p \in DOMAIN t.scopes :
        u.scopes[p].variables = t.scopes[p].variables /\ SameMethods(t, u, p)
  BY <1>1, <1>5 DEF SameMethods
<1>9. DOMAIN u.scopes[path].methods = {} /\ u.scopes[path].variables = Nothing
  BY <1>5, <1>6
<1>10. OneMore(t, u, path)
  BY <1>4, <1>5, <1>7, <1>8, <1>9 DEF OneMore
<1>11. /\ u.scopes[outer].methods[id].type = type /\ u.scopes[outer].methods[id].parameters = <<>>
       /\ DOMAIN u.scopes[outer].methods = DOMAIN t.scopes[outer].methods \cup {id}
  BY <1>1, <1>2, <1>5 DEF MethodRecord
<1>12. /\ \A p \in DOMAIN t.scopes :
            p # outer => DOMAIN u.scopes[p].methods = DOMAIN t.scopes[p].methods
       /\ DOMAIN u.scopes[Root].classes = DOMAIN t.scopes[Root].classes
  BY <1>1, <1>2, <1>5
<1>13. id \notin DOMAIN t.scopes[outer].methods
  OBVIOUS
<1>14. u = OpenMethod(t, type, id)
  BY <1>3 DEF OpenMethod, u, added
<1>15. MethodAdded(t, u, class, type, id)
  BY <1>9, <1>10, <1>11, <1>12, <1>13 DEF MethodAdded
<1> QED  BY <1>14, <1>15

-----------------------------------------------------------------------------
(***************************************************************************)
(* What a traversal of the program has left to visit.                      *)
(***************************************************************************)
Traversals == {"declare", "check", "generate"}

Kinds == {"main", "class", "method", "parameter", "variable", "use", "leave", "root"}

NodesOf(c) ==
  ToSet(c.fields) \cup ToSet(c.methods)
    \cup UNION {ToSet(m.params) \cup ToSet(m.items) : m \in ToSet(c.methods)}

Nodes(prog) ==
  {<<>>} \cup ToSet(prog) \cup ToSet(prog[1].items)
    \cup UNION {NodesOf(prog[i]) : i \in 2 .. Len(prog)}

AllTasks(prog) == {Task(kind, x) : kind \in Kinds, x \in Nodes(prog)}

\* What the visit of the k-th class leaves in the agenda.
Members(pass, prog, k) ==
  IF k = 1 THEN <<>>
  ELSE IF pass = "generate" THEN Tasks("method", prog[k].methods)
  ELSE Tasks("variable", prog[k].fields) \o Tasks("method", prog[k].methods)

\* What the visit of a method leaves in the agenda.
Body(pass, m) ==
  CASE pass = "declare" -> Tasks("parameter", m.params) \o Items(OfKind("variable", m.items))
    [] pass = "check"   -> Items(m.items)
    [] OTHER            -> Items(OfKind("use", m.items))

\* The q-th member of the k-th class is a method; the main class has only main.
Begun(pass, prog, k, q) ==
  IF k = 1 THEN q = 0 /\ pass # "declare"
  ELSE q # 0 /\ Members(pass, prog, k)[q].kind = "method"

NameAt(pass, prog, k, q) == IF k = 1 THEN Main ELSE Members(pass, prog, k)[q].node.id

BodyAt(pass, prog, k, q) ==
  IF k = 1 THEN Items(prog[1].items) ELSE Body(pass, Members(pass, prog, k)[q].node)

\* What is left after the q-th member of the k-th class.
Rest(pass, prog, k, q) ==
  From(Members(pass, prog, k), q + 1) \o (<<Leave>> \o From(Classes(prog), k + 1))

\* One task for each node, out of U.
TaskEach(tasks, nodes, U) ==
  /\ Len(nodes) \in Nat /\ DOMAIN nodes = 1 .. Len(nodes)
  /\ tasks \in Seq(U) /\ Len(tasks) = Len(nodes)
  /\ \A i \in 1 .. Len(nodes) : tasks[i].node = nodes[i]

LEMMA TasksAre ==
  ASSUME NEW U, NEW nodes, IsSequence(nodes), NEW kind,
         \A i \in DOMAIN nodes : Task(kind, nodes[i]) \in U
  PROVE  /\ TaskEach(Tasks(kind, nodes), nodes, U)
         /\ \A i \in 1 .. Len(nodes) : Tasks(kind, nodes)[i].kind = kind
<1>0. \A x : Task(kind, x).kind = kind /\ Task(kind, x).node = x
  BY DEF Task
<1>1. Len(nodes) \in Nat /\ DOMAIN nodes = 1 .. Len(nodes)
  BY DEF IsSequence
<1> HIDE DEF Task
<1>2. Tasks(kind, nodes) \in Seq(U) /\ Len(Tasks(kind, nodes)) = Len(nodes)
      /\ \A i \in 1 .. Len(nodes) : Tasks(kind, nodes)[i] = Task(kind, nodes[i])
  BY <1>1 DEF Tasks
<1> QED  BY <1>0, <1>1, <1>2 DEF TaskEach

LEMMA ItemsAre ==
  ASSUME NEW U, NEW nodes, IsSequence(nodes),
         \A i \in DOMAIN nodes : Task(nodes[i].kind, nodes[i]) \in U
  PROVE  /\ TaskEach(Items(nodes), nodes, U)
         /\ \A i \in 1 .. Len(nodes) : Items(nodes)[i].kind = nodes[i].kind
<1>0. \A kind, x : Task(kind, x).kind = kind /\ Task(kind, x).node = x
  BY DEF Task
<1>1. Len(nodes) \in Nat /\ DOMAIN nodes = 1 .. Len(nodes)
  BY DEF IsSequence
<1>2. Items(nodes) \in Seq(U) /\ Len(Items(nodes)) = Len(nodes)
      /\ \A i \in 1 .. Len(nodes) : Items(nodes)[i] = Task(nodes[i].kind, nodes[i])
  BY <1>1 DEF Items
<1> QED  BY <1>0, <1>1, <1>2 DEF TaskEach

LEMMA OfKindIs ==
  ASSUME NEW kind, NEW items, IsSequence(items)
  PROVE  /\ OfKind(kind, items) \in Seq({x \in ToSet(items) : x.kind = kind})
         /\ IsSequence(OfKind(kind, items))
         /\ \A i \in DOMAIN OfKind(kind, items) :
              OfKind(kind, items)[i] \in ToSet(items) /\ OfKind(kind, items)[i].kind = kind
<1> DEFINE S == {x \in ToSet(items) : x.kind = kind}
           parts == [i \in DOMAIN items |->
                       IF items[i].kind = kind THEN <<items[i]>> ELSE <<>>]
<1>1. Len(items) \in Nat /\ DOMAIN items = 1 .. Len(items)
  BY DEF IsSequence
<1>2. \A i \in 1 .. Len(items) :
        (IF items[i].kind = kind THEN <<items[i]>> ELSE <<>>) \in Seq(S)
  <2> SUFFICES ASSUME NEW i \in 1 .. Len(items)
               PROVE  (IF items[i].kind = kind THEN <<items[i]>> ELSE <<>>) \in Seq(S)
    OBVIOUS
  <2>1. CASE items[i].kind = kind
    <3>1. items[i] \in S
      BY <1>1, <2>1 DEF ToSet
    <3> HIDE DEF S
    <3> QED  BY <2>1, <3>1
  <2>2. CASE items[i].kind # kind
    BY <2>2, EmptySeq
  <2> QED  BY <2>1, <2>2
<1> HIDE DEF S
<1>3. parts \in Seq(Seq(S))
  BY <1>1, <1>2
<1>4. OfKind(kind, items) = FlattenSeq(parts)
  BY DEF OfKind
<1> HIDE DEF parts
<1>5. OfKind(kind, items) \in Seq(S)
  BY <1>3, <1>4, FlattenConcat
<1> DEFINE o == OfKind(kind, items)
<1>6. \A i \in DOMAIN o : o[i] \in S
  BY <1>5
<1>7. IsSequence(o)
  <2>1. Len(o) \in Nat /\ DOMAIN o = 1 .. Len(o) /\ o = [i \in 1 .. Len(o) |-> o[i]]
    BY <1>5
  <2> QED  BY <2>1 DEF IsSequence, ToSet
<1> QED  BY <1>5, <1>6, <1>7 DEF S

LEMMA Program ==
  ASSUME NEW prog \in Programs
  PROVE  /\ Len(prog) \in Nat /\ Len(prog) # 0 /\ DOMAIN prog = 1 .. Len(prog)
         /\ IsSequence(prog) /\ IsSequence(prog[1].items) /\ IsName(prog[1].arg)
         /\ \A i \in DOMAIN prog[1].items : prog[1].items[i].kind = "use"
         /\ \A i \in 2 .. Len(prog) :
              /\ AreNamed(prog[i].fields) /\ IsSequence(prog[i].methods)
              /\ \A l \in DOMAIN prog[i].methods : IsMethod(prog[i].methods[l])
<1>1. /\ IsSequence(prog) /\ prog # <<>> /\ IsSequence(prog[1].items) /\ IsName(prog[1].arg)
      /\ \A i \in DOMAIN prog[1].items : prog[1].items[i].kind = "use"
      /\ \A i \in 2 .. Len(prog) :
           /\ AreNamed(prog[i].fields) /\ IsSequence(prog[i].methods)
           /\ \A l \in DOMAIN prog[i].methods : IsMethod(prog[i].methods[l])
  BY ProgramAssumption
<1>2. Len(prog) \in Nat /\ Len(prog) # 0 /\ DOMAIN prog = 1 .. Len(prog)
  BY <1>1 DEF IsSequence
<1> QED  BY <1>1, <1>2

LEMMA InAllTasks ==
  ASSUME NEW prog \in Programs, NEW kind \in Kinds
  PROVE  /\ Task(kind, <<>>) \in AllTasks(prog)
         /\ \A i \in DOMAIN prog : Task(kind, prog[i]) \in AllTasks(prog)
         /\ \A i \in DOMAIN prog[1].items : Task(kind, prog[1].items[i]) \in AllTasks(prog)
         /\ \A k \in 2 .. Len(prog) :
              /\ \A i \in DOMAIN prog[k].fields : Task(kind, prog[k].fields[i]) \in AllTasks(prog)
              /\ \A i \in DOMAIN prog[k].methods :
                   /\ Task(kind, prog[k].methods[i]) \in AllTasks(prog)
                   /\ \A x \in ToSet(prog[k].methods[i].params) \cup ToSet(prog[k].methods[i].items) :
                        Task(kind, x) \in AllTasks(prog)
<1>1. \A x \in Nodes(prog) : Task(kind, x) \in AllTasks(prog)
  BY DEF AllTasks
<1>2. /\ <<>> \in Nodes(prog) /\ \A i \in DOMAIN prog : prog[i] \in Nodes(prog)
      /\ \A i \in DOMAIN prog[1].items : prog[1].items[i] \in Nodes(prog)
      /\ \A k \in 2 .. Len(prog) : NodesOf(prog[k]) \subseteq Nodes(prog)
  BY DEF Nodes, ToSet
<1>3. ASSUME NEW c
      PROVE  /\ \A i \in DOMAIN c.fields : c.fields[i] \in NodesOf(c)
             /\ \A i \in DOMAIN c.methods :
                  /\ c.methods[i] \in NodesOf(c)
                  /\ ToSet(c.methods[i].params) \cup ToSet(c.methods[i].items) \subseteq NodesOf(c)
  <2>1. \A i \in DOMAIN c.fields : c.fields[i] \in ToSet(c.fields)
    BY DEF ToSet
  <2>2. \A i \in DOMAIN c.methods : c.methods[i] \in ToSet(c.methods)
    BY DEF ToSet
  <2> QED  BY <2>1, <2>2 DEF NodesOf
<1> QED  BY <1>1, <1>2, <1>3

LEMMA ClassesAre ==
  ASSUME NEW prog \in Programs
  PROVE  /\ Classes(prog) \in Seq(AllTasks(prog)) /\ Len(Classes(prog)) = Len(prog)
         /\ \A i \in 1 .. Len(prog) : /\ Classes(prog)[i].kind = (IF i = 1 THEN "main" ELSE "class")
                                      /\ Classes(prog)[i].node = prog[i]
<1>0. \A kind, x : Task(kind, x).kind = kind /\ Task(kind, x).node = x
  BY DEF Task
<1>1. Len(prog) \in Nat /\ DOMAIN prog = 1 .. Len(prog)
  BY Program
<1>2. \A i \in 1 .. Len(prog) : Task(IF i = 1 THEN "main" ELSE "class", prog[i]) \in AllTasks(prog)
  BY <1>1, InAllTasks DEF Kinds
<1>3. /\ Classes(prog) \in Seq(AllTasks(prog)) /\ Len(Classes(prog)) = Len(prog)
      /\ \A i \in 1 .. Len(prog) :
           Classes(prog)[i] = Task(IF i = 1 THEN "main" ELSE "class", prog[i])
  BY <1>1, <1>2 DEF Classes
<1> QED  BY <1>0, <1>3

\* A member of a class other than the main class: a field or a method.
IsField(pass, c, q, task) ==
  /\ pass # "generate" /\ q \in DOMAIN c.fields
  /\ task.kind = "variable" /\ task.node = c.fields[q]

IsMethodOf(pass, c, q, task, l) ==
  /\ l \in DOMAIN c.methods /\ task.kind = "method" /\ task.node = c.methods[l]
  /\ pass # "generate" => q = Len(c.fields) + l

LEMMA MembersAre ==
  ASSUME NEW prog \in Programs, NEW pass \in Traversals, NEW k \in 1 .. Len(prog)
  PROVE  LET s == Members(pass, prog, k)
             c == prog[k]
         IN  /\ s \in Seq(AllTasks(prog))
             /\ k = 1 => Len(s) = 0
             /\ k # 1 /\ pass # "generate" => Len(s) = Len(c.fields) + Len(c.methods)
             /\ \A q \in 1 .. Len(s) :
                  /\ k # 1
                  /\ IsField(pass, c, q, s[q]) \/ \E l : IsMethodOf(pass, c, q, s[q], l)
<1>1. CASE k = 1
  <2>1. Members(pass, prog, k) = <<>>
    BY <1>1 DEF Members
  <2>2. Members(pass, prog, k) \in Seq(AllTasks(prog)) /\ Len(Members(pass, prog, k)) = 0
    BY <2>1, EmptySeq
  <2>3. 1 .. Len(Members(pass, prog, k)) = {}
    BY <2>2
  <2> QED  BY <1>1, <2>2, <2>3
<1>2. CASE k # 1
  <2> DEFINE c == prog[k]
             a == Tasks("variable", c.fields)
             b == Tasks("method", c.methods)
             U == AllTasks(prog)
  <2>1. k \in 2 .. Len(prog)
    BY <1>2, Program
  <2>2. IsSequence(c.fields) /\ IsSequence(c.methods)
    BY <2>1, Program DEF AreNamed
  <2>3. \A i \in DOMAIN c.fields : Task("variable", c.fields[i]) \in U
    BY <2>1, InAllTasks DEF Kinds
  <2>0. \A i \in DOMAIN c.methods : Task("method", c.methods[i]) \in U
    BY <2>1, InAllTasks DEF Kinds
  <2> HIDE DEF U, c
  <2>4. /\ Len(c.fields) \in Nat /\ DOMAIN c.fields = 1 .. Len(c.fields)
        /\ a \in Seq(U) /\ Len(a) = Len(c.fields)
        /\ \A i \in 1 .. Len(c.fields) : a[i].kind = "variable" /\ a[i].node = c.fields[i]
    <3>1. TaskEach(a, c.fields, U) /\ \A i \in 1 .. Len(c.fields) : a[i].kind = "variable"
      BY <2>2, <2>3, TasksAre
    <3> HIDE DEF a
    <3> QED  BY <3>1 DEF TaskEach
  <2>5. /\ Len(c.methods) \in Nat /\ DOMAIN c.methods = 1 .. Len(c.methods)
        /\ b \in Seq(U) /\ Len(b) = Len(c.methods)
        /\ \A i \in 1 .. Len(c.methods) : b[i].kind = "method" /\ b[i].node = c.methods[i]
    <3>1. TaskEach(b, c.methods, U) /\ \A i \in 1 .. Len(c.methods) : b[i].kind = "method"
      BY <2>0, <2>2, TasksAre
    <3> HIDE DEF b
    <3> QED  BY <3>1 DEF TaskEach
  <2>6. CASE pass = "generate"
    <3>1. Members(pass, prog, k) = b
      BY <1>2, <2>6 DEF Members, c
    <3> HIDE DEF b
    <3>2. \A q \in 1 .. Len(b) : IsMethodOf(pass, c, q, b[q], q)
      BY <2>5, <2>6 DEF IsMethodOf
    <3> QED  BY <1>2, <2>5, <2>6, <3>1, <3>2 DEF U, c
  <2>7. CASE pass # "generate"
    <3> DEFINE s == a \o b
    <3>1. Members(pass, prog, k) = s
      BY <1>2, <2>7 DEF Members, c
    <3>0. a \in Seq(U) /\ b \in Seq(U) /\ Len(a) \in Nat /\ Len(b) \in Nat
      BY <2>4, <2>5
    <3> HIDE DEF a, b
    <3>2. /\ s \in Seq(U) /\ Len(s) = Len(a) + Len(b)
          /\ \A q \in 1 .. Len(a) + Len(b) : s[q] = IF q <= Len(a) THEN a[q] ELSE b[q - Len(a)]
      BY <3>0, ConcatProperties
    <3> HIDE DEF s
    <3>3. ASSUME NEW q \in 1 .. Len(s)
          PROVE  IsField(pass, c, q, s[q]) \/ \E l : IsMethodOf(pass, c, q, s[q], l)
      <4>1. CASE q <= Len(a)
        <5>1. q \in 1 .. Len(c.fields) /\ s[q] = a[q]
          BY <2>4, <3>0, <3>2, <4>1
        <5> QED  BY <2>4, <2>7, <5>1 DEF IsField
      <4>2. CASE ~(q <= Len(a))
        <5>0. Len(a) = Len(c.fields) /\ Len(b) = Len(c.methods) /\ DOMAIN c.methods = 1 .. Len(c.methods)
          BY <2>4, <2>5
        <5>1. /\ q - Len(a) \in 1 .. Len(c.methods) /\ s[q] = b[q - Len(a)]
              /\ q = Len(c.fields) + (q - Len(a))
          <6>1. q \in 1 .. Len(a) + Len(b)
            BY <3>2
          <6>2. s[q] = b[q - Len(a)]
            BY <3>2, <4>2, <6>1
          <6>3. q - Len(a) \in 1 .. Len(b) /\ q = Len(a) + (q - Len(a))
            BY <3>0, <4>2, <6>1
          <6> QED  BY <5>0, <6>2, <6>3
        <5>2. IsMethodOf(pass, c, q, s[q], q - Len(a))
          BY <2>5, <5>1 DEF IsMethodOf
        <5> QED  BY <5>2
      <4> QED  BY <4>1, <4>2
    <3> QED  BY <1>2, <2>4, <2>5, <2>7, <3>1, <3>2, <3>3 DEF U, c
  <2> QED  BY <2>6, <2>7
<1> QED  BY <1>1, <1>2

\* The kinds of tasks in the body of a method.
InBody(pass) ==
  IF pass = "declare" THEN {"parameter", "variable"}
  ELSE IF pass = "check" THEN {"variable", "use"} ELSE {"use"}

\* There is a task of every kind for each node.
Visitable(prog, nodes) ==
  \A kind \in Kinds : \A i \in DOMAIN nodes : Task(kind, nodes[i]) \in AllTasks(prog)

Proper(prog, m) ==
  /\ IsSequence(m.params) /\ IsSequence(m.items)
  /\ IsSequence(OfKind("variable", m.items)) /\ IsSequence(OfKind("use", m.items))
  /\ \A i \in DOMAIN m.params : IsName(m.params[i].id)
  /\ \A i \in DOMAIN m.items : m.items[i].kind \in {"variable", "use"}
  /\ \A i \in DOMAIN OfKind("variable", m.items) :
       /\ OfKind("variable", m.items)[i].kind = "variable"
       /\ IsName(OfKind("variable", m.items)[i].id)
  /\ \A i \in DOMAIN OfKind("use", m.items) : OfKind("use", m.items)[i].kind = "use"
  /\ Visitable(prog, m.params) /\ Visitable(prog, m.items)
  /\ Visitable(prog, OfKind("variable", m.items)) /\ Visitable(prog, OfKind("use", m.items))

LEMMA MethodIs ==
  ASSUME NEW prog \in Programs, NEW k \in 2 .. Len(prog), NEW l \in DOMAIN prog[k].methods
  PROVE  Proper(prog, prog[k].methods[l])
<1> DEFINE m == prog[k].methods[l]
           v == OfKind("variable", m.items)
           u == OfKind("use", m.items)
<1>1. IsMethod(m)
  BY Program
<1>2. \A kind \in Kinds : \A x \in ToSet(m.params) \cup ToSet(m.items) : Task(kind, x) \in AllTasks(prog)
  BY InAllTasks
<1> HIDE DEF m
<1>3. /\ IsSequence(m.params) /\ IsSequence(m.items)
      /\ \A i \in DOMAIN m.params : IsName(m.params[i].id)
      /\ \A i \in DOMAIN m.items : IsName(m.items[i].id) /\ m.items[i].kind \in {"variable", "use"}
  BY <1>1 DEF IsMethod, AreNamed
<1>4. /\ IsSequence(v) /\ IsSequence(u)
      /\ \A i \in DOMAIN v : v[i] \in ToSet(m.items) /\ v[i].kind = "variable"
      /\ \A i \in DOMAIN u : u[i] \in ToSet(m.items) /\ u[i].kind = "use"
  BY <1>3, OfKindIs
<1> HIDE DEF v, u
<1>5. \A x \in ToSet(m.items) : IsName(x.id)
  BY <1>3 DEF ToSet
<1>6. /\ \A i \in DOMAIN m.params : m.params[i] \in ToSet(m.params)
      /\ \A i \in DOMAIN m.items : m.items[i] \in ToSet(m.items)
  BY DEF ToSet
<1>7. \A i \in DOMAIN v : v[i].kind = "variable" /\ IsName(v[i].id)
  BY <1>4, <1>5
<1>8. /\ Visitable(prog, m.params) /\ Visitable(prog, m.items)
      /\ Visitable(prog, v) /\ Visitable(prog, u)
  BY <1>2, <1>4, <1>6 DEF Visitable
<1>9. Proper(prog, m)
  BY <1>3, <1>4, <1>7, <1>8 DEF Proper, v, u
<1> QED  BY <1>9 DEF m

\* The n-th variable that a method declares, with the task that declares it.
IsLocal(m, task, p) ==
  /\ task.node = Locals(m)[p]
  /\ task.kind = IF p <= Len(m.params) THEN "parameter" ELSE "variable"

\* The tasks of a body that is declared are its locals, parameters first.
LocalTasks(prog, m, s) ==
  /\ s \in Seq(AllTasks(prog)) /\ Len(s) = Len(Locals(m))
  /\ Len(Locals(m)) \in Nat /\ DOMAIN Locals(m) = 1 .. Len(Locals(m))
  /\ Len(m.params) \in 0 .. Len(Locals(m)) /\ DOMAIN m.params = 1 .. Len(m.params)
  /\ \A p \in 1 .. Len(m.params) : Locals(m)[p] = m.params[p]
  /\ \A p \in 1 .. Len(s) : IsLocal(m, s[p], p) /\ IsName(Locals(m)[p].id)

LEMMA LocalsAre ==
  ASSUME NEW prog \in Programs, NEW k \in 2 .. Len(prog), NEW l \in DOMAIN prog[k].methods,
         NEW m, m = prog[k].methods[l]
  PROVE  LocalTasks(prog, m, Body("declare", m))
<1> DEFINE v == OfKind("variable", m.items)
           U == AllTasks(prog)
           a == Tasks("parameter", m.params)
           b == Items(v)
           ps == m.params
           ls == ps \o v
           s == a \o b
<1>1. /\ IsSequence(ps) /\ IsSequence(v)
      /\ \A i \in DOMAIN ps : IsName(ps[i].id) /\ Task("parameter", ps[i]) \in U
      /\ \A i \in DOMAIN v : IsName(v[i].id) /\ v[i].kind = "variable" /\ Task("variable", v[i]) \in U
  <2>1. "parameter" \in Kinds /\ "variable" \in Kinds
    BY DEF Kinds
  <2>2. Proper(prog, m)
    BY MethodIs
  <2> QED  BY <2>1, <2>2 DEF Proper, Visitable
<1>2. Body("declare", m) = s /\ Locals(m) = ls
  BY DEF Body, Locals
<1> HIDE DEF v, U
<1>3. TaskEach(a, ps, U) /\ \A i \in 1 .. Len(ps) : a[i].kind = "parameter"
  <2>1. IsSequence(m.params) /\ \A i \in DOMAIN m.params : Task("parameter", m.params[i]) \in U
    BY <1>1
  <2> QED  BY <2>1, TasksAre
<1>4. TaskEach(b, v, U) /\ \A i \in 1 .. Len(v) : b[i].kind = "variable"
  <2>1. \A i \in DOMAIN v : Task(v[i].kind, v[i]) \in U
    BY <1>1
  <2>2. TaskEach(b, v, U) /\ \A i \in 1 .. Len(v) : b[i].kind = v[i].kind
    BY <1>1, <2>1, ItemsAre
  <2>3. DOMAIN v = 1 .. Len(v)
    BY <2>2 DEF TaskEach
  <2> QED  BY <1>1, <2>2, <2>3
<1>5. /\ Len(ps) \in Nat /\ DOMAIN ps = 1 .. Len(ps) /\ a \in Seq(U) /\ Len(a) = Len(ps)
      /\ Len(v) \in Nat /\ DOMAIN v = 1 .. Len(v) /\ b \in Seq(U) /\ Len(b) = Len(v)
      /\ \A i \in 1 .. Len(ps) : a[i].node = ps[i]
      /\ \A i \in 1 .. Len(v) : b[i].node = v[i]
  BY <1>3, <1>4 DEF TaskEach
<1>6. ps \in Seq(ToSet(ps) \cup ToSet(v)) /\ v \in Seq(ToSet(ps) \cup ToSet(v))
  <2>1. ps \in Seq(ToSet(ps)) /\ v \in Seq(ToSet(v))
    BY <1>1 DEF IsSequence
  <2> HIDE DEF ps
  <2> QED  BY <2>1
<1>0. a \in Seq(U) /\ b \in Seq(U)
  BY <1>5
<1> HIDE DEF a, b, ps
<1>7. /\ s \in Seq(U) /\ Len(s) = Len(a) + Len(b)
      /\ \A p \in 1 .. Len(a) + Len(b) : s[p] = IF p <= Len(a) THEN a[p] ELSE b[p - Len(a)]
  BY <1>0, ConcatProperties
<1>8. /\ ls \in Seq(ToSet(ps) \cup ToSet(v)) /\ Len(ls) = Len(ps) + Len(v)
      /\ \A p \in 1 .. Len(ps) + Len(v) : ls[p] = IF p <= Len(ps) THEN ps[p] ELSE v[p - Len(ps)]
  BY <1>6, ConcatProperties
<1> HIDE DEF s
<1>9. DOMAIN ls = 1 .. Len(ls) /\ Len(ls) \in Nat
  BY <1>8
<1> HIDE DEF ls
<1>10. Len(s) = Len(ls) /\ Len(ps) \in 0 .. Len(ls)
  BY <1>5, <1>7, <1>8
<1>11. \A p \in 1 .. Len(ps) : ls[p] = ps[p]
  BY <1>5, <1>8
<1>12. ASSUME NEW p \in 1 .. Len(s)
       PROVE  /\ s[p].node = ls[p] /\ IsName(ls[p].id)
              /\ s[p].kind = IF p <= Len(ps) THEN "parameter" ELSE "variable"
  <2>1. p \in 1 .. Len(ps) + Len(v)
    BY <1>5, <1>7
  <2>2. CASE p <= Len(ps)
    <3>1. p \in 1 .. Len(ps) /\ s[p] = a[p] /\ ls[p] = ps[p]
      BY <1>5, <1>7, <1>8, <2>1, <2>2
    <3> QED  BY <1>1, <1>3, <1>5, <2>2, <3>1
  <2>3. CASE ~(p <= Len(ps))
    <3> DEFINE n == p - Len(ps)
    <3>1. n \in 1 .. Len(v)
      BY <1>5, <2>1, <2>3
    <3>2. s[p] = b[n] /\ ls[p] = v[n]
      BY <1>5, <1>7, <1>8, <2>1, <2>3
    <3> HIDE DEF n
    <3> QED  BY <1>1, <1>4, <1>5, <2>3, <3>1, <3>2
  <2> QED  BY <2>2, <2>3
<1>13. \A p \in 1 .. Len(s) : IsLocal(m, s[p], p) /\ IsName(Locals(m)[p].id)
  BY <1>2, <1>12 DEF IsLocal, ps
<1> QED  BY <1>2, <1>5, <1>7, <1>9, <1>10, <1>11, <1>13 DEF LocalTasks, U, ps

LEMMA BodyIs ==
  ASSUME NEW prog \in Programs, NEW pass \in Traversals,
         NEW k \in 2 .. Len(prog), NEW l \in DOMAIN prog[k].methods
  PROVE  LET s == Body(pass, prog[k].methods[l]) IN
         s \in Seq(AllTasks(prog)) /\ \A p \in 1 .. Len(s) : s[p].kind \in InBody(pass)
<1> DEFINE m == prog[k].methods[l]
           u == OfKind("use", m.items)
           U == AllTasks(prog)
<1>1. CASE pass = "declare"
  <2>1. /\ Body("declare", m) \in Seq(U)
        /\ \A p \in 1 .. Len(Body("declare", m)) : IsLocal(m, Body("declare", m)[p], p)
    BY LocalsAre DEF LocalTasks
  <2>2. \A p \in 1 .. Len(Body("declare", m)) : Body("declare", m)[p].kind \in InBody(pass)
    BY <1>1, <2>1 DEF IsLocal, InBody
  <2> QED  BY <1>1, <2>1, <2>2
<1>2. /\ IsSequence(m.items) /\ IsSequence(u)
      /\ \A i \in DOMAIN m.items :
           m.items[i].kind \in {"variable", "use"} /\ Task(m.items[i].kind, m.items[i]) \in U
      /\ \A i \in DOMAIN u : u[i].kind = "use" /\ Task(u[i].kind, u[i]) \in U
  <2> DEFINE ms == m.items
  <2>1. "use" \in Kinds /\ "variable" \in Kinds
    BY DEF Kinds
  <2>0. Proper(prog, m)
    BY MethodIs
  <2> HIDE DEF m
  <2>2. /\ IsSequence(ms) /\ IsSequence(u)
        /\ \A i \in DOMAIN ms : ms[i].kind \in {"variable", "use"}
        /\ \A i \in DOMAIN u : u[i].kind = "use"
        /\ Visitable(prog, ms) /\ Visitable(prog, u)
    BY <2>0 DEF Proper
  <2> HIDE DEF ms, u
  <2>4. /\ \A i \in DOMAIN ms : ms[i].kind \in {"variable", "use"} /\ Task(ms[i].kind, ms[i]) \in U
        /\ \A i \in DOMAIN u : u[i].kind = "use" /\ Task(u[i].kind, u[i]) \in U
    BY <2>1, <2>2 DEF Visitable
  <2> QED  BY <2>2, <2>4 DEF ms, u
<1>3. CASE pass = "check"
  <2>1. Body(pass, m) = Items(m.items) /\ InBody(pass) = {"variable", "use"}
    BY <1>3 DEF Body, InBody
  <2> DEFINE ms == m.items
  <2>2. IsSequence(ms) /\ \A i \in DOMAIN ms : Task(ms[i].kind, ms[i]) \in U
    BY <1>2
  <2>0. \A i \in DOMAIN ms : ms[i].kind \in {"variable", "use"}
    BY <1>2
  <2> HIDE DEF ms, U
  <2>3. TaskEach(Items(ms), ms, U) /\ \A i \in 1 .. Len(ms) : Items(ms)[i].kind = ms[i].kind
    BY <2>2, ItemsAre
  <2>4. /\ DOMAIN ms = 1 .. Len(ms) /\ Items(ms) \in Seq(U) /\ Len(Items(ms)) = Len(ms)
    BY <2>3 DEF TaskEach
  <2>5. Items(ms) \in Seq(U) /\ \A p \in 1 .. Len(Items(ms)) : Items(ms)[p].kind \in InBody(pass)
    BY <2>0, <2>1, <2>3, <2>4
  <2> QED  BY <2>1, <2>5 DEF ms, U
<1>4. CASE pass = "generate"
  <2>1. Body(pass, m) = Items(u) /\ InBody(pass) = {"use"}
    BY <1>4 DEF Body, InBody
  <2>2. IsSequence(u) /\ \A i \in DOMAIN u : Task(u[i].kind, u[i]) \in U
    BY <1>2
  <2>0. \A i \in DOMAIN u : u[i].kind = "use"
    BY <1>2
  <2> HIDE DEF u, U
  <2>3. TaskEach(Items(u), u, U) /\ \A i \in 1 .. Len(u) : Items(u)[i].kind = u[i].kind
    BY <2>2, ItemsAre
  <2>4. /\ DOMAIN u = 1 .. Len(u) /\ Items(u) \in Seq(U) /\ Len(Items(u)) = Len(u)
    BY <2>3 DEF TaskEach
  <2>5. Items(u) \in Seq(U) /\ \A p \in 1 .. Len(Items(u)) : Items(u)[p].kind \in InBody(pass)
    BY <2>0, <2>1, <2>3, <2>4
  <2> QED  BY <2>1, <2>5 DEF u, U
<1> QED  BY <1>1, <1>3, <1>4 DEF Traversals

LEMMA BodyAtIs ==
  ASSUME NEW prog \in Programs, NEW pass \in Traversals, NEW k \in 1 .. Len(prog),
         NEW q \in 0 .. Len(Members(pass, prog, k)), Begun(pass, prog, k, q)
  PROVE  /\ BodyAt(pass, prog, k, q) \in Seq(AllTasks(prog))
         /\ \A p \in 1 .. Len(BodyAt(pass, prog, k, q)) :
              BodyAt(pass, prog, k, q)[p].kind \in InBody(pass)
<1>1. CASE k = 1
  <2> DEFINE u == prog[1].items
             U == AllTasks(prog)
  <2>1. BodyAt(pass, prog, k, q) = Items(u) /\ "use" \in InBody(pass)
    BY <1>1 DEF BodyAt, InBody, Begun, Traversals
  <2>2. IsSequence(u) /\ (\A i \in DOMAIN u : u[i].kind = "use")
    BY Program
  <2>3. \A i \in DOMAIN u : Task(u[i].kind, u[i]) \in U
    BY <2>2, InAllTasks DEF Kinds
  <2> HIDE DEF u, U
  <2>4. TaskEach(Items(u), u, U) /\ \A i \in 1 .. Len(u) : Items(u)[i].kind = u[i].kind
    BY <2>2, <2>3, ItemsAre
  <2>5. /\ DOMAIN u = 1 .. Len(u) /\ Items(u) \in Seq(U) /\ Len(Items(u)) = Len(u)
    BY <2>4 DEF TaskEach
  <2>6. Items(u) \in Seq(U) /\ \A p \in 1 .. Len(Items(u)) : Items(u)[p].kind \in InBody(pass)
    BY <2>1, <2>2, <2>4, <2>5
  <2> QED  BY <2>1, <2>6 DEF u, U
<1>2. CASE k # 1
  <2>1. /\ q \in 1 .. Len(Members(pass, prog, k)) /\ Members(pass, prog, k)[q].kind = "method"
        /\ k \in 2 .. Len(prog)
    BY <1>2, MembersAre, Program DEF Begun
  <2>2. PICK l : IsMethodOf(pass, prog[k], q, Members(pass, prog, k)[q], l)
    BY <2>1, MembersAre DEF IsField
  <2>3. BodyAt(pass, prog, k, q) = Body(pass, prog[k].methods[l]) /\ l \in DOMAIN prog[k].methods
    BY <1>2, <2>2 DEF BodyAt, IsMethodOf
  <2> QED  BY <2>1, <2>3, BodyIs
<1> QED  BY <1>1, <1>2

-----------------------------------------------------------------------------
(***************************************************************************)
(* How much of the program the table holds: the first k classes; of the    *)
(* k-th the members numbered in Q, fields before methods; of its method    *)
(* that is the member last the locals numbered in N.                       *)
(***************************************************************************)
Names(map) == {id \in DOMAIN map : ~IsTemp(id)}

Different(nodes, N) ==
  \A i, j \in DOMAIN nodes \cap N : nodes[i].id = nodes[j].id => i = j

\* The map has the nodes numbered in N, with their types, and the name "this".
VariablesAre(map, this, nodes, N) ==
  /\ Names(map) = this \cup {nodes[i].id : i \in DOMAIN nodes \cap N}
  /\ \A i \in DOMAIN nodes \cap N : map[nodes[i].id] = nodes[i].type

ClassScope(c)     == <<ClassStep(c.id)>>
MethodScope(c, m) == <<ClassStep(c.id), MethodStep(m.id)>>
MainScopeOf(c)    == <<ClassStep(c.id), MethodStep(Main)>>

ParameterRef(c, m, x) == [path |-> MethodScope(c, m), kind |-> "variables", id |-> x.id]

MethodDeclared(scopes, c, m, N) ==
  /\ MethodScope(c, m) \in DOMAIN scopes
  /\ Different(Locals(m), N)
  /\ VariablesAre(scopes[MethodScope(c, m)].variables, {}, Locals(m), N)
  /\ scopes[ClassScope(c)].methods[m.id].type = m.type
  /\ scopes[ClassScope(c)].methods[m.id].parameters =
       [i \in DOMAIN m.params \cap N |-> ParameterRef(c, m, m.params[i])]

MethodsIn(c, Q) == {l \in DOMAIN c.methods : Len(c.fields) + l \in Q}

ClassDeclared(scopes, c, Q, last, N) ==
  /\ ClassScope(c) \in DOMAIN scopes
  /\ Different(c.fields, Q)
  /\ VariablesAre(scopes[ClassScope(c)].variables, {This}, c.fields, Q)
  /\ scopes[ClassScope(c)].variables[This] = c.id
  /\ Different(c.methods, MethodsIn(c, Q))
  /\ DOMAIN scopes[ClassScope(c)].methods = {c.methods[l].id : l \in MethodsIn(c, Q)}
  /\ \A l \in MethodsIn(c, Q) :
       MethodDeclared(scopes, c, c.methods[l], IF Len(c.fields) + l = last THEN N ELSE Nat)

MainDeclared(scopes, c) ==
  /\ ClassScope(c) \in DOMAIN scopes /\ MainScopeOf(c) \in DOMAIN scopes
  /\ DOMAIN scopes[ClassScope(c)].methods = {Main}
  /\ Names(scopes[MainScopeOf(c)].variables) = {c.arg}
  /\ scopes[MainScopeOf(c)].variables[c.arg] = Strings

\* The path of a scope that the first k classes of the program have.
Explained(prog, k, path) ==
  \/ path = Root
  \/ k > 0 /\ path \in {ClassScope(prog[1]), MainScopeOf(prog[1])}
  \/ \E i \in 2 .. k : \/ path = ClassScope(prog[i])
                       \/ \E l \in DOMAIN prog[i].methods : path = MethodScope(prog[i], prog[i].methods[l])

Content(scopes, prog, k, Q, last, N) ==
  /\ Different(prog, 1 .. k)
  /\ DOMAIN scopes[Root].classes = {prog[i].id : i \in 1 .. k}
  /\ k > 0 => MainDeclared(scopes, prog[1])
  /\ \A i \in 2 .. k : i # k => ClassDeclared(scopes, prog[i], Nat, 0, Nat)
  /\ k > 1 => ClassDeclared(scopes, prog[k], Q, last, N)
  /\ \A path \in DOMAIN scopes : Explained(prog, k, path)

Complete(scopes, prog) == Content(scopes, prog, Len(prog), Nat, 0, Nat)

\* The declarations are there as far as the traversal came, unless one was
\* refused; the traversals that follow find them all.
Known(pass, prog, t, errs, k, Q, last, N) ==
  /\ pass = "declare" /\ errs = {} => Content(t.scopes, prog, k, Q, last, N)
  /\ pass = "declare" /\ k = 0 => t = EmptyTable /\ errs = {}
  /\ pass \in {"check", "generate"} => Complete(t.scopes, prog)

-----------------------------------------------------------------------------
(***************************************************************************)
(* Where a traversal is: outside any class, after the k-th; in the k-th    *)
(* class, after its q-th member; in the method that is its q-th member,    *)
(* after the p-th task of the body.                                        *)
(***************************************************************************)
Outside(pass, prog, tasks, t, errs, k) ==
  /\ k \in 0 .. Len(prog)
  /\ t.current = Root
  /\ tasks = From(Classes(prog), k + 1)
  /\ Known(pass, prog, t, errs, k, Nat, 0, Nat)

Inside(pass, prog, tasks, t, errs, k, q) ==
  /\ k \in 1 .. Len(prog) /\ q \in 0 .. Len(Members(pass, prog, k))
  /\ t.current = <<ClassStep(prog[k].id)>>
  /\ tasks = Rest(pass, prog, k, q)
  /\ Known(pass, prog, t, errs, k, 0 .. q, 0, Nat)

Within(pass, prog, tasks, t, errs, k, q, p) ==
  /\ k \in 1 .. Len(prog) /\ q \in 0 .. Len(Members(pass, prog, k))
  /\ Begun(pass, prog, k, q) /\ p \in 0 .. Len(BodyAt(pass, prog, k, q))
  /\ t.current = <<ClassStep(prog[k].id), MethodStep(NameAt(pass, prog, k, q))>>
  /\ tasks = From(BodyAt(pass, prog, k, q), p + 1) \o (<<Leave>> \o Rest(pass, prog, k, q))
  /\ Known(pass, prog, t, errs, k, 0 .. q, q, 0 .. p)

Situated(pass, prog, tasks, t, errs) ==
  \/ \E k : Outside(pass, prog, tasks, t, errs, k)
  \/ \E k, q : Inside(pass, prog, tasks, t, errs, k, q)
  \/ \E k, q, p : Within(pass, prog, tasks, t, errs, k, q, p)

LEMMA LeaveFirst ==
  ASSUME NEW prog \in Programs, NEW r \in Seq(AllTasks(prog))
  PROVE  /\ <<Leave>> \o r \in Seq(AllTasks(prog)) /\ <<Leave>> \o r # <<>>
         /\ Head(<<Leave>> \o r) = Leave /\ Tail(<<Leave>> \o r) = r
         /\ Leave.kind = "leave"
<1> DEFINE U == AllTasks(prog)
           one == <<Leave>>
<1>1. Leave \in U /\ Leave.kind = "leave"
  BY InAllTasks DEF Leave, Kinds, Task
<1> HIDE DEF U
<1>2. one \in Seq(U) /\ Len(one) = 1 /\ one[1] = Leave
  BY <1>1
<1>3. From(one, 1) = one /\ From(one, 1 + 1) = <<>> /\ <<>> \o r = r
  <2>1. From(one, 1) = one
    BY <1>2, FromAll
  <2>2. From(one, Len(one) + 1) = <<>> /\ <<>> \o r = r
    BY <1>2, FromNone DEF U
  <2> QED  BY <1>2, <2>1, <2>2
<1> HIDE DEF one
<1>4. Starting(From(one, 1) \o r, one[1], From(one, 1 + 1) \o r)
  <2>1. 1 \in 1 .. Len(one) /\ r \in Seq(U)
    BY <1>2 DEF U
  <2> QED  BY <1>2, <2>1, FromSome, Zenon
<1>5. one \o r \in Seq(U)
  BY <1>2, ConcatProperties DEF U
<1> QED  BY <1>1, <1>2, <1>3, <1>4, <1>5 DEF one, U, Starting

LEMMA RestIs ==
  ASSUME NEW prog \in Programs, NEW pass \in Traversals, NEW k \in 1 .. Len(prog),
         NEW q \in 0 .. Len(Members(pass, prog, k))
  PROVE  /\ From(Classes(prog), k + 1) \in Seq(AllTasks(prog))
         /\ Rest(pass, prog, k, q) \in Seq(AllTasks(prog))
<1> DEFINE U == AllTasks(prog)
           s == Members(pass, prog, k)
           r == From(Classes(prog), k + 1)
<1>1. Classes(prog) \in Seq(U) /\ Len(Classes(prog)) = Len(prog) /\ s \in Seq(U) /\ Len(prog) \in Nat
  BY ClassesAre, MembersAre, Program
<1>2. r \in Seq(U) /\ From(s, q + 1) \in Seq(U)
  <2> HIDE DEF U, s
  <2> QED  BY <1>1 DEF From, s
<1>3. <<Leave>> \o r \in Seq(U)
  <2> HIDE DEF r
  <2> QED  BY <1>2, LeaveFirst
<1>4. Rest(pass, prog, k, q) = From(s, q + 1) \o (<<Leave>> \o r)
  BY DEF Rest
<1> HIDE DEF U, s, r
<1> QED  BY <1>2, <1>3, <1>4, ConcatProperties DEF U, r

LEMMA OutsideHead ==
  ASSUME NEW prog \in Programs, NEW pass \in Traversals, NEW tasks, NEW t, NEW errs, NEW k,
         Outside(pass, prog, tasks, t, errs, k)
  PROVE  /\ k = Len(prog) => tasks = <<>>
         /\ k # Len(prog) =>
              /\ k + 1 \in 1 .. Len(prog) /\ tasks # <<>>
              /\ Head(tasks).kind = (IF k = 0 THEN "main" ELSE "class")
              /\ Head(tasks).node = prog[k + 1]
              /\ Tail(tasks) = From(Classes(prog), (k + 1) + 1)
<1> DEFINE U == AllTasks(prog)
           s == Classes(prog)
<1>1. /\ s \in Seq(U) /\ Len(s) = Len(prog) /\ Len(prog) \in Nat
      /\ \A i \in 1 .. Len(prog) : /\ s[i].kind = (IF i = 1 THEN "main" ELSE "class")
                                   /\ s[i].node = prog[i]
  BY ClassesAre, Program
<1>2. k \in 0 .. Len(prog) /\ tasks = From(s, k + 1)
  BY DEF Outside
<1> HIDE DEF U, s
<1>3. CASE k = Len(prog)
  BY <1>1, <1>2, <1>3, EmptySeq, FromNone
<1>4. CASE k # Len(prog)
  <2>1. k + 1 \in 1 .. Len(s) /\ (k + 1 = 1 <=> k = 0)
    BY <1>1, <1>2, <1>4
  <2>2. /\ Starting(From(s, k + 1) \o <<>>, s[k + 1], From(s, (k + 1) + 1) \o <<>>)
        /\ From(s, k + 1) \in Seq(U) /\ From(s, (k + 1) + 1) \in Seq(U)
    BY <1>1, <2>1, EmptySeq, FromSome, Zenon
  <2>3. From(s, k + 1) \o <<>> = From(s, k + 1) /\ From(s, (k + 1) + 1) \o <<>> = From(s, (k + 1) + 1)
    BY <2>2, ConcatEmptySeq
  <2> QED  BY <1>1, <1>2, <1>4, <2>1, <2>2, <2>3 DEF s, Starting
<1> QED  BY <1>3, <1>4

LEMMA InsideHead ==
  ASSUME NEW prog \in Programs, NEW pass \in Traversals, NEW tasks, NEW t, NEW errs, NEW k, NEW q,
         Inside(pass, prog, tasks, t, errs, k, q)
  PROVE  /\ tasks # <<>>
         /\ q = Len(Members(pass, prog, k)) =>
              Head(tasks).kind = "leave" /\ Tail(tasks) = From(Classes(prog), k + 1)
         /\ q # Len(Members(pass, prog, k)) =>
              /\ q + 1 \in 1 .. Len(Members(pass, prog, k)) /\ k \in 2 .. Len(prog)
              /\ Head(tasks) = Members(pass, prog, k)[q + 1]
              /\ Tail(tasks) = Rest(pass, prog, k, q + 1)
              /\ \/ IsField(pass, prog[k], q + 1, Head(tasks))
                 \/ \E l : IsMethodOf(pass, prog[k], q + 1, Head(tasks), l)
<1> DEFINE U == AllTasks(prog)
           s == Members(pass, prog, k)
           r == From(Classes(prog), k + 1)
           lr == <<Leave>> \o r
<1>1. k \in 1 .. Len(prog) /\ q \in 0 .. Len(s) /\ tasks = From(s, q + 1) \o lr /\ Len(prog) \in Nat
  BY Program DEF Inside, Rest
<1>2. /\ s \in Seq(U)
      /\ \A i \in 1 .. Len(s) :
           k # 1 /\ (IsField(pass, prog[k], i, s[i]) \/ \E l : IsMethodOf(pass, prog[k], i, s[i], l))
  BY <1>1, MembersAre
<1>3. r \in Seq(U)
  BY <1>1, RestIs
<1>4. lr \in Seq(U) /\ lr # <<>> /\ Head(lr) = Leave /\ Tail(lr) = r /\ Leave.kind = "leave"
  <2> HIDE DEF r
  <2> QED  BY <1>3, LeaveFirst
<1>5. Rest(pass, prog, k, q + 1) = From(s, (q + 1) + 1) \o lr
  BY DEF Rest
<1> HIDE DEF U, s, r, lr
<1>6. CASE q = Len(s)
  <2>1. From(s, q + 1) = <<>> /\ <<>> \o lr = lr
    BY <1>2, <1>4, <1>6, FromNone
  <2> QED  BY <1>1, <1>4, <1>6, <2>1 DEF s, r
<1>7. CASE q # Len(s)
  <2>1. q + 1 \in 1 .. Len(s)
    BY <1>1, <1>2, <1>7
  <2>2. Starting(From(s, q + 1) \o lr, s[q + 1], From(s, (q + 1) + 1) \o lr)
    BY <1>2, <1>4, <2>1, FromSome, Zenon
  <2>3. k \in 2 .. Len(prog)
    BY <1>1, <1>2, <2>1
  <2> QED  BY <1>1, <1>2, <1>5, <1>7, <2>1, <2>2, <2>3 DEF s, Starting
<1> QED  BY <1>6, <1>7 DEF s

HeadOfBody(pass, prog, tasks, k, q, p, s) ==
  /\ tasks # <<>>
  /\ p = Len(s) => Head(tasks).kind = "leave" /\ Tail(tasks) = Rest(pass, prog, k, q)
  /\ p # Len(s) =>
       /\ p + 1 \in 1 .. Len(s)
       /\ Head(tasks) = s[p + 1] /\ Head(tasks).kind \in InBody(pass)
       /\ Tail(tasks) = From(s, (p + 1) + 1) \o (<<Leave>> \o Rest(pass, prog, k, q))

LEMMA WithinHead ==
  ASSUME NEW prog \in Programs, NEW pass \in Traversals, NEW tasks, NEW t, NEW errs,
         NEW k, NEW q, NEW p, Within(pass, prog, tasks, t, errs, k, q, p)
  PROVE  HeadOfBody(pass, prog, tasks, k, q, p, BodyAt(pass, prog, k, q))
<1> DEFINE U == AllTasks(prog)
           s == BodyAt(pass, prog, k, q)
           r == Rest(pass, prog, k, q)
           lr == <<Leave>> \o r
<1>1. /\ k \in 1 .. Len(prog) /\ q \in 0 .. Len(Members(pass, prog, k)) /\ Begun(pass, prog, k, q)
      /\ p \in 0 .. Len(s) /\ tasks = From(s, p + 1) \o lr
  BY DEF Within
<1>2. s \in Seq(U) /\ \A i \in 1 .. Len(s) : s[i].kind \in InBody(pass)
  BY <1>1, BodyAtIs
<1>3. r \in Seq(U)
  BY <1>1, RestIs
<1> HIDE DEF U, s, r
<1>4. lr \in Seq(U) /\ lr # <<>> /\ Head(lr) = Leave /\ Tail(lr) = r /\ Leave.kind = "leave"
  BY <1>3, LeaveFirst DEF U
<1> HIDE DEF lr
<1>6. CASE p = Len(s)
  <2>1. From(s, p + 1) = <<>> /\ <<>> \o lr = lr
    BY <1>2, <1>4, <1>6, FromNone
  <2> QED  BY <1>1, <1>4, <1>6, <2>1 DEF s, r, HeadOfBody
<1>7. CASE p # Len(s)
  <2>1. p + 1 \in 1 .. Len(s)
    BY <1>1, <1>2, <1>7
  <2>2. Starting(From(s, p + 1) \o lr, s[p + 1], From(s, (p + 1) + 1) \o lr)
    BY <1>2, <1>4, <2>1, FromSome, Zenon
  <2> QED  BY <1>1, <1>2, <1>7, <2>1, <2>2 DEF s, r, lr, Starting, HeadOfBody
<1> QED  BY <1>6, <1>7 DEF s, r, lr

-----------------------------------------------------------------------------
(***************************************************************************)
(* What the operations on the table make of its content.                   *)
(***************************************************************************)
\* A scope is the same up to temporaries.
SameNames(t, u, path) ==
  /\ Names(u.scopes[path].variables) = Names(t.scopes[path].variables)
  /\ \A id \in Names(t.scopes[path].variables) :
       u.scopes[path].variables[id] = t.scopes[path].variables[id]

SameMethod(t, u, path, id) ==
  /\ u.scopes[path].methods[id].type = t.scopes[path].methods[id].type
  /\ u.scopes[path].methods[id].parameters = t.scopes[path].methods[id].parameters

Agree(t, u, path) ==
  /\ path \in DOMAIN u.scopes /\ SameNames(t, u, path)
  /\ DOMAIN u.scopes[path].methods = DOMAIN t.scopes[path].methods
  /\ SameMethods(t, u, path)

\* The scopes of the class and those of its methods agree.
AgreeOn(t, u, class) ==
  \A path \in DOMAIN t.scopes :
    path = <<ClassStep(class)>> \/ (\E id : path = <<ClassStep(class), MethodStep(id)>>) =>
      Agree(t, u, path)

LEMMA ThisIsNoTemp == ~IsTemp(This)
  BY DEF IsTemp, This

LEMMA MethodFrame ==
  ASSUME NEW t, NEW u, NEW c, NEW m, NEW N, MethodDeclared(t.scopes, c, m, N),
         MethodScope(c, m) \in DOMAIN u.scopes, SameNames(t, u, MethodScope(c, m)),
         SameMethod(t, u, ClassScope(c), m.id)
  PROVE  MethodDeclared(u.scopes, c, m, N)
<1> DEFINE s == t.scopes[MethodScope(c, m)].variables
           z == u.scopes[MethodScope(c, m)].variables
<1>1. VariablesAre(s, {}, Locals(m), N) /\ Names(z) = Names(s) /\ \A id \in Names(s) : z[id] = s[id]
  BY DEF MethodDeclared, SameNames
<1> HIDE DEF s, z
<1>2. VariablesAre(z, {}, Locals(m), N)
  BY <1>1 DEF VariablesAre
<1> QED  BY <1>2 DEF MethodDeclared, SameMethod, z

LEMMA ClassFrame ==
  ASSUME NEW t, NEW u, NEW c, NEW Q, NEW last, NEW N, ClassDeclared(t.scopes, c, Q, last, N),
         AgreeOn(t, u, c.id)
  PROVE  ClassDeclared(u.scopes, c, Q, last, N)
<1> DEFINE path == ClassScope(c)
           s == t.scopes[path].variables
           z == u.scopes[path].variables
<1>1. path \in DOMAIN t.scopes /\ Agree(t, u, path)
  BY DEF AgreeOn, ClassDeclared, ClassScope
<1>2. VariablesAre(z, {This}, c.fields, Q) /\ z[This] = c.id
  <2>1. /\ VariablesAre(s, {This}, c.fields, Q) /\ s[This] = c.id
        /\ Names(z) = Names(s) /\ \A id \in Names(s) : z[id] = s[id]
    BY <1>1 DEF ClassDeclared, Agree, SameNames
  <2> HIDE DEF s, z
  <2> QED  BY <2>1 DEF VariablesAre
<1>3. ASSUME NEW l \in MethodsIn(c, Q)
      PROVE  MethodDeclared(u.scopes, c, c.methods[l], IF Len(c.fields) + l = last THEN N ELSE Nat)
  <2> DEFINE m == c.methods[l]
             M == IF Len(c.fields) + l = last THEN N ELSE Nat
  <2>1. MethodDeclared(t.scopes, c, m, M) /\ m.id \in DOMAIN t.scopes[path].methods
    BY DEF ClassDeclared
  <2> HIDE DEF m, M
  <2>2. Agree(t, u, MethodScope(c, m))
    BY <2>1 DEF AgreeOn, MethodDeclared, MethodScope
  <2>3. SameMethod(t, u, path, m.id)
    BY <1>1, <2>1 DEF Agree, SameMethods, SameMethod
  <2>4. MethodDeclared(u.scopes, c, m, M)
    BY <2>1, <2>2, <2>3, MethodFrame DEF Agree
  <2> QED  BY <2>4 DEF m, M
<1>4. path \in DOMAIN u.scopes /\ DOMAIN u.scopes[path].methods = DOMAIN t.scopes[path].methods
  BY <1>1 DEF Agree
<1> QED  BY <1>2, <1>3, <1>4 DEF ClassDeclared

LEMMA MainFrame ==
  ASSUME NEW t, NEW u, NEW c, MainDeclared(t.scopes, c), AgreeOn(t, u, c.id)
  PROVE  MainDeclared(u.scopes, c)
<1>1. Agree(t, u, ClassScope(c)) /\ Agree(t, u, MainScopeOf(c))
  BY DEF MainDeclared, AgreeOn, ClassScope, MainScopeOf
<1> DEFINE s == t.scopes[MainScopeOf(c)].variables
           z == u.scopes[MainScopeOf(c)].variables
<1>2. /\ Names(s) = {c.arg} /\ s[c.arg] = Strings
      /\ Names(z) = Names(s) /\ \A id \in Names(s) : z[id] = s[id]
  BY <1>1 DEF MainDeclared, Agree, SameNames
<1> HIDE DEF s, z
<1>3. Names(z) = {c.arg} /\ z[c.arg] = Strings
  BY <1>2
<1> QED  BY <1>1, <1>3 DEF MainDeclared, Agree, z

\* Temporaries leave the content as it is.
LEMMA CompleteKept ==
  ASSUME NEW t, NEW u, NEW prog, Complete(t.scopes, prog), DOMAIN u.scopes = DOMAIN t.scopes,
         DOMAIN u.scopes[Root].classes = DOMAIN t.scopes[Root].classes,
         \A path \in DOMAIN t.scopes : path # Root => Agree(t, u, path)
  PROVE  Complete(u.scopes, prog)
<1>1. \A id : AgreeOn(t, u, id)
  BY PathLengths DEF AgreeOn
<1>2. Len(prog) > 0 => MainDeclared(u.scopes, prog[1])
  BY <1>1, MainFrame DEF Complete, Content
<1>3. \A i \in 2 .. Len(prog) : i # Len(prog) => ClassDeclared(u.scopes, prog[i], Nat, 0, Nat)
  BY <1>1, ClassFrame DEF Complete, Content
<1>4. Len(prog) > 1 => ClassDeclared(u.scopes, prog[Len(prog)], Nat, 0, Nat)
  BY <1>1, ClassFrame DEF Complete, Content
<1> QED  BY <1>2, <1>3, <1>4 DEF Complete, Content

\* The scopes of all classes but one agree, and so does the root.
AgreeBut(t, u, class) ==
  /\ \A path \in DOMAIN t.scopes :
       path # Root /\ path[1] # ClassStep(class) => Agree(t, u, path)
  /\ DOMAIN u.scopes[Root].classes = DOMAIN t.scopes[Root].classes

LEMMA OthersAgree ==
  ASSUME NEW t, NEW u, NEW class, AgreeBut(t, u, class), NEW other, other # class
  PROVE  AgreeOn(t, u, other)
<1> SUFFICES ASSUME NEW path \in DOMAIN t.scopes,
                    path = <<ClassStep(other)>>
                      \/ \E id : path = <<ClassStep(other), MethodStep(id)>>
             PROVE  Agree(t, u, path)
  BY DEF AgreeOn
<1>1. path # Root /\ path[1] = ClassStep(other)
  BY PathLengths
<1>2. ClassStep(other) # ClassStep(class)
  BY DEF ClassStep
<1> QED  BY <1>1, <1>2 DEF AgreeBut

\* Where the methods come, after the fields.
Placed(prog, k, l, q) == q = Len(prog[k].fields) + l

PlacesAre(c, l, q) ==
  /\ l \in MethodsIn(c, 0 .. q)
  /\ \A j \in MethodsIn(c, 0 .. q) :
       /\ j \in DOMAIN c.methods /\ (j = l <=> Len(c.fields) + j = q)
       /\ (Len(c.fields) + j = q <=> j = l) /\ Len(c.fields) + j # 0

LEMMA MethodPlaces ==
  ASSUME NEW c, Len(c.fields) \in Nat, Len(c.methods) \in Nat,
         DOMAIN c.methods = 1 .. Len(c.methods), NEW l \in 1 .. Len(c.methods),
         NEW q, q = Len(c.fields) + l
  PROVE  PlacesAre(c, l, q)
BY DEF MethodsIn, PlacesAre

\* The k-th class changes: the content of the others stays.
Changed(t, u, prog, k, R, next, M) ==
  /\ Len(prog) \in Nat /\ DOMAIN prog = 1 .. Len(prog) /\ AgreeBut(t, u, prog[k].id)
  /\ ClassDeclared(u.scopes, prog[k], R, next, M)
  /\ \A path \in DOMAIN u.scopes : path \in DOMAIN t.scopes \/ Explained(prog, k, path)

LEMMA LastChanges ==
  ASSUME NEW t, NEW u, NEW prog, NEW k \in 2 .. Len(prog),
         NEW Q, NEW last, NEW N, Content(t.scopes, prog, k, Q, last, N),
         NEW R, NEW next, NEW M, Changed(t, u, prog, k, R, next, M)
  PROVE  Content(u.scopes, prog, k, R, next, M)
<1> USE DEF Changed
<1>1. \A i \in 1 .. k : i # k => prog[i].id # prog[k].id
  <2>1. \A i, j \in DOMAIN prog \cap (1 .. k) : prog[i].id = prog[j].id => i = j
    BY DEF Content, Different
  <2> QED  BY <2>1
<1>2. MainDeclared(u.scopes, prog[1])
  <2>1. prog[1].id # prog[k].id /\ MainDeclared(t.scopes, prog[1])
    BY <1>1 DEF Content
  <2> QED  BY <2>1, OthersAgree, MainFrame
<1>3. \A i \in 2 .. k : i # k => ClassDeclared(u.scopes, prog[i], Nat, 0, Nat)
  <2> SUFFICES ASSUME NEW i \in 2 .. k, i # k
               PROVE  ClassDeclared(u.scopes, prog[i], Nat, 0, Nat)
    OBVIOUS
  <2>1. prog[i].id # prog[k].id /\ ClassDeclared(t.scopes, prog[i], Nat, 0, Nat)
    BY <1>1 DEF Content
  <2> QED  BY <2>1, OthersAgree, ClassFrame
<1>4. \A path \in DOMAIN u.scopes : Explained(prog, k, path)
  BY DEF Content
<1>5. DOMAIN u.scopes[Root].classes = {prog[i].id : i \in 1 .. k}
  BY DEF Content, AgreeBut
<1> QED  BY <1>2, <1>3, <1>4, <1>5 DEF Content

LEMMA ContentClass ==
  ASSUME NEW t, NEW u, NEW prog \in Programs, NEW k \in 1 .. Len(prog),
         NEW n \in 2 .. Len(prog), n = k + 1,
         Content(t.scopes, prog, k, Nat, 0, Nat), ClassAdded(t, u, prog[n].id),
         prog[n].id \notin DOMAIN t.scopes[Root].classes
  PROVE  Content(u.scopes, prog, n, 0 .. 0, 0, Nat)
<1> DEFINE c == prog[n]
           path == ClassScope(c)
<1>1. Len(prog) \in Nat /\ DOMAIN prog = 1 .. Len(prog) /\ n \in Nat
      /\ k \in Nat
  BY Program
<1>2. /\ OneMore(t, u, path) /\ path \notin DOMAIN t.scopes
      /\ \A p \in DOMAIN t.scopes : DOMAIN u.scopes[p].methods = DOMAIN t.scopes[p].methods
      /\ DOMAIN u.scopes[Root].classes = DOMAIN t.scopes[Root].classes \cup {c.id}
      /\ u.scopes[path].variables = Emplace(Nothing, This, c.id)
  BY DEF ClassAdded, ClassScope, OneMore
<1>3. \A p \in DOMAIN t.scopes : Agree(t, u, p)
  BY <1>2 DEF OneMore, Agree, SameNames
<1>4. \A id : AgreeOn(t, u, id)
  BY <1>3 DEF AgreeOn
<1>5. Different(prog, 1 .. n)
  <2>1. \A i, j \in DOMAIN prog \cap (1 .. k) : prog[i].id = prog[j].id => i = j
    BY DEF Content, Different
  <2>2. \A i \in 1 .. k : prog[i].id # c.id
    BY DEF Content
  <2>3. \A i \in DOMAIN prog \cap (1 .. n) : i \in DOMAIN prog \cap (1 .. k) \/ i = n
    BY <1>1
  <2>4. \A i \in DOMAIN prog \cap (1 .. k) : i \in 1 .. k
    OBVIOUS
  <2> HIDE DEF c
  <2>5. \A i, j \in DOMAIN prog \cap (1 .. n) : prog[i].id = prog[j].id => i = j
    BY <2>1, <2>2, <2>3, <2>4 DEF c
  <2> QED  BY <2>5 DEF Different
<1>6. DOMAIN u.scopes[Root].classes = {prog[i].id : i \in 1 .. n}
  <2>1. {prog[i].id : i \in 1 .. n} = {prog[i].id : i \in 1 .. k} \cup {c.id}
    BY <1>1
  <2> QED  BY <1>2, <2>1 DEF Content
<1>7. MainDeclared(u.scopes, prog[1])
  <2>1. MainDeclared(t.scopes, prog[1])
    BY DEF Content
  <2> QED  BY <1>4, <2>1, MainFrame
<1>8. \A i \in 2 .. n : i # n => ClassDeclared(u.scopes, prog[i], Nat, 0, Nat)
  <2>1. \A i \in 2 .. k : ClassDeclared(t.scopes, prog[i], Nat, 0, Nat)
    BY DEF Content
  <2>2. \A i \in 2 .. k : ClassDeclared(u.scopes, prog[i], Nat, 0, Nat)
    BY <1>4, <2>1, ClassFrame
  <2>3. \A i \in 2 .. n : i # n => i \in 2 .. k
    BY <1>1
  <2> QED  BY <2>2, <2>3
<1>9. ClassDeclared(u.scopes, c, 0 .. 0, 0, Nat)
  <2>1. IsSequence(c.fields) /\ IsSequence(c.methods)
    BY <1>1, Program DEF AreNamed
  <2>2. /\ DOMAIN c.fields = 1 .. Len(c.fields) /\ Len(c.fields) \in Nat
        /\ DOMAIN c.methods = 1 .. Len(c.methods) /\ Len(c.methods) \in Nat
    BY <2>1 DEF IsSequence
  <2> HIDE DEF c
  <2>3. DOMAIN c.fields \cap 0 .. 0 = {} /\ MethodsIn(c, 0 .. 0) = {}
    BY <2>2 DEF MethodsIn
  <2> DEFINE map == u.scopes[path].variables
  <2>4. DOMAIN map = {This} /\ map[This] = c.id
    BY <1>2 DEF Emplace, Nothing
  <2> HIDE DEF map
  <2>5. VariablesAre(map, {This}, c.fields, 0 .. 0)
    BY <2>3, <2>4, ThisIsNoTemp DEF VariablesAre, Names
  <2>6. DOMAIN u.scopes[path].methods = {} /\ path \in DOMAIN u.scopes
    BY <1>2 DEF OneMore
  <2> QED  BY <2>3, <2>4, <2>5, <2>6 DEF ClassDeclared, Different, map
<1>10. \A p \in DOMAIN u.scopes : Explained(prog, n, p)
  <2> SUFFICES ASSUME NEW p \in DOMAIN u.scopes
               PROVE  Explained(prog, n, p)
    OBVIOUS
  <2>1. CASE p = path
    <3>1. n \in 2 .. n /\ p = ClassScope(prog[n])
      BY <1>1, <2>1
    <3> QED  BY <3>1 DEF Explained
  <2>2. CASE p # path
    <3>1. p \in DOMAIN t.scopes
      BY <1>2, <2>2 DEF OneMore
    <3>2. Explained(prog, k, p)
      BY <3>1 DEF Content
    <3>3. 2 .. k \subseteq 2 .. n /\ n > 0 /\ k > 0
      BY <1>1
    <3> QED  BY <3>2, <3>3 DEF Explained
  <2> QED  BY <2>1, <2>2
<1> QED  BY <1>1, <1>5, <1>6, <1>7, <1>8, <1>9, <1>10 DEF Content

LEMMA ContentMethod ==
  ASSUME NEW t, NEW u, NEW prog \in Programs, NEW k \in 2 .. Len(prog), NEW q \in Nat,
         NEW l \in DOMAIN prog[k].methods, q + 1 = Len(prog[k].fields) + l,
         Content(t.scopes, prog, k, 0 .. q, 0, Nat),
         MethodAdded(t, u, prog[k].id, prog[k].methods[l].type, prog[k].methods[l].id)
  PROVE  Content(u.scopes, prog, k, 0 .. q + 1, q + 1, 0 .. 0)
<1> DEFINE c == prog[k]
           m == c.methods[l]
           outer == ClassScope(c)
           path  == MethodScope(c, m)
<1>1. Len(prog) \in Nat /\ DOMAIN prog = 1 .. Len(prog)
  BY Program
<1>2. /\ IsSequence(c.fields) /\ IsSequence(c.methods) /\ IsMethod(m)
  BY Program DEF AreNamed
<1>3. ClassDeclared(t.scopes, c, 0 .. q, 0, Nat)
  BY DEF Content
<1>4. MethodAdded(t, u, c.id, m.type, m.id)
  OBVIOUS
<1>5. /\ DOMAIN c.fields = 1 .. Len(c.fields) /\ Len(c.fields) \in Nat
      /\ DOMAIN c.methods = 1 .. Len(c.methods) /\ Len(c.methods) \in Nat
      /\ l \in 1 .. Len(c.methods) /\ q + 1 = Len(c.fields) + l
  BY <1>2 DEF IsSequence
<1>6. DOMAIN Locals(m) = 1 .. Len(Locals(m)) /\ DOMAIN m.params = 1 .. Len(m.params)
  BY LocalsAre DEF LocalTasks
<1> HIDE DEF c, m
<1>7. /\ OneMore(t, u, path) /\ path \notin DOMAIN t.scopes
      /\ \A p \in DOMAIN t.scopes :
           p # outer => DOMAIN u.scopes[p].methods = DOMAIN t.scopes[p].methods
      /\ m.id \notin DOMAIN t.scopes[outer].methods
      /\ DOMAIN u.scopes[outer].methods = DOMAIN t.scopes[outer].methods \cup {m.id}
      /\ u.scopes[outer].methods[m.id].type = m.type
      /\ u.scopes[outer].methods[m.id].parameters = <<>>
      /\ DOMAIN u.scopes[Root].classes = DOMAIN t.scopes[Root].classes
      /\ u.scopes[path].variables = Nothing
  BY <1>4 DEF MethodAdded, ClassScope, MethodScope, OneMore
<1>8. \A p \in DOMAIN t.scopes :
        /\ p \in DOMAIN u.scopes /\ u.scopes[p].variables = t.scopes[p].variables
        /\ SameNames(t, u, p) /\ SameMethods(t, u, p)
        /\ p # outer => Agree(t, u, p)
  BY <1>7 DEF OneMore, Agree, SameNames
<1>9. AgreeBut(t, u, c.id)
  <2>1. outer[1] = ClassStep(c.id)
    BY PathLengths DEF ClassScope
  <2> QED  BY <1>7, <1>8, <2>1 DEF AgreeBut
<1>10. /\ MethodsIn(c, 0 .. q + 1) = MethodsIn(c, 0 .. q) \cup {l} /\ l \notin MethodsIn(c, 0 .. q)
       /\ DOMAIN c.fields \cap 0 .. q + 1 = DOMAIN c.fields \cap 0 .. q
       /\ Len(c.fields) + l = q + 1 /\ \A j \in MethodsIn(c, 0 .. q) : Len(c.fields) + j # q + 1
  BY <1>5 DEF MethodsIn
<1>11. ClassDeclared(u.scopes, c, 0 .. q + 1, q + 1, 0 .. 0)
  <2>1. /\ outer \in DOMAIN t.scopes /\ Different(c.fields, 0 .. q)
        /\ VariablesAre(t.scopes[outer].variables, {This}, c.fields, 0 .. q)
        /\ t.scopes[outer].variables[This] = c.id
        /\ Different(c.methods, MethodsIn(c, 0 .. q))
        /\ DOMAIN t.scopes[outer].methods = {c.methods[j].id : j \in MethodsIn(c, 0 .. q)}
    BY <1>3 DEF ClassDeclared
  <2>2. /\ outer \in DOMAIN u.scopes /\ u.scopes[outer].variables = t.scopes[outer].variables
        /\ VariablesAre(u.scopes[outer].variables, {This}, c.fields, 0 .. q + 1)
        /\ u.scopes[outer].variables[This] = c.id /\ Different(c.fields, 0 .. q + 1)
    BY <1>8, <1>10, <2>1 DEF VariablesAre, Different
  <2>3. \A j \in MethodsIn(c, 0 .. q) : c.methods[j].id # m.id
    BY <1>7, <2>1
  <2>4. Different(c.methods, MethodsIn(c, 0 .. q + 1))
    BY <1>10, <2>1, <2>3 DEF Different, m
  <2>5. DOMAIN u.scopes[outer].methods = {c.methods[j].id : j \in MethodsIn(c, 0 .. q + 1)}
    <3> DEFINE A == MethodsIn(c, 0 .. q)
               B == MethodsIn(c, 0 .. q + 1)
    <3>1. /\ DOMAIN u.scopes[outer].methods = {c.methods[j].id : j \in A} \cup {c.methods[l].id}
          /\ B = A \cup {l}
      BY <1>7, <1>10, <2>1 DEF m
    <3> HIDE DEF A, B
    <3>2. {c.methods[j].id : j \in B} = {c.methods[j].id : j \in A} \cup {c.methods[l].id}
      BY <3>1
    <3> QED  BY <3>1, <3>2 DEF B
  <2>6. MethodDeclared(u.scopes, c, m, 0 .. 0)
    <3>1. DOMAIN Locals(m) \cap 0 .. 0 = {} /\ DOMAIN m.params \cap 0 .. 0 = {}
      BY <1>6
    <3>2. path \in DOMAIN u.scopes /\ Names(u.scopes[path].variables) = {}
      BY <1>7 DEF OneMore, Names, Nothing
    <3>3. [i \in DOMAIN m.params \cap 0 .. 0 |-> ParameterRef(c, m, m.params[i])] = <<>>
      BY <3>1
    <3>4. VariablesAre(u.scopes[path].variables, {}, Locals(m), 0 .. 0) /\ Different(Locals(m), 0 .. 0)
      BY <3>1, <3>2 DEF VariablesAre, Different
    <3> QED  BY <1>7, <3>2, <3>3, <3>4 DEF MethodDeclared
  <2>7. ASSUME NEW j \in MethodsIn(c, 0 .. q)
        PROVE  MethodDeclared(u.scopes, c, c.methods[j], Nat)
    <3> DEFINE d == c.methods[j]
    <3>1. MethodDeclared(t.scopes, c, d, Nat) /\ d.id \in DOMAIN t.scopes[outer].methods
      BY <1>3, <2>1 DEF ClassDeclared
    <3> HIDE DEF d
    <3>2. MethodScope(c, d) \in DOMAIN t.scopes
      BY <3>1 DEF MethodDeclared
    <3>3. SameMethod(t, u, outer, d.id)
      BY <1>8, <2>1, <3>1 DEF SameMethods, SameMethod
    <3>4. MethodDeclared(u.scopes, c, d, Nat)
      BY <1>8, <3>1, <3>2, <3>3, MethodFrame
    <3> QED  BY <3>4 DEF d
  <2>8. \A j \in MethodsIn(c, 0 .. q + 1) :
          MethodDeclared(u.scopes, c, c.methods[j], IF Len(c.fields) + j = q + 1 THEN 0 .. 0 ELSE Nat)
    BY <1>10, <2>6, <2>7 DEF m
  <2> QED  BY <2>2, <2>4, <2>5, <2>8 DEF ClassDeclared
<1>12. \A p \in DOMAIN u.scopes : p \in DOMAIN t.scopes \/ Explained(prog, k, p)
  <2>1. Explained(prog, k, path)
    BY <1>5 DEF Explained, c, m
  <2> QED  BY <1>7, <2>1 DEF OneMore
<1>13. Changed(t, u, prog, k, 0 .. q + 1, q + 1, 0 .. 0)
  BY <1>1, <1>9, <1>11, <1>12 DEF c, Changed
<1> QED  BY <1>13, LastChanges

\* The map has the first n of the nodes, and what the other map has.
Gained(map, z, this, nodes, n) ==
  /\ VariablesAre(z, this, nodes, 0 .. n) /\ Different(nodes, 0 .. n)
  /\ \A id \in DOMAIN map : z[id] = map[id]

LEMMA VariableGained ==
  ASSUME NEW map, NEW this, this \subseteq {This}, NEW nodes, NEW n \in Nat, NEW p \in Nat, n = p + 1,
         VariablesAre(map, this, nodes, 0 .. p), Different(nodes, 0 .. p),
         n \in DOMAIN nodes, IsName(nodes[n].id), DOMAIN nodes \subseteq Nat,
         nodes[n].id \notin DOMAIN map
  PROVE  Gained(map, Emplace(map, nodes[n].id, nodes[n].type), this, nodes, n)
<1> DEFINE id == nodes[n].id
           z == Emplace(map, id, nodes[n].type)
<1>1. /\ DOMAIN z = DOMAIN map \cup {id} /\ z[id] = nodes[n].type
      /\ \A x \in DOMAIN map : z[x] = map[x]
  BY DEF Emplace
<1>2. ~IsTemp(id)
  BY DEF IsTemp, IsName
<1>3. /\ \A i \in DOMAIN nodes \cap 0 .. n : i \in DOMAIN nodes \cap 0 .. p \/ i = n
      /\ DOMAIN nodes \cap 0 .. n = (DOMAIN nodes \cap 0 .. p) \cup {n}
  <2>1. 0 .. n = 0 .. p \cup {n}
    OBVIOUS
  <2> QED  BY <2>1
<1> HIDE DEF z
<1>4. Names(z) = Names(map) \cup {id}
  BY <1>1, <1>2 DEF Names
<1>5. Names(map) = this \cup {nodes[i].id : i \in DOMAIN nodes \cap 0 .. p}
  BY DEF VariablesAre
<1>6. Names(z) = this \cup {nodes[i].id : i \in DOMAIN nodes \cap 0 .. n}
  BY <1>3, <1>4, <1>5
<1>7. \A i \in DOMAIN nodes \cap 0 .. p : nodes[i].id \in DOMAIN map
  BY <1>5 DEF Names
<1>8. \A i \in DOMAIN nodes \cap 0 .. n : z[nodes[i].id] = nodes[i].type
  BY <1>1, <1>3, <1>7 DEF VariablesAre
<1>9. Different(nodes, 0 .. n)
  BY <1>3, <1>7 DEF Different
<1>10. VariablesAre(z, this, nodes, 0 .. n)
  BY <1>6, <1>8 DEF VariablesAre
<1> QED  BY <1>1, <1>9, <1>10 DEF z, Gained

LEMMA ContentField ==
  ASSUME NEW t, NEW u, NEW prog \in Programs, NEW k \in 2 .. Len(prog),
         NEW q \in Nat, NEW n \in DOMAIN prog[k].fields, n = q + 1,
         Content(t.scopes, prog, k, 0 .. q, 0, Nat),
         prog[k].fields[n].id \notin DOMAIN t.scopes[ClassScope(prog[k])].variables,
         SameTree(t, u), Root \in DOMAIN t.scopes,
         \A p \in DOMAIN t.scopes :
           /\ SameMethods(t, u, p)
           /\ p # ClassScope(prog[k]) => u.scopes[p].variables = t.scopes[p].variables,
         u.scopes[ClassScope(prog[k])].variables
           = Emplace(t.scopes[ClassScope(prog[k])].variables,
                     prog[k].fields[n].id, prog[k].fields[n].type)
  PROVE  Content(u.scopes, prog, k, 0 .. n, 0, Nat)
<1> DEFINE c == prog[k]
           path == ClassScope(c)
           map == t.scopes[path].variables
<1>1. Len(prog) \in Nat /\ DOMAIN prog = 1 .. Len(prog)
  BY Program
<1>2. AreNamed(c.fields) /\ IsSequence(c.methods)
  BY Program
<1>3. ClassDeclared(t.scopes, c, 0 .. q, 0, Nat)
  BY DEF Content
<1>4. /\ u.scopes[path].variables = Emplace(map, c.fields[n].id, c.fields[n].type)
      /\ c.fields[n].id \notin DOMAIN map /\ n \in DOMAIN c.fields
      /\ \A p \in DOMAIN t.scopes : p # path => u.scopes[p].variables = t.scopes[p].variables
  OBVIOUS
<1>5. /\ DOMAIN c.fields = 1 .. Len(c.fields) /\ Len(c.fields) \in Nat
      /\ DOMAIN c.methods = 1 .. Len(c.methods) /\ Len(c.methods) \in Nat
      /\ IsName(c.fields[n].id)
  BY <1>2 DEF IsSequence, AreNamed
<1>6. n \in Nat /\ n = q + 1 /\ n \in 1 .. Len(c.fields)
  BY <1>5
<1> HIDE DEF c, map
<1>7. MethodsIn(c, 0 .. q) = {} /\ MethodsIn(c, 0 .. n) = {}
  BY <1>5, <1>6 DEF MethodsIn
<1>8. /\ path \in DOMAIN t.scopes /\ Different(c.fields, 0 .. q)
      /\ VariablesAre(map, {This}, c.fields, 0 .. q) /\ map[This] = c.id
      /\ DOMAIN t.scopes[path].methods = {}
  BY <1>3, <1>7 DEF ClassDeclared, map
<1>9. This \in DOMAIN map
  BY <1>8 DEF VariablesAre, Names
<1>10. LET z == Emplace(map, c.fields[n].id, c.fields[n].type) IN
       /\ VariablesAre(z, {This}, c.fields, 0 .. n) /\ Different(c.fields, 0 .. n)
       /\ z[This] = c.id
  <2> DEFINE fs == c.fields
  <2>1. /\ VariablesAre(map, {This}, fs, 0 .. q) /\ Different(fs, 0 .. q)
        /\ n \in DOMAIN fs /\ IsName(fs[n].id) /\ DOMAIN fs \subseteq Nat
        /\ fs[n].id \notin DOMAIN map
    BY <1>4, <1>5, <1>8
  <2> HIDE DEF fs
  <2>2. Gained(map, Emplace(map, fs[n].id, fs[n].type), {This}, fs, n)
    <3>1. {This} \subseteq {This}
      OBVIOUS
    <3> QED  BY <1>6, <2>1, <3>1, VariableGained, Zenon
  <2> QED  BY <1>8, <1>9, <2>2 DEF fs, Gained
<1>11. /\ DOMAIN u.scopes = DOMAIN t.scopes
       /\ DOMAIN u.scopes[path].methods = {}
  BY <1>8 DEF SameTree
<1>12. ClassDeclared(u.scopes, c, 0 .. n, 0, Nat)
  BY <1>4, <1>7, <1>8, <1>10, <1>11 DEF ClassDeclared, Different
<1>13. AgreeBut(t, u, c.id)
  <2>1. path[1] = ClassStep(c.id)
    BY PathLengths DEF ClassScope
  <2>2. \A p \in DOMAIN t.scopes : p # path => Agree(t, u, p)
    BY <1>4, <1>11 DEF Agree, SameNames, SameTree
  <2>3. DOMAIN u.scopes[Root].classes = DOMAIN t.scopes[Root].classes
    BY DEF SameTree
  <2> QED  BY <2>1, <2>2, <2>3 DEF AgreeBut
<1>14. Changed(t, u, prog, k, 0 .. n, 0, Nat)
  BY <1>1, <1>11, <1>12, <1>13 DEF c, Changed
<1> QED  BY <1>14, LastChanges

LEMMA ContentMethodDone ==
  ASSUME NEW scopes, NEW prog \in Programs, NEW k \in 2 .. Len(prog),
         NEW q \in Nat, NEW l \in DOMAIN prog[k].methods, Placed(prog, k, l, q),
         Content(scopes, prog, k, 0 .. q, q, 0 .. Len(Locals(prog[k].methods[l])))
  PROVE  Content(scopes, prog, k, 0 .. q, 0, Nat)
<1> DEFINE c == prog[k]
           m == c.methods[l]
           N == 0 .. Len(Locals(m))
<1>1. Len(prog) \in Nat /\ DOMAIN prog = 1 .. Len(prog)
  BY Program
<1>2. IsSequence(c.fields) /\ IsSequence(c.methods)
  BY Program DEF AreNamed
<1>3. ClassDeclared(scopes, c, 0 .. q, q, N)
  BY DEF Content
<1>4. /\ DOMAIN Locals(m) = 1 .. Len(Locals(m)) /\ DOMAIN m.params = 1 .. Len(m.params)
      /\ Len(Locals(m)) \in Nat /\ Len(m.params) \in 0 .. Len(Locals(m))
  BY LocalsAre DEF LocalTasks
<1>5. /\ DOMAIN c.methods = 1 .. Len(c.methods) /\ Len(c.methods) \in Nat
      /\ Len(c.fields) \in Nat /\ q = Len(c.fields) + l /\ l \in 1 .. Len(c.methods)
  BY <1>2 DEF IsSequence, Placed
<1> HIDE DEF c, m
<1>6. /\ DOMAIN Locals(m) \cap N = DOMAIN Locals(m) /\ DOMAIN Locals(m) \cap Nat = DOMAIN Locals(m)
      /\ DOMAIN m.params \cap N = DOMAIN m.params /\ DOMAIN m.params \cap Nat = DOMAIN m.params
  BY <1>4
<1> HIDE DEF N
<1>7. MethodDeclared(scopes, c, m, N) => MethodDeclared(scopes, c, m, Nat)
  BY <1>6 DEF MethodDeclared, VariablesAre, Different
<1>8. \A j \in MethodsIn(c, 0 .. q) :
        /\ j = l <=> Len(c.fields) + j = q
        /\ Len(c.fields) + j # 0
  <2>1. PlacesAre(c, l, q)
    BY <1>5, MethodPlaces
  <2> QED  BY <2>1 DEF PlacesAre
<1>9. \A j \in MethodsIn(c, 0 .. q) :
        MethodDeclared(scopes, c, c.methods[j], IF Len(c.fields) + j = 0 THEN Nat ELSE Nat)
  <2>1. \A j \in MethodsIn(c, 0 .. q) :
          MethodDeclared(scopes, c, c.methods[j], IF Len(c.fields) + j = q THEN N ELSE Nat)
    BY <1>3 DEF ClassDeclared
  <2> QED  BY <1>7, <1>8, <2>1 DEF m
<1>10. ClassDeclared(scopes, c, 0 .. q, 0, Nat)
  BY <1>3, <1>9 DEF ClassDeclared
<1> QED  BY <1>10 DEF Content, c

LEMMA ContentClassDone ==
  ASSUME NEW scopes, NEW prog \in Programs, NEW k \in 1 .. Len(prog),
         Content(scopes, prog, k, 0 .. Len(Members("declare", prog, k)), 0, Nat)
  PROVE  Content(scopes, prog, k, Nat, 0, Nat)
<1>1. CASE k = 1
  BY <1>1 DEF Content
<1>2. CASE k # 1
  <2> DEFINE c == prog[k]
             n == Len(Members("declare", prog, k))
             Q == 0 .. n
  <2>1. k \in 2 .. Len(prog) /\ "declare" \in Traversals
    BY <1>2, Program DEF Traversals
  <2>2. IsSequence(c.fields) /\ IsSequence(c.methods) /\ n = Len(c.fields) + Len(c.methods)
    <3>1. IsSequence(c.fields) /\ IsSequence(c.methods)
      BY <2>1, Program DEF AreNamed
    <3>2. n = Len(c.fields) + Len(c.methods)
      BY <1>2, <2>1, MembersAre
    <3> QED  BY <3>1, <3>2
  <2>3. ClassDeclared(scopes, c, Q, 0, Nat)
    BY <2>1 DEF Content
  <2> HIDE DEF c, n
  <2>4. /\ DOMAIN c.methods = 1 .. Len(c.methods) /\ Len(c.methods) \in Nat
        /\ DOMAIN c.fields = 1 .. Len(c.fields) /\ Len(c.fields) \in Nat
    BY <2>2 DEF IsSequence
  <2>5. DOMAIN c.fields \cap Q = DOMAIN c.fields \cap Nat /\ MethodsIn(c, Q) = MethodsIn(c, Nat)
    <3> DEFINE a == Len(c.fields)
               b == Len(c.methods)
    <3>1. a \in Nat /\ b \in Nat /\ n = a + b /\ DOMAIN c.fields = 1 .. a /\ DOMAIN c.methods = 1 .. b
      BY <2>2, <2>4
    <3> HIDE DEF a, b
    <3>2. \A l \in 1 .. b : a + l \in Q /\ a + l \in Nat
      BY <3>1
    <3>3. \A i \in 1 .. a : i \in Q /\ i \in Nat
      BY <3>1
    <3> HIDE DEF Q
    <3>4. MethodsIn(c, Q) = MethodsIn(c, Nat)
      BY <3>1, <3>2 DEF MethodsIn, a
    <3>5. DOMAIN c.fields \cap Q = DOMAIN c.fields \cap Nat
      BY <3>1, <3>3
    <3> QED  BY <3>4, <3>5
  <2> HIDE DEF Q
  <2>6. ClassDeclared(scopes, c, Nat, 0, Nat)
    BY <2>3, <2>5 DEF ClassDeclared, VariablesAre, Different
  <2> QED  BY <2>6 DEF Content, c
<1> QED  BY <1>1, <1>2

\* What is known of the parameters after the p-th variable of a method, and after the next.
ParametersTo(c, m, p) == [i \in DOMAIN m.params \cap 0 .. p |-> ParameterRef(c, m, m.params[i])]

OneMoreListed(c, m, d, p, n) ==
  ParametersTo(c, m, n) = IF n <= d THEN Append(ParametersTo(c, m, p), ParameterRef(c, m, m.params[n]))
                          ELSE ParametersTo(c, m, p)

LEMMA ParameterListed ==
  ASSUME NEW c, NEW m, NEW d \in Nat, DOMAIN m.params = 1 .. d, NEW p \in Nat, NEW n \in Nat, n = p + 1
  PROVE  OneMoreListed(c, m, d, p, n)
<1> DEFINE f(i) == ParameterRef(c, m, m.params[i])
           before == [i \in DOMAIN m.params \cap 0 .. p |-> f(i)]
           after  == [i \in DOMAIN m.params \cap 0 .. n |-> f(i)]
           U == {f(i) : i \in 1 .. d}
<1>1. CASE n <= d
  <2>1. DOMAIN m.params \cap 0 .. p = 1 .. p /\ DOMAIN m.params \cap 0 .. n = 1 .. n
    BY <1>1
  <2>2. before = [i \in 1 .. p |-> f(i)] /\ after = [i \in 1 .. n |-> f(i)]
    BY <2>1
  <2>3. \A i \in 1 .. n : f(i) \in U
    BY <1>1
  <2> HIDE DEF f, U, before, after
  <2>4. before \in Seq(U) /\ Len(before) = p /\ \A i \in 1 .. p : before[i] = f(i)
    BY <2>2, <2>3
  <2>5. after \in Seq(U) /\ Len(after) = n /\ \A i \in 1 .. n : after[i] = f(i)
    BY <2>2, <2>3
  <2>6. f(n) \in U
    BY <2>3
  <2> DEFINE more == Append(before, f(n))
  <2>7. more \in Seq(U) /\ Len(more) = n /\ \A i \in 1 .. n : more[i] = f(i)
    BY <2>4, <2>6
  <2> HIDE DEF more
  <2>8. after = more
    BY <2>5, <2>7, SeqEqual
  <2> QED  BY <1>1, <2>8 DEF more, f, before, after, ParametersTo, OneMoreListed
<1>2. CASE ~ (n <= d)
  <2>1. DOMAIN m.params \cap 0 .. p = DOMAIN m.params \cap 0 .. n
    BY <1>2
  <2> QED  BY <1>2, <2>1 DEF ParametersTo, OneMoreListed
<1> QED  BY <1>1, <1>2

\* The n-th variable of a method is added to its parameters, if it is one.
Listed(t, u, c, m, n) ==
  IF n <= Len(m.params)
  THEN Parameterized(t, u, c.id, m.id, ParameterRef(c, m, Locals(m)[n]))
  ELSE \A path \in DOMAIN t.scopes : SameMethods(t, u, path)

LongerList(t, u, c, m, n) ==
  LET outer == ClassScope(c) IN
  /\ \A p \in DOMAIN t.scopes : p # outer => SameMethods(t, u, p)
  /\ \A id \in DOMAIN t.scopes[outer].methods : id # m.id => SameMethod(t, u, outer, id)
  /\ u.scopes[outer].methods[m.id].type = t.scopes[outer].methods[m.id].type
  /\ u.scopes[outer].methods[m.id].parameters =
       IF n <= Len(m.params)
       THEN Append(t.scopes[outer].methods[m.id].parameters, ParameterRef(c, m, Locals(m)[n]))
       ELSE t.scopes[outer].methods[m.id].parameters

LEMMA ListedIs ==
  ASSUME NEW t, NEW u, NEW c, NEW m, NEW n, Listed(t, u, c, m, n), ClassScope(c) \in DOMAIN t.scopes,
         m.id \in DOMAIN t.scopes[ClassScope(c)].methods
  PROVE  LongerList(t, u, c, m, n)
<1>1. CASE n <= Len(m.params)
  BY <1>1 DEF Listed, LongerList, Parameterized, SameMethod, ClassScope
<1>2. CASE ~ (n <= Len(m.params))
  BY <1>2 DEF Listed, LongerList, SameMethods, SameMethod
<1> QED  BY <1>1, <1>2

\* The n-th variable of a method is in its scope, and was not before.
LocalAdded(t, u, c, m, n) ==
  LET inner == MethodScope(c, m) IN
  /\ Locals(m)[n].id \notin DOMAIN t.scopes[inner].variables
  /\ \A path \in DOMAIN t.scopes : path # inner => u.scopes[path].variables = t.scopes[path].variables
  /\ u.scopes[inner].variables = Emplace(t.scopes[inner].variables, Locals(m)[n].id, Locals(m)[n].type)

LEMMA ContentLocal ==
  ASSUME NEW t, NEW u, NEW prog \in Programs, NEW k \in 2 .. Len(prog), NEW q \in Nat,
         NEW l \in DOMAIN prog[k].methods, Placed(prog, k, l, q),
         NEW m, m = prog[k].methods[l], NEW p \in Nat, NEW n \in DOMAIN Locals(m), n = p + 1,
         Content(t.scopes, prog, k, 0 .. q, q, 0 .. p),
         SameTree(t, u), Root \in DOMAIN t.scopes,
         LocalAdded(t, u, prog[k], m, n), Listed(t, u, prog[k], m, n)
  PROVE  Content(u.scopes, prog, k, 0 .. q, q, 0 .. n)
<1> DEFINE c == prog[k]
           outer == ClassScope(c)
           inner == MethodScope(c, m)
           map == t.scopes[inner].variables
           x == Locals(m)[n]
           Q == MethodsIn(c, 0 .. q)
<1>1. Len(prog) \in Nat /\ DOMAIN prog = 1 .. Len(prog)
  BY Program
<1>2. IsSequence(c.fields) /\ IsSequence(c.methods)
  BY Program DEF AreNamed
<1>3. /\ DOMAIN c.methods = 1 .. Len(c.methods) /\ Len(c.methods) \in Nat
      /\ Len(c.fields) \in Nat /\ q = Len(c.fields) + l /\ l \in 1 .. Len(c.methods)
  BY <1>2 DEF IsSequence, Placed
<1>20. LocalTasks(prog, m, Body("declare", m))
  BY LocalsAre
<1>4. /\ DOMAIN Locals(m) = 1 .. Len(Locals(m)) /\ DOMAIN m.params = 1 .. Len(m.params)
      /\ Len(Locals(m)) \in Nat /\ Len(m.params) \in Nat
  BY <1>20 DEF LocalTasks
<1>19. \A i \in 1 .. Len(m.params) : Locals(m)[i] = m.params[i]
  BY <1>20, Zenon DEF LocalTasks
<1>5. IsName(x.id) /\ n \in Nat
  <2>1. n \in 1 .. Len(Locals(m)) /\ n \in Nat
    BY <1>4
  <2>2. Len(Body("declare", m)) = Len(Locals(m))
    BY <1>20, Zenon DEF LocalTasks
  <2> QED  BY <1>20, <2>1, <2>2 DEF LocalTasks
<1>6. /\ u.scopes[inner].variables = Emplace(map, x.id, x.type) /\ x.id \notin DOMAIN map
      /\ \A path \in DOMAIN t.scopes : path # inner => u.scopes[path].variables = t.scopes[path].variables
      /\ Listed(t, u, c, m, n) /\ m = c.methods[l]
  BY DEF LocalAdded
<1>7. ClassDeclared(t.scopes, c, 0 .. q, q, 0 .. p)
  BY DEF Content
<1> HIDE DEF c, map
<1>8. /\ outer \in DOMAIN t.scopes /\ Different(c.fields, 0 .. q)
      /\ VariablesAre(t.scopes[outer].variables, {This}, c.fields, 0 .. q)
      /\ t.scopes[outer].variables[This] = c.id
      /\ Different(c.methods, Q)
      /\ DOMAIN t.scopes[outer].methods = {c.methods[j].id : j \in Q}
      /\ \A j \in Q :
           MethodDeclared(t.scopes, c, c.methods[j], IF Len(c.fields) + j = q THEN 0 .. p ELSE Nat)
  BY <1>7 DEF ClassDeclared
<1>9. l \in Q /\ \A j \in Q : j \in DOMAIN c.methods /\ (Len(c.fields) + j = q <=> j = l)
  <2>1. PlacesAre(c, l, q)
    BY <1>3, MethodPlaces
  <2> QED  BY <2>1 DEF PlacesAre
<1>10. /\ MethodDeclared(t.scopes, c, m, 0 .. p) /\ m.id \in DOMAIN t.scopes[outer].methods
       /\ \A j \in Q : j # l => /\ MethodDeclared(t.scopes, c, c.methods[j], Nat)
                                /\ c.methods[j].id \in DOMAIN t.scopes[outer].methods
                                /\ c.methods[j].id # m.id
  BY <1>6, <1>8, <1>9 DEF Different
<1> HIDE DEF Q
<1>11. /\ \A path \in DOMAIN t.scopes : path # outer => SameMethods(t, u, path)
       /\ \A id \in DOMAIN t.scopes[outer].methods : id # m.id => SameMethod(t, u, outer, id)
       /\ u.scopes[outer].methods[m.id].type = t.scopes[outer].methods[m.id].type
       /\ u.scopes[outer].methods[m.id].parameters =
            IF n <= Len(m.params)
            THEN Append(t.scopes[outer].methods[m.id].parameters, ParameterRef(c, m, x))
            ELSE t.scopes[outer].methods[m.id].parameters
  <2>1. Listed(t, u, c, m, n) /\ outer \in DOMAIN t.scopes /\ m.id \in DOMAIN t.scopes[outer].methods
    BY <1>6, <1>8, <1>10
  <2>2. LongerList(t, u, c, m, n)
    BY <2>1, ListedIs, Zenon
  <2> QED  BY <2>2 DEF LongerList
<1>12. outer # inner
  BY PathLengths DEF ClassScope, MethodScope
<1>13. /\ DOMAIN u.scopes = DOMAIN t.scopes
       /\ DOMAIN u.scopes[outer].methods = DOMAIN t.scopes[outer].methods
       /\ u.scopes[outer].variables = t.scopes[outer].variables
       /\ \A path \in DOMAIN t.scopes : path # inner => SameNames(t, u, path)
  BY <1>6, <1>8, <1>12 DEF SameTree, SameNames
<1>14. MethodDeclared(u.scopes, c, m, 0 .. n)
  <2> DEFINE nodes == Locals(m)
             before == ParametersTo(c, m, p)
             after  == ParametersTo(c, m, n)
  <2>1. /\ inner \in DOMAIN t.scopes
        /\ Different(nodes, 0 .. p) /\ VariablesAre(map, {}, nodes, 0 .. p)
        /\ t.scopes[outer].methods[m.id].type = m.type
        /\ t.scopes[outer].methods[m.id].parameters = before
    BY <1>10 DEF MethodDeclared, map, ParametersTo
  <2>2. after = IF n <= Len(m.params) THEN Append(before, ParameterRef(c, m, m.params[n])) ELSE before
    <3> DEFINE d == Len(m.params)
    <3>1. d \in Nat /\ DOMAIN m.params = 1 .. d /\ n \in Nat
      BY <1>4, <1>5
    <3> HIDE DEF d
    <3>2. OneMoreListed(c, m, d, p, n)
      BY <3>1, ParameterListed, Zenon
    <3> QED  BY <3>2 DEF d, OneMoreListed
  <2>3. n <= Len(m.params) => m.params[n] = x
    BY <1>4, <1>19
  <2>4. n \in DOMAIN nodes /\ IsName(nodes[n].id) /\ DOMAIN nodes \subseteq Nat
        /\ nodes[n].id \notin DOMAIN map /\ u.scopes[inner].variables = Emplace(map, nodes[n].id, nodes[n].type)
    BY <1>4, <1>5, <1>6
  <2> HIDE DEF nodes, before, after
  <2>5. Gained(map, Emplace(map, nodes[n].id, nodes[n].type), {}, nodes, n)
    <3>1. {} \subseteq {This}
      OBVIOUS
    <3> QED  BY <1>5, <2>1, <2>4, <3>1, VariableGained, Zenon
  <2>6. VariablesAre(u.scopes[inner].variables, {}, nodes, 0 .. n) /\ Different(nodes, 0 .. n)
    BY <2>4, <2>5 DEF Gained
  <2>7. u.scopes[outer].methods[m.id].parameters = after
    BY <1>11, <2>1, <2>2, <2>3
  <2>8. inner \in DOMAIN u.scopes /\ u.scopes[outer].methods[m.id].type = m.type
    BY <1>11, <1>13, <2>1
  <2> QED  BY <2>6, <2>7, <2>8 DEF MethodDeclared, nodes, after, ParametersTo
<1>15. ASSUME NEW j \in Q, j # l
       PROVE  MethodDeclared(u.scopes, c, c.methods[j], Nat)
  <2> DEFINE d == c.methods[j]
  <2>1. /\ MethodDeclared(t.scopes, c, d, Nat) /\ d.id \in DOMAIN t.scopes[outer].methods
        /\ d.id # m.id
    BY <1>10, <1>15
  <2> HIDE DEF d
  <2>2. MethodScope(c, d) # inner /\ MethodScope(c, d) \in DOMAIN t.scopes
    <3>1. MethodStep(d.id) # MethodStep(m.id)
      BY <2>1 DEF MethodStep
    <3> QED  BY <2>1, <3>1, PathLengths DEF MethodScope, MethodDeclared
  <2>3. MethodDeclared(u.scopes, c, d, Nat)
    BY <1>11, <1>13, <2>1, <2>2, MethodFrame
  <2> QED  BY <2>3 DEF d
<1>16. \A j \in Q :
         MethodDeclared(u.scopes, c, c.methods[j], IF Len(c.fields) + j = q THEN 0 .. n ELSE Nat)
  BY <1>6, <1>9, <1>14, <1>15
<1>17. ClassDeclared(u.scopes, c, 0 .. q, q, 0 .. n)
  BY <1>8, <1>13, <1>16 DEF ClassDeclared, Q
<1>18. AgreeBut(t, u, c.id)
  <2>1. outer[1] = ClassStep(c.id) /\ inner[1] = ClassStep(c.id)
    BY PathLengths DEF ClassScope, MethodScope
  <2>2. \A path \in DOMAIN t.scopes : path # outer /\ path # inner => Agree(t, u, path)
    BY <1>11, <1>13 DEF Agree, SameTree
  <2>3. DOMAIN u.scopes[Root].classes = DOMAIN t.scopes[Root].classes
    BY DEF SameTree
  <2> QED  BY <2>1, <2>2, <2>3 DEF AgreeBut
<1> QED
  <2>1. \A path \in DOMAIN u.scopes : path \in DOMAIN t.scopes \/ Explained(prog, k, path)
    BY <1>13
  <2>2. Changed(t, u, prog, k, 0 .. q, q, 0 .. n)
    BY <1>1, <1>17, <1>18, <2>1 DEF c, Changed
  <2> QED  BY <2>2, LastChanges

-----------------------------------------------------------------------------
(***************************************************************************)
(* The same scopes, seen from another one.                                 *)
(***************************************************************************)
At(t, path) == [scopes |-> t.scopes, current |-> path]

LEMMA AtIs ==
  ASSUME NEW t, Tree(t), NEW path \in DOMAIN t.scopes
  PROVE  /\ Tree(At(t, path)) /\ At(t, path).scopes = t.scopes /\ At(t, path).current = path
         /\ At(t, t.current) = t
<1> DEFINE u == At(t, path)
<1>1. u.scopes = t.scopes /\ u.current = path /\ u = [scopes |-> u.scopes, current |-> u.current]
  BY DEF At
<1>2. t = [scopes |-> t.scopes, current |-> t.current]
  BY DEF Tree, IsTable
<1>3. At(t, t.current) = t
  BY <1>2 DEF At
<1> HIDE DEF u
<1>4. IsTable(u)
  BY <1>1 DEF Tree, IsTable
<1>5. SameTree(t, u)
  BY <1>1, <1>4 DEF SameTree
<1>6. Tree(u)
  BY <1>1, <1>5, TreeKept
<1> QED  BY <1>1, <1>3, <1>6 DEF u

LEMMA ExitIs ==
  ASSUME NEW t, IsTable(t)
  PROVE  Exit(t) = At(t, Parent(t.current)) /\ ToRoot(t) = At(t, Root)
<1>1. t = [scopes |-> t.scopes, current |-> t.current]
  BY DEF IsTable
<1>2. /\ Exit(t) = [t EXCEPT !.current = Parent(t.current)]
      /\ ToRoot(t) = [t EXCEPT !.current = Root]
  BY DEF Exit, ToRoot
<1>3. \A x : [t EXCEPT !.current = x] = [scopes |-> t.scopes, current |-> x]
  BY <1>1
<1> QED  BY <1>2, <1>3 DEF At

\* A scope that is there is entered without a trace.
LEMMA EnterAgain ==
  ASSUME NEW t, IsTable(t), NEW child, NEW record, Append(t.current, child) \in DOMAIN t.scopes
  PROVE  Enter(t, child, record) = At(t, Append(t.current, child))
<1>1. Entered(t, Enter(t, child, record), Append(t.current, child), record)
  BY EnterIs
<1> QED  BY <1>1 DEF Entered, At

LEMMA EmptyTableIs == Tree(EmptyTable) /\ EmptyTable.current = Root
                        /\ DOMAIN EmptyTable.scopes = {Root}
                        /\ DOMAIN EmptyTable.scopes[Root].classes = {}
<1> DEFINE t == EmptyTable
           s == Scope(NoRef, Nothing, Nothing, Nothing)
<1>1. /\ t = [scopes |-> t.scopes, current |-> t.current] /\ t.current = Root
      /\ t.scopes = [p \in {Root} |-> s]
  BY DEF EmptyTable, EmptyScope, Scope
<1>2. /\ s = Scope(s.record, s.variables, s.methods, s.classes)
      /\ s.variables = Nothing /\ s.methods = Nothing /\ s.classes = Nothing
  BY DEF Scope
<1>3. IsFunction(Nothing) /\ DOMAIN Nothing = {}
  BY DEF IsFunction, Nothing
<1> HIDE DEF t, s
<1>4. DOMAIN t.scopes = {Root} /\ t.scopes[Root] = s /\ IsFunction(t.scopes)
  BY <1>1 DEF IsFunction
<1>5. IsScope(s)
  BY <1>2, <1>3 DEF IsScope
<1>6. Tree(t)
  BY <1>1, <1>2, <1>3, <1>4, <1>5 DEF Tree, IsTable
<1> QED  BY <1>1, <1>2, <1>3, <1>4, <1>6 DEF t

\* What the visit of the main class makes of the table.
MainAdded(u, id, arg) ==
  LET outer == <<ClassStep(id)>>
      path  == <<ClassStep(id), MethodStep(Main)>>
  IN
  /\ Tree(u) /\ u.current = outer
  /\ DOMAIN u.scopes = {Root, outer, path}
  /\ DOMAIN u.scopes[Root].classes = {id}
  /\ DOMAIN u.scopes[outer].methods = {Main}
  /\ u.scopes[outer].variables = Emplace(Nothing, This, id)
  /\ u.scopes[path].variables = Emplace(Nothing, arg, Strings)

LEMMA MainOpened ==
  ASSUME table = EmptyTable, NEW id, NEW arg
  PROVE  MainAdded(Exit(AddVariable(OpenMethod(OpenClass(id), <<"void">>, Main), Strings, arg)), id, arg)
<1> DEFINE outer == <<ClassStep(id)>>
           path  == <<ClassStep(id), MethodStep(Main)>>
           t1 == OpenClass(id)
           t2 == OpenMethod(t1, <<"void">>, Main)
           t3 == AddVariable(t2, Strings, arg)
           t4 == Exit(t3)
<1>1. /\ Tree(table) /\ table.current = Root /\ DOMAIN table.scopes = {Root}
      /\ DOMAIN table.scopes[Root].classes = {}
  BY EmptyTableIs
<1>2. ClassAdded(table, t1, id)
  BY <1>1, ClassOpened
<1> HIDE DEF t1
<1>3. /\ Tree(t1) /\ t1.current = outer /\ DOMAIN t1.scopes = {Root, outer}
      /\ DOMAIN t1.scopes[outer].methods = {} /\ DOMAIN t1.scopes[Root].classes = {id}
      /\ DOMAIN t1.scopes[Root].methods = {}
      /\ t1.scopes[outer].variables = Emplace(Nothing, This, id)
  BY <1>1, <1>2 DEF ClassAdded, OneMore, Tree
<1>4. MethodAdded(t1, t2, id, <<"void">>, Main)
  <2>1. Main \notin DOMAIN t1.scopes[t1.current].methods
    BY <1>3
  <2> QED  BY <1>3, <2>1, MethodOpened
<1> HIDE DEF t2
<1>5. /\ Tree(t2) /\ t2.current = path /\ DOMAIN t2.scopes = {Root, outer, path}
      /\ DOMAIN t2.scopes[outer].methods = {Main} /\ DOMAIN t2.scopes[Root].classes = {id}
      /\ t2.scopes[path].variables = Nothing
      /\ t2.scopes[outer].variables = Emplace(Nothing, This, id)
  BY <1>3, <1>4 DEF MethodAdded, OneMore
<1>6. path # Root /\ outer # path /\ outer # Root
  BY PathLengths
<1>7. /\ Tree(t3) /\ t3.current = path /\ DOMAIN t3.scopes = {Root, outer, path}
      /\ DOMAIN t3.scopes[outer].methods = {Main} /\ DOMAIN t3.scopes[Root].classes = {id}
      /\ t3.scopes[path].variables = Emplace(Nothing, arg, Strings)
      /\ t3.scopes[outer].variables = Emplace(Nothing, This, id)
  <2>1. t2.current # Root
    BY <1>5, <1>6
  <2>2. /\ Tree(t3) /\ SameTree(t2, t3) /\ t3.current = t2.current
        /\ \A p \in DOMAIN t2.scopes :
             /\ t3.scopes[p].methods = t2.scopes[p].methods
             /\ t3.scopes[p].classes = t2.scopes[p].classes
             /\ p # t2.current => t3.scopes[p] = t2.scopes[p]
        /\ t3.scopes[t2.current].variables = Emplace(t2.scopes[t2.current].variables, arg, Strings)
    BY <1>5, <2>1, VariableAdded
  <2> HIDE DEF t3
  <2> QED  BY <1>5, <1>6, <2>2 DEF SameTree
<1> HIDE DEF t3
<1>8. t4 = At(t3, outer) /\ outer \in DOMAIN t3.scopes
  <2>1. Parent(t3.current) = outer
    BY <1>7, PathSteps
  <2>2. IsTable(t3)
    BY <1>7 DEF Tree
  <2> QED  BY <1>7, <2>1, <2>2, ExitIs
<1>9. Tree(t4) /\ t4.scopes = t3.scopes /\ t4.current = outer
  BY <1>7, <1>8, AtIs
<1> HIDE DEF t4
<1>10. MainAdded(t4, id, arg)
  BY <1>7, <1>9 DEF MainAdded
<1> QED  BY <1>10 DEF t1, t2, t3, t4

LEMMA ContentMain ==
  ASSUME NEW u, NEW prog \in Programs, MainAdded(u, prog[1].id, prog[1].arg), NEW Q, NEW last, NEW N
  PROVE  Content(u.scopes, prog, 1, Q, last, N)
<1> DEFINE c == prog[1]
           path == MainScopeOf(c)
           map == u.scopes[path].variables
<1>1. DOMAIN prog = 1 .. Len(prog) /\ Len(prog) \in Nat /\ IsName(c.arg)
  BY Program
<1> HIDE DEF c
<1>2. /\ DOMAIN u.scopes = {Root, ClassScope(c), path}
      /\ DOMAIN u.scopes[Root].classes = {c.id}
      /\ DOMAIN u.scopes[ClassScope(c)].methods = {Main}
      /\ map = Emplace(Nothing, c.arg, Strings)
  BY DEF c, MainAdded, ClassScope, MainScopeOf
<1>3. DOMAIN map = {c.arg} /\ map[c.arg] = Strings
  BY <1>2 DEF Emplace, Nothing
<1> HIDE DEF map
<1>4. Names(map) = {c.arg}
  BY <1>1, <1>3 DEF Names, IsTemp, IsName
<1>5. MainDeclared(u.scopes, c)
  BY <1>2, <1>3, <1>4 DEF MainDeclared, map
<1>6. Different(prog, 1 .. 1)
  BY DEF Different
<1>7. \A p \in DOMAIN u.scopes : Explained(prog, 1, p)
  BY <1>2 DEF Explained, c
<1>8. DOMAIN u.scopes[Root].classes = {prog[i].id : i \in 1 .. 1}
  BY <1>2 DEF c
<1> QED  BY <1>5, <1>6, <1>7, <1>8 DEF Content, c

-----------------------------------------------------------------------------
(***************************************************************************)
(* How a traversal gets from one place to the next.                        *)
(***************************************************************************)
LEMMA ClassSkipped ==
  ASSUME NEW prog \in Programs, NEW pass \in Traversals, NEW tasks, NEW t, NEW errs, NEW k,
         Outside(pass, prog, tasks, t, errs, k), k # Len(prog), NEW n, n = k + 1,
         NEW u, NEW e, u.current = Root, Known(pass, prog, u, e, n, Nat, 0, Nat)
  PROVE  Outside(pass, prog, Tail(tasks), u, e, n)
<1>1. k + 1 \in 1 .. Len(prog) /\ Tail(tasks) = From(Classes(prog), (k + 1) + 1)
  BY OutsideHead
<1>2. n \in 0 .. Len(prog)
  BY <1>1, Program
<1> QED  BY <1>1, <1>2 DEF Outside

LEMMA MemberDone ==
  ASSUME NEW prog \in Programs, NEW pass \in Traversals, NEW tasks, NEW t, NEW errs, NEW k, NEW q,
         Inside(pass, prog, tasks, t, errs, k, q), q # Len(Members(pass, prog, k)),
         NEW n, n = q + 1, NEW u, NEW e, u.current = t.current,
         Known(pass, prog, u, e, k, 0 .. n, 0, Nat)
  PROVE  Inside(pass, prog, Tail(tasks), u, e, k, n)
<1>1. q + 1 \in 1 .. Len(Members(pass, prog, k)) /\ Tail(tasks) = Rest(pass, prog, k, q + 1)
  BY InsideHead
<1>2. /\ k \in 1 .. Len(prog) /\ u.current = <<ClassStep(prog[k].id)>>
      /\ q \in 0 .. Len(Members(pass, prog, k))
  BY DEF Inside
<1>3. n \in 0 .. Len(Members(pass, prog, k))
  BY <1>1, <1>2
<1> QED  BY <1>1, <1>2, <1>3 DEF Inside

LEMMA ClassEnds ==
  ASSUME NEW prog \in Programs, NEW pass \in Traversals, NEW tasks, NEW t, NEW errs, NEW k, NEW q,
         Inside(pass, prog, tasks, t, errs, k, q), q = Len(Members(pass, prog, k)),
         NEW u, NEW e, u.current = Root, Known(pass, prog, u, e, k, Nat, 0, Nat)
  PROVE  Outside(pass, prog, Tail(tasks), u, e, k)
<1>1. Tail(tasks) = From(Classes(prog), k + 1)
  BY InsideHead
<1>2. k \in 0 .. Len(prog)
  BY Program DEF Inside
<1> QED  BY <1>1, <1>2 DEF Outside

LEMMA LocalDone ==
  ASSUME NEW prog \in Programs, NEW pass \in Traversals, NEW tasks, NEW t, NEW errs,
         NEW k, NEW q, NEW p, Within(pass, prog, tasks, t, errs, k, q, p),
         p # Len(BodyAt(pass, prog, k, q)), NEW n, n = p + 1,
         NEW u, NEW e, u.current = t.current, Known(pass, prog, u, e, k, 0 .. q, q, 0 .. n)
  PROVE  Within(pass, prog, Tail(tasks), u, e, k, q, n)
<1> DEFINE s == BodyAt(pass, prog, k, q)
<1>1. /\ p + 1 \in 1 .. Len(s)
      /\ Tail(tasks) = From(s, (p + 1) + 1) \o (<<Leave>> \o Rest(pass, prog, k, q))
  <2>1. HeadOfBody(pass, prog, tasks, k, q, p, s)
    BY WithinHead, Zenon
  <2> HIDE DEF s
  <2> QED  BY <2>1 DEF HeadOfBody, s
<1>2. /\ k \in 1 .. Len(prog) /\ q \in 0 .. Len(Members(pass, prog, k)) /\ Begun(pass, prog, k, q)
      /\ u.current = <<ClassStep(prog[k].id), MethodStep(NameAt(pass, prog, k, q))>>
      /\ p \in 0 .. Len(s)
  BY DEF Within
<1>3. n \in 0 .. Len(s)
  BY <1>1, <1>2
<1> QED  BY <1>1, <1>2, <1>3 DEF Within

LEMMA MethodEnds ==
  ASSUME NEW prog \in Programs, NEW pass \in Traversals, NEW tasks, NEW t, NEW errs,
         NEW k, NEW q, NEW p, Within(pass, prog, tasks, t, errs, k, q, p),
         p = Len(BodyAt(pass, prog, k, q)),
         NEW u, NEW e, u.current = <<ClassStep(prog[k].id)>>, Known(pass, prog, u, e, k, 0 .. q, 0, Nat)
  PROVE  Inside(pass, prog, Tail(tasks), u, e, k, q)
<1>1. Tail(tasks) = Rest(pass, prog, k, q)
  BY WithinHead DEF HeadOfBody
<1> QED  BY <1>1 DEF Within, Inside

\* A visit that enters a scope: what it pushes, a leave, and what there was.
LEMMA Pushed ==
  ASSUME NEW prog \in Programs, NEW s \in Seq(AllTasks(prog)), NEW r \in Seq(AllTasks(prog))
  PROVE  (s \o <<Leave>>) \o r = From(s, 1) \o (<<Leave>> \o r)
<1> DEFINE U == AllTasks(prog)
           one == <<Leave>>
<1>1. one \in Seq(U)
  BY InAllTasks DEF Leave, Kinds, Task
<1>2. From(s, 1) = s
  BY FromAll
<1>3. s \in Seq(U) /\ r \in Seq(U)
  OBVIOUS
<1> HIDE DEF U, one
<1>4. (s \o one) \o r = s \o (one \o r)
  BY <1>1, <1>3, ConcatAssociative
<1> QED  BY <1>2, <1>4 DEF one

LEMMA ClassBegins ==
  ASSUME NEW prog \in Programs, NEW pass \in Traversals, NEW tasks, NEW t, NEW errs, NEW k,
         Outside(pass, prog, tasks, t, errs, k), k # Len(prog), NEW n, n = k + 1,
         NEW u, NEW e, u.current = <<ClassStep(prog[n].id)>>,
         Known(pass, prog, u, e, n, 0 .. 0, 0, Nat)
  PROVE  Inside(pass, prog, (Members(pass, prog, n) \o <<Leave>>) \o Tail(tasks), u, e, n, 0)
<1>1. n \in 1 .. Len(prog) /\ Tail(tasks) = From(Classes(prog), n + 1)
  BY OutsideHead
<1> DEFINE s == Members(pass, prog, n)
           r == From(Classes(prog), n + 1)
<1>2. s \in Seq(AllTasks(prog))
  BY <1>1, MembersAre
<1>3. 0 \in 0 .. Len(s)
  BY <1>2
<1>4. r \in Seq(AllTasks(prog))
  BY <1>1, <1>3, RestIs
<1> HIDE DEF s, r
<1>5. (s \o <<Leave>>) \o r = From(s, 0 + 1) \o (<<Leave>> \o r)
  BY <1>2, <1>4, Pushed, SMTT(30)
<1>6. (s \o <<Leave>>) \o r = Rest(pass, prog, n, 0)
  BY <1>5 DEF Rest, s, r
<1>7. 0 .. 0 = 0 .. 0
  OBVIOUS
<1> QED  BY <1>1, <1>3, <1>6 DEF Inside, s, r

LEMMA MethodBegins ==
  ASSUME NEW prog \in Programs, NEW pass \in Traversals, NEW tasks, NEW t, NEW errs, NEW k, NEW q,
         Inside(pass, prog, tasks, t, errs, k, q), q # Len(Members(pass, prog, k)),
         NEW n, n = q + 1, Head(tasks).kind = "method",
         NEW u, NEW e, u.current = <<ClassStep(prog[k].id), MethodStep(Head(tasks).node.id)>>,
         Known(pass, prog, u, e, k, 0 .. n, n, 0 .. 0)
  PROVE  Within(pass, prog, (Body(pass, Head(tasks).node) \o <<Leave>>) \o Tail(tasks), u, e, k, n, 0)
<1> DEFINE s == BodyAt(pass, prog, k, n)
           r == Rest(pass, prog, k, n)
<1>1. /\ q + 1 \in 1 .. Len(Members(pass, prog, k)) /\ k \in 2 .. Len(prog)
      /\ Head(tasks) = Members(pass, prog, k)[q + 1] /\ Tail(tasks) = r
  BY InsideHead
<1>2. /\ k \in 1 .. Len(prog) /\ q \in 0 .. Len(Members(pass, prog, k))
  BY DEF Inside
<1>3. n \in 0 .. Len(Members(pass, prog, k)) /\ n # 0 /\ k # 1
  BY <1>1, <1>2
<1>4. Begun(pass, prog, k, n) /\ s = Body(pass, Head(tasks).node) /\ NameAt(pass, prog, k, n) = Head(tasks).node.id
  BY <1>1, <1>3 DEF Begun, BodyAt, NameAt
<1>5. s \in Seq(AllTasks(prog))
  BY <1>2, <1>3, <1>4, BodyAtIs
<1>6. r \in Seq(AllTasks(prog))
  BY <1>2, <1>3, RestIs
<1>7. 0 \in 0 .. Len(s)
  BY <1>5
<1> HIDE DEF s, r
<1>8. (s \o <<Leave>>) \o r = From(s, 0 + 1) \o (<<Leave>> \o r)
  <2>1. (s \o <<Leave>>) \o r = From(s, 1) \o (<<Leave>> \o r)
    BY <1>5, <1>6, Pushed, Zenon
  <2>2. 0 + 1 = 1
    OBVIOUS
  <2> QED  BY <2>1, <2>2
<1>9. Within(pass, prog, (s \o <<Leave>>) \o r, u, e, k, n, 0)
  BY <1>2, <1>3, <1>4, <1>7, <1>8 DEF Within, s, r
<1> QED  BY <1>1, <1>4, <1>9

LEMMA MainBegins ==
  ASSUME NEW prog \in Programs, NEW pass \in Traversals, pass # "declare", NEW tasks, NEW t, NEW errs,
         Outside(pass, prog, tasks, t, errs, 0),
         NEW u, NEW e, u.current = <<ClassStep(prog[1].id), MethodStep(Main)>>,
         Known(pass, prog, u, e, 1, 0 .. 0, 0, 0 .. 0)
  PROVE  Within(pass, prog, (Items(prog[1].items) \o <<Leave, Leave>>) \o Tail(tasks), u, e, 1, 0, 0)
<1> DEFINE U == AllTasks(prog)
           s == BodyAt(pass, prog, 1, 0)
           r == From(Classes(prog), 2)
           one == <<Leave>>
<1>1. 1 \in 1 .. Len(prog) /\ Tail(tasks) = r
  <2>1. 0 # Len(prog) /\ Len(prog) \in Nat
    BY Program
  <2> QED  BY <2>1, OutsideHead
<1>2. Members(pass, prog, 1) = <<>> /\ 0 \in 0 .. Len(Members(pass, prog, 1))
  BY DEF Members
<1>3. Begun(pass, prog, 1, 0) /\ s = Items(prog[1].items) /\ NameAt(pass, prog, 1, 0) = Main
  BY DEF Begun, BodyAt, NameAt
<1>4. s \in Seq(U)
  BY <1>1, <1>2, <1>3, BodyAtIs
<1>5. r \in Seq(U)
  BY <1>1, <1>2, RestIs
<1>6. 0 \in 0 .. Len(s)
  BY <1>4
<1>7. one \in Seq(U) /\ one \o r \in Seq(U)
  <2>1. one \in Seq(U)
    BY InAllTasks DEF Leave, Kinds, Task
  <2> HIDE DEF one, U, r
  <2> QED  BY <1>5, <2>1, ConcatProperties
<1>8. <<Leave, Leave>> = one \o one
  OBVIOUS
<1>9. Rest(pass, prog, 1, 0) = one \o r
  <2>1. From(<<>>, 0 + 1) \o (one \o r) = one \o r
    <3> DEFINE x == one \o r
    <3>1. x \in Seq(U)
      BY <1>7
    <3> HIDE DEF x, U
    <3>2. From(<<>>, 0 + 1) = <<>>
      BY DEF From
    <3> QED  BY <3>1, <3>2
  <2> QED  BY <1>2, <2>1 DEF Rest
<1> HIDE DEF U, s, r, one
<1>10. (s \o <<Leave, Leave>>) \o r = From(s, 0 + 1) \o (one \o Rest(pass, prog, 1, 0))
  <2>1. (s \o (one \o one)) \o r = s \o ((one \o one) \o r)
    <3>1. one \o one \in Seq(U)
      BY <1>7, ConcatProperties
    <3> QED  BY <1>4, <1>5, <3>1, ConcatAssociative, SMTT(30)
  <2>2. (one \o one) \o r = one \o (one \o r)
    BY <1>5, <1>7, ConcatAssociative
  <2>3. From(s, 0 + 1) = s
    BY <1>4, FromAll
  <2> QED  BY <1>8, <1>9, <2>1, <2>2, <2>3
<1>11. Within(pass, prog, (s \o <<Leave, Leave>>) \o r, u, e, 1, 0, 0)
  BY <1>1, <1>2, <1>3, <1>6, <1>10 DEF Within, s, one
<1> QED  BY <1>1, <1>3, <1>11

-----------------------------------------------------------------------------
(***************************************************************************)
(* A traversal on its way: the kind of the next task tells where it is.    *)
(***************************************************************************)
Walking ==
  /\ program \in Programs /\ Tree(table)
  /\ phase \in Traversals
  /\ Situated(phase, program, agenda, table, errors)

BeforeClass(k) == Outside(phase, program, agenda, table, errors, k) /\ k # Len(program)

BeforeField(k, q) ==
  /\ Inside(phase, program, agenda, table, errors, k, q) /\ q # Len(Members(phase, program, k))
  /\ IsField(phase, program[k], q + 1, Head(agenda))

BeforeMethod(k, q, l) ==
  /\ Inside(phase, program, agenda, table, errors, k, q) /\ q # Len(Members(phase, program, k))
  /\ IsMethodOf(phase, program[k], q + 1, Head(agenda), l)

AfterMembers(k, q) ==
  Inside(phase, program, agenda, table, errors, k, q) /\ q = Len(Members(phase, program, k))

BeforeLocal(k, q, p) ==
  /\ Within(phase, program, agenda, table, errors, k, q, p)
  /\ p # Len(BodyAt(phase, program, k, q))

AfterBody(k, q, p) ==
  /\ Within(phase, program, agenda, table, errors, k, q, p)
  /\ p = Len(BodyAt(phase, program, k, q))

Places(kind) ==
  /\ kind = "main" => BeforeClass(0)
  /\ kind = "class" => \E k : BeforeClass(k) /\ k # 0
  /\ kind = "method" => \E k, q, l : BeforeMethod(k, q, l)
  /\ kind = "variable" => (\E k, q : BeforeField(k, q)) \/ (\E k, q, p : BeforeLocal(k, q, p))
  /\ kind \in {"parameter", "use"} => \E k, q, p : BeforeLocal(k, q, p)
  /\ kind = "leave" => (\E k, q : AfterMembers(k, q)) \/ (\E k, q, p : AfterBody(k, q, p))

LEMMA PlaceIs ==
  ASSUME Walking, agenda # <<>>
  PROVE  Places(Head(agenda).kind)
<1> DEFINE kind == Head(agenda).kind
<1>1. program \in Programs /\ phase \in Traversals
  BY DEF Walking
<1>2. ASSUME NEW k, Outside(phase, program, agenda, table, errors, k)
      PROVE  Places(kind)
  <2>1. k # Len(program) /\ kind = (IF k = 0 THEN "main" ELSE "class")
    BY <1>1, <1>2, OutsideHead
  <2>2. BeforeClass(k)
    BY <1>2, <2>1 DEF BeforeClass
  <2> HIDE DEF kind
  <2>3. CASE k = 0
    BY <2>1, <2>2, <2>3 DEF Places
  <2>4. CASE k # 0
    BY <2>1, <2>2, <2>4 DEF Places
  <2> QED  BY <2>3, <2>4
<1>3. ASSUME NEW k, NEW q, Inside(phase, program, agenda, table, errors, k, q)
      PROVE  Places(kind)
  <2>1. CASE q = Len(Members(phase, program, k))
    <3>1. kind = "leave"
      BY <1>1, <1>3, <2>1, InsideHead
    <3>2. AfterMembers(k, q)
      BY <1>3, <2>1 DEF AfterMembers
    <3> QED  BY <3>1, <3>2 DEF Places
  <2>2. CASE q # Len(Members(phase, program, k))
    <3>1. \/ IsField(phase, program[k], q + 1, Head(agenda))
          \/ \E l : IsMethodOf(phase, program[k], q + 1, Head(agenda), l)
      BY <1>1, <1>3, <2>2, InsideHead
    <3>2. CASE IsField(phase, program[k], q + 1, Head(agenda))
      <4>1. BeforeField(k, q) /\ kind = "variable"
        BY <1>3, <2>2, <3>2 DEF BeforeField, IsField
      <4> QED  BY <4>1 DEF Places
    <3>3. CASE \E l : IsMethodOf(phase, program[k], q + 1, Head(agenda), l)
      <4>1. PICK l : IsMethodOf(phase, program[k], q + 1, Head(agenda), l)
        BY <3>3
      <4>2. BeforeMethod(k, q, l) /\ kind = "method"
        BY <1>3, <2>2, <4>1 DEF BeforeMethod, IsMethodOf
      <4> QED  BY <4>2 DEF Places
    <3> QED  BY <3>1, <3>2, <3>3
  <2> QED  BY <2>1, <2>2
<1>4. ASSUME NEW k, NEW q, NEW p, Within(phase, program, agenda, table, errors, k, q, p)
      PROVE  Places(kind)
  <2>1. HeadOfBody(phase, program, agenda, k, q, p, BodyAt(phase, program, k, q))
    BY <1>1, <1>4, WithinHead, Zenon
  <2>2. CASE p = Len(BodyAt(phase, program, k, q))
    <3>1. kind = "leave"
      BY <2>1, <2>2 DEF HeadOfBody
    <3>2. AfterBody(k, q, p)
      BY <1>4, <2>2 DEF AfterBody
    <3> QED  BY <3>1, <3>2 DEF Places
  <2>3. CASE p # Len(BodyAt(phase, program, k, q))
    <3>1. kind \in {"parameter", "variable", "use"}
      BY <2>1, <2>3 DEF HeadOfBody, InBody
    <3>2. BeforeLocal(k, q, p)
      BY <1>4, <2>3 DEF BeforeLocal
    <3> QED  BY <3>1, <3>2 DEF Places
  <2> QED  BY <2>2, <2>3
<1> QED  BY <1>2, <1>3, <1>4 DEF Walking, Situated

\* A refusal is all that is known of the declarations that follow it.
LEMMA KnownRefused ==
  ASSUME NEW prog, NEW t, NEW errs, errs # {}, NEW k, k # 0, NEW Q, NEW last, NEW N
  PROVE  Known("declare", prog, t, errs, k, Q, last, N)
  BY DEF Known

LEMMA KnownDeclared ==
  ASSUME NEW prog, NEW t, NEW errs, NEW k, k # 0, NEW Q, NEW last, NEW N,
         errs = {} => Content(t.scopes, prog, k, Q, last, N)
  PROVE  Known("declare", prog, t, errs, k, Q, last, N)
  BY DEF Known

LEMMA KnownLater ==
  ASSUME NEW pass, pass \in {"check", "generate"}, NEW prog, NEW t, Complete(t.scopes, prog),
         NEW errs, NEW k, NEW Q, NEW last, NEW N
  PROVE  Known(pass, prog, t, errs, k, Q, last, N)
  BY DEF Known

LEMMA WalkingComplete ==
  ASSUME Walking, phase \in {"check", "generate"}
  PROVE  Complete(table.scopes, program)
  BY DEF Walking, Situated, Outside, Inside, Within, Known

LEMMA AgendaIs ==
  ASSUME Walking
  PROVE  /\ agenda \in Seq(AllTasks(program))
         /\ agenda # <<>> => <<>> \o Tail(agenda) = Tail(agenda)
<1> DEFINE U == AllTasks(program)
<1>1. program \in Programs /\ phase \in Traversals /\ Len(program) \in Nat
  BY Program DEF Walking
<1>2. ASSUME NEW k, Outside(phase, program, agenda, table, errors, k)
      PROVE  agenda \in Seq(U)
  <2>1. /\ Classes(program) \in Seq(U) /\ agenda = From(Classes(program), k + 1)
        /\ k \in Nat /\ Len(Classes(program)) = Len(program) /\ k <= Len(program)
    BY <1>1, <1>2, ClassesAre DEF Outside
  <2> HIDE DEF U
  <2> QED  BY <2>1 DEF From
<1>3. ASSUME NEW k, NEW q, Inside(phase, program, agenda, table, errors, k, q)
      PROVE  agenda \in Seq(U)
  BY <1>1, <1>3, RestIs DEF Inside
<1>4. ASSUME NEW k, NEW q, NEW p, Within(phase, program, agenda, table, errors, k, q, p)
      PROVE  agenda \in Seq(U)
  <2> DEFINE s == BodyAt(phase, program, k, q)
             r == Rest(phase, program, k, q)
             a == From(s, p + 1)
             b == <<Leave>> \o r
  <2>1. /\ k \in 1 .. Len(program) /\ q \in 0 .. Len(Members(phase, program, k))
        /\ Begun(phase, program, k, q) /\ p \in 0 .. Len(s) /\ agenda = a \o b
    BY <1>4 DEF Within
  <2>2. s \in Seq(U)
    BY <1>1, <2>1, BodyAtIs
  <2>3. r \in Seq(U)
    BY <1>1, <2>1, RestIs
  <2> HIDE DEF r
  <2>4. b \in Seq(U)
    BY <1>1, <2>3, LeaveFirst
  <2> HIDE DEF s, U, b
  <2>5. a \in Seq(U)
    BY <2>1, <2>2 DEF From
  <2> HIDE DEF a
  <2> QED  BY <2>1, <2>4, <2>5, ConcatProperties
<1>5. agenda \in Seq(U)
  BY <1>2, <1>3, <1>4 DEF Walking, Situated
<1> HIDE DEF U
<1>6. agenda # <<>> => <<>> \o Tail(agenda) = Tail(agenda)
  BY <1>5
<1> QED  BY <1>5, <1>6 DEF U

\* The primed state is again on its way, if the place is.
LEMMA Arrived ==
  ASSUME program' = program, program \in Programs, phase' = phase, phase \in Traversals, Tree(table'),
         \/ \E k : Outside(phase, program, agenda', table', errors', k)
         \/ \E k, q : Inside(phase, program, agenda', table', errors', k, q)
         \/ \E k, q, p : Within(phase, program, agenda', table', errors', k, q, p)
  PROVE  Walking'
  BY DEF Walking, Situated

-----------------------------------------------------------------------------
(***************************************************************************)
(* The declarations.                                                       *)
(***************************************************************************)
LEMMA DeclareClassWalks ==
  ASSUME Walking, DeclareClass
  PROVE  Walking'
<1>1. /\ program' = program /\ phase' = phase /\ phase = "declare" /\ agenda # <<>>
      /\ Head(agenda).kind = "class" /\ program \in Programs /\ Tree(table) /\ phase \in Traversals
  BY DEF DeclareClass, Doing, Semantic, Walking
<1>2. PICK k : BeforeClass(k) /\ k # 0
  BY <1>1, PlaceIs DEF Places
<1>3. PICK n : n = k + 1
  OBVIOUS
<1>4. /\ n \in 1 .. Len(program) /\ node = program[n]
      /\ k # Len(program) /\ Outside(phase, program, agenda, table, errors, k)
  BY <1>1, <1>2, <1>3, OutsideHead DEF BeforeClass, node
<1>5. /\ table.current = Root /\ k \in 0 .. Len(program) /\ Len(program) \in Nat
      /\ errors = {} => Content(table.scopes, program, k, Nat, 0, Nat)
  BY <1>1, <1>4, Program DEF Outside, Known
<1>6. k \in 1 .. Len(program) /\ n \in 2 .. Len(program) /\ n # 0
  BY <1>2, <1>3, <1>4, <1>5
<1>7. CASE Found(table, "classes", node.id) /\ Refuse("duplicate")
  <2>1. errors' # {} /\ table' = table /\ agenda' = Tail(agenda)
    BY <1>1, <1>7, AgendaIs DEF Refuse, Proceed
  <2>2. Known(phase, program, table', errors', n, Nat, 0, Nat)
    BY <1>1, <1>6, <2>1, KnownRefused
  <2>3. Outside(phase, program, agenda', table', errors', n)
    BY <1>1, <1>3, <1>4, <1>5, <2>1, <2>2, ClassSkipped
  <2> QED  BY <1>1, <2>1, <2>3, Arrived
<1>8. CASE /\ ~Found(table, "classes", node.id)
           /\ Enters(OpenClass(node.id),
                     Tasks("variable", node.fields) \o Tasks("method", node.methods) \o <<Leave>>)
  <2>1. /\ errors' = errors /\ table' = OpenClass(program[n].id)
        /\ agenda' = (Members(phase, program, n) \o <<Leave>>) \o Tail(agenda)
    <3>1. /\ errors' = errors /\ table' = OpenClass(node.id)
          /\ agenda' = (Tasks("variable", node.fields) \o Tasks("method", node.methods) \o <<Leave>>)
                         \o Tail(agenda)
      BY <1>8 DEF Enters, Proceed
    <3>2. n # 1
      BY <1>6
    <3>3. Members(phase, program, n) = Tasks("variable", node.fields) \o Tasks("method", node.methods)
      BY <1>1, <1>4, <3>2 DEF Members
    <3> QED  BY <1>4, <3>1, <3>3
  <2>2. program[n].id \notin DOMAIN table.scopes[Root].classes
    <3>1. ~Found(table, "classes", program[n].id)
      BY <1>4, <1>8
    <3> QED  BY <1>5, <3>1, FoundAtRoot, FieldByName
  <2>3. ClassAdded(table, table', program[n].id)
    BY <1>1, <1>5, <2>1, <2>2, ClassOpened
  <2>4. Tree(table') /\ table'.current = <<ClassStep(program[n].id)>>
    BY <2>3 DEF ClassAdded, OneMore
  <2>5. errors' = {} => Content(table'.scopes, program, n, 0 .. 0, 0, Nat)
    BY <1>1, <1>3, <1>5, <1>6, <2>1, <2>2, <2>3, ContentClass
  <2>6. Known(phase, program, table', errors', n, 0 .. 0, 0, Nat)
    BY <1>1, <1>6, <2>5, KnownDeclared
  <2>7. Inside(phase, program, agenda', table', errors', n, 0)
    BY <1>1, <1>3, <1>4, <2>1, <2>4, <2>6, ClassBegins
  <2> QED  BY <1>1, <2>4, <2>7, Arrived
<1> QED  BY <1>7, <1>8 DEF DeclareClass

LEMMA DeclareMainWalks ==
  ASSUME Walking, DeclareMain
  PROVE  Walking'
<1>1. /\ program' = program /\ phase' = phase /\ phase = "declare" /\ agenda # <<>>
      /\ Head(agenda).kind = "main" /\ program \in Programs /\ phase \in Traversals
  BY DEF DeclareMain, Doing, Semantic, Walking
<1>2. BeforeClass(0)
  BY <1>1, PlaceIs DEF Places
<1>3. /\ 1 \in 1 .. Len(program) /\ node = program[1]
      /\ 0 # Len(program) /\ Outside(phase, program, agenda, table, errors, 0)
  <2>1. 0 # Len(program) /\ Outside(phase, program, agenda, table, errors, 0)
    BY <1>2 DEF BeforeClass
  <2>2. 0 + 1 \in 1 .. Len(program) /\ Head(agenda).node = program[0 + 1]
    BY <1>1, <2>1, OutsideHead
  <2> QED  BY <2>1, <2>2 DEF node
<1>4. table = EmptyTable
  BY <1>1, <1>3 DEF Outside, Known
<1>5. /\ errors' = errors
      /\ table' = Exit(AddVariable(OpenMethod(OpenClass(program[1].id), <<"void">>, Main),
                                   Strings, program[1].arg))
      /\ agenda' = <<Leave>> \o Tail(agenda)
  BY <1>3 DEF DeclareMain, Enters, Proceed
<1>6. MainAdded(table', program[1].id, program[1].arg)
  BY <1>4, <1>5, MainOpened
<1>7. Tree(table') /\ table'.current = <<ClassStep(program[1].id)>>
  BY <1>6 DEF MainAdded
<1>8. Content(table'.scopes, program, 1, 0 .. 0, 0, Nat)
  BY <1>1, <1>6, ContentMain
<1>9. Known(phase, program, table', errors', 1, 0 .. 0, 0, Nat)
  <2>1. Known("declare", program, table', errors', 1, 0 .. 0, 0, Nat)
    BY <1>8, KnownDeclared
  <2> QED  BY <1>1, <2>1
<1>10. agenda' = (Members(phase, program, 1) \o <<Leave>>) \o Tail(agenda)
  <2>1. <<>> \o <<Leave>> = <<Leave>>
    OBVIOUS
  <2> QED  BY <1>5, <2>1 DEF Members
<1>11. Inside(phase, program, agenda', table', errors', 1, 0)
  <2>1. 1 = 0 + 1
    OBVIOUS
  <2> QED  BY <1>1, <1>3, <1>7, <1>9, <1>10, <2>1, ClassBegins
<1> QED  BY <1>1, <1>7, <1>11, Arrived

\* What a class knows of its methods, in its scope and in its record.
LEMMA ClassRecordIs ==
  ASSUME NEW t, Tree(t), NEW id, t.current = <<ClassStep(id)>>
  PROVE  /\ Current(t).record = [path |-> Root, kind |-> "classes", id |-> id]
         /\ DOMAIN Record(t, Current(t).record).methods = DOMAIN t.scopes[t.current].methods
<1>1. ClassAt(t, t.current, id)
  BY TreeKinds DEF Tree
<1>2. Current(t).record = [path |-> Root, kind |-> "classes", id |-> id]
  BY <1>1 DEF Current, ClassAt
<1> DEFINE s == t.scopes[Root]
<1>3. Record(t, Current(t).record) = s["classes"][id]
  BY <1>2 DEF Record
<1>4. s["classes"] = s.classes
  OBVIOUS
<1> QED  BY <1>1, <1>2, <1>3, <1>4 DEF ClassAt

LEMMA DeclareMethodWalks ==
  ASSUME Walking, DeclareMethod
  PROVE  Walking'
<1>1. /\ program' = program /\ phase' = phase /\ phase = "declare" /\ agenda # <<>>
      /\ Head(agenda).kind = "method" /\ program \in Programs /\ Tree(table) /\ phase \in Traversals
  BY DEF DeclareMethod, Doing, Semantic, Walking
<1>2. PICK k, q, l : BeforeMethod(k, q, l)
  BY <1>1, PlaceIs DEF Places
<1>3. PICK n : n = q + 1
  OBVIOUS
<1> DEFINE c == program[k]
           m == c.methods[l]
<1>4. /\ Inside(phase, program, agenda, table, errors, k, q) /\ q # Len(Members(phase, program, k))
      /\ l \in DOMAIN c.methods /\ Head(agenda).node = m /\ n = Len(c.fields) + l
  BY <1>1, <1>2, <1>3 DEF BeforeMethod, IsMethodOf
<1>5. /\ k \in 1 .. Len(program) /\ table.current = <<ClassStep(c.id)>> /\ q \in Nat
      /\ errors = {} => Content(table.scopes, program, k, 0 .. q, 0, Nat)
  BY <1>1, <1>4 DEF Inside, Known
<1>6. k \in 2 .. Len(program) /\ k # 0
  <2>1. k \in 2 .. Len(program)
    BY <1>1, <1>4, InsideHead
  <2> QED  BY <1>5, <2>1
<1>7. DOMAIN Record(table, Current(table).record).methods = DOMAIN table.scopes[table.current].methods
  BY <1>1, <1>5, ClassRecordIs
<1>8. CASE node.id \in DOMAIN Record(table, Current(table).record).methods /\ Refuse("duplicate")
  <2>1. errors' # {} /\ table' = table /\ agenda' = Tail(agenda)
    BY <1>1, <1>8, AgendaIs DEF Refuse, Proceed
  <2>2. Known(phase, program, table', errors', k, 0 .. n, 0, Nat)
    BY <1>1, <1>6, <2>1, KnownRefused
  <2>3. Inside(phase, program, agenda', table', errors', k, n)
    BY <1>1, <1>3, <1>4, <2>1, <2>2, MemberDone
  <2> QED  BY <1>1, <2>1, <2>3, Arrived
<1>9. CASE /\ node.id \notin DOMAIN Record(table, Current(table).record).methods
           /\ Enters(OpenMethod(table, node.type, node.id),
                     Tasks("parameter", node.params)
                       \o Items(OfKind("variable", node.items)) \o <<Leave>>)
  <2>1. /\ errors' = errors /\ table' = OpenMethod(table, m.type, m.id)
        /\ agenda' = (Body(phase, Head(agenda).node) \o <<Leave>>) \o Tail(agenda)
    <3>1. Body("declare", node) = Tasks("parameter", node.params) \o Items(OfKind("variable", node.items))
      BY DEF Body
    <3>2. node = m /\ node = Head(agenda).node
      BY <1>4 DEF node
    <3> HIDE DEF m
    <3> QED  BY <1>1, <1>9, <3>1, <3>2 DEF Enters, Proceed
  <2>2. m.id \notin DOMAIN table.scopes[table.current].methods
    BY <1>4, <1>7, <1>9 DEF node
  <2>3. MethodAdded(table, table', c.id, m.type, m.id)
    BY <1>1, <1>5, <2>1, <2>2, MethodOpened
  <2>4. Tree(table') /\ table'.current = <<ClassStep(c.id), MethodStep(m.id)>>
    BY <2>3 DEF MethodAdded, OneMore
  <2>5. errors' = {} => Content(table'.scopes, program, k, 0 .. n, n, 0 .. 0)
    BY <1>1, <1>3, <1>4, <1>5, <1>6, <2>1, <2>3, ContentMethod
  <2>6. Known(phase, program, table', errors', k, 0 .. n, n, 0 .. 0)
    BY <1>1, <1>6, <2>5, KnownDeclared
  <2>7. Within(phase, program, agenda', table', errors', k, n, 0)
    BY <1>1, <1>3, <1>4, <2>1, <2>4, <2>6, MethodBegins
  <2> QED  BY <1>1, <2>4, <2>7, Arrived
<1> QED  BY <1>8, <1>9 DEF DeclareMethod

\* The body of a method other than main is that of a member of its class.
MethodAfter(pass, c, q, task, l) ==
  /\ l \in DOMAIN c.methods /\ task.node = c.methods[l]
  /\ pass # "generate" => q = Len(c.fields) + l

LEMMA BegunMethod ==
  ASSUME NEW prog \in Programs, NEW pass \in Traversals, NEW k \in 1 .. Len(prog), k # 1,
         NEW q \in 0 .. Len(Members(pass, prog, k)), Begun(pass, prog, k, q)
  PROVE  \E l : MethodAfter(pass, prog[k], q, Members(pass, prog, k)[q], l)
<1> DEFINE s == Members(pass, prog, k)
<1>1. q # 0 /\ s[q].kind = "method"
  BY DEF Begun
<1>2. q \in 1 .. Len(s)
  <2>1. s \in Seq(AllTasks(prog))
    BY MembersAre
  <2> HIDE DEF s
  <2> QED  BY <1>1, <2>1 DEF s
<1>3. IsField(pass, prog[k], q, s[q]) \/ \E l : IsMethodOf(pass, prog[k], q, s[q], l)
  BY <1>2, MembersAre
<1> HIDE DEF s
<1>4. PICK l : IsMethodOf(pass, prog[k], q, s[q], l)
  BY <1>1, <1>3 DEF IsField
<1>5. MethodAfter(pass, prog[k], q, s[q], l)
  BY <1>4 DEF MethodAfter, IsMethodOf
<1> QED  BY <1>5 DEF s

\* In the body of a method, before its n-th variable.
Declaring(k, q, p, n, l) ==
  /\ k \in 2 .. Len(program) /\ k # 0 /\ q \in Nat /\ p \in Nat /\ n = p + 1
  /\ l \in DOMAIN program[k].methods /\ q = Len(program[k].fields) + l
  /\ n \in DOMAIN Locals(program[k].methods[l])
  /\ IsLocal(program[k].methods[l], Head(agenda), n)
  /\ table.current = MethodScope(program[k], program[k].methods[l])
  /\ errors = {} => Content(table.scopes, program, k, 0 .. q, q, 0 .. p)

LEMMA DeclaringIs ==
  ASSUME Walking, phase = "declare", NEW k, NEW q, NEW p, BeforeLocal(k, q, p)
  PROVE  \E n, l : Declaring(k, q, p, n, l)
<1> DEFINE s == BodyAt("declare", program, k, q)
           c == program[k]
           members == Members("declare", program, k)
<1>1. program \in Programs /\ "declare" \in Traversals /\ Len(program) \in Nat
  BY Program DEF Walking, Traversals
<1>2. /\ Within("declare", program, agenda, table, errors, k, q, p) /\ p # Len(s)
  BY DEF BeforeLocal
<1>3. /\ k \in 1 .. Len(program) /\ q \in 0 .. Len(members) /\ Begun("declare", program, k, q)
      /\ p \in 0 .. Len(s)
      /\ table.current = <<ClassStep(c.id), MethodStep(NameAt("declare", program, k, q))>>
      /\ errors = {} => Content(table.scopes, program, k, 0 .. q, q, 0 .. p)
  BY <1>2 DEF Within, Known
<1>4. k # 1 /\ k # 0 /\ k \in 2 .. Len(program)
  BY <1>1, <1>3 DEF Begun
<1>5. PICK l : MethodAfter("declare", c, q, members[q], l)
  BY <1>1, <1>3, <1>4, BegunMethod
<1> DEFINE m == c.methods[l]
<1>6. l \in DOMAIN c.methods /\ members[q].node = m /\ q = Len(c.fields) + l
  BY <1>5 DEF MethodAfter
<1>7. s = Body("declare", m) /\ NameAt("declare", program, k, q) = m.id
  BY <1>4, <1>6 DEF BodyAt, NameAt
<1>8. HeadOfBody("declare", program, agenda, k, q, p, s)
  BY <1>1, <1>2, WithinHead
<1>9. p + 1 \in 1 .. Len(s) /\ Head(agenda) = s[p + 1]
  BY <1>2, <1>8 DEF HeadOfBody
<1>10. /\ Len(s) = Len(Locals(m)) /\ DOMAIN Locals(m) = 1 .. Len(Locals(m))
       /\ \A i \in 1 .. Len(s) : IsLocal(m, s[i], i)
  BY <1>1, <1>4, <1>6, <1>7, LocalsAre DEF LocalTasks
<1>11. PICK n : n = p + 1
  OBVIOUS
<1>12. p \in Nat /\ q \in Nat
  BY <1>3
<1> HIDE DEF s, members
<1>13. n \in DOMAIN Locals(m) /\ IsLocal(m, Head(agenda), n)
  BY <1>9, <1>10, <1>11
<1>14. table.current = MethodScope(c, m)
  BY <1>3, <1>7 DEF MethodScope
<1> QED  BY <1>3, <1>4, <1>6, <1>11, <1>12, <1>13, <1>14 DEF Declaring

\* The n-th variable of a method is declared.
LEMMA LocalDeclared ==
  ASSUME Walking, phase = "declare", program' = program, phase' = phase, errors' = errors,
         NEW k, NEW q, NEW p, BeforeLocal(k, q, p), NEW n, NEW l, Declaring(k, q, p, n, l),
         NEW m, m = program[k].methods[l], NEW x, x = Locals(m)[n],
         x.id \notin DOMAIN table.scopes[table.current].variables,
         Tree(table'), SameTree(table, table'), table'.current = table.current,
         \A path \in DOMAIN table.scopes :
           path # table.current => table'.scopes[path].variables = table.scopes[path].variables,
         table'.scopes[table.current].variables
           = Emplace(table.scopes[table.current].variables, x.id, x.type),
         Listed(table, table', program[k], m, n),
         agenda' = Tail(agenda)
  PROVE  Walking'
<1>1. /\ program \in Programs /\ phase \in Traversals /\ Tree(table) /\ Root \in DOMAIN table.scopes
  BY DEF Walking, Tree
<1>2. /\ k \in 2 .. Len(program) /\ k # 0 /\ q \in Nat /\ p \in Nat /\ n = p + 1
      /\ l \in DOMAIN program[k].methods /\ q = Len(program[k].fields) + l
      /\ n \in DOMAIN Locals(m) /\ table.current = MethodScope(program[k], m)
      /\ errors = {} => Content(table.scopes, program, k, 0 .. q, q, 0 .. p)
  BY DEF Declaring
<1>3. errors' = {} => Content(table'.scopes, program, k, 0 .. q, q, 0 .. n)
  <2> SUFFICES ASSUME errors' = {}
               PROVE  Content(table'.scopes, program, k, 0 .. q, q, 0 .. n)
    OBVIOUS
  <2>1. Content(table.scopes, program, k, 0 .. q, q, 0 .. p)
    BY <1>2
  <2>2. LocalAdded(table, table', program[k], m, n)
    BY <1>2 DEF LocalAdded
  <2> QED  BY <1>1, <1>2, <2>1, <2>2, ContentLocal DEF Placed
<1>4. Known(phase, program, table', errors', k, 0 .. q, q, 0 .. n)
  BY <1>2, <1>3, KnownDeclared
<1>5. Within(phase, program, agenda', table', errors', k, q, n)
  BY <1>1, <1>2, <1>4, LocalDone DEF BeforeLocal
<1> QED  BY <1>1, <1>5, Arrived

\* Or it is refused, and the visit goes on after it.
LEMMA LocalRefused ==
  ASSUME Walking, phase = "declare", agenda # <<>>, program' = program, phase' = phase,
         NEW k, NEW q, NEW p, BeforeLocal(k, q, p), NEW n, NEW l, Declaring(k, q, p, n, l),
         NEW why, Refuse(why)
  PROVE  Walking'
<1>1. errors' # {} /\ table' = table /\ agenda' = Tail(agenda)
  BY AgendaIs DEF Refuse, Proceed
<1>2. /\ program \in Programs /\ phase \in Traversals /\ Tree(table) /\ k # 0 /\ n = p + 1
  BY DEF Walking, Declaring
<1>3. Known(phase, program, table', errors', k, 0 .. q, q, 0 .. n)
  BY <1>1, <1>2, KnownRefused
<1>4. Within(phase, program, agenda', table', errors', k, q, n)
  BY <1>1, <1>2, <1>3, LocalDone DEF BeforeLocal
<1> QED  BY <1>1, <1>2, <1>4, Arrived

LEMMA DeclareParameterWalks ==
  ASSUME Walking, DeclareParameter
  PROVE  Walking'
<1>1. /\ program' = program /\ phase' = phase /\ phase = "declare" /\ agenda # <<>>
      /\ Head(agenda).kind = "parameter" /\ Tree(table)
  BY DEF DeclareParameter, Doing, Semantic, Walking
<1>2. PICK k, q, p : BeforeLocal(k, q, p)
  BY <1>1, PlaceIs DEF Places
<1>3. PICK n, l : Declaring(k, q, p, n, l)
  BY <1>1, <1>2, DeclaringIs
<1>4. PICK m : m = program[k].methods[l]
  OBVIOUS
<1>5. PICK x : x = Locals(m)[n]
  OBVIOUS
<1>6. /\ node = x /\ n <= Len(m.params)
      /\ table.current = <<ClassStep(program[k].id), MethodStep(m.id)>>
      /\ table.current = MethodScope(program[k], m)
  BY <1>1, <1>3, <1>4, <1>5 DEF Declaring, IsLocal, node, MethodScope
<1>7. CASE InScope(table, "variables", node.id) /\ Refuse("duplicate")
  BY <1>1, <1>2, <1>3, <1>7, LocalRefused
<1>8. CASE /\ ~InScope(table, "variables", node.id)
           /\ Enters(AddParameter(AddVariable(table, node.type, node.id),
                                  Current(table).record, node.id), <<>>)
  <2>1. x.id \notin DOMAIN table.scopes[table.current].variables
    BY <1>6, <1>8, FieldByName DEF InScope, Current
  <2>2. /\ errors' = errors /\ agenda' = Tail(agenda)
        /\ table' = AddParameter(AddVariable(table, x.type, x.id), Current(table).record, x.id)
    BY <1>1, <1>6, <1>8, AgendaIs DEF Enters, Proceed
  <2>3. /\ Tree(table') /\ SameTree(table, table') /\ table'.current = table.current
        /\ \A path \in DOMAIN table.scopes :
             path # table.current => table'.scopes[path].variables = table.scopes[path].variables
        /\ table'.scopes[table.current].variables
             = Emplace(table.scopes[table.current].variables, x.id, x.type)
        /\ Parameterized(table, table', program[k].id, m.id,
                         [path |-> table.current, kind |-> "variables", id |-> x.id])
    BY <1>1, <1>6, <2>2, ParameterDeclared
  <2>4. Listed(table, table', program[k], m, n)
    <3>1. ParameterRef(program[k], m, Locals(m)[n])
            = [path |-> table.current, kind |-> "variables", id |-> x.id]
      BY <1>5, <1>6 DEF ParameterRef
    <3> QED  BY <1>6, <2>3, <3>1 DEF Listed
  <2> QED  BY <1>1, <1>2, <1>3, <1>4, <1>5, <2>1, <2>2, <2>3, <2>4, LocalDeclared
<1> QED  BY <1>7, <1>8 DEF DeclareParameter

LEMMA DeclareLocalWalks ==
  ASSUME Walking, DeclareVariable, NEW k, NEW q, NEW p, BeforeLocal(k, q, p)
  PROVE  Walking'
<1>1. /\ program' = program /\ phase' = phase /\ phase = "declare" /\ agenda # <<>>
      /\ Head(agenda).kind = "variable" /\ Tree(table)
  BY DEF DeclareVariable, Doing, Semantic, Walking
<1>2. PICK n, l : Declaring(k, q, p, n, l)
  BY <1>1, DeclaringIs
<1>3. PICK m : m = program[k].methods[l]
  OBVIOUS
<1>4. PICK x : x = Locals(m)[n]
  OBVIOUS
<1>5. /\ node = x /\ ~ (n <= Len(m.params))
      /\ table.current = MethodScope(program[k], m)
  BY <1>1, <1>2, <1>3, <1>4 DEF Declaring, IsLocal, node
<1>6. CASE Taken(node.id) /\ Refuse("duplicate")
  BY <1>1, <1>2, <1>6, LocalRefused
<1>7. CASE /\ ~Taken(node.id)
           /\ Enters(AddToRecord(AddVariable(table, node.type, node.id),
                                 Current(table).record, "variables", node.id), <<>>)
  <2>1. x.id \notin DOMAIN table.scopes[table.current].variables
    BY <1>5, <1>7, FieldByName DEF Taken, InScope, Current
  <2>2. /\ errors' = errors /\ agenda' = Tail(agenda)
        /\ table' = AddToRecord(AddVariable(table, x.type, x.id), Current(table).record, "variables", x.id)
    BY <1>1, <1>5, <1>7, AgendaIs DEF Enters, Proceed
  <2>3. table.current # Root
    BY <1>5, PathLengths DEF MethodScope
  <2>4. /\ Tree(table') /\ SameTree(table, table') /\ table'.current = table.current
        /\ \A path \in DOMAIN table.scopes :
             /\ SameMethods(table, table', path)
             /\ path # table.current => table'.scopes[path].variables = table.scopes[path].variables
        /\ table'.scopes[table.current].variables
             = Emplace(table.scopes[table.current].variables, x.id, x.type)
    BY <1>1, <2>2, <2>3, VariableDeclared
  <2>5. Listed(table, table', program[k], m, n)
    BY <1>5, <2>4 DEF Listed
  <2> QED  BY <1>1, <1>2, <1>3, <1>4, <2>1, <2>2, <2>4, <2>5, LocalDeclared
<1> QED  BY <1>6, <1>7 DEF DeclareVariable

LEMMA DeclareFieldWalks ==
  ASSUME Walking, DeclareVariable, NEW k, NEW q, BeforeField(k, q)
  PROVE  Walking'
<1>1. /\ program' = program /\ phase' = phase /\ phase = "declare" /\ agenda # <<>>
      /\ Tree(table) /\ phase \in Traversals /\ program \in Programs
      /\ Root \in DOMAIN table.scopes
  BY DEF DeclareVariable, Doing, Semantic, Walking, Tree
<1>2. PICK n : n = q + 1
  OBVIOUS
<1> DEFINE c == program[k]
           x == c.fields[n]
<1>3. /\ Inside(phase, program, agenda, table, errors, k, q) /\ q # Len(Members(phase, program, k))
      /\ n \in DOMAIN c.fields /\ node = x
  BY <1>1, <1>2 DEF BeforeField, IsField, node
<1>4. /\ k \in 1 .. Len(program) /\ table.current = ClassScope(c) /\ q \in Nat
      /\ errors = {} => Content(table.scopes, program, k, 0 .. q, 0, Nat)
  BY <1>1, <1>3 DEF Inside, Known, ClassScope
<1>5. k \in 2 .. Len(program) /\ k # 0
  <2>1. k \in 2 .. Len(program)
    BY <1>1, <1>3, InsideHead
  <2> QED  BY <1>4, <2>1
<1>6. CASE Taken(node.id) /\ Refuse("duplicate")
  <2>1. errors' # {} /\ table' = table /\ agenda' = Tail(agenda)
    BY <1>1, <1>6, AgendaIs DEF Refuse, Proceed
  <2>2. Known(phase, program, table', errors', k, 0 .. n, 0, Nat)
    BY <1>1, <1>5, <2>1, KnownRefused
  <2>3. Inside(phase, program, agenda', table', errors', k, n)
    BY <1>1, <1>2, <1>3, <2>1, <2>2, MemberDone
  <2> QED  BY <1>1, <2>1, <2>3, Arrived
<1>7. CASE /\ ~Taken(node.id)
           /\ Enters(AddToRecord(AddVariable(table, node.type, node.id),
                                 Current(table).record, "variables", node.id), <<>>)
  <2>1. x.id \notin DOMAIN table.scopes[ClassScope(c)].variables
    BY <1>3, <1>4, <1>7, FieldByName DEF Taken, InScope, Current
  <2>2. /\ errors' = errors /\ agenda' = Tail(agenda)
        /\ table' = AddToRecord(AddVariable(table, x.type, x.id), Current(table).record, "variables", x.id)
    BY <1>1, <1>3, <1>7, AgendaIs DEF Enters, Proceed
  <2>3. table.current # Root
    BY <1>4, PathLengths DEF ClassScope
  <2>4. /\ Tree(table') /\ SameTree(table, table') /\ table'.current = table.current
        /\ \A path \in DOMAIN table.scopes :
             /\ SameMethods(table, table', path)
             /\ path # ClassScope(c) => table'.scopes[path].variables = table.scopes[path].variables
        /\ table'.scopes[ClassScope(c)].variables
             = Emplace(table.scopes[ClassScope(c)].variables, x.id, x.type)
    <3> DEFINE id == x.id
               type == x.type
               path == ClassScope(c)
    <3>1. table' = AddToRecord(AddVariable(table, type, id), Current(table).record, "variables", id)
      BY <2>2
    <3>2. table.current = path
      BY <1>4
    <3> HIDE DEF id, type, path
    <3>3. /\ Tree(table') /\ SameTree(table, table') /\ table'.current = table.current
          /\ \A p \in DOMAIN table.scopes :
               /\ SameMethods(table, table', p)
               /\ p # path => table'.scopes[p].variables = table.scopes[p].variables
          /\ table'.scopes[path].variables = Emplace(table.scopes[path].variables, id, type)
      BY <1>1, <2>3, <3>1, <3>2, VariableDeclared
    <3> QED  BY <3>3 DEF id, type, path
  <2>5. errors' = {} => Content(table'.scopes, program, k, 0 .. n, 0, Nat)
    <3> SUFFICES ASSUME errors' = {}
                 PROVE  Content(table'.scopes, program, k, 0 .. n, 0, Nat)
      OBVIOUS
    <3>1. Content(table.scopes, program, k, 0 .. q, 0, Nat)
      BY <1>4, <2>2
    <3>2. \A path \in DOMAIN table.scopes :
            /\ SameMethods(table, table', path)
            /\ path # ClassScope(program[k]) => table'.scopes[path].variables = table.scopes[path].variables
      BY <2>4
    <3>3. table'.scopes[ClassScope(program[k])].variables
             = Emplace(table.scopes[ClassScope(program[k])].variables,
                       program[k].fields[n].id, program[k].fields[n].type)
      BY <2>4
    <3>4. /\ program[k].fields[n].id \notin DOMAIN table.scopes[ClassScope(program[k])].variables
          /\ n \in DOMAIN program[k].fields /\ SameTree(table, table') /\ Root \in DOMAIN table.scopes
          /\ program \in Programs /\ k \in 2 .. Len(program) /\ q \in Nat
      BY <1>1, <1>3, <1>4, <1>5, <2>1, <2>4
    <3> QED  BY <1>2, <3>1, <3>2, <3>3, <3>4, ContentField
  <2>6. Known(phase, program, table', errors', k, 0 .. n, 0, Nat)
    BY <1>1, <1>5, <2>5, KnownDeclared
  <2>7. Inside(phase, program, agenda', table', errors', k, n)
    BY <1>1, <1>2, <1>3, <2>2, <2>4, <2>6, MemberDone
  <2> QED  BY <1>1, <2>4, <2>7, Arrived
<1> QED  BY <1>6, <1>7 DEF DeclareVariable

LEMMA DeclareWalks ==
  ASSUME Walking, Declare
  PROVE  Walking'
<1>1. CASE DeclareVariable
  <2>1. agenda # <<>> /\ Head(agenda).kind = "variable"
    BY <1>1 DEF DeclareVariable, Doing
  <2>2. (\E k, q : BeforeField(k, q)) \/ (\E k, q, p : BeforeLocal(k, q, p))
    BY <2>1, PlaceIs DEF Places
  <2> QED  BY <1>1, <2>2, DeclareFieldWalks, DeclareLocalWalks
<1> QED
  BY <1>1, DeclareClassWalks, DeclareMainWalks, DeclareMethodWalks, DeclareParameterWalks DEF Declare

-----------------------------------------------------------------------------
(***************************************************************************)
(* Leaving a scope.                                                        *)
(***************************************************************************)
LEMMA BodyDeclared ==
  ASSUME Walking, phase = "declare", errors = {}, NEW k, NEW q, NEW p, AfterBody(k, q, p)
  PROVE  Content(table.scopes, program, k, 0 .. q, 0, Nat)
<1> DEFINE s == BodyAt("declare", program, k, q)
           c == program[k]
           members == Members("declare", program, k)
<1>1. program \in Programs /\ "declare" \in Traversals /\ Len(program) \in Nat
  BY Program DEF Walking, Traversals
<1>2. /\ k \in 1 .. Len(program) /\ q \in 0 .. Len(members) /\ Begun("declare", program, k, q)
      /\ p = Len(s) /\ Content(table.scopes, program, k, 0 .. q, q, 0 .. p)
  BY DEF AfterBody, Within, Known
<1>3. k # 1 /\ k \in 2 .. Len(program)
  BY <1>1, <1>2 DEF Begun
<1>4. PICK l : MethodAfter("declare", c, q, members[q], l)
  BY <1>1, <1>2, <1>3, BegunMethod
<1> DEFINE m == c.methods[l]
<1>5. l \in DOMAIN c.methods /\ members[q].node = m /\ q = Len(c.fields) + l
  BY <1>4 DEF MethodAfter
<1>6. s = Body("declare", m)
  BY <1>3, <1>5 DEF BodyAt
<1>7. Len(s) = Len(Locals(m))
  BY <1>1, <1>3, <1>5, <1>6, LocalsAre DEF LocalTasks
<1>8. q \in Nat
  BY <1>2
<1>9. Content(table.scopes, program, k, 0 .. q, q, 0 .. Len(Locals(m)))
  BY <1>2, <1>7
<1> QED  BY <1>1, <1>3, <1>5, <1>8, <1>9, ContentMethodDone DEF Placed

LEMMA LeaveClassWalks ==
  ASSUME Walking, LeaveScope, NEW k, NEW q, AfterMembers(k, q)
  PROVE  /\ Walking' /\ table'.scopes = table.scopes
         /\ Outside(phase, program, agenda', table', errors', k)
<1>1. /\ program' = program /\ phase' = phase /\ phase \in Traversals /\ agenda # <<>>
      /\ program \in Programs /\ Tree(table) /\ IsTable(table) /\ Root \in DOMAIN table.scopes
  BY DEF LeaveScope, Semantic, Walking, Tree
<1>2. errors' = errors /\ table' = Exit(table) /\ agenda' = Tail(agenda)
  BY <1>1, AgendaIs DEF LeaveScope, Enters, Proceed
<1>3. /\ Inside(phase, program, agenda, table, errors, k, q) /\ q = Len(Members(phase, program, k))
  BY DEF AfterMembers
<1>4. /\ k \in 1 .. Len(program) /\ k # 0 /\ table.current = <<ClassStep(program[k].id)>>
      /\ Known(phase, program, table, errors, k, 0 .. q, 0, Nat)
  BY <1>3 DEF Inside
<1>5. Tree(table') /\ table'.scopes = table.scopes /\ table'.current = Root
  <2>1. Parent(table.current) = Root
    BY <1>4, PathSteps
  <2>2. table' = At(table, Root)
    BY <1>1, <1>2, <2>1, ExitIs
  <2> QED  BY <1>1, <2>2, AtIs
<1>6. Known(phase, program, table', errors', k, Nat, 0, Nat)
  <2>1. CASE phase = "declare"
    <3>1. errors' = {} => Content(table'.scopes, program, k, Nat, 0, Nat)
      <4> SUFFICES ASSUME errors' = {}
                   PROVE  Content(table'.scopes, program, k, Nat, 0, Nat)
        OBVIOUS
      <4>1. Content(table.scopes, program, k, 0 .. Len(Members("declare", program, k)), 0, Nat)
        BY <1>2, <1>3, <1>4, <2>1 DEF Known
      <4> QED  BY <1>1, <1>4, <1>5, <4>1, ContentClassDone
    <3> QED  BY <1>4, <2>1, <3>1, KnownDeclared
  <2>2. CASE phase # "declare"
    <3>1. phase \in {"check", "generate"}
      BY <1>1, <2>2 DEF Traversals
    <3> QED  BY <1>5, <3>1, WalkingComplete, KnownLater
  <2> QED  BY <2>1, <2>2
<1>7. Outside(phase, program, agenda', table', errors', k)
  BY <1>1, <1>2, <1>3, <1>5, <1>6, ClassEnds
<1>8. Walking'
  BY <1>1, <1>5, <1>7, Arrived
<1> QED  BY <1>5, <1>7, <1>8

LEMMA LeaveMethodWalks ==
  ASSUME Walking, LeaveScope, NEW k, NEW q, NEW p, AfterBody(k, q, p)
  PROVE  /\ Walking' /\ table'.scopes = table.scopes
         /\ Inside(phase, program, agenda', table', errors', k, q)
<1>1. /\ program' = program /\ phase' = phase /\ phase \in Traversals /\ agenda # <<>>
      /\ program \in Programs /\ Tree(table) /\ IsTable(table) /\ table.current \in DOMAIN table.scopes
  BY DEF LeaveScope, Semantic, Walking, Tree
<1>2. errors' = errors /\ table' = Exit(table) /\ agenda' = Tail(agenda)
  BY <1>1, AgendaIs DEF LeaveScope, Enters, Proceed
<1>3. /\ Within(phase, program, agenda, table, errors, k, q, p) /\ p = Len(BodyAt(phase, program, k, q))
  BY DEF AfterBody
<1> DEFINE outer == <<ClassStep(program[k].id)>>
<1>4. /\ k \in 1 .. Len(program) /\ k # 0
      /\ table.current = <<ClassStep(program[k].id), MethodStep(NameAt(phase, program, k, q))>>
  BY <1>3 DEF Within
<1>5. outer \in DOMAIN table.scopes
  <2>1. MethodAt(table, table.current, program[k].id, NameAt(phase, program, k, q))
    BY <1>1, <1>4, TreeKinds
  <2> QED  BY <2>1 DEF MethodAt
<1>6. Tree(table') /\ table'.scopes = table.scopes /\ table'.current = outer
  <2>1. Parent(table.current) = outer
    BY <1>4, PathSteps
  <2>2. table' = At(table, outer)
    BY <1>1, <1>2, <2>1, ExitIs
  <2> QED  BY <1>1, <1>5, <2>2, AtIs
<1>7. Known(phase, program, table', errors', k, 0 .. q, 0, Nat)
  <2>1. CASE phase = "declare"
    <3>1. errors' = {} => Content(table'.scopes, program, k, 0 .. q, 0, Nat)
      BY <1>2, <1>6, <2>1, BodyDeclared
    <3> QED  BY <1>4, <2>1, <3>1, KnownDeclared
  <2>2. CASE phase # "declare"
    <3>1. phase \in {"check", "generate"}
      BY <1>1, <2>2 DEF Traversals
    <3> QED  BY <1>6, <3>1, WalkingComplete, KnownLater
  <2> QED  BY <2>1, <2>2
<1>8. Inside(phase, program, agenda', table', errors', k, q)
  BY <1>1, <1>2, <1>3, <1>6, <1>7, MethodEnds
<1>9. Walking'
  BY <1>1, <1>6, <1>8, Arrived
<1> QED  BY <1>6, <1>8, <1>9

LEMMA LeaveWalks ==
  ASSUME Walking, LeaveScope
  PROVE  Walking'
<1>1. agenda # <<>> /\ Head(agenda).kind = "leave"
  BY DEF LeaveScope
<1>2. (\E k, q : AfterMembers(k, q)) \/ (\E k, q, p : AfterBody(k, q, p))
  BY <1>1, PlaceIs DEF Places
<1> QED  BY <1>2, LeaveClassWalks, LeaveMethodWalks

-----------------------------------------------------------------------------
(***************************************************************************)
(* The checks and the generation: scopes are entered again.                *)
(***************************************************************************)
HasScopes(scopes, prog) ==
  /\ \A k \in 1 .. Len(prog) : ClassScope(prog[k]) \in DOMAIN scopes
  /\ MainScopeOf(prog[1]) \in DOMAIN scopes
  /\ \A k \in 2 .. Len(prog) : \A l \in DOMAIN prog[k].methods :
       MethodScope(prog[k], prog[k].methods[l]) \in DOMAIN scopes

\* The text of the whole program is in the table.
LEMMA CompleteIs ==
  ASSUME NEW prog \in Programs, NEW scopes, Complete(scopes, prog)
  PROVE  /\ Different(prog, 1 .. Len(prog))
         /\ DOMAIN scopes[Root].classes = {prog[i].id : i \in 1 .. Len(prog)}
         /\ MainDeclared(scopes, prog[1])
         /\ \A i \in 2 .. Len(prog) : ClassDeclared(scopes, prog[i], Nat, 0, Nat)
         /\ \A path \in DOMAIN scopes : Explained(prog, Len(prog), path)
<1> DEFINE k == Len(prog)
<1>1. k \in Nat /\ k # 0
  BY Program
<1>2. Content(scopes, prog, k, Nat, 0, Nat)
  BY DEF Complete
<1> HIDE DEF k
<1>3. /\ Different(prog, 1 .. k) /\ MainDeclared(scopes, prog[1])
      /\ DOMAIN scopes[Root].classes = {prog[i].id : i \in 1 .. k}
      /\ \A path \in DOMAIN scopes : Explained(prog, k, path)
  BY <1>1, <1>2 DEF Content
<1>4. ASSUME NEW i \in 2 .. k
      PROVE  ClassDeclared(scopes, prog[i], Nat, 0, Nat)
  <2>1. CASE i # k
    BY <1>2, <2>1 DEF Content
  <2>2. CASE i = k
    <3>1. k > 1
      BY <1>1, <2>2
    <3> QED  BY <1>2, <2>2, <3>1 DEF Content
  <2> QED  BY <2>1, <2>2
<1> QED  BY <1>3, <1>4 DEF k

LEMMA MethodsDeclared ==
  ASSUME NEW prog \in Programs, NEW scopes, NEW k \in 2 .. Len(prog),
         ClassDeclared(scopes, prog[k], Nat, 0, Nat), NEW l \in DOMAIN prog[k].methods
  PROVE  l \in MethodsIn(prog[k], Nat) /\ MethodDeclared(scopes, prog[k], prog[k].methods[l], Nat)
<1> DEFINE c == prog[k]
<1>1. IsSequence(c.fields) /\ IsSequence(c.methods)
  BY Program DEF AreNamed
<1> HIDE DEF c
<1>2. Len(c.fields) \in Nat /\ DOMAIN c.methods \subseteq Nat
  BY <1>1 DEF IsSequence
<1>3. l \in DOMAIN c.methods /\ ClassDeclared(scopes, c, Nat, 0, Nat)
  BY DEF c
<1>4. l \in MethodsIn(c, Nat)
  BY <1>2, <1>3 DEF MethodsIn
<1>5. MethodDeclared(scopes, c, c.methods[l], IF Len(c.fields) + l = 0 THEN Nat ELSE Nat)
  BY <1>3, <1>4 DEF ClassDeclared
<1> QED  BY <1>4, <1>5 DEF c

LEMMA CompleteScopes ==
  ASSUME NEW prog \in Programs, NEW scopes, Complete(scopes, prog)
  PROVE  HasScopes(scopes, prog)
<1>1. /\ MainDeclared(scopes, prog[1]) /\ Len(prog) \in Nat
      /\ \A i \in 2 .. Len(prog) : ClassDeclared(scopes, prog[i], Nat, 0, Nat)
  BY CompleteIs, Program
<1>2. \A k \in 1 .. Len(prog) : ClassScope(prog[k]) \in DOMAIN scopes
  <2>1. \A k \in 1 .. Len(prog) : k = 1 \/ k \in 2 .. Len(prog)
    BY <1>1
  <2> QED  BY <1>1, <2>1 DEF MainDeclared, ClassDeclared
<1>3. \A k \in 2 .. Len(prog) : \A l \in DOMAIN prog[k].methods :
        MethodScope(prog[k], prog[k].methods[l]) \in DOMAIN scopes
  BY <1>1, MethodsDeclared DEF MethodDeclared
<1> QED  BY <1>1, <1>2, <1>3 DEF HasScopes, MainDeclared

LEMMA ClassEnteredAt ==
  ASSUME Walking, phase \in {"check", "generate"}, agenda # <<>>, Head(agenda).kind = "class",
         program' = program, phase' = phase, NEW record, table' = EnterClass(table, node.id, record),
         agenda' = ((IF phase = "generate" THEN Tasks("method", node.methods)
                     ELSE Tasks("variable", node.fields) \o Tasks("method", node.methods)) \o <<Leave>>)
                     \o Tail(agenda),
         NEW k, BeforeClass(k), k # 0, NEW n, n = k + 1
  PROVE  /\ Walking' /\ table'.scopes = table.scopes
         /\ Inside(phase, program, agenda', table', errors', n, 0)
<1>1. /\ program \in Programs /\ Tree(table) /\ IsTable(table) /\ phase \in Traversals
  BY DEF Walking, Tree
<1> DEFINE path == <<ClassStep(program[n].id)>>
<1>4. /\ n \in 1 .. Len(program) /\ node = program[n]
      /\ k # Len(program) /\ Outside(phase, program, agenda, table, errors, k)
  BY <1>1, OutsideHead DEF BeforeClass, node
<1>5. table.current = Root /\ n # 1 /\ n # 0
  BY <1>4, Program, SMTT(30) DEF Outside
<1>6. Complete(table.scopes, program)
  BY WalkingComplete
<1>7. path \in DOMAIN table.scopes
  BY <1>1, <1>4, <1>6, CompleteScopes DEF HasScopes, ClassScope
<1>8. Tree(table') /\ table'.scopes = table.scopes /\ table'.current = path
  <2>1. Append(table.current, <<"Class", node.id>>) = path
    BY <1>4, <1>5, PathSteps DEF ClassStep
  <2>2. table' = At(table, path)
    BY <1>1, <1>7, <2>1, EnterAgain DEF EnterClass
  <2> QED  BY <1>1, <1>7, <2>2, AtIs
<1>9. agenda' = (Members(phase, program, n) \o <<Leave>>) \o Tail(agenda)
  BY <1>4, <1>5 DEF Members
<1>10. Known(phase, program, table', errors', n, 0 .. 0, 0, Nat)
  BY <1>6, <1>8, KnownLater
<1>11. Inside(phase, program, agenda', table', errors', n, 0)
  BY <1>1, <1>4, <1>8, <1>9, <1>10, ClassBegins
<1>12. Walking'
  BY <1>1, <1>8, <1>11, Arrived
<1> QED  BY <1>8, <1>11, <1>12

LEMMA ClassEntered ==
  ASSUME Walking, phase \in {"check", "generate"}, agenda # <<>>, Head(agenda).kind = "class",
         program' = program, phase' = phase, NEW record, table' = EnterClass(table, node.id, record),
         agenda' = ((IF phase = "generate" THEN Tasks("method", node.methods)
                     ELSE Tasks("variable", node.fields) \o Tasks("method", node.methods)) \o <<Leave>>)
                     \o Tail(agenda)
  PROVE  Walking'
<1>1. PICK k : BeforeClass(k) /\ k # 0
  BY PlaceIs DEF Places
<1>2. PICK n : n = k + 1
  OBVIOUS
<1> QED  BY <1>1, <1>2, ClassEnteredAt

LEMMA MainEntered ==
  ASSUME Walking, phase \in {"check", "generate"}, agenda # <<>>, Head(agenda).kind = "main",
         program' = program, phase' = phase, table' = MainScope(node.id),
         agenda' = (Items(node.items) \o <<Leave, Leave>>) \o Tail(agenda)
  PROVE  /\ Walking' /\ table'.scopes = table.scopes /\ MainScopeOf(node) \in DOMAIN table.scopes
         /\ Within(phase, program, agenda', table', errors', 1, 0, 0)
<1>1. /\ program \in Programs /\ Tree(table) /\ IsTable(table) /\ phase \in Traversals /\ phase # "declare"
  BY DEF Walking, Tree
<1> DEFINE outer == <<ClassStep(program[1].id)>>
           path  == <<ClassStep(program[1].id), MethodStep(Main)>>
<1>2. BeforeClass(0)
  BY PlaceIs DEF Places
<1>3. 1 \in 1 .. Len(program) /\ node = program[1] /\ Outside(phase, program, agenda, table, errors, 0)
  <2>1. 0 # Len(program) /\ Outside(phase, program, agenda, table, errors, 0)
    BY <1>2 DEF BeforeClass
  <2>2. 0 + 1 \in 1 .. Len(program) /\ Head(agenda).node = program[0 + 1]
    BY <1>1, <2>1, OutsideHead
  <2> QED  BY <2>1, <2>2 DEF node
<1>4. table.current = Root
  BY <1>3 DEF Outside
<1>5. Complete(table.scopes, program)
  BY WalkingComplete
<1>6. outer \in DOMAIN table.scopes /\ path \in DOMAIN table.scopes
  BY <1>1, <1>3, <1>5, CompleteScopes DEF HasScopes, ClassScope, MainScopeOf
<1>7. EnterClass(table, node.id, NoRef) = At(table, outer)
  <2>1. Append(table.current, <<"Class", node.id>>) = outer
    BY <1>3, <1>4, PathSteps DEF ClassStep
  <2> QED  BY <1>1, <1>6, <2>1, EnterAgain DEF EnterClass
<1> DEFINE u == At(table, outer)
<1>8. Tree(u) /\ IsTable(u) /\ u.scopes = table.scopes /\ u.current = outer
  BY <1>1, <1>6, AtIs, ZenonT(60) DEF Tree
<1>9. table' = EnterMethod(u, Main, NoRef)
  BY <1>7 DEF MainScope
<1> HIDE DEF u
<1>10. Tree(table') /\ table'.scopes = table.scopes /\ table'.current = path
  <2>1. Append(u.current, <<"Method", Main>>) = path
    BY <1>8, PathSteps DEF MethodStep
  <2>2. table' = At(u, path)
    BY <1>6, <1>8, <1>9, <2>1, EnterAgain DEF EnterMethod
  <2> QED  BY <1>6, <1>8, <2>2, AtIs
<1>11. Known(phase, program, table', errors', 1, 0 .. 0, 0, 0 .. 0)
  BY <1>5, <1>10, KnownLater
<1>12. Within(phase, program, agenda', table', errors', 1, 0, 0)
  BY <1>1, <1>3, <1>10, <1>11, MainBegins
<1>13. Walking'
  BY <1>1, <1>10, <1>12, Arrived
<1> QED  BY <1>3, <1>6, <1>10, <1>12, <1>13 DEF MainScopeOf

LEMMA MethodEnteredAt ==
  ASSUME Walking, phase \in {"check", "generate"}, agenda # <<>>, Head(agenda).kind = "method",
         program' = program, phase' = phase, NEW record, table' = EnterMethod(table, node.id, record),
         agenda' = (Body(phase, node) \o <<Leave>>) \o Tail(agenda),
         NEW k, NEW q, NEW l, BeforeMethod(k, q, l), NEW n, n = q + 1
  PROVE  /\ Walking' /\ table'.scopes = table.scopes /\ Current(table).record.id = program[k].id
         /\ <<ClassStep(Current(table).record.id), MethodStep(node.id)>> \in DOMAIN table.scopes
         /\ Within(phase, program, agenda', table', errors', k, n, 0)
<1>1. /\ program \in Programs /\ Tree(table) /\ IsTable(table) /\ phase \in Traversals
  BY DEF Walking, Tree
<1> DEFINE c == program[k]
           m == c.methods[l]
           path == <<ClassStep(c.id), MethodStep(m.id)>>
<1>4. /\ Inside(phase, program, agenda, table, errors, k, q) /\ q # Len(Members(phase, program, k))
      /\ l \in DOMAIN c.methods /\ node = m /\ node = Head(agenda).node
  BY DEF BeforeMethod, IsMethodOf, node
<1>5. k \in 2 .. Len(program) /\ table.current = <<ClassStep(c.id)>>
  <2>1. k \in 2 .. Len(program)
    BY <1>1, <1>4, InsideHead
  <2> QED  BY <1>4, <2>1 DEF Inside
<1>6. Complete(table.scopes, program)
  BY WalkingComplete
<1>7. path \in DOMAIN table.scopes
  BY <1>1, <1>4, <1>5, <1>6, CompleteScopes DEF HasScopes, MethodScope
<1>8. Tree(table') /\ table'.scopes = table.scopes /\ table'.current = path
  <2>1. Append(table.current, <<"Method", node.id>>) = path
    BY <1>4, <1>5, PathSteps DEF MethodStep
  <2>2. table' = At(table, path)
    BY <1>1, <1>7, <2>1, EnterAgain DEF EnterMethod
  <2> HIDE DEF path
  <2> QED  BY <1>1, <1>7, <2>2, AtIs
<1>9. Known(phase, program, table', errors', k, 0 .. n, n, 0 .. 0)
  BY <1>6, <1>8, KnownLater
<1>10. /\ agenda' = (Body(phase, Head(agenda).node) \o <<Leave>>) \o Tail(agenda)
       /\ table'.current = <<ClassStep(program[k].id), MethodStep(Head(agenda).node.id)>>
  BY <1>4, <1>8
<1>11. Within(phase, program, agenda', table', errors', k, n, 0)
  BY <1>1, <1>4, <1>9, <1>10, MethodBegins
<1>12. Walking'
  BY <1>1, <1>8, <1>11, Arrived
<1>13. Current(table).record.id = c.id
  <2>1. Current(table).record = [path |-> Root, kind |-> "classes", id |-> c.id]
    BY <1>1, <1>5, ClassRecordIs
  <2> QED  BY <2>1
<1> QED  BY <1>4, <1>7, <1>8, <1>11, <1>12, <1>13

LEMMA MethodEntered ==
  ASSUME Walking, phase \in {"check", "generate"}, agenda # <<>>, Head(agenda).kind = "method",
         program' = program, phase' = phase, NEW record, table' = EnterMethod(table, node.id, record),
         agenda' = (Body(phase, node) \o <<Leave>>) \o Tail(agenda)
  PROVE  /\ Walking' /\ table'.scopes = table.scopes
         /\ <<ClassStep(Current(table).record.id), MethodStep(node.id)>> \in DOMAIN table.scopes
<1>1. PICK k, q, l : BeforeMethod(k, q, l)
  BY PlaceIs DEF Places
<1>2. PICK n : n = q + 1
  OBVIOUS
<1> QED  BY <1>1, <1>2, MethodEnteredAt

\* A declaration is checked, or a use checked or generated.
LEMMA FieldDone ==
  ASSUME Walking, phase \in {"check", "generate"}, agenda # <<>>,
         program' = program, phase' = phase, Tree(table'), table'.current = table.current,
         Complete(table'.scopes, program), agenda' = <<>> \o Tail(agenda),
         NEW k, NEW q, BeforeField(k, q), NEW n, n = q + 1
  PROVE  Walking' /\ Inside(phase, program, agenda', table', errors', k, n)
<1>1. program \in Programs /\ phase \in Traversals /\ agenda' = Tail(agenda)
  BY AgendaIs DEF Walking
<1>2. Known(phase, program, table', errors', k, 0 .. n, 0, Nat)
  BY KnownLater
<1>3. Inside(phase, program, agenda', table', errors', k, n)
  BY <1>1, <1>2, MemberDone DEF BeforeField
<1> QED  BY <1>1, <1>3, Arrived

LEMMA ItemDone ==
  ASSUME Walking, phase \in {"check", "generate"}, agenda # <<>>,
         program' = program, phase' = phase, Tree(table'), table'.current = table.current,
         Complete(table'.scopes, program), agenda' = <<>> \o Tail(agenda),
         NEW k, NEW q, NEW p, BeforeLocal(k, q, p), NEW n, n = p + 1
  PROVE  Walking' /\ Within(phase, program, agenda', table', errors', k, q, n)
<1>1. program \in Programs /\ phase \in Traversals /\ agenda' = Tail(agenda)
  BY AgendaIs DEF Walking
<1>2. Known(phase, program, table', errors', k, 0 .. q, q, 0 .. n)
  BY KnownLater
<1>3. Within(phase, program, agenda', table', errors', k, q, n)
  BY <1>1, <1>2, LocalDone DEF BeforeLocal
<1> QED  BY <1>1, <1>3, Arrived

LEMMA TaskDone ==
  ASSUME Walking, phase \in {"check", "generate"}, agenda # <<>>, Head(agenda).kind \in {"variable", "use"},
         program' = program, phase' = phase, Tree(table'), table'.current = table.current,
         Complete(table'.scopes, program), agenda' = <<>> \o Tail(agenda)
  PROVE  Walking'
<1>1. (\E k, q : BeforeField(k, q)) \/ (\E k, q, p : BeforeLocal(k, q, p))
  BY PlaceIs DEF Places
<1>2. ASSUME NEW k, NEW q, BeforeField(k, q)
      PROVE  Walking'
  <2>1. PICK n : n = q + 1
    OBVIOUS
  <2> QED  BY <1>2, <2>1, FieldDone
<1>3. ASSUME NEW k, NEW q, NEW p, BeforeLocal(k, q, p)
      PROVE  Walking'
  <2>1. PICK n : n = p + 1
    OBVIOUS
  <2> QED  BY <1>3, <2>1, ItemDone
<1> QED  BY <1>1, <1>2, <1>3

LEMMA CheckWalks ==
  ASSUME Walking, Check
  PROVE  Walking'
<1>1. CASE CheckClass
  <2>1. /\ phase = "check" /\ agenda # <<>> /\ Head(agenda).kind = "class"
        /\ program' = program /\ phase' = phase /\ table' = EnterClass(table, node.id, NoRef)
        /\ agenda' = (Tasks("variable", node.fields) \o Tasks("method", node.methods) \o <<Leave>>)
                       \o Tail(agenda)
    BY <1>1 DEF CheckClass, Doing, Enters, Proceed, Semantic
  <2> QED  BY <2>1, ClassEntered
<1>2. CASE CheckMain
  <2>1. /\ phase = "check" /\ agenda # <<>> /\ Head(agenda).kind = "main"
        /\ program' = program /\ phase' = phase /\ table' = MainScope(node.id)
        /\ agenda' = (Items(node.items) \o <<Leave, Leave>>) \o Tail(agenda)
    BY <1>2 DEF CheckMain, Doing, Enters, Proceed, Semantic
  <2> QED  BY <2>1, MainEntered
<1>3. CASE CheckMethod
  <2>1. /\ phase = "check" /\ agenda # <<>> /\ Head(agenda).kind = "method"
        /\ program' = program /\ phase' = phase /\ table' = EnterMethod(table, node.id, NoRef)
        /\ agenda' = (Items(node.items) \o <<Leave>>) \o Tail(agenda)
    BY <1>3 DEF CheckMethod, Doing, Enters, Proceed, Semantic
  <2>2. Body("check", node) = Items(node.items)
    BY DEF Body
  <2> QED  BY <2>1, <2>2, MethodEntered
<1>4. CASE CheckVariable \/ CheckUse
  <2>1. /\ phase = "check" /\ agenda # <<>> /\ Head(agenda).kind \in {"variable", "use"}
        /\ program' = program /\ phase' = phase /\ table' = table
        /\ agenda' = <<>> \o Tail(agenda)
    BY <1>4 DEF CheckVariable, CheckUse, Doing, Enters, Refuse, Proceed, Semantic
  <2>2. Tree(table') /\ Complete(table'.scopes, program)
    BY <2>1, WalkingComplete DEF Walking
  <2> QED  BY <2>1, <2>2, TaskDone
<1> QED  BY <1>1, <1>2, <1>3, <1>4 DEF Check

\* A temporary is added to the scope of the method.
LEMMA TemporaryAdded ==
  ASSUME Walking, phase = "generate", agenda # <<>>, Head(agenda).kind = "use",
         NEW type, NEW i, table' = AddVariable(table, type, Temp(i))
  PROVE  /\ Tree(table') /\ table'.current = table.current /\ SameTree(table, table')
         /\ Complete(table'.scopes, program)
<1>1. Tree(table) /\ Complete(table.scopes, program)
  BY WalkingComplete DEF Walking
<1>2. PICK k, q, p : BeforeLocal(k, q, p)
  BY PlaceIs DEF Places
<1>3. table.current # Root
  BY <1>2, PathLengths DEF BeforeLocal, Within
<1> DEFINE x == Temp(i)
           map == table.scopes[table.current].variables
<1>4. /\ Tree(table') /\ SameTree(table, table') /\ table'.current = table.current
      /\ \A path \in DOMAIN table.scopes :
           /\ table'.scopes[path].methods = table.scopes[path].methods
           /\ path # table.current => table'.scopes[path] = table.scopes[path]
      /\ table'.scopes[table.current].variables = Emplace(map, x, type)
  BY <1>1, <1>3, VariableAdded
<1>5. IsTemp(x)
  BY DEF IsTemp, Temp
<1>6. SameNames(table, table', table.current)
  <2> DEFINE z == table'.scopes[table.current].variables
  <2>1. z = Emplace(map, x, type)
    BY <1>4
  <2> HIDE DEF z, x, map
  <2>2. DOMAIN z = DOMAIN map \cup {x} /\ \A id \in DOMAIN map : z[id] = map[id]
    BY <2>1 DEF Emplace
  <2>3. Names(z) = Names(map) /\ \A id \in Names(map) : z[id] = map[id]
    BY <1>5, <2>2 DEF Names
  <2> QED  BY <2>3 DEF SameNames, z, map
<1>7. \A path \in DOMAIN table.scopes : Agree(table, table', path)
  BY <1>4, <1>6 DEF Agree, SameNames, SameMethods, SameTree
<1>8. /\ DOMAIN table'.scopes = DOMAIN table.scopes
      /\ DOMAIN table'.scopes[Root].classes = DOMAIN table.scopes[Root].classes
  BY <1>1, <1>4 DEF SameTree, Tree
<1>9. Complete(table'.scopes, program)
  BY <1>1, <1>7, <1>8, CompleteKept
<1> QED  BY <1>4, <1>9

LEMMA GenerateWalks ==
  ASSUME Walking, Generate
  PROVE  Walking'
<1>1. CASE GenerateClass
  <2>1. /\ phase = "generate" /\ agenda # <<>> /\ Head(agenda).kind = "class"
        /\ program' = program /\ phase' = phase
        /\ table' = EnterClass(table, node.id, Lookup(table, "classes", node.id))
        /\ agenda' = (Tasks("method", node.methods) \o <<Leave>>) \o Tail(agenda)
    BY <1>1 DEF GenerateClass, Doing, Enters, Proceed, Semantic
  <2> QED  BY <2>1, ClassEntered
<1>2. CASE GenerateMain
  <2>1. /\ phase = "generate" /\ agenda # <<>> /\ Head(agenda).kind = "main"
        /\ program' = program /\ phase' = phase /\ table' = MainScope(node.id)
        /\ agenda' = (Items(node.items) \o <<Leave, Leave>>) \o Tail(agenda)
    BY <1>2 DEF GenerateMain, Doing, Enters, Proceed
  <2> QED  BY <2>1, MainEntered
<1>3. CASE GenerateMethod
  <2>1. /\ phase = "generate" /\ agenda # <<>> /\ Head(agenda).kind = "method"
        /\ program' = program /\ phase' = phase
        /\ table' = EnterMethod(table, node.id, Lookup(table, "methods", node.id))
        /\ agenda' = (Items(OfKind("use", node.items)) \o <<Leave>>) \o Tail(agenda)
    BY <1>3 DEF GenerateMethod, Doing, Enters, Proceed
  <2>2. Body("generate", node) = Items(OfKind("use", node.items))
    BY DEF Body
  <2> QED  BY <2>1, <2>2, MethodEntered
<1>4. CASE GenerateUse
  <2>1. /\ phase = "generate" /\ agenda # <<>> /\ Head(agenda).kind = "use"
        /\ program' = program /\ phase' = phase
        /\ table' = AddVariable(table, <<"int">>, Temp(nextTemp))
        /\ agenda' = <<>> \o Tail(agenda)
    BY <1>4 DEF GenerateUse, Doing, Enters, Proceed
  <2>2. /\ Tree(table') /\ table'.current = table.current /\ Complete(table'.scopes, program)
    BY <2>1, TemporaryAdded
  <2> QED  BY <2>1, <2>2, TaskDone
<1> QED  BY <1>1, <1>2, <1>3, <1>4 DEF Generate

-----------------------------------------------------------------------------
(***************************************************************************)
(* The code generator: SymbolTable::resolveScope finds the scopes of the   *)
(* methods that were generated and leaves the table as it was.             *)
(***************************************************************************)
HasRoot(scopes, root) == <<ClassStep(root[1]), MethodStep(root[2])>> \in DOMAIN scopes

LEMMA ScopeResolved ==
  ASSUME NEW t, Tree(t), t.current = Root, NEW class, NEW method,
         <<ClassStep(class), MethodStep(method)>> \in DOMAIN t.scopes
  PROVE  ResolveScope(t, class, method) =
           [table |-> t, scope |-> <<ClassStep(class), MethodStep(method)>>]
<1> DEFINE outer == <<ClassStep(class)>>
           path  == <<ClassStep(class), MethodStep(method)>>
           ref == Lookup(t, "classes", class)
           inClass == EnterClass(t, class, ref)
           inside  == EnterMethod(inClass, method, Record(t, ref).methods[method])
           again   == Exit(Exit(inside))
<1>1. MethodAt(t, path, class, method)
  BY TreeKinds
<1>2. outer \in DOMAIN t.scopes /\ method \in DOMAIN t.scopes[outer].methods
  BY <1>1 DEF MethodAt
<1>3. ClassAt(t, outer, class)
  BY <1>2, TreeKinds
<1>4. /\ class \in DOMAIN t.scopes[Root].classes
      /\ method \in DOMAIN t.scopes[Root].classes[class].methods
  BY <1>2, <1>3 DEF ClassAt
<1>5. Found(t, "classes", class)
  <2>1. class \in DOMAIN t.scopes[Root]["classes"]
    BY <1>4
  <2> QED  BY <2>1, FoundAtRoot
<1>6. ref = [path |-> Root, kind |-> "classes", id |-> class]
  <2>1. class \in DOMAIN t.scopes[t.current]["classes"] /\ IsPath(t.current)
    BY <1>4 DEF IsPath
  <2> QED  BY <2>1, LookupInScope
<1>7. method \in DOMAIN Record(t, ref).methods
  <2>1. Record(t, ref) = t.scopes[Root]["classes"][class]
    BY <1>6 DEF Record
  <2> QED  BY <1>4, <2>1
<1>8. IsTable(t) /\ Root \in DOMAIN t.scopes
  BY DEF Tree
<1>9. inClass = At(t, outer)
  <2>1. Append(t.current, <<"Class", class>>) = outer
    BY PathSteps DEF ClassStep
  <2> HIDE DEF ref
  <2> QED  BY <1>2, <1>8, <2>1, EnterAgain DEF EnterClass
<1>10. Tree(inClass) /\ IsTable(inClass) /\ inClass.scopes = t.scopes /\ inClass.current = outer
  <2>1. Tree(At(t, outer)) /\ At(t, outer).scopes = t.scopes /\ At(t, outer).current = outer
    BY <1>2, AtIs
  <2> QED  BY <1>9, <2>1 DEF Tree
<1> HIDE DEF inClass
<1>11. inside = At(inClass, path)
  <2>1. Append(inClass.current, <<"Method", method>>) = path
    BY <1>10, PathSteps DEF MethodStep
  <2> HIDE DEF ref
  <2> QED  BY <1>10, <2>1, EnterAgain DEF EnterMethod
<1>12. IsTable(inside) /\ inside.scopes = t.scopes /\ inside.current = path
  <2>1. /\ Tree(At(inClass, path)) /\ At(inClass, path).scopes = inClass.scopes
        /\ At(inClass, path).current = path
    BY <1>10, AtIs
  <2> QED  BY <1>10, <1>11, <2>1 DEF Tree
<1> HIDE DEF inside
<1>13. Exit(inside) = At(t, outer)
  <2>1. Parent(inside.current) = outer
    BY <1>12, PathSteps
  <2> QED  BY <1>12, <2>1, ExitIs DEF At
<1>14. again = At(inClass, Root)
  <2>1. Parent(inClass.current) = Root
    BY <1>10, PathSteps
  <2> QED  BY <1>9, <1>10, <1>13, <2>1, ExitIs
<1>15. again = t
  BY <1>8, <1>10, <1>14 DEF At, IsTable
<1> HIDE DEF again, ref
<1>16. ResolveScope(t, class, method) = [table |-> again, scope |-> inside.current]
  BY <1>5, <1>7 DEF ResolveScope, again, inside, inClass, ref
<1> QED  BY <1>12, <1>15, <1>16

-----------------------------------------------------------------------------
(***************************************************************************)
(* The invariant: a traversal is on its way, or what it found stays.       *)
(***************************************************************************)
Lists(s) == \E S : s \in Seq(S)

Rooted ==
  /\ Lists(roots) /\ Lists(emitted) /\ Len(emitted) <= Len(roots)
  /\ \A i \in DOMAIN roots : HasRoot(table.scopes, roots[i])
  /\ phase \in {"declare", "check"} => roots = <<>>
  /\ phase \in Traversals => emitted = <<>>

Settled ==
  /\ phase \in {"emit", "done"} => Complete(table.scopes, program)
  /\ phase = "emit" => agenda = From(Tasks("root", roots), Len(emitted) + 1)
  /\ phase \in {"emit", "done", "rejected"} => table.current = Root
  /\ phase \in {"done", "rejected"} => agenda = <<>>

Kept ==
  /\ program \in Programs /\ Tree(table) /\ nextTemp \in Nat
  /\ phase \in Traversals \cup {"emit", "done", "rejected"}
  /\ phase \in Traversals => Walking
  /\ Rooted /\ Settled

LEMMA ListsAppend ==
  ASSUME NEW s, Lists(s), NEW x
  PROVE  /\ Lists(Append(s, x)) /\ Len(s) \in Nat /\ Len(Append(s, x)) = Len(s) + 1
         /\ \A i \in DOMAIN Append(s, x) : (i \in DOMAIN s /\ Append(s, x)[i] = s[i]) \/ Append(s, x)[i] = x
<1>1. PICK S : s \in Seq(S)
  BY DEF Lists
<1>2. s \in Seq(S \cup {x}) /\ x \in S \cup {x}
  BY <1>1
<1> DEFINE T == S \cup {x}
<1> HIDE DEF T
<1>3. s \in Seq(T) /\ x \in T
  BY <1>2 DEF T
<1> QED  BY <1>3 DEF Lists

LEMMA EmptyLists == Lists(<<>>) /\ Len(<<>>) = 0 /\ DOMAIN <<>> = {}
<1>1. <<>> \in Seq({})
  OBVIOUS
<1> QED  BY <1>1 DEF Lists

\* A traversal starts at the root, with all classes to visit.
LEMMA Started ==
  ASSUME NEW prog \in Programs, NEW pass \in Traversals, NEW t, t.current = Root, NEW errs,
         Known(pass, prog, t, errs, 0, Nat, 0, Nat)
  PROVE  Outside(pass, prog, Classes(prog), t, errs, 0)
<1>1. Classes(prog) \in Seq(AllTasks(prog)) /\ Len(prog) \in Nat
  BY ClassesAre, Program
<1>2. From(Classes(prog), 0 + 1) = Classes(prog)
  <2>1. From(Classes(prog), 1) = Classes(prog)
    BY <1>1, FromAll
  <2> QED  BY <2>1
<1> QED  BY <1>1, <1>2 DEF Outside

\* And ends there, with the whole program declared.
LEMMA WalkEnds ==
  ASSUME Walking, agenda = <<>>
  PROVE  table.current = Root /\ (errors = {} => Complete(table.scopes, program))
<1>1. program \in Programs /\ phase \in Traversals /\ Situated(phase, program, agenda, table, errors)
  BY DEF Walking
<1>2. ASSUME NEW k, NEW q, Inside(phase, program, agenda, table, errors, k, q)
      PROVE  FALSE
  BY <1>1, <1>2, InsideHead
<1>3. ASSUME NEW k, NEW q, NEW p, Within(phase, program, agenda, table, errors, k, q, p)
      PROVE  FALSE
  <2>1. HeadOfBody(phase, program, agenda, k, q, p, BodyAt(phase, program, k, q))
    BY <1>1, <1>3, WithinHead, Zenon
  <2> QED  BY <2>1 DEF HeadOfBody
<1>4. PICK k : Outside(phase, program, agenda, table, errors, k)
  BY <1>1, <1>2, <1>3 DEF Situated
<1>5. k = Len(program)
  BY <1>1, <1>4, OutsideHead
<1>6. table.current = Root /\ Known(phase, program, table, errors, Len(program), Nat, 0, Nat)
  BY <1>4, <1>5 DEF Outside
<1> QED  BY <1>1, <1>6 DEF Known, Complete, Traversals

LEMMA InitKept ==
  ASSUME Init
  PROVE  Kept
<1>1. /\ program \in Programs /\ phase = "declare" /\ agenda = Classes(program) /\ table = EmptyTable
      /\ errors = {} /\ nextTemp = 0 /\ roots = <<>> /\ emitted = <<>>
  BY DEF Init
<1>2. /\ Tree(table) /\ table.current = Root /\ DOMAIN table.scopes = {Root}
      /\ DOMAIN table.scopes[Root].classes = {}
  BY <1>1, EmptyTableIs
<1>3. Content(table.scopes, program, 0, Nat, 0, Nat)
  <2>1. DOMAIN table.scopes[Root].classes = {program[i].id : i \in 1 .. 0}
    BY <1>2
  <2> QED  BY <1>2, <2>1 DEF Content, Different, Explained
<1>4. Known(phase, program, table, errors, 0, Nat, 0, Nat)
  BY <1>1, <1>3 DEF Known
<1>5. phase \in Traversals
  BY <1>1 DEF Traversals
<1>6. Outside(phase, program, agenda, table, errors, 0)
  BY <1>1, <1>2, <1>4, <1>5, Started
<1>7. Walking
  BY <1>1, <1>2, <1>5, <1>6 DEF Walking, Situated
<1>8. Rooted
  BY <1>1, EmptyLists DEF Rooted
<1>9. Settled
  BY <1>1 DEF Settled
<1> QED  BY <1>1, <1>2, <1>5, <1>7, <1>8, <1>9 DEF Kept

\* A step of a traversal: the roots found so far keep their scopes.
LEMMA WalkKept ==
  ASSUME Kept, Walking', phase \in Traversals, phase' = phase, program' = program, emitted' = emitted,
         nextTemp' \in Nat, roots' = roots, phase = "generate" => DOMAIN table.scopes \subseteq DOMAIN table'.scopes
  PROVE  Kept'
<1>1. Rooted'
  <2>1. /\ Lists(roots) /\ Lists(emitted) /\ Len(emitted) <= Len(roots) /\ emitted = <<>>
        /\ \A i \in DOMAIN roots : HasRoot(table.scopes, roots[i])
        /\ phase # "generate" => roots = <<>>
    BY DEF Kept, Rooted, Traversals
  <2>2. \A i \in DOMAIN roots : HasRoot(table'.scopes, roots[i])
    <3>1. CASE phase = "generate"
      BY <2>1, <3>1 DEF HasRoot
    <3>2. CASE phase # "generate"
      BY <2>1, <3>2, EmptyLists
    <3> QED  BY <3>1, <3>2
  <2>3. phase' \in {"declare", "check"} => roots' = <<>>
    BY <2>1
  <2> QED  BY <2>1, <2>2, <2>3 DEF Rooted
<1>2. Settled'
  BY DEF Settled, Traversals
<1>3. program' \in Programs /\ Tree(table')
  BY DEF Walking
<1> QED  BY <1>1, <1>2, <1>3 DEF Kept

\* So does a step that generates a method: its scope is there.
LEMMA RootKept ==
  ASSUME Kept, Walking', phase = "generate", phase' = phase, program' = program, emitted' = emitted,
         nextTemp' \in Nat, table'.scopes = table.scopes,
         NEW root, roots' = Append(roots, root), HasRoot(table.scopes, root)
  PROVE  Kept'
<1>1. Rooted'
  <2>1. /\ Lists(roots) /\ Lists(emitted) /\ Len(emitted) <= Len(roots) /\ emitted = <<>>
        /\ \A i \in DOMAIN roots : HasRoot(table.scopes, roots[i])
    BY DEF Kept, Rooted, Traversals
  <2>2. /\ Lists(roots') /\ Len(roots) \in Nat /\ Len(roots') = Len(roots) + 1
        /\ \A i \in DOMAIN roots' : (i \in DOMAIN roots /\ roots'[i] = roots[i]) \/ roots'[i] = root
    BY <2>1, ListsAppend
  <2>3. \A i \in DOMAIN roots' : HasRoot(table'.scopes, roots'[i])
    BY <2>1, <2>2
  <2>4. Len(emitted') <= Len(roots')
    BY <2>1, <2>2, EmptyLists
  <2> QED  BY <2>1, <2>2, <2>3, <2>4 DEF Rooted
<1>2. Settled'
  BY DEF Settled
<1>3. program' \in Programs /\ Tree(table') /\ phase' \in Traversals
  BY DEF Walking
<1> QED  BY <1>1, <1>2, <1>3 DEF Kept

LEMMA DeclareKept ==
  ASSUME Kept, Declare
  PROVE  Kept'
<1>1. /\ phase = "declare" /\ program' = program /\ phase' = phase /\ emitted' = emitted
      /\ nextTemp' = nextTemp /\ roots' = roots
  BY DEF Declare, DeclareClass, DeclareMain, DeclareMethod, DeclareParameter, DeclareVariable,
         Doing, Semantic
<1>2. phase \in Traversals /\ Walking /\ nextTemp \in Nat
  BY <1>1 DEF Kept, Traversals
<1>3. Walking'
  BY <1>2, DeclareWalks
<1> QED  BY <1>1, <1>2, <1>3, WalkKept

LEMMA CheckKept ==
  ASSUME Kept, Check
  PROVE  Kept'
<1>1. /\ phase = "check" /\ program' = program /\ phase' = phase /\ emitted' = emitted
      /\ nextTemp' = nextTemp /\ roots' = roots
  BY DEF Check, CheckClass, CheckMain, CheckMethod, CheckVariable, CheckUse, Doing, Semantic
<1>2. phase \in Traversals /\ Walking /\ nextTemp \in Nat
  BY <1>1 DEF Kept, Traversals
<1>3. Walking'
  BY <1>2, CheckWalks
<1> QED  BY <1>1, <1>2, <1>3, WalkKept

LEMMA LeaveKept ==
  ASSUME Kept, LeaveScope
  PROVE  Kept'
<1>1. /\ phase \in Traversals /\ program' = program /\ phase' = phase /\ emitted' = emitted
      /\ nextTemp' = nextTemp /\ roots' = roots /\ table' = Exit(table)
  BY DEF LeaveScope, Semantic, Enters, Traversals
<1>2. Walking /\ nextTemp \in Nat /\ IsTable(table)
  BY <1>1 DEF Kept, Tree
<1>3. Walking'
  BY <1>2, LeaveWalks
<1>4. table'.scopes = table.scopes
  BY <1>1, <1>2, ExitIs DEF At
<1> QED  BY <1>1, <1>2, <1>3, <1>4, WalkKept

LEMMA GenerateKept ==
  ASSUME Kept, Generate
  PROVE  Kept'
<1>1. /\ phase = "generate" /\ program' = program /\ phase' = phase /\ emitted' = emitted /\ agenda # <<>>
  BY DEF Generate, GenerateClass, GenerateMain, GenerateMethod, GenerateUse, Doing, Semantic
<1>2. /\ phase \in Traversals /\ phase \in {"check", "generate"} /\ Walking /\ nextTemp \in Nat
      /\ IsTable(table)
  BY <1>1 DEF Kept, Traversals, Tree
<1>3. Walking'
  BY <1>2, GenerateWalks
<1>4. CASE GenerateClass
  <2>1. /\ table' = EnterClass(table, node.id, Lookup(table, "classes", node.id))
        /\ nextTemp' = nextTemp /\ roots' = roots
    BY <1>4 DEF GenerateClass, Enters, Semantic
  <2>2. DOMAIN table.scopes \subseteq DOMAIN table'.scopes
    BY <1>2, <2>1, EnterIs DEF EnterClass, Entered
  <2> QED  BY <1>1, <1>2, <1>3, <2>1, <2>2, WalkKept
<1>5. CASE GenerateMain
  <2>1. /\ Head(agenda).kind = "main" /\ table' = MainScope(node.id)
        /\ agenda' = (Items(node.items) \o <<Leave, Leave>>) \o Tail(agenda)
        /\ nextTemp' = nextTemp /\ roots' = Append(roots, <<node.id, Main>>)
    BY <1>5 DEF GenerateMain, Doing, Enters, Proceed
  <2>2. table'.scopes = table.scopes /\ MainScopeOf(node) \in DOMAIN table.scopes
    BY <1>1, <1>2, <2>1, MainEntered
  <2>3. HasRoot(table.scopes, <<node.id, Main>>)
    BY <2>2 DEF HasRoot, MainScopeOf
  <2> QED  BY <1>1, <1>2, <1>3, <2>1, <2>2, <2>3, RootKept
<1>6. CASE GenerateMethod
  <2>1. /\ Head(agenda).kind = "method"
        /\ table' = EnterMethod(table, node.id, Lookup(table, "methods", node.id))
        /\ agenda' = (Body(phase, node) \o <<Leave>>) \o Tail(agenda)
        /\ nextTemp' = nextTemp /\ roots' = Append(roots, <<Current(table).record.id, node.id>>)
    BY <1>1, <1>6 DEF GenerateMethod, Doing, Enters, Proceed, Body
  <2>2. /\ table'.scopes = table.scopes
        /\ <<ClassStep(Current(table).record.id), MethodStep(node.id)>> \in DOMAIN table.scopes
    BY <1>1, <1>2, <2>1, MethodEntered
  <2>3. HasRoot(table.scopes, <<Current(table).record.id, node.id>>)
    BY <2>2 DEF HasRoot
  <2> QED  BY <1>1, <1>2, <1>3, <2>1, <2>2, <2>3, RootKept
<1>7. CASE GenerateUse
  <2>1. /\ Head(agenda).kind = "use" /\ table' = AddVariable(table, <<"int">>, Temp(nextTemp))
        /\ nextTemp' = nextTemp + 1 /\ roots' = roots
    BY <1>7 DEF GenerateUse, Doing, Enters
  <2>2. SameTree(table, table')
    BY <1>1, <1>2, <2>1, TemporaryAdded
  <2>3. DOMAIN table.scopes \subseteq DOMAIN table'.scopes /\ nextTemp' \in Nat
    BY <1>2, <2>1, <2>2 DEF SameTree
  <2> QED  BY <1>1, <1>2, <1>3, <2>1, <2>3, WalkKept
<1> QED  BY <1>4, <1>5, <1>6, <1>7 DEF Generate

\* The roots as the code generator takes them, one after the other.
LEMMA RootTasks ==
  ASSUME Lists(roots), NEW n \in Nat, n <= Len(roots), From(Tasks("root", roots), n + 1) # <<>>
  PROVE  LET left == From(Tasks("root", roots), n + 1) IN
         /\ n + 1 \in 1 .. Len(roots) /\ Head(left).node = roots[n + 1]
         /\ <<>> \o Tail(left) = From(Tasks("root", roots), (n + 1) + 1)
<1> DEFINE s == Tasks("root", roots)
           U == {s[i] : i \in DOMAIN roots}
           left == From(s, n + 1)
           rest == From(s, (n + 1) + 1)
<1>1. PICK S : roots \in Seq(S)
  BY DEF Lists
<1>2. Len(roots) \in Nat /\ DOMAIN roots = 1 .. Len(roots)
  BY <1>1
<1>3. s = [i \in 1 .. Len(roots) |-> Task("root", roots[i])]
  BY <1>2 DEF Tasks
<1>4. \A i \in 1 .. Len(roots) : s[i] \in U /\ s[i].node = roots[i]
  BY <1>2, <1>3 DEF Task
<1> HIDE DEF U
<1>5. s \in Seq(U) /\ Len(s) = Len(roots)
  <2> HIDE DEF s
  <2> QED  BY <1>2, <1>3, <1>4
<1> HIDE DEF s
<1>8. <<>> \in Seq(U)
  BY EmptySeq
<1>6. n # Len(s)
  <2>1. From(s, Len(s) + 1) = <<>>
    BY <1>5, <1>8, FromNone, Zenon
  <2> SUFFICES ASSUME n = Len(s) PROVE FALSE
    OBVIOUS
  <2>2. From(s, n + 1) # <<>>
    BY DEF s
  <2> QED  BY <2>1, <2>2
<1>7. n + 1 \in 1 .. Len(s)
  <2> DEFINE d == Len(roots)
  <2>1. d \in Nat /\ n <= d /\ Len(s) = d /\ n # d
    BY <1>2, <1>5, <1>6
  <2> HIDE DEF d
  <2>2. n + 1 \in 1 .. d
    BY <2>1
  <2> QED  BY <2>1, <2>2
<1>9. /\ Starting(left \o <<>>, s[n + 1], rest \o <<>>) /\ left \in Seq(U) /\ rest \in Seq(U)
  BY <1>5, <1>7, <1>8, FromSome, Zenon
<1> HIDE DEF left, rest
<1>10. left \o <<>> = left /\ rest \o <<>> = rest /\ <<>> \o rest = rest
  BY <1>9, ConcatEmptySeq
<1>11. Head(left) = s[n + 1] /\ Tail(left) = rest
  BY <1>9, <1>10 DEF Starting
<1> QED  BY <1>4, <1>5, <1>7, <1>10, <1>11 DEF left, rest, s

LEMMA EmitKept ==
  ASSUME Kept, EmitMethod
  PROVE  Kept'
<1> DEFINE n == Len(emitted)
           s == Tasks("root", roots)
           resolved == ResolveScope(table, node[1], node[2])
<1>1. /\ phase = "emit" /\ agenda # <<>> /\ program' = program /\ phase' = phase
      /\ nextTemp' = nextTemp /\ roots' = roots /\ table' = resolved.table
      /\ agenda' = <<>> \o Tail(agenda)
      /\ emitted' = Append(emitted, MethodTables(resolved.table, resolved.scope))
  BY DEF EmitMethod, Doing, Enters, Proceed
<1>2. /\ Tree(table) /\ table.current = Root /\ agenda = From(s, n + 1)
      /\ Lists(roots) /\ Lists(emitted) /\ n <= Len(roots)
      /\ \A i \in DOMAIN roots : HasRoot(table.scopes, roots[i])
      /\ Complete(table.scopes, program)
  BY <1>1 DEF Kept, Rooted, Settled
<1>3. n \in Nat /\ Lists(emitted') /\ Len(emitted') = n + 1
  BY <1>1, <1>2, ListsAppend
<1>4. /\ n + 1 \in 1 .. Len(roots) /\ Head(agenda).node = roots[n + 1]
      /\ <<>> \o Tail(agenda) = From(s, (n + 1) + 1)
  BY <1>1, <1>2, <1>3, RootTasks
<1>5. HasRoot(table.scopes, node)
  <2>1. n + 1 \in DOMAIN roots
    BY <1>2, <1>4 DEF Lists
  <2> QED  BY <1>2, <1>4, <2>1 DEF node
<1>6. table' = table
  <2>1. resolved = [table |-> table, scope |-> <<ClassStep(node[1]), MethodStep(node[2])>>]
    BY <1>2, <1>5, ScopeResolved DEF HasRoot
  <2> QED  BY <1>1, <2>1
<1> HIDE DEF n, s
<1>7. agenda' = From(Tasks("root", roots'), Len(emitted') + 1)
  BY <1>1, <1>3, <1>4 DEF s
<1>8. Rooted'
  BY <1>1, <1>2, <1>3, <1>4, <1>6 DEF Rooted, Traversals
<1>9. Settled'
  BY <1>1, <1>2, <1>6, <1>7 DEF Settled
<1> QED  BY <1>1, <1>2, <1>6, <1>8, <1>9 DEF Kept, Traversals

LEMMA NextPassIs ==
  ASSUME NextPass
  PROVE  /\ agenda = <<>> /\ errors = {} /\ program' = program /\ errors' = errors /\ nextTemp' = nextTemp
         /\ roots' = roots /\ emitted' = emitted
         /\ \/ phase = "declare" /\ Starts("check")
            \/ phase = "check" /\ Starts("generate")
            \/ phase = "generate" /\ Starts("emit")
            \/ phase = "emit" /\ Starts("done")
<1>1. PICK i \in 1 .. Len(Passes) - 1 : phase = Passes[i] /\ Starts(Passes[i + 1])
  BY DEF NextPass
<1>2. i \in {1, 2, 3, 4}
  BY DEF Passes
<1>3. /\ Passes[1] = "declare" /\ Passes[2] = "check" /\ Passes[3] = "generate"
      /\ Passes[4] = "emit" /\ Passes[5] = "done"
  BY DEF Passes
<1>4. \/ phase = Passes[1] /\ Starts(Passes[2])
      \/ phase = Passes[2] /\ Starts(Passes[3])
      \/ phase = Passes[3] /\ Starts(Passes[4])
      \/ phase = Passes[4] /\ Starts(Passes[5])
  <2>1. CASE i = 1
    <3>1. i + 1 = 2
      BY <2>1
    <3> QED  BY <1>1, <2>1, <3>1, Zenon
  <2>2. CASE i = 2
    <3>1. i + 1 = 3
      BY <2>2
    <3> QED  BY <1>1, <2>2, <3>1, Zenon
  <2>3. CASE i = 3
    <3>1. i + 1 = 4
      BY <2>3
    <3> QED  BY <1>1, <2>3, <3>1, Zenon
  <2>4. CASE i = 4
    <3>1. i + 1 = 5
      BY <2>4
    <3> QED  BY <1>1, <2>4, <3>1, Zenon
  <2> QED  BY <1>2, <2>1, <2>2, <2>3, <2>4
<1>5. /\ agenda = <<>> /\ errors = {} /\ program' = program /\ errors' = errors
      /\ nextTemp' = nextTemp /\ roots' = roots /\ emitted' = emitted
  BY DEF NextPass
<1>6. \/ phase = "declare" /\ Starts("check")
      \/ phase = "check" /\ Starts("generate")
      \/ phase = "generate" /\ Starts("emit")
      \/ phase = "emit" /\ Starts("done")
  BY <1>3, <1>4
<1> QED  BY <1>5, <1>6

LEMMA NextPassTable ==
  ASSUME Kept, NextPass
  PROVE  table.current = Root /\ Complete(table.scopes, program) /\ ToRoot(table) = table
<1>1. agenda = <<>> /\ errors = {}
  BY DEF NextPass
<1>2. Tree(table)
  BY DEF Kept
<1>3. table.current = Root /\ Complete(table.scopes, program)
  <2>1. CASE phase \in Traversals
    BY <1>1, <2>1, WalkEnds DEF Kept
  <2>2. CASE phase \notin Traversals
    <3>1. phase \in {"emit", "done"}
      BY <1>1, <2>2 DEF NextPass, Passes, Traversals
    <3> QED  BY <3>1 DEF Kept, Settled
  <2> QED  BY <2>1, <2>2
<1>4. ToRoot(table) = table
  <2>1. ToRoot(table) = At(table, Root) /\ Root \in DOMAIN table.scopes
    BY <1>2, ExitIs DEF Tree
  <2> QED  BY <1>2, <1>3, <2>1, AtIs
<1> QED  BY <1>3, <1>4

LEMMA NextPassKept ==
  ASSUME Kept, NextPass
  PROVE  Kept'
<1>1. /\ agenda = <<>> /\ errors = {} /\ program' = program /\ errors' = errors /\ nextTemp' = nextTemp
      /\ roots' = roots /\ emitted' = emitted
      /\ \/ phase = "declare" /\ Starts("check")
         \/ phase = "check" /\ Starts("generate")
         \/ phase = "generate" /\ Starts("emit")
         \/ phase = "emit" /\ Starts("done")
  BY NextPassIs
<1>2. program \in Programs /\ Tree(table) /\ nextTemp \in Nat /\ Rooted
  BY DEF Kept
<1>3. table.current = Root /\ Complete(table.scopes, program)
  BY NextPassTable
<1>4. ToRoot(table) = table
  BY NextPassTable
<1>5. ASSUME NEW pass \in {"check", "generate"}, phase \in {"declare", "check"}, Starts(pass)
      PROVE  Kept'
  <2>1. phase' = pass /\ agenda' = Classes(program) /\ table' = table
    BY <1>4, <1>5 DEF Starts
  <2>2. Known(pass, program, table, errors', 0, Nat, 0, Nat)
    BY <1>3, KnownLater
  <2>3. pass \in Traversals
    BY DEF Traversals
  <2>4. Outside(phase', program, agenda', table', errors', 0)
    BY <1>2, <1>3, <2>1, <2>2, <2>3, Started
  <2>5. Walking'
    BY <1>1, <1>2, <2>1, <2>3, <2>4 DEF Walking, Situated
  <2>6. Rooted'
    BY <1>1, <1>2, <1>5, <2>1, EmptyLists DEF Rooted, Traversals
  <2>7. Settled'
    BY <2>1 DEF Settled
  <2> QED  BY <1>1, <1>2, <2>1, <2>3, <2>5, <2>6, <2>7 DEF Kept
<1>6. CASE phase = "generate" /\ Starts("emit")
  <2>1. phase' = "emit" /\ agenda' = Tasks("root", roots) /\ table' = table /\ emitted = <<>>
    BY <1>2, <1>6 DEF Starts, Rooted, Traversals
  <2>2. agenda' = From(Tasks("root", roots'), Len(emitted') + 1)
    <3> DEFINE s == Tasks("root", roots)
    <3>1. PICK S : roots \in Seq(S)
      BY <1>2 DEF Rooted, Lists
    <3>2. s = [i \in 1 .. Len(roots) |-> Task("root", roots[i])] /\ Len(roots) \in Nat
      BY <3>1 DEF Tasks
    <3>3. s \in Seq({s[i] : i \in 1 .. Len(roots)})
      <4> DEFINE U == {s[i] : i \in 1 .. Len(roots)}
      <4>1. \A i \in 1 .. Len(roots) : s[i] \in U
        OBVIOUS
      <4> HIDE DEF s, U
      <4>2. s \in Seq(U)
        BY <3>2, <4>1
      <4> QED  BY <4>2 DEF U
    <3> HIDE DEF s
    <3>4. From(s, 1) = s
      BY <3>3, FromAll
    <3>5. Len(emitted') + 1 = 1 /\ roots' = roots
      BY <1>1, <2>1, EmptyLists
    <3> QED  BY <2>1, <3>4, <3>5 DEF s
  <2>3. Rooted'
    BY <1>1, <1>2, <2>1 DEF Rooted, Traversals
  <2>4. Settled'
    BY <1>1, <1>3, <2>1, <2>2 DEF Settled
  <2> QED  BY <1>1, <1>2, <2>1, <2>3, <2>4 DEF Kept, Traversals
<1>7. CASE phase = "emit" /\ Starts("done")
  <2>1. phase' = "done" /\ agenda' = <<>> /\ table' = table
    BY <1>7 DEF Starts
  <2>2. Rooted'
    BY <1>1, <1>2, <2>1 DEF Rooted, Traversals
  <2>3. Settled'
    BY <1>1, <1>3, <2>1 DEF Settled
  <2> QED  BY <1>1, <1>2, <2>1, <2>2, <2>3 DEF Kept, Traversals
<1> QED  BY <1>1, <1>5, <1>6, <1>7

LEMMA RejectKept ==
  ASSUME Kept, Reject
  PROVE  Kept'
<1>1. /\ agenda = <<>> /\ phase \in {"declare", "check"} /\ phase' = "rejected"
      /\ program' = program /\ agenda' = agenda /\ table' = table /\ nextTemp' = nextTemp
      /\ roots' = roots /\ emitted' = emitted
  BY DEF Reject
<1>2. table.current = Root
  BY <1>1, WalkEnds DEF Kept, Traversals
<1>3. Rooted'
  BY <1>1 DEF Kept, Rooted, Traversals
<1>4. Settled'
  BY <1>1, <1>2 DEF Settled
<1> QED  BY <1>1, <1>3, <1>4 DEF Kept, Traversals

LEMMA StutterKept ==
  ASSUME Kept, UNCHANGED vars
  PROVE  Kept'
  BY DEF Kept, Walking, Rooted, Settled, vars

LEMMA StepKept ==
  ASSUME Kept, [Next]_vars
  PROVE  Kept'
  BY DeclareKept, CheckKept, GenerateKept, EmitKept, LeaveKept, NextPassKept, RejectKept, StutterKept
     DEF Next, Ended

LEMMA AlwaysKept == Spec => []Kept
<1>1. Init => Kept
  BY InitKept
<1>2. Kept /\ [Next]_vars => Kept'
  BY StepKept
<1> QED  BY <1>1, <1>2, PTL DEF Spec

-----------------------------------------------------------------------------
(***************************************************************************)
(* Duplicates: what is refused is one, and a program whose text the table  *)
(* holds has none.                                                         *)
(***************************************************************************)
LEMMA NoRepeats ==
  ASSUME NEW nodes, IsSequence(nodes), NEW N, DOMAIN nodes \subseteq N, Different(nodes, N)
  PROVE  Repeats(nodes) = {}
<1>1. DOMAIN nodes = 1 .. Len(nodes) /\ Len(nodes) \in Nat
  BY DEF IsSequence
<1>2. ASSUME NEW k \in DOMAIN nodes, NEW j \in 1 .. k - 1, nodes[j].id = nodes[k].id
      PROVE  FALSE
  <2>1. j \in DOMAIN nodes /\ j # k
    BY <1>1
  <2> QED  BY <1>2, <2>1 DEF Different
<1> QED  BY <1>2 DEF Repeats

LEMMA RepeatFound ==
  ASSUME NEW nodes, IsSequence(nodes), NEW k \in DOMAIN nodes, NEW j \in DOMAIN nodes, j < k,
         nodes[j].id = nodes[k].id
  PROVE  Repeats(nodes) # {}
<1>1. j \in 1 .. k - 1
  BY DEF IsSequence
<1>2. nodes[k].line \in Repeats(nodes)
  BY <1>1 DEF Repeats
<1> QED  BY <1>2

LEMMA ClassNodesAre ==
  ASSUME program \in Programs
  PROVE  ClassNodes = {program[k] : k \in 2 .. Len(program)}
<1> DEFINE p == program
           t == Tail(p)
<1>1. PICK U : p \in Seq(U) /\ Len(p) \in Nat /\ Len(p) # 0
  BY Program DEF IsSequence
<1> HIDE DEF p
<1>2. p # <<>>
  BY <1>1
<1>3. t \in Seq(U) /\ Len(t) = Len(p) - 1 /\ \A i \in 1 .. Len(p) - 1 : t[i] = p[i + 1]
  BY <1>1, <1>2, HeadTailProperties
<1>4. DOMAIN t = 1 .. Len(p) - 1
  BY <1>3
<1>5. \A k \in 2 .. Len(p) : k - 1 \in DOMAIN t /\ t[k - 1] = p[k]
  BY <1>1, <1>3, <1>4
<1>6. \A i \in DOMAIN t : i + 1 \in 2 .. Len(p) /\ t[i] = p[i + 1]
  BY <1>1, <1>3, <1>4
<1> HIDE DEF t
<1>7. {t[i] : i \in DOMAIN t} = {p[k] : k \in 2 .. Len(p)}
  BY <1>5, <1>6
<1> QED  BY <1>7 DEF ClassNodes, ToSet, t, p

LEMMA LocalsAreNamed ==
  ASSUME NEW prog \in Programs, NEW k \in 2 .. Len(prog), NEW l \in DOMAIN prog[k].methods
  PROVE  AreNamed(Locals(prog[k].methods[l]))
<1> DEFINE m == prog[k].methods[l]
           v == OfKind("variable", m.items)
           s == m.params \o v
<1>1. Proper(prog, m)
  BY MethodIs
<1>2. IsSequence(m.params) /\ IsSequence(v)
  BY <1>1 DEF Proper
<1>3. IsSequence(s)
  <2> DEFINE a == m.params
             U == ToSet(a) \cup ToSet(v)
  <2>1. a \in Seq(U) /\ v \in Seq(U)
    BY <1>2 DEF IsSequence
  <2> HIDE DEF a, v, U
  <2> DEFINE c == a \o v
  <2>2. c \in Seq(U)
    BY <2>1, ConcatProperties
  <2> HIDE DEF c
  <2>3. c \in Seq(ToSet(c))
    BY <2>2 DEF ToSet
  <2> QED  BY <2>3 DEF IsSequence, c, a
<1>4. DOMAIN s = 1 .. Len(s) /\ \A i \in 1 .. Len(s) : IsName(s[i].id)
  <2>1. LocalTasks(prog, m, Body("declare", m)) /\ Locals(m) = s
    BY LocalsAre DEF Locals
  <2> HIDE DEF s, m
  <2> QED  BY <2>1 DEF LocalTasks
<1> QED  BY <1>3, <1>4 DEF AreNamed, Locals

LEMMA CompleteDiffers ==
  ASSUME program \in Programs, NEW scopes, Complete(scopes, program)
  PROVE  DuplicateLines = {}
<1>1. /\ Different(program, 1 .. Len(program)) /\ IsSequence(program)
      /\ DOMAIN program = 1 .. Len(program)
      /\ \A k \in 2 .. Len(program) : ClassDeclared(scopes, program[k], Nat, 0, Nat)
  BY CompleteIs, Program
<1>2. Repeats(program) = {}
  BY <1>1, NoRepeats
<1>3. ASSUME NEW k \in 2 .. Len(program)
      PROVE  /\ Repeats(program[k].fields) = {} /\ Repeats(program[k].methods) = {}
             /\ \A l \in DOMAIN program[k].methods : Repeats(Locals(program[k].methods[l])) = {}
  <2> DEFINE c == program[k]
  <2>1. IsSequence(c.fields) /\ IsSequence(c.methods)
    BY Program DEF AreNamed
  <2>2. Different(c.fields, Nat) /\ Different(c.methods, MethodsIn(c, Nat))
    BY <1>1 DEF ClassDeclared
  <2>3. \A l \in DOMAIN c.methods : l \in MethodsIn(c, Nat) /\ MethodDeclared(scopes, c, c.methods[l], Nat)
    BY <1>1, MethodsDeclared
  <2>4. \A l \in DOMAIN c.methods : IsSequence(Locals(c.methods[l]))
    BY LocalsAreNamed DEF AreNamed
  <2> HIDE DEF c
  <2>5. Repeats(c.fields) = {}
    <3>1. DOMAIN c.fields \subseteq Nat
      BY <2>1 DEF IsSequence
    <3> QED  BY <2>1, <2>2, <3>1, NoRepeats
  <2>6. Repeats(c.methods) = {}
    BY <2>1, <2>2, <2>3, NoRepeats
  <2>7. ASSUME NEW l \in DOMAIN c.methods
        PROVE  Repeats(Locals(c.methods[l])) = {}
    <3> DEFINE s == Locals(c.methods[l])
    <3>1. IsSequence(s) /\ Different(s, Nat)
      BY <2>3, <2>4 DEF MethodDeclared
    <3> HIDE DEF s
    <3>2. DOMAIN s \subseteq Nat
      BY <3>1 DEF IsSequence
    <3>3. Repeats(s) = {}
      BY <3>1, <3>2, NoRepeats
    <3> QED  BY <3>3 DEF s
  <2> QED  BY <2>5, <2>6, <2>7 DEF c
<1>4. \A c \in ClassNodes : Repeats(c.fields) = {} /\ Repeats(c.methods) = {}
  BY <1>3, ClassNodesAre
<1>5. ASSUME NEW m \in UNION {ToSet(c.methods) : c \in ClassNodes}
      PROVE  Repeats(Locals(m)) = {}
  <2>1. PICK c \in ClassNodes : m \in ToSet(c.methods)
    OBVIOUS
  <2>2. PICK k \in 2 .. Len(program) : c = program[k]
    BY ClassNodesAre
  <2>3. PICK l \in DOMAIN c.methods : m = c.methods[l]
    BY <2>1 DEF ToSet
  <2> QED  BY <1>3, <2>2, <2>3
<1> QED  BY <1>2, <1>4, <1>5 DEF DuplicateLines

\* A class, a field, a method or a local that is declared again.
LEMMA RepeatIsDuplicate ==
  ASSUME program \in Programs
  PROVE  /\ Repeats(program) # {} => DuplicateLines # {}
         /\ \A k \in 2 .. Len(program) :
              /\ Repeats(program[k].fields) # {} => DuplicateLines # {}
              /\ Repeats(program[k].methods) # {} => DuplicateLines # {}
              /\ \A l \in DOMAIN program[k].methods :
                   Repeats(Locals(program[k].methods[l])) # {} => DuplicateLines # {}
<1>1. ASSUME NEW k \in 2 .. Len(program)
      PROVE  /\ Repeats(program[k].fields) \cup Repeats(program[k].methods) \subseteq DuplicateLines
             /\ \A l \in DOMAIN program[k].methods :
                  Repeats(Locals(program[k].methods[l])) \subseteq DuplicateLines
  <2>1. program[k] \in ClassNodes
    BY ClassNodesAre
  <2>2. Repeats(program[k].fields) \cup Repeats(program[k].methods) \subseteq DuplicateLines
    BY <2>1 DEF DuplicateLines
  <2>3. ASSUME NEW l \in DOMAIN program[k].methods
        PROVE  Repeats(Locals(program[k].methods[l])) \subseteq DuplicateLines
    <3> DEFINE m == program[k].methods[l]
               all == UNION {ToSet(c.methods) : c \in ClassNodes}
    <3>1. m \in all
      BY <2>1 DEF ToSet
    <3> HIDE DEF m, all
    <3>2. Repeats(Locals(m)) \subseteq UNION {Repeats(Locals(x)) : x \in all}
      BY <3>1
    <3>3. UNION {Repeats(Locals(x)) : x \in all} \subseteq DuplicateLines
      BY DEF DuplicateLines, all
    <3> QED  BY <3>2, <3>3 DEF m
  <2> QED  BY <2>2, <2>3
<1>2. Repeats(program) \subseteq DuplicateLines
  BY DEF DuplicateLines
<1> QED  BY <1>1, <1>2

\* A name that the map of a scope has already is one of those declared there.
LEMMA NameTaken ==
  ASSUME NEW map, NEW this, NEW nodes, IsSequence(nodes), NEW n \in DOMAIN nodes,
         VariablesAre(map, this, nodes, 0 .. n - 1), IsName(nodes[n].id), nodes[n].id \in DOMAIN map,
         this \subseteq {This}
  PROVE  Repeats(nodes) # {}
<1>1. n \in Nat /\ \A j \in 0 .. n - 1 : j < n
  BY DEF IsSequence
<1>2. nodes[n].id \in Names(map) /\ nodes[n].id \notin this
  BY DEF Names, IsName, IsTemp
<1>3. PICK j \in DOMAIN nodes \cap 0 .. n - 1 : nodes[j].id = nodes[n].id
  BY <1>2 DEF VariablesAre
<1> QED  BY <1>1, <1>3, RepeatFound

LEMMA ClassRefused ==
  ASSUME Walking, DeclareClass, Found(table, "classes", node.id), errors = {}
  PROVE  DuplicateLines # {}
<1>1. /\ phase = "declare" /\ agenda # <<>> /\ Head(agenda).kind = "class"
      /\ program \in Programs /\ phase \in Traversals
  BY DEF DeclareClass, Doing, Walking
<1>2. PICK k : BeforeClass(k) /\ k # 0
  BY <1>1, PlaceIs DEF Places
<1>3. PICK n : n = k + 1
  OBVIOUS
<1>4. n \in 1 .. Len(program) /\ node = program[n] /\ Outside(phase, program, agenda, table, errors, k)
  BY <1>1, <1>2, <1>3, OutsideHead DEF BeforeClass, node
<1>5. /\ table.current = Root /\ k \in 0 .. Len(program) /\ Len(program) \in Nat
      /\ IsSequence(program) /\ DOMAIN program = 1 .. Len(program)
      /\ Content(table.scopes, program, k, Nat, 0, Nat)
  BY <1>1, <1>4, Program DEF Outside, Known
<1>6. program[n].id \in {program[i].id : i \in 1 .. k}
  <2>1. node.id \in DOMAIN table.scopes[Root]["classes"]
    BY <1>5, FoundAtRoot
  <2>2. node.id \in DOMAIN table.scopes[Root].classes
    BY <2>1, FieldByName
  <2> QED  BY <1>4, <1>5, <2>2 DEF Content
<1>7. PICK j \in 1 .. k : program[j].id = program[n].id
  BY <1>6
<1>8. j \in DOMAIN program /\ n \in DOMAIN program /\ j < n
  BY <1>3, <1>4, <1>5
<1>9. Repeats(program) # {}
  BY <1>5, <1>7, <1>8, RepeatFound
<1> QED  BY <1>1, <1>9, RepeatIsDuplicate

LEMMA MethodRefused ==
  ASSUME Walking, DeclareMethod, node.id \in DOMAIN Record(table, Current(table).record).methods,
         errors = {}
  PROVE  DuplicateLines # {}
<1>1. /\ phase = "declare" /\ agenda # <<>> /\ Head(agenda).kind = "method"
      /\ program \in Programs /\ Tree(table) /\ phase \in Traversals
  BY DEF DeclareMethod, Doing, Walking
<1>2. PICK k, q, l : BeforeMethod(k, q, l)
  BY <1>1, PlaceIs DEF Places
<1>3. PICK n : n = q + 1
  OBVIOUS
<1> DEFINE c == program[k]
<1>4. /\ Inside(phase, program, agenda, table, errors, k, q) /\ q # Len(Members(phase, program, k))
      /\ l \in DOMAIN c.methods /\ node = c.methods[l] /\ n = Len(c.fields) + l
  BY <1>1, <1>2, <1>3 DEF BeforeMethod, IsMethodOf, node
<1>5. /\ k \in 1 .. Len(program) /\ table.current = ClassScope(c) /\ q \in Nat
      /\ Content(table.scopes, program, k, 0 .. q, 0, Nat)
  BY <1>1, <1>4 DEF Inside, Known, ClassScope
<1>6. k \in 2 .. Len(program) /\ k > 1
  <2>1. k \in 2 .. Len(program)
    BY <1>1, <1>4, InsideHead
  <2> QED  BY <2>1
<1>7. DOMAIN Record(table, Current(table).record).methods = DOMAIN table.scopes[table.current].methods
  BY <1>1, <1>5, ClassRecordIs DEF ClassScope
<1>8. IsSequence(c.fields) /\ IsSequence(c.methods)
  BY <1>1, <1>6, Program DEF AreNamed
<1>9. ClassDeclared(table.scopes, c, 0 .. q, 0, Nat)
  BY <1>5, <1>6 DEF Content
<1> HIDE DEF c
<1>10. c.methods[l].id \in {c.methods[i].id : i \in MethodsIn(c, 0 .. q)}
  BY <1>4, <1>5, <1>7, <1>9 DEF ClassDeclared
<1>11. PICK j \in MethodsIn(c, 0 .. q) : c.methods[j].id = c.methods[l].id
  BY <1>10
<1>12. j \in DOMAIN c.methods /\ j < l
  <2>1. /\ j \in DOMAIN c.methods /\ Len(c.fields) + j \in 0 .. q
        /\ Len(c.fields) \in Nat /\ DOMAIN c.methods \subseteq Nat
    BY <1>8 DEF MethodsIn, IsSequence
  <2> QED  BY <1>3, <1>4, <1>5, <2>1
<1>13. Repeats(c.methods) # {}
  BY <1>4, <1>8, <1>11, <1>12, RepeatFound
<1> QED  BY <1>1, <1>6, <1>13, RepeatIsDuplicate DEF c

\* A parameter or a local variable.
LEMMA LocalTaken ==
  ASSUME Walking, phase = "declare", errors = {}, NEW k, NEW q, NEW p, BeforeLocal(k, q, p),
         node.id \in DOMAIN Current(table).variables
  PROVE  DuplicateLines # {}
<1>1. program \in Programs
  BY DEF Walking
<1>2. PICK n, l : Declaring(k, q, p, n, l)
  BY DeclaringIs
<1> DEFINE c == program[k]
           m == c.methods[l]
           s == Locals(m)
<1>3. /\ k \in 2 .. Len(program) /\ k > 1 /\ l \in DOMAIN c.methods /\ q = Len(c.fields) + l
      /\ q \in Nat /\ p \in Nat /\ n = p + 1 /\ n \in DOMAIN s /\ node = s[n]
      /\ table.current = MethodScope(c, m)
      /\ Content(table.scopes, program, k, 0 .. q, q, 0 .. p)
  BY <1>2 DEF Declaring, IsLocal, node
<1>4. ClassDeclared(table.scopes, c, 0 .. q, q, 0 .. p)
  BY <1>3 DEF Content
<1>5. l \in MethodsIn(c, 0 .. q)
  BY <1>3 DEF MethodsIn
<1>6. MethodDeclared(table.scopes, c, m, 0 .. p)
  <2>1. MethodDeclared(table.scopes, c, c.methods[l], IF Len(c.fields) + l = q THEN 0 .. p ELSE Nat)
    BY <1>4, <1>5 DEF ClassDeclared
  <2> QED  BY <1>3, <2>1
<1>7. VariablesAre(table.scopes[table.current].variables, {}, s, 0 .. p)
  BY <1>3, <1>6 DEF MethodDeclared
<1>8. AreNamed(s)
  BY <1>1, <1>3, LocalsAreNamed
<1> HIDE DEF s
<1>9. VariablesAre(table.scopes[table.current].variables, {}, s, 0 .. n - 1)
  <2>1. n - 1 = p
    BY <1>3
  <2> QED  BY <1>7, <2>1
<1>10. Repeats(s) # {}
  <2>1. IsSequence(s) /\ IsName(s[n].id) /\ s[n].id \in DOMAIN table.scopes[table.current].variables
    BY <1>3, <1>8 DEF AreNamed, Current
  <2> QED  BY <1>3, <1>9, <2>1, NameTaken
<1> QED  BY <1>1, <1>3, <1>10, RepeatIsDuplicate DEF s

LEMMA FieldTaken ==
  ASSUME Walking, phase = "declare", errors = {}, agenda # <<>>, NEW k, NEW q, BeforeField(k, q),
         node.id \in DOMAIN Current(table).variables
  PROVE  DuplicateLines # {}
<1>1. program \in Programs /\ phase \in Traversals
  BY DEF Walking
<1>2. PICK n : n = q + 1
  OBVIOUS
<1> DEFINE c == program[k]
           s == c.fields
<1>3. /\ Inside(phase, program, agenda, table, errors, k, q) /\ q # Len(Members(phase, program, k))
      /\ n \in DOMAIN s /\ node = s[n]
  BY <1>2 DEF BeforeField, IsField, node
<1>4. table.current = ClassScope(c) /\ q \in Nat /\ Content(table.scopes, program, k, 0 .. q, 0, Nat)
  BY <1>1, <1>3 DEF Inside, Known, ClassScope
<1>5. k \in 2 .. Len(program) /\ k > 1
  <2>1. k \in 2 .. Len(program)
    BY <1>1, <1>3, InsideHead
  <2> QED  BY <2>1
<1>6. VariablesAre(table.scopes[table.current].variables, {This}, s, 0 .. q)
  BY <1>4, <1>5 DEF Content, ClassDeclared
<1>7. AreNamed(s)
  BY <1>1, <1>5, Program
<1> HIDE DEF s
<1>8. VariablesAre(table.scopes[table.current].variables, {This}, s, 0 .. n - 1)
  <2>1. n - 1 = q
    BY <1>2, <1>4
  <2> QED  BY <1>6, <2>1
<1>9. Repeats(s) # {}
  <2>1. IsSequence(s) /\ IsName(s[n].id) /\ s[n].id \in DOMAIN table.scopes[table.current].variables
    BY <1>3, <1>7 DEF AreNamed, Current
  <2> QED  BY <1>3, <1>8, <2>1, NameTaken
<1> QED  BY <1>1, <1>5, <1>9, RepeatIsDuplicate DEF s

\* What the declarations refuse first is a duplicate.
LEMMA RefusedIsDuplicate ==
  ASSUME Walking, Declare, errors = {}, errors' # {}
  PROVE  DuplicateLines # {}
<1>1. CASE DeclareClass
  BY <1>1, ClassRefused DEF DeclareClass, Enters
<1>2. CASE DeclareMain
  BY <1>2 DEF DeclareMain, Enters
<1>3. CASE DeclareMethod
  BY <1>3, MethodRefused DEF DeclareMethod, Enters
<1>4. CASE DeclareParameter
  <2>1. /\ phase = "declare" /\ agenda # <<>> /\ Head(agenda).kind = "parameter"
        /\ node.id \in DOMAIN Current(table).variables
    BY <1>4, FieldByName DEF DeclareParameter, Doing, Enters, InScope
  <2>2. PICK k, q, p : BeforeLocal(k, q, p)
    BY <2>1, PlaceIs DEF Places
  <2> QED  BY <2>1, <2>2, LocalTaken
<1>5. CASE DeclareVariable
  <2>1. /\ phase = "declare" /\ agenda # <<>> /\ Head(agenda).kind = "variable"
        /\ node.id \in DOMAIN Current(table).variables
    BY <1>5, FieldByName DEF DeclareVariable, Doing, Enters, Taken, InScope
  <2>2. (\E k, q : BeforeField(k, q)) \/ (\E k, q, p : BeforeLocal(k, q, p))
    BY <2>1, PlaceIs DEF Places
  <2> QED  BY <2>1, <2>2, FieldTaken, LocalTaken
<1> QED  BY <1>1, <1>2, <1>3, <1>4, <1>5 DEF Declare

\* The errors of each pass, and what a refusal says of the program.
Judged ==
  /\ phase = "declare" => (\A e \in errors : e.why = "duplicate")
  /\ phase = "declare" /\ errors # {} => DuplicateLines # {}
  /\ phase # "declare" /\ LinesRefused("duplicate") # {} => DuplicateLines # {}
  /\ phase = "rejected" /\ LinesRefused("duplicate") = {} => Complete(table.scopes, program)

\* What is new is refused for that reason.
RefusedWith(why) == \A e \in errors' : e \in errors \/ e.why = why

LEMMA RefusedFor ==
  ASSUME NEW why, Refuse(why)
  PROVE  RefusedWith(why)
  BY DEF Refuse, RefusedWith

LEMMA JudgedStep ==
  ASSUME Kept, Judged, [Next]_vars
  PROVE  Judged'
<1>1. program' = program
  BY DEF Next, Declare, DeclareClass, DeclareMain, DeclareMethod, DeclareParameter, DeclareVariable,
         Check, CheckClass, CheckMain, CheckMethod, CheckVariable, CheckUse,
         Generate, GenerateClass, GenerateMain, GenerateMethod, GenerateUse, EmitMethod,
         LeaveScope, NextPass, Reject, Ended, Semantic, vars
<1>2. DuplicateLines' = DuplicateLines
  BY <1>1 DEF DuplicateLines, ClassNodes
<1>3. CASE Declare
  <2>1. /\ phase = "declare" /\ phase' = phase
        /\ \A e \in errors' : e \in errors \/ e.why = "duplicate"
    BY <1>3 DEF Declare, DeclareClass, DeclareMain, DeclareMethod, DeclareParameter, DeclareVariable,
                Doing, Semantic, Enters, Refuse
  <2>2. Walking
    BY <2>1 DEF Kept, Traversals
  <2>3. errors' # {} => DuplicateLines # {}
    BY <1>3, <2>1, <2>2, RefusedIsDuplicate DEF Judged
  <2> QED  BY <1>2, <2>1, <2>3 DEF Judged
<1>4. CASE Check
  <2>0. phase = "check" /\ phase' = phase
    BY <1>4 DEF Check, CheckClass, CheckMain, CheckMethod, CheckVariable, CheckUse, Doing, Semantic
  <2>1. \A e \in errors' : e \in errors \/ e.why # "duplicate"
    <3>1. \/ errors' = errors
          \/ Refuse("unknown type")
          \/ Refuse("undeclared")
      BY <1>4 DEF Check, CheckClass, CheckMain, CheckMethod, CheckVariable, CheckUse, Enters
    <3>2. CASE Refuse("unknown type")
      <4>1. RefusedWith("unknown type")
        BY <3>2, RefusedFor, Zenon
      <4> QED  BY <4>1 DEF RefusedWith
    <3>3. CASE Refuse("undeclared")
      <4>1. RefusedWith("undeclared")
        BY <3>3, RefusedFor, Zenon
      <4> QED  BY <4>1 DEF RefusedWith
    <3> QED  BY <3>1, <3>2, <3>3
  <2>2. LinesRefused("duplicate")' # {} => LinesRefused("duplicate") # {}
    BY <2>1 DEF LinesRefused
  <2> QED  BY <1>2, <2>0, <2>2 DEF Judged
<1>5. CASE Generate \/ EmitMethod \/ LeaveScope
  <2>1. phase' = phase /\ errors' = errors /\ phase # "rejected"
    BY <1>5 DEF Generate, GenerateClass, GenerateMain, GenerateMethod, GenerateUse, EmitMethod,
                LeaveScope, Doing, Semantic, Enters
  <2> QED  BY <1>2, <2>1 DEF Judged, LinesRefused
<1>6. CASE NextPass
  <2>1. errors = {} /\ errors' = errors /\ phase' \in {"check", "generate", "emit", "done"}
    <3>1. PICK i \in 1 .. Len(Passes) - 1 : Starts(Passes[i + 1])
      BY <1>6 DEF NextPass
    <3>2. i + 1 \in {2, 3, 4, 5}
      BY DEF Passes
    <3>3. Passes[i + 1] \in {"check", "generate", "emit", "done"}
      BY <3>2 DEF Passes
    <3> QED  BY <1>6, <3>1, <3>3 DEF NextPass, Starts
  <2> QED  BY <2>1 DEF Judged, LinesRefused
<1>7. CASE Reject
  <2>1. /\ agenda = <<>> /\ errors # {} /\ phase \in {"declare", "check"} /\ phase' = "rejected"
        /\ errors' = errors /\ table' = table
    BY <1>7 DEF Reject
  <2>2. CASE phase = "declare"
    <3>1. LinesRefused("duplicate") # {}
      BY <2>1, <2>2 DEF Judged, LinesRefused
    <3> QED  BY <1>2, <2>1, <2>2, <3>1 DEF Judged, LinesRefused
  <2>3. CASE phase = "check"
    <3>1. Complete(table.scopes, program)
      BY <2>3, WalkingComplete DEF Kept, Traversals
    <3> QED  BY <1>1, <1>2, <2>1, <2>3, <3>1 DEF Judged, LinesRefused
  <2> QED  BY <2>1, <2>2, <2>3
<1>8. CASE Ended \/ UNCHANGED vars
  <2>1. phase' = phase /\ errors' = errors /\ table' = table
    BY <1>8 DEF Ended, vars
  <2> QED  BY <1>1, <1>2, <2>1 DEF Judged, LinesRefused
<1> QED  BY <1>3, <1>4, <1>5, <1>6, <1>7, <1>8 DEF Next

LEMMA AlwaysJudged == Spec => [](Kept /\ Judged)
<1>1. Init => Judged
  BY DEF Init, Judged
<1>2. Kept /\ Judged /\ [Next]_vars => Judged'
  BY JudgedStep
<1> QED  BY <1>1, <1>2, AlwaysKept, PTL DEF Spec

\* Whoever goes on holds the whole program in the table.
LEMMA AcceptedComplete ==
  ASSUME Kept, Judged, phase # "declare", LinesRefused("duplicate") = {}
  PROVE  Complete(table.scopes, program)
<1>1. CASE phase \in {"check", "generate"}
  BY <1>1, WalkingComplete DEF Kept, Traversals
<1>2. CASE phase \in {"emit", "done"}
  BY <1>2 DEF Kept, Settled
<1> QED  BY <1>1, <1>2 DEF Kept, Judged, Traversals

\* A program is refused for a duplicate if and only if it has one: the look-ups
\* of SymbolTableVisitor find a name exactly where it was declared before, in
\* the same scope, and nothing else of the program is taken for it.
THEOREM Duplicates == Spec => []DuplicatesRejected
<1>1. ASSUME Kept, Judged
      PROVE  DuplicatesRejected
  <2>1. CASE phase # "declare" /\ LinesRefused("duplicate") = {}
    <3>1. program \in Programs /\ Complete(table.scopes, program)
      BY <1>1, <2>1, AcceptedComplete DEF Kept
    <3>2. DuplicateLines = {}
      BY <3>1, CompleteDiffers
    <3> QED  BY <2>1, <3>2 DEF DuplicatesRejected
  <2>2. CASE phase # "declare" /\ LinesRefused("duplicate") # {}
    BY <1>1, <2>2 DEF Judged, DuplicatesRejected
  <2> QED  BY <2>1, <2>2 DEF DuplicatesRejected
<1> QED  BY <1>1, AlwaysJudged, PTL

-----------------------------------------------------------------------------
(***************************************************************************)
(* Types, and the scopes that are open.                                    *)
(***************************************************************************)
LEMMA FromOf ==
  ASSUME NEW S, NEW s \in Seq(S), NEW i \in 1 .. Len(s) + 1
  PROVE  /\ From(s, i) \in Seq(S)
         /\ \A j \in DOMAIN From(s, i) : \E k \in 1 .. Len(s) : From(s, i)[j] = s[k]
<1> DEFINE f == From(s, i)
<1>1. f \in Seq(S) /\ Len(f) = Len(s) - i + 1 /\ \A j \in 1 .. Len(s) - i + 1 : f[j] = s[i + j - 1]
  BY DEF From
<1> HIDE DEF f
<1>2. ASSUME NEW j \in DOMAIN f
      PROVE  \E k \in 1 .. Len(s) : f[j] = s[k]
  <2>0. DOMAIN f = 1 .. Len(f)
    BY <1>1, LenProperties
  <2>1. j \in 1 .. Len(s) - i + 1
    BY <1>1, <2>0
  <2>2. i + j - 1 \in 1 .. Len(s)
    BY <2>1, LenProperties
  <2>3. f[j] = s[i + j - 1]
    BY <1>1, <2>1
  <2> QED  BY <2>2, <2>3
<1> QED  BY <1>1, <1>2 DEF f

\* Every task left is for a root.
LEMMA RootsOnly ==
  ASSUME Kept, phase = "emit"
  PROVE  \A i \in DOMAIN agenda : agenda[i].kind = "root"
<1> DEFINE s == Tasks("root", roots)
           n == Len(emitted)
<1>1. /\ Lists(roots) /\ Lists(emitted) /\ n <= Len(roots) /\ agenda = From(s, n + 1)
  BY DEF Kept, Rooted, Settled
<1>2. n \in Nat /\ Len(roots) \in Nat /\ DOMAIN roots = 1 .. Len(roots)
  BY <1>1 DEF Lists
<1>3. s = [i \in 1 .. Len(roots) |-> Task("root", roots[i])]
  BY <1>2 DEF Tasks
<1>4. \A i \in 1 .. Len(roots) : s[i].kind = "root"
  BY <1>3 DEF Task
<1> DEFINE U == {s[i] : i \in 1 .. Len(roots)}
<1>5. \A i \in 1 .. Len(roots) : s[i] \in U
  OBVIOUS
<1> HIDE DEF U, s
<1>6. s \in Seq(U) /\ Len(s) = Len(roots)
  BY <1>2, <1>3, <1>5
<1> HIDE DEF n
<1>7. n + 1 \in 1 .. Len(s) + 1
  <2> DEFINE d == Len(roots)
  <2>1. d \in Nat /\ n <= d /\ Len(s) = d
    BY <1>1, <1>2, <1>6
  <2> HIDE DEF d
  <2> QED  BY <1>2, <2>1
<1>8. \A j \in DOMAIN From(s, n + 1) : \E k \in 1 .. Len(s) : From(s, n + 1)[j] = s[k]
  BY <1>6, <1>7, FromOf, ZenonT(60)
<1> QED  BY <1>1, <1>4, <1>6, <1>8

LEMMA ScopesTyped ==
  ASSUME NEW t, Tree(t), NEW path \in DOMAIN t.scopes, path # Root
  PROVE  LET ref == t.scopes[path].record IN
         /\ ref.kind = (IF Len(path) = 1 THEN "classes" ELSE "methods")
         /\ ref.path = Parent(path)
         /\ ref.id \in DOMAIN t.scopes[ref.path][ref.kind]
<1> DEFINE ref == t.scopes[path].record
<1>1. ASSUME NEW id, ClassAt(t, path, id)
      PROVE  /\ ref.kind = (IF Len(path) = 1 THEN "classes" ELSE "methods")
             /\ ref.path = Parent(path)
             /\ ref.id \in DOMAIN t.scopes[ref.path][ref.kind]
  <2>1. /\ path = <<ClassStep(id)>> /\ ref = [path |-> Root, kind |-> "classes", id |-> id]
        /\ id \in DOMAIN t.scopes[Root].classes
    BY <1>1 DEF ClassAt
  <2>2. Len(path) = 1 /\ Parent(path) = Root
    BY <2>1, PathLengths, PathSteps
  <2>3. t.scopes[Root]["classes"] = t.scopes[Root].classes
    BY FieldByName
  <2> HIDE DEF ref
  <2> QED  BY <2>1, <2>2, <2>3
<1>2. ASSUME NEW class, NEW id, MethodAt(t, path, class, id)
      PROVE  /\ ref.kind = (IF Len(path) = 1 THEN "classes" ELSE "methods")
             /\ ref.path = Parent(path)
             /\ ref.id \in DOMAIN t.scopes[ref.path][ref.kind]
  <2> DEFINE outer == <<ClassStep(class)>>
  <2>1. /\ path = <<ClassStep(class), MethodStep(id)>>
        /\ ref = [path |-> outer, kind |-> "methods", id |-> id]
        /\ id \in DOMAIN t.scopes[outer].methods
    BY <1>2 DEF MethodAt
  <2>2. Len(path) = 2 /\ Parent(path) = outer
    BY <2>1, PathLengths, PathSteps
  <2> HIDE DEF outer
  <2>3. t.scopes[outer]["methods"] = t.scopes[outer].methods
    BY FieldByName
  <2> HIDE DEF ref
  <2> QED  BY <2>1, <2>2, <2>3
<1> QED  BY <1>1, <1>2 DEF Tree

\* Types: the current scope exists; every scope below the root is that of the
\* class or method in whose table its record is, one level up; the pass, the
\* tasks and the counters are what they should be.
THEOREM TypeCorrect == Spec => []TypeOK
<1>1. ASSUME Kept
      PROVE  TypeOK
  <2>1. program \in Programs /\ Tree(table) /\ nextTemp \in Nat /\ Len(emitted) <= Len(roots)
    BY <1>1 DEF Kept, Rooted
  <2>2. phase \in ToSet(Passes) \cup {"rejected"}
    <3>1. DOMAIN Passes = 1 .. 5
      BY DEF Passes
    <3>2. /\ Passes[1] = "declare" /\ Passes[2] = "check" /\ Passes[3] = "generate"
          /\ Passes[4] = "emit" /\ Passes[5] = "done"
      BY DEF Passes
    <3>3. {"declare", "check", "generate", "emit", "done"} \subseteq ToSet(Passes)
      BY <3>1, <3>2 DEF ToSet
    <3> QED  BY <1>1, <3>3 DEF Kept, Traversals
  <2>3. \A t \in ToSet(agenda) : t.kind \in Kinds
    <3>1. CASE phase \in Traversals
      <4>1. agenda \in Seq(AllTasks(program))
        BY <1>1, <3>1, AgendaIs DEF Kept
      <4>2. \A t \in AllTasks(program) : t.kind \in Kinds
        BY DEF AllTasks, Task
      <4> QED  BY <4>1, <4>2 DEF ToSet
    <3>2. CASE phase = "emit"
      BY <1>1, <3>2, RootsOnly DEF ToSet, Kinds
    <3>3. CASE phase \in {"done", "rejected"}
      <4>1. ToSet(agenda) = {}
        BY <1>1, <3>3, EmptyLists DEF Kept, Settled, ToSet
      <4> QED  BY <4>1
    <3> QED  BY <1>1, <3>1, <3>2, <3>3 DEF Kept
  <2>4. \A path \in DOMAIN table.scopes \ {Root} :
          LET ref == table.scopes[path].record IN
          /\ ref.kind = (IF Len(path) = 1 THEN "classes" ELSE "methods")
          /\ ref.path = Parent(path)
          /\ ref.id \in DOMAIN table.scopes[ref.path][ref.kind]
    BY <2>1, ScopesTyped
  <2> QED  BY <2>1, <2>2, <2>3, <2>4 DEF TypeOK, Tree, Kinds
<1> QED  BY <1>1, AlwaysKept, PTL

\* The places of the tasks that leave a scope.
Leaves(s) == {i \in DOMAIN s : s[i].kind = "leave"}

LEMMA LeaveBetween ==
  ASSUME NEW U, NEW a \in Seq(U), NEW b \in Seq(U), Leave \in U, Leaves(a) = {}
  PROVE  LET n == Len(a) + 1 IN
         Leaves(a \o (<<Leave>> \o b)) = {n} \cup {n + i : i \in Leaves(b)}
<1> DEFINE n == Len(a) + 1
           one == <<Leave>>
           c == one \o b
           s == a \o c
<1>1. one \in Seq(U) /\ Len(one) = 1 /\ one[1] = Leave
  OBVIOUS
<1> HIDE DEF one
<1>2. /\ c \in Seq(U) /\ Len(c) = 1 + Len(b)
      /\ \A i \in 1 .. 1 + Len(b) : c[i] = IF i <= 1 THEN one[i] ELSE b[i - 1]
  <2>1. /\ c \in Seq(U) /\ Len(c) = Len(one) + Len(b)
        /\ \A i \in 1 .. Len(one) + Len(b) : c[i] = IF i <= Len(one) THEN one[i] ELSE b[i - Len(one)]
    BY <1>1, ConcatProperties
  <2> HIDE DEF c
  <2> QED  BY <1>1, <2>1
<1> HIDE DEF c
<1>3. /\ s \in Seq(U) /\ Len(s) = Len(a) + Len(c)
      /\ \A i \in 1 .. Len(a) + Len(c) : s[i] = IF i <= Len(a) THEN a[i] ELSE c[i - Len(a)]
  BY <1>2, ConcatProperties
<1> HIDE DEF s
<1>4. DOMAIN s = 1 .. n + Len(b) /\ Len(a) \in Nat /\ Len(b) \in Nat /\ n = Len(a) + 1
  BY <1>2, <1>3
<1>5. Leave.kind = "leave"
  BY DEF Leave, Task
<1>6. \A i \in 1 .. Len(a) : s[i] = a[i] /\ i \notin Leaves(s)
  <2>1. \A i \in 1 .. Len(a) : a[i].kind # "leave"
    BY DEF Leaves
  <2>2. \A i \in 1 .. Len(a) : s[i] = a[i]
    BY <1>2, <1>3, <1>4
  <2> QED  BY <2>1, <2>2 DEF Leaves
<1>7. s[n] = Leave
  <2>1. n \in 1 .. Len(a) + Len(c) /\ ~ (n <= Len(a)) /\ n - Len(a) = 1 /\ 1 \in 1 .. 1 + Len(b)
    BY <1>2, <1>4
  <2>2. s[n] = c[1] /\ c[1] = one[1]
    BY <1>2, <1>3, <2>1
  <2> QED  BY <1>1, <2>2
<1>8. \A i \in 1 .. Len(b) : s[n + i] = b[i]
  <2> SUFFICES ASSUME NEW i \in 1 .. Len(b) PROVE s[n + i] = b[i]
    OBVIOUS
  <2>1. /\ n + i \in 1 .. Len(a) + Len(c) /\ ~ (n + i <= Len(a)) /\ (n + i) - Len(a) = i + 1
        /\ i + 1 \in 1 .. 1 + Len(b) /\ ~ (i + 1 <= 1) /\ (i + 1) - 1 = i
    BY <1>2, <1>4
  <2>2. s[n + i] = c[i + 1]
    BY <1>3, <2>1
  <2> QED  BY <1>2, <2>1, <2>2
<1> HIDE DEF n
<1>9. ASSUME NEW x \in Leaves(s)
      PROVE  x \in {n} \cup {n + i : i \in Leaves(b)}
  <2>1. x \in 1 .. n + Len(b) /\ x \notin 1 .. Len(a) /\ s[x].kind = "leave"
    BY <1>4, <1>6 DEF Leaves
  <2>2. CASE x = n
    BY <2>2
  <2>3. CASE x # n
    <3>1. x - n \in 1 .. Len(b) /\ x = n + (x - n)
      BY <1>4, <2>1, <2>3
    <3>2. x - n \in Leaves(b)
      BY <1>8, <2>1, <3>1 DEF Leaves
    <3> QED  BY <3>1, <3>2
  <2> QED  BY <2>2, <2>3
<1>10. n \in Leaves(s)
  BY <1>4, <1>5, <1>7 DEF Leaves
<1>11. ASSUME NEW i \in Leaves(b)
       PROVE  n + i \in Leaves(s)
  <2>1. i \in 1 .. Len(b) /\ b[i].kind = "leave"
    BY DEF Leaves
  <2>2. n + i \in DOMAIN s /\ s[n + i].kind = "leave"
    BY <1>4, <1>8, <2>1
  <2> QED  BY <2>2 DEF Leaves
<1>12. Leaves(s) = {n} \cup {n + i : i \in Leaves(b)}
  BY <1>9, <1>10, <1>11
<1> QED  BY <1>12 DEF s, c, one, n

LEMMA NoLeaves ==
  ASSUME NEW U, NEW s \in Seq(U), \A i \in 1 .. Len(s) : s[i].kind # "leave",
         NEW i \in 1 .. Len(s) + 1
  PROVE  From(s, i) \in Seq(U) /\ Leaves(From(s, i)) = {}
  BY FromOf DEF Leaves

LEMMA NoScopeOpen ==
  ASSUME Walking, NEW k, Outside(phase, program, agenda, table, errors, k)
  PROVE  Leaves(agenda) = {} /\ Len(table.current) = 0
<1> DEFINE s == Classes(program)
           U == AllTasks(program)
<1>1. /\ s \in Seq(U) /\ Len(s) = Len(program) /\ Len(program) \in Nat
      /\ \A i \in 1 .. Len(program) : s[i].kind = (IF i = 1 THEN "main" ELSE "class")
  BY ClassesAre, Program DEF Walking
<1>2. k \in 0 .. Len(program) /\ agenda = From(s, k + 1) /\ table.current = Root
  BY DEF Outside
<1> HIDE DEF s, U
<1>3. Leaves(From(s, k + 1)) = {}
  <2>1. k + 1 \in 1 .. Len(s) + 1
    BY <1>1, <1>2
  <2>2. \A i \in 1 .. Len(s) : s[i].kind # "leave"
    BY <1>1
  <2> QED  BY <1>1, <2>1, <2>2, NoLeaves
<1> QED  BY <1>2, <1>3, PathLengths

LeavesOnce(s) == \E x \in Nat : Leaves(s) = {x}

\* After a class there is its destructor, and no other.
LEMMA RestLeaves ==
  ASSUME NEW prog \in Programs, NEW pass \in Traversals, NEW k \in 1 .. Len(prog),
         NEW q \in 0 .. Len(Members(pass, prog, k))
  PROVE  LeavesOnce(Rest(pass, prog, k, q))
<1> DEFINE s == Members(pass, prog, k)
           cs == Classes(prog)
           U == AllTasks(prog)
           a == From(s, q + 1)
           b == From(cs, k + 1)
<1>1. s \in Seq(U) /\ \A i \in 1 .. Len(s) : s[i].kind # "leave"
  <2>1. s \in Seq(U)
    BY MembersAre
  <2>2. \A i \in 1 .. Len(s) : IsField(pass, prog[k], i, s[i]) \/ \E l : IsMethodOf(pass, prog[k], i, s[i], l)
    BY MembersAre
  <2>3. \A i \in 1 .. Len(s) : s[i].kind \in {"variable", "method"}
    <3> HIDE DEF s
    <3> QED  BY <2>2 DEF IsField, IsMethodOf
  <2> HIDE DEF s
  <2> QED  BY <2>1, <2>3
<1>2. cs \in Seq(U) /\ Len(cs) = Len(prog) /\ \A i \in 1 .. Len(cs) : cs[i].kind # "leave"
  <2>1. /\ cs \in Seq(U) /\ Len(cs) = Len(prog)
        /\ \A i \in 1 .. Len(prog) : cs[i].kind = (IF i = 1 THEN "main" ELSE "class")
    BY ClassesAre
  <2> HIDE DEF cs
  <2> QED  BY <2>1
<1>3. Len(prog) \in Nat /\ q \in 0 .. Len(s)
  BY Program
<1>4. Leave \in U
  BY InAllTasks DEF Leave, Kinds, Task
<1>5. Rest(pass, prog, k, q) = a \o (<<Leave>> \o b)
  BY DEF Rest
<1> HIDE DEF s, cs, U
<1>6. a \in Seq(U) /\ Leaves(a) = {}
  <2>1. q + 1 \in 1 .. Len(s) + 1
    BY <1>1, <1>3
  <2> QED  BY <1>1, <2>1, NoLeaves
<1>7. b \in Seq(U) /\ Leaves(b) = {}
  <2>1. k + 1 \in 1 .. Len(cs) + 1
    BY <1>2, <1>3
  <2> QED  BY <1>2, <2>1, NoLeaves
<1> HIDE DEF a, b
<1>8. Leaves(a \o (<<Leave>> \o b)) = {Len(a) + 1} \cup {(Len(a) + 1) + i : i \in Leaves(b)}
  BY <1>4, <1>6, <1>7, LeaveBetween
<1>9. Leaves(a \o (<<Leave>> \o b)) = {Len(a) + 1} /\ Len(a) + 1 \in Nat
  BY <1>6, <1>7, <1>8
<1> QED  BY <1>5, <1>9 DEF LeavesOnce

\* As many scopes are open as will be left, whatever was refused on the way:
\* the guards that leave a scope and the early returns that come before them
\* are in step, and each pass starts and ends at the root.
THEOREM Balanced == Spec => []ScopesBalanced
<1>1. ASSUME Kept
      PROVE  Len(table.current) = Cardinality(Leaves(agenda))
  <2>1. CASE phase \in Traversals
    <3>1. Walking /\ program \in Programs
      BY <1>1, <2>1 DEF Kept
    <3>2. ASSUME NEW k, Outside(phase, program, agenda, table, errors, k)
          PROVE  Len(table.current) = Cardinality(Leaves(agenda))
      BY <3>1, <3>2, NoScopeOpen, FS_EmptySet
    <3>3. ASSUME NEW k, NEW q, Inside(phase, program, agenda, table, errors, k, q)
          PROVE  Len(table.current) = Cardinality(Leaves(agenda))
      <4>1. /\ k \in 1 .. Len(program) /\ q \in 0 .. Len(Members(phase, program, k))
            /\ table.current = <<ClassStep(program[k].id)>> /\ agenda = Rest(phase, program, k, q)
        BY <3>3 DEF Inside
      <4>0. LeavesOnce(Rest(phase, program, k, q))
        BY <2>1, <3>1, <4>1, RestLeaves, Zenon
      <4>2. PICK x : Leaves(agenda) = {x}
        BY <4>0, <4>1 DEF LeavesOnce
      <4>3. Len(table.current) = 1
        BY <4>1, PathLengths
      <4> QED  BY <4>2, <4>3, FS_Singleton
    <3>4. ASSUME NEW k, NEW q, NEW p, Within(phase, program, agenda, table, errors, k, q, p)
          PROVE  Len(table.current) = Cardinality(Leaves(agenda))
      <4> DEFINE s == BodyAt(phase, program, k, q)
                 a == From(s, p + 1)
                 r == Rest(phase, program, k, q)
                 U == AllTasks(program)
      <4>1. /\ k \in 1 .. Len(program) /\ q \in 0 .. Len(Members(phase, program, k))
            /\ Begun(phase, program, k, q) /\ p \in 0 .. Len(s)
            /\ table.current = <<ClassStep(program[k].id), MethodStep(NameAt(phase, program, k, q))>>
            /\ agenda = a \o (<<Leave>> \o r)
        BY <3>4 DEF Within
      <4>2. s \in Seq(U) /\ \A i \in 1 .. Len(s) : s[i].kind \in InBody(phase)
        BY <2>1, <3>1, <4>1, BodyAtIs
      <4>3. r \in Seq(U)
        BY <2>1, <3>1, <4>1, RestIs
      <4>0. LeavesOnce(r)
        BY <2>1, <3>1, <4>1, RestLeaves, Zenon
      <4>4. PICK x \in Nat : Leaves(r) = {x}
        BY <4>0 DEF LeavesOnce
      <4>5. Leave \in U
        BY <3>1, InAllTasks DEF Leave, Kinds, Task
      <4> HIDE DEF s, r, U
      <4>6. a \in Seq(U) /\ Leaves(a) = {}
        <5>1. p + 1 \in 1 .. Len(s) + 1
          BY <4>1, <4>2
        <5>2. \A i \in 1 .. Len(s) : s[i].kind # "leave"
          BY <4>2 DEF InBody
        <5> QED  BY <4>2, <5>1, <5>2, NoLeaves
      <4> HIDE DEF a
      <4>7. Leaves(a \o (<<Leave>> \o r)) = {Len(a) + 1} \cup {(Len(a) + 1) + i : i \in Leaves(r)}
        BY <4>3, <4>5, <4>6, LeaveBetween
      <4>8. PICK n \in Nat : Leaves(agenda) = {n} \cup {n + i : i \in {x}} /\ x \in 1 .. Len(r)
        <5>1. Len(a) + 1 \in Nat
          BY <4>6
        <5>2. x \in Leaves(r)
          BY <4>4
        <5>3. x \in 1 .. Len(r)
          BY <4>3, <5>2 DEF Leaves
        <5> QED  BY <4>1, <4>4, <4>7, <5>1, <5>3
      <4>9. Leaves(agenda) = {n} \cup {n + x} /\ n + x \notin {n}
        BY <4>3, <4>8
      <4>10. Cardinality(Leaves(agenda)) = 2
        <5>1. IsFiniteSet({n}) /\ Cardinality({n}) = 1
          BY FS_Singleton
        <5>2. Cardinality({n} \cup {n + x}) = Cardinality({n}) + 1
          BY <4>9, <5>1, FS_AddElement
        <5> QED  BY <4>9, <5>1, <5>2
      <4>11. Len(table.current) = 2
        BY <4>1, PathLengths
      <4> QED  BY <4>10, <4>11
    <3> QED  BY <3>1, <3>2, <3>3, <3>4 DEF Walking, Situated
  <2>2. CASE phase \in {"emit", "done", "rejected"}
    <3>1. Len(table.current) = 0
      BY <1>1, <2>2, PathLengths DEF Kept, Settled
    <3>2. Leaves(agenda) = {}
      <4>1. CASE phase = "emit"
        BY <1>1, <4>1, RootsOnly DEF Leaves
      <4>2. CASE phase \in {"done", "rejected"}
        BY <1>1, <4>2, EmptyLists DEF Kept, Settled, Leaves
      <4> QED  BY <2>2, <4>1, <4>2
    <3> QED  BY <3>1, <3>2, FS_EmptySet
  <2> QED  BY <1>1, <2>1, <2>2 DEF Kept
<1>2. Kept => ScopesBalanced
  BY <1>1 DEF ScopesBalanced, Leaves
<1> QED  BY <1>2, AlwaysKept, PTL

-----------------------------------------------------------------------------
(***************************************************************************)
(* The table is the program.                                               *)
(***************************************************************************)
LEMMA PathsAre ==
  ASSUME NEW c, NEW m
  PROVE  /\ ClassPath(c) = ClassScope(c) /\ MethodPath(c, m) = MethodScope(c, m)
         /\ MainPath = MainScopeOf(program[1]) /\ Parent(MainPath) = ClassScope(program[1])
<1>1. ClassPath(c) = ClassScope(c)
  BY DEF ClassPath, ClassScope, ClassStep
<1>2. MethodPath(c, m) = MethodScope(c, m)
  <2>1. Append(<<ClassStep(c.id)>>, MethodStep(m.id)) = <<ClassStep(c.id), MethodStep(m.id)>>
    BY PathSteps
  <2> QED  BY <2>1 DEF MethodPath, ClassPath, MethodScope, ClassStep, MethodStep
<1>3. MainPath = MainScopeOf(program[1])
  BY DEF MainPath, MainScopeOf, ClassStep, MethodStep
<1>4. Parent(MainScopeOf(program[1])) = ClassScope(program[1])
  BY PathSteps DEF MainScopeOf, ClassScope
<1> QED  BY <1>1, <1>2, <1>3, <1>4

\* The type of a node, when no other has its identifier.
LEMMA TypesAre ==
  ASSUME NEW nodes, IsSequence(nodes), Different(nodes, Nat)
  PROVE  /\ DOMAIN Types(nodes) = {nodes[i].id : i \in DOMAIN nodes}
         /\ \A i \in DOMAIN nodes : Types(nodes)[nodes[i].id] = nodes[i].type
<1>1. DOMAIN nodes \subseteq Nat
  BY DEF IsSequence
<1>2. ASSUME NEW i \in DOMAIN nodes
      PROVE  Types(nodes)[nodes[i].id] = nodes[i].type
  <2> DEFINE n == CHOOSE n \in ToSet(nodes) : n.id = nodes[i].id
  <2>1. nodes[i] \in ToSet(nodes)
    BY DEF ToSet
  <2>2. n \in ToSet(nodes) /\ n.id = nodes[i].id
    BY <2>1
  <2>3. nodes[i].id \in Ids(nodes)
    BY DEF Ids
  <2>4. Types(nodes)[nodes[i].id] = n.type
    BY <2>3 DEF Types
  <2> HIDE DEF n
  <2>5. PICK j \in DOMAIN nodes : n = nodes[j]
    BY <2>2 DEF ToSet
  <2>6. j = i
    BY <1>1, <2>2, <2>5 DEF Different
  <2> QED  BY <2>4, <2>5, <2>6
<1> QED  BY <1>2 DEF Types, Ids

LEMMA WrittenIs ==
  ASSUME NEW path
  PROVE  /\ DOMAIN Written(path) = Names(table.scopes[path].variables)
         /\ \A id \in Names(table.scopes[path].variables) :
              Written(path)[id] = table.scopes[path].variables[id]
         /\ Written(path) = [id \in DOMAIN Written(path) |-> Written(path)[id]]
  BY DEF Written, Names

\* All the nodes that a scope was declared with are there, with their types.
LEMMA LocalsWritten ==
  ASSUME NEW path, NEW nodes, IsSequence(nodes), Different(nodes, Nat),
         VariablesAre(table.scopes[path].variables, {}, nodes, Nat)
  PROVE  Written(path) = Types(nodes)
<1> DEFINE w == Written(path)
           t == Types(nodes)
<1>1. DOMAIN nodes \cap Nat = DOMAIN nodes
  <2>1. DOMAIN nodes \subseteq Nat
    BY DEF IsSequence
  <2> QED  BY <2>1
<1>2. /\ Names(table.scopes[path].variables) = {nodes[i].id : i \in DOMAIN nodes}
      /\ \A i \in DOMAIN nodes : table.scopes[path].variables[nodes[i].id] = nodes[i].type
  BY <1>1 DEF VariablesAre
<1>3. /\ DOMAIN t = {nodes[i].id : i \in DOMAIN nodes}
      /\ \A i \in DOMAIN nodes : t[nodes[i].id] = nodes[i].type
  BY TypesAre
<1>4. t = [id \in DOMAIN t |-> t[id]]
  BY DEF Types
<1>5. /\ DOMAIN w = {nodes[i].id : i \in DOMAIN nodes}
      /\ \A i \in DOMAIN nodes : w[nodes[i].id] = nodes[i].type
      /\ w = [id \in DOMAIN w |-> w[id]]
  BY <1>2, WrittenIs, ZenonT(40)
<1> HIDE DEF w, t
<1>6. w = t
  BY <1>3, <1>4, <1>5
<1> QED  BY <1>6 DEF w, t

LEMMA FieldsWritten ==
  ASSUME NEW path, NEW nodes, AreNamed(nodes), Different(nodes, Nat), NEW type,
         VariablesAre(table.scopes[path].variables, {This}, nodes, Nat),
         table.scopes[path].variables[This] = type
  PROVE  Written(path) = Emplace(Types(nodes), This, type)
<1> DEFINE w == Written(path)
           t == Types(nodes)
           e == Emplace(t, This, type)
<1>1. IsSequence(nodes) /\ \A i \in DOMAIN nodes : nodes[i].id # This
  BY DEF AreNamed, IsName
<1>2. DOMAIN nodes \cap Nat = DOMAIN nodes
  <2>1. DOMAIN nodes \subseteq Nat
    BY <1>1 DEF IsSequence
  <2> QED  BY <2>1
<1>3. /\ Names(table.scopes[path].variables) = {This} \cup {nodes[i].id : i \in DOMAIN nodes}
      /\ \A i \in DOMAIN nodes : table.scopes[path].variables[nodes[i].id] = nodes[i].type
  BY <1>2 DEF VariablesAre
<1>4. /\ DOMAIN t = {nodes[i].id : i \in DOMAIN nodes}
      /\ \A i \in DOMAIN nodes : t[nodes[i].id] = nodes[i].type
  BY <1>1, TypesAre
<1>5. /\ DOMAIN w = {This} \cup {nodes[i].id : i \in DOMAIN nodes}
      /\ \A i \in DOMAIN nodes : w[nodes[i].id] = nodes[i].type
      /\ w[This] = type
      /\ w = [id \in DOMAIN w |-> w[id]]
  BY <1>3, WrittenIs, ZenonT(40)
<1> HIDE DEF w, t
<1>6. e = [id \in DOMAIN t \cup {This} |-> IF id \in DOMAIN t THEN t[id] ELSE type]
  BY DEF Emplace
<1> HIDE DEF e
<1>7. /\ DOMAIN e = DOMAIN w /\ e[This] = type
      /\ \A i \in DOMAIN nodes : e[nodes[i].id] = nodes[i].type
      /\ e = [id \in DOMAIN e |-> e[id]]
  BY <1>1, <1>4, <1>5, <1>6
<1>8. w = e
  BY <1>5, <1>7
<1> QED  BY <1>8 DEF w, t, e

\* Whose scopes there are.
LEMMA ScopesAreProgram ==
  ASSUME program \in Programs, Complete(table.scopes, program), Root \in DOMAIN table.scopes
  PROVE  DOMAIN table.scopes =
           {Root, Parent(MainPath), MainPath} \cup {ClassPath(c) : c \in ClassNodes}
             \cup UNION {{MethodPath(c, m) : m \in ToSet(c.methods)} : c \in ClassNodes}
<1> DEFINE D == DOMAIN table.scopes
           base == {Root, Parent(MainPath), MainPath}
           classes == {ClassPath(c) : c \in ClassNodes}
           methods == UNION {{MethodPath(c, m) : m \in ToSet(c.methods)} : c \in ClassNodes}
<1>1. /\ Len(program) \in Nat /\ Len(program) # 0 /\ 1 \in 1 .. Len(program)
      /\ \A i \in 2 .. Len(program) : i \in 1 .. Len(program)
  BY Program
<1>2. /\ \A k \in 1 .. Len(program) : ClassScope(program[k]) \in D
      /\ MainScopeOf(program[1]) \in D
      /\ \A k \in 2 .. Len(program) : \A l \in DOMAIN program[k].methods :
           MethodScope(program[k], program[k].methods[l]) \in D
  BY CompleteScopes DEF HasScopes
<1>3. MainPath = MainScopeOf(program[1]) /\ Parent(MainPath) = ClassScope(program[1])
  BY PathsAre
<1>4. ASSUME NEW path \in D
      PROVE  path \in base \cup classes \cup methods
  <2>1. Explained(program, Len(program), path)
    BY CompleteIs
  <2>2. CASE path = Root \/ path \in {ClassScope(program[1]), MainScopeOf(program[1])}
    BY <1>3, <2>2
  <2>3. ASSUME NEW i \in 2 .. Len(program), path = ClassScope(program[i])
        PROVE  path \in classes
    <3>1. program[i] \in ClassNodes /\ path = ClassPath(program[i])
      BY <2>3, ClassNodesAre, PathsAre
    <3> QED  BY <3>1
  <2>4. ASSUME NEW i \in 2 .. Len(program), NEW l \in DOMAIN program[i].methods,
               path = MethodScope(program[i], program[i].methods[l])
        PROVE  path \in methods
    <3>1. /\ program[i] \in ClassNodes /\ program[i].methods[l] \in ToSet(program[i].methods)
          /\ path = MethodPath(program[i], program[i].methods[l])
      BY <2>4, ClassNodesAre, PathsAre DEF ToSet
    <3> QED  BY <3>1
  <2> HIDE DEF base, classes, methods
  <2>5. base \subseteq base \cup classes \cup methods
    OBVIOUS
  <2> QED  BY <2>1, <2>2, <2>3, <2>4 DEF Explained, base
<1>5. base \subseteq D
  BY <1>1, <1>2, <1>3
<1>6. classes \subseteq D
  <2> SUFFICES ASSUME NEW c \in ClassNodes PROVE ClassPath(c) \in D
    OBVIOUS
  <2>1. PICK k \in 2 .. Len(program) : c = program[k]
    BY ClassNodesAre
  <2> QED  BY <1>1, <1>2, <2>1, PathsAre
<1>7. methods \subseteq D
  <2> SUFFICES ASSUME NEW c \in ClassNodes, NEW m \in ToSet(c.methods) PROVE MethodPath(c, m) \in D
    OBVIOUS
  <2>1. PICK k \in 2 .. Len(program) : c = program[k]
    BY ClassNodesAre
  <2>2. PICK l \in DOMAIN c.methods : m = c.methods[l]
    BY DEF ToSet
  <2> QED  BY <1>2, <2>1, <2>2, PathsAre
<1> HIDE DEF D, base, classes, methods
<1>8. D = base \cup classes \cup methods
  BY <1>4, <1>5, <1>6, <1>7
<1> QED  BY <1>8 DEF D, base, classes, methods

LEMMA MainWritten ==
  ASSUME program \in Programs, Complete(table.scopes, program)
  PROVE  Written(MainPath) = [id \in {program[1].arg} |-> Strings]
<1>1. MainDeclared(table.scopes, program[1])
  BY CompleteIs
<1>2. MainPath = MainScopeOf(program[1])
  BY PathsAre
<1>3. /\ Names(table.scopes[MainPath].variables) = {program[1].arg}
      /\ table.scopes[MainPath].variables[program[1].arg] = Strings
  BY <1>1, <1>2 DEF MainDeclared
<1> DEFINE w == Written(MainPath)
<1>4. DOMAIN w = {program[1].arg} /\ w[program[1].arg] = Strings /\ w = [id \in DOMAIN w |-> w[id]]
  BY <1>3, WrittenIs
<1> HIDE DEF w
<1>5. w = [id \in {program[1].arg} |-> Strings]
  BY <1>4
<1> QED  BY <1>5 DEF w

LEMMA ClassWritten ==
  ASSUME program \in Programs, Complete(table.scopes, program), NEW c \in ClassNodes
  PROVE  Written(ClassPath(c)) = Emplace(Types(c.fields), This, c.id)
<1>1. PICK k \in 2 .. Len(program) : c = program[k]
  BY ClassNodesAre
<1>2. ClassDeclared(table.scopes, c, Nat, 0, Nat) /\ AreNamed(c.fields) /\ ClassPath(c) = ClassScope(c)
  BY <1>1, CompleteIs, Program, PathsAre
<1> QED  BY <1>2, FieldsWritten DEF ClassDeclared

LEMMA MethodWritten ==
  ASSUME program \in Programs, Complete(table.scopes, program), NEW c \in ClassNodes,
         NEW m \in ToSet(c.methods)
  PROVE  LET record == table.scopes[ClassPath(c)].methods[m.id] IN
         /\ Written(MethodPath(c, m)) = Types(Locals(m))
         /\ record.type = m.type
         /\ record.parameters =
              [i \in DOMAIN m.params |->
                 [path |-> MethodPath(c, m), kind |-> "variables", id |-> m.params[i].id]]
<1>1. PICK k \in 2 .. Len(program) : c = program[k]
  BY ClassNodesAre
<1>2. PICK l \in DOMAIN c.methods : m = c.methods[l]
  BY DEF ToSet
<1>3. ClassDeclared(table.scopes, program[k], Nat, 0, Nat)
  BY CompleteIs
<1>4. MethodDeclared(table.scopes, c, m, Nat)
  BY <1>1, <1>2, <1>3, MethodsDeclared
<1>5. AreNamed(Locals(m)) /\ IsSequence(m.params)
  <2>1. AreNamed(Locals(m))
    BY <1>1, <1>2, LocalsAreNamed
  <2>2. Proper(program, m)
    BY <1>1, <1>2, MethodIs
  <2> QED  BY <2>1, <2>2 DEF Proper
<1>6. ClassPath(c) = ClassScope(c) /\ MethodPath(c, m) = MethodScope(c, m)
  BY PathsAre
<1>7. Written(MethodPath(c, m)) = Types(Locals(m))
  BY <1>4, <1>5, <1>6, LocalsWritten DEF MethodDeclared, AreNamed
<1>8. DOMAIN m.params \cap Nat = DOMAIN m.params
  BY <1>5 DEF IsSequence
<1> QED  BY <1>4, <1>6, <1>7, <1>8 DEF MethodDeclared, ParameterRef

\* Once the declarations are accepted the table is the tree that the program
\* spells out, types and parameter order included, and it stays so: the later
\* traversals enter the scopes again by name and make no new ones, the
\* temporaries of the generation hide no name, and SymbolTable::resolveScope
\* leaves the table as it was.
THEOREM TextKept == Spec => []TableIsProgram
<1>1. ASSUME Kept, Judged, phase # "declare", LinesRefused("duplicate") = {}
      PROVE  TableIsProgram
  <2>1. program \in Programs /\ Complete(table.scopes, program) /\ Root \in DOMAIN table.scopes
    BY <1>1, AcceptedComplete DEF Kept, Tree
  <2>2. DOMAIN table.scopes =
           {Root, Parent(MainPath), MainPath} \cup {ClassPath(c) : c \in ClassNodes}
             \cup UNION {{MethodPath(c, m) : m \in ToSet(c.methods)} : c \in ClassNodes}
    BY <2>1, ScopesAreProgram, Zenon
  <2>3. Written(MainPath) = [id \in {program[1].arg} |-> Strings]
    BY <2>1, MainWritten
  <2>4. \A c \in ClassNodes : Written(ClassPath(c)) = Emplace(Types(c.fields), This, c.id)
    BY <2>1, ClassWritten
  <2>5. \A c \in ClassNodes : \A m \in ToSet(c.methods) :
          LET record == table.scopes[ClassPath(c)].methods[m.id] IN
          /\ Written(MethodPath(c, m)) = Types(Locals(m))
          /\ record.type = m.type
          /\ record.parameters =
               [i \in DOMAIN m.params |->
                  [path |-> MethodPath(c, m), kind |-> "variables", id |-> m.params[i].id]]
    BY <2>1, MethodWritten
  <2> QED  BY <2>2, <2>3, <2>4, <2>5, Zenon DEF TableIsProgram
<1>2. Kept /\ Judged => TableIsProgram
  BY <1>1 DEF TableIsProgram
<1> QED  BY <1>2, AlwaysJudged, PTL

-----------------------------------------------------------------------------
(***************************************************************************)
(* What the second and the third traversal leave behind them: uses that    *)
(* mean something, temporaries and roots, method by method.                *)
(***************************************************************************)
\* The l-th method of the i-th class.
IsMethodAt(prog, i, l) == i \in 2 .. Len(prog) /\ l \in DOMAIN prog[i].methods

\* Which member of its class it is.
Member(pass, prog, i, l) == IF pass = "generate" THEN l ELSE Len(prog[i].fields) + l

\* The x-th member of the i-th class, if the q-th of the k-th was the last.
Behind(i, x, k, q) == i < k \/ (i = k /\ x <= q)

\* How many of its tasks are done, if p are of the member that is last.
Tally(i, x, whole, k, q, last, p) ==
  IF i = k /\ x = last THEN p ELSE IF Behind(i, x, k, q) THEN whole ELSE 0

\* The identifier names something in the text of its method, class or program.
Meant(prog, c, m, id) ==
  id \in Ids(Locals(m)) \cup Ids(c.fields) \cup Ids(prog) \cup Ids(c.methods)

UsesMeant(prog, c, m, n) ==
  \A j \in DOMAIN m.items \cap 1 .. n : m.items[j].kind = "use" => Meant(prog, c, m, m.items[j].id)

TempsOf(map) == {id \in DOMAIN map : IsTemp(id)}

Counted(T, n) == IsFiniteSet(T) /\ Cardinality(T) = n

RootOf(prog, i, l) == <<prog[i].id, prog[i].methods[l].id>>

IsRoot(rs, r) == \E j \in DOMAIN rs : rs[j] = r

Progress(pass, prog, scopes, rs, errs, i, l, n, begun) ==
  LET c == prog[i]
      m == c.methods[l]
  IN  /\ pass = "check" /\ errs = {} => UsesMeant(prog, c, m, n)
      /\ pass = "generate" =>
           /\ UsesMeant(prog, c, m, Len(m.items))
           /\ Counted(TempsOf(scopes[MethodScope(c, m)].variables), n)
           /\ IsRoot(rs, RootOf(prog, i, l)) <=> begun

TallyAt(pass, prog, i, l, k, q, last, p) ==
  Tally(i, Member(pass, prog, i, l), Len(Body(pass, prog[i].methods[l])), k, q, last, p)

BehindAt(pass, prog, i, l, k, q) == Behind(i, Member(pass, prog, i, l), k, q)

ProgressBy(pass, prog, scopes, rs, errs, k, q, last, p) ==
  \A i, l : IsMethodAt(prog, i, l) =>
    Progress(pass, prog, scopes, rs, errs, i, l, TallyAt(pass, prog, i, l, k, q, last, p),
             BehindAt(pass, prog, i, l, k, q))

Progressed(k, q, last, p) == ProgressBy(phase, program, table.scopes, roots, errors, k, q, last, p)

OnTheWay ==
  \/ \E k : /\ Outside(phase, program, agenda, table, errors, k)
            /\ Progressed(k + 1, 0, 0, 0) /\ (k = 0 => roots = <<>>)
  \/ \E k, q : Inside(phase, program, agenda, table, errors, k, q) /\ Progressed(k, q, 0, 0)
  \/ \E k, q, p : Within(phase, program, agenda, table, errors, k, q, p) /\ Progressed(k, q, q, p)

LEMMA MemberIs ==
  ASSUME NEW prog \in Programs, NEW pass \in Traversals, NEW i, NEW l, IsMethodAt(prog, i, l)
  PROVE  LET x == Member(pass, prog, i, l)
             s == Members(pass, prog, i)
         IN  /\ i \in Nat /\ i # 1 /\ l \in Nat /\ x \in Nat /\ x \in 1 .. Len(s) /\ Len(s) \in Nat
             /\ s[x].kind = "method" /\ s[x].node = prog[i].methods[l]
             /\ pass # "generate" => x > Len(prog[i].fields) /\ Len(prog[i].fields) \in Nat
<1> DEFINE c == prog[i]
           a == Tasks("variable", c.fields)
           b == Tasks("method", c.methods)
           U == AllTasks(prog)
<1>1. i \in 2 .. Len(prog) /\ l \in DOMAIN c.methods /\ Len(prog) \in Nat /\ i \in Nat /\ i # 1
  BY Program DEF IsMethodAt
<1>2. IsSequence(c.fields) /\ IsSequence(c.methods)
  BY <1>1, Program DEF AreNamed
<1>3. \A j \in DOMAIN c.fields : Task("variable", c.fields[j]) \in U
  BY <1>1, InAllTasks DEF Kinds
<1>4. \A j \in DOMAIN c.methods : Task("method", c.methods[j]) \in U
  BY <1>1, InAllTasks DEF Kinds
<1>5. Members(pass, prog, i) = IF pass = "generate" THEN b ELSE a \o b
  BY <1>1 DEF Members
<1>6. Member(pass, prog, i, l) = IF pass = "generate" THEN l ELSE Len(c.fields) + l
  BY DEF Member
<1> HIDE DEF U, c
<1>7. Len(c.fields) \in Nat /\ a \in Seq(U) /\ Len(a) = Len(c.fields)
  <2>1. TaskEach(a, c.fields, U)
    BY <1>2, <1>3, TasksAre
  <2> HIDE DEF a
  <2> QED  BY <2>1 DEF TaskEach
<1>8. /\ Len(c.methods) \in Nat /\ DOMAIN c.methods = 1 .. Len(c.methods)
      /\ b \in Seq(U) /\ Len(b) = Len(c.methods) /\ b[l].kind = "method" /\ b[l].node = c.methods[l]
      /\ l \in 1 .. Len(b)
  <2>1. TaskEach(b, c.methods, U) /\ \A j \in 1 .. Len(c.methods) : b[j].kind = "method"
    BY <1>2, <1>4, TasksAre
  <2> HIDE DEF b
  <2> QED  BY <1>1, <2>1 DEF TaskEach
<1> HIDE DEF a, b
<1>9. Len(a \o b) = Len(a) + Len(b) /\ (a \o b)[Len(a) + l] = b[l]
  <2>1. a \in Seq(U) /\ b \in Seq(U) /\ Len(a) \in Nat /\ Len(b) \in Nat /\ l \in 1 .. Len(b)
    BY <1>7, <1>8
  <2>2. /\ Len(a \o b) = Len(a) + Len(b)
        /\ \A j \in 1 .. Len(a) + Len(b) : (a \o b)[j] = IF j <= Len(a) THEN a[j] ELSE b[j - Len(a)]
    BY <2>1, ConcatProperties
  <2>3. Len(a) + l \in 1 .. Len(a) + Len(b) /\ ~(Len(a) + l <= Len(a)) /\ (Len(a) + l) - Len(a) = l
    BY <2>1
  <2> QED  BY <2>2, <2>3
<1>10. CASE pass = "generate"
  BY <1>1, <1>5, <1>6, <1>8, <1>10 DEF c
<1>11. CASE pass # "generate"
  <2> DEFINE s == a \o b
  <2> HIDE DEF s
  <2>1. Len(a) + l \in 1 .. Len(s) /\ Len(s) \in Nat /\ Len(a) + l > Len(a) /\ l \in Nat
    <3>1. /\ Len(a) \in Nat /\ Len(b) \in Nat /\ l \in 1 .. Len(b) /\ Len(s) = Len(a) + Len(b)
      BY <1>7, <1>8, <1>9 DEF s
    <3> QED  BY <3>1
  <2>2. Member(pass, prog, i, l) = Len(a) + l /\ Members(pass, prog, i) = s
    BY <1>5, <1>6, <1>7, <1>11 DEF s
  <2>3. s[Len(a) + l].kind = "method" /\ s[Len(a) + l].node = c.methods[l]
    BY <1>8, <1>9 DEF s
  <2> QED  BY <1>1, <1>7, <2>1, <2>2, <2>3 DEF c
<1> QED  BY <1>10, <1>11

\* Every member that is a method is one of the methods.
LEMMA MemberAt ==
  ASSUME NEW prog \in Programs, NEW pass \in Traversals, NEW k \in 2 .. Len(prog),
         NEW q \in 1 .. Len(Members(pass, prog, k)), Members(pass, prog, k)[q].kind = "method"
  PROVE  \E l : IsMethodAt(prog, k, l) /\ Member(pass, prog, k, l) = q
                  /\ Members(pass, prog, k)[q].node = prog[k].methods[l]
<1> DEFINE s == Members(pass, prog, k)
           c == prog[k]
           U == AllTasks(prog)
<1>1. k \in 1 .. Len(prog) /\ k # 1
  BY Program
<1>2. CASE pass = "generate"
  <2> DEFINE b == Tasks("method", c.methods)
  <2>1. s = b
    BY <1>1, <1>2 DEF Members
  <2>2. IsSequence(c.methods)
    BY Program DEF AreNamed
  <2>3. \A j \in DOMAIN c.methods : Task("method", c.methods[j]) \in U
    BY InAllTasks DEF Kinds
  <2> HIDE DEF U
  <2>4. TaskEach(b, c.methods, U)
    BY <2>2, <2>3, TasksAre
  <2> HIDE DEF b, s
  <2>5. q \in DOMAIN c.methods /\ s[q].node = c.methods[q]
    BY <2>1, <2>4 DEF TaskEach, s
  <2> QED  BY <1>2, <2>5 DEF IsMethodAt, Member, s
<1>3. CASE pass # "generate"
  <2>1. IsField(pass, c, q, s[q]) \/ \E l : IsMethodOf(pass, c, q, s[q], l)
    BY <1>1, MembersAre
  <2>2. PICK l : IsMethodOf(pass, c, q, s[q], l)
    BY <2>1 DEF IsField
  <2> QED  BY <1>3, <2>2 DEF IsMethodOf, IsMethodAt, Member
<1> QED  BY <1>2, <1>3

\* The arithmetic of the moves: another place with the same behind it.
SameTally(pass, prog, k, q, last, p, k2, q2, last2, p2) ==
  \A i, l : IsMethodAt(prog, i, l) =>
    /\ TallyAt(pass, prog, i, l, k2, q2, last2, p2) = TallyAt(pass, prog, i, l, k, q, last, p)
    /\ BehindAt(pass, prog, i, l, k2, q2) <=> BehindAt(pass, prog, i, l, k, q)

LEMMA ProgressMoved ==
  ASSUME NEW pass, NEW prog, NEW scopes, NEW rs, NEW errs, NEW more, errs \subseteq more,
         NEW k, NEW q, NEW last, NEW p, ProgressBy(pass, prog, scopes, rs, errs, k, q, last, p),
         NEW k2, NEW q2, NEW last2, NEW p2, SameTally(pass, prog, k, q, last, p, k2, q2, last2, p2)
  PROVE  ProgressBy(pass, prog, scopes, rs, more, k2, q2, last2, p2)
<1>1. more = {} => errs = {}
  OBVIOUS
<1>2. ASSUME NEW i, NEW l, IsMethodAt(prog, i, l)
      PROVE  Progress(pass, prog, scopes, rs, more, i, l, TallyAt(pass, prog, i, l, k2, q2, last2, p2),
                      BehindAt(pass, prog, i, l, k2, q2))
  <2>1. Progress(pass, prog, scopes, rs, errs, i, l, TallyAt(pass, prog, i, l, k, q, last, p),
                 BehindAt(pass, prog, i, l, k, q))
    BY <1>2 DEF ProgressBy
  <2>2. /\ TallyAt(pass, prog, i, l, k2, q2, last2, p2) = TallyAt(pass, prog, i, l, k, q, last, p)
        /\ BehindAt(pass, prog, i, l, k2, q2) <=> BehindAt(pass, prog, i, l, k, q)
    BY <1>2 DEF SameTally
  <2> QED  BY <1>1, <2>1, <2>2 DEF Progress
<1> QED  BY <1>2 DEF ProgressBy

LEMMA ProgressKept ==
  ASSUME program' = program, phase' = phase, table'.scopes = table.scopes, roots' = roots,
         errors \subseteq errors', NEW k, NEW q, NEW last, NEW p, Progressed(k, q, last, p),
         NEW k2, NEW q2, NEW last2, NEW p2,
         SameTally(phase, program, k, q, last, p, k2, q2, last2, p2)
  PROVE  Progressed(k2, q2, last2, p2)'
  BY ProgressMoved DEF Progressed

\* Where the traversal is, by the kind of the next task, and what is behind.
PlacesWith(kind) ==
  /\ kind = "main" => BeforeClass(0) /\ Progressed(1, 0, 0, 0) /\ roots = <<>>
  /\ kind = "class" => \E k : BeforeClass(k) /\ k # 0 /\ Progressed(k + 1, 0, 0, 0)
  /\ kind = "method" => \E k, q, l : BeforeMethod(k, q, l) /\ Progressed(k, q, 0, 0)
  /\ kind = "variable" => \/ \E k, q : BeforeField(k, q) /\ Progressed(k, q, 0, 0)
                          \/ \E k, q, p : BeforeLocal(k, q, p) /\ Progressed(k, q, q, p)
  /\ kind = "use" => \E k, q, p : BeforeLocal(k, q, p) /\ Progressed(k, q, q, p)
  /\ kind = "leave" => \/ \E k, q : AfterMembers(k, q) /\ Progressed(k, q, 0, 0)
                       \/ \E k, q, p : AfterBody(k, q, p) /\ Progressed(k, q, q, p)

LEMMA PlaceWith ==
  ASSUME Walking, OnTheWay, agenda # <<>>
  PROVE  PlacesWith(Head(agenda).kind)
<1> DEFINE kind == Head(agenda).kind
<1>1. program \in Programs /\ phase \in Traversals
  BY DEF Walking
<1>2. ASSUME NEW k, Outside(phase, program, agenda, table, errors, k), Progressed(k + 1, 0, 0, 0),
             k = 0 => roots = <<>>
      PROVE  PlacesWith(kind)
  <2>1. k # Len(program) /\ kind = (IF k = 0 THEN "main" ELSE "class")
    BY <1>1, <1>2, OutsideHead
  <2>2. BeforeClass(k)
    BY <1>2, <2>1 DEF BeforeClass
  <2> HIDE DEF kind
  <2>3. CASE k = 0
    <3>1. kind = "main" /\ BeforeClass(0) /\ roots = <<>>
      BY <1>2, <2>1, <2>2, <2>3
    <3>2. k + 1 = 1
      BY <2>3
    <3>3. Progressed(1, 0, 0, 0)
      BY <1>2, <3>2
    <3> QED  BY <3>1, <3>3 DEF PlacesWith
  <2>4. CASE k # 0
    BY <1>2, <2>1, <2>2, <2>4 DEF PlacesWith
  <2> QED  BY <2>3, <2>4
<1>3. ASSUME NEW k, NEW q, Inside(phase, program, agenda, table, errors, k, q), Progressed(k, q, 0, 0)
      PROVE  PlacesWith(kind)
  <2>1. CASE q = Len(Members(phase, program, k))
    <3>1. kind = "leave"
      BY <1>1, <1>3, <2>1, InsideHead
    <3>2. AfterMembers(k, q)
      BY <1>3, <2>1 DEF AfterMembers
    <3> QED  BY <1>3, <3>1, <3>2 DEF PlacesWith
  <2>2. CASE q # Len(Members(phase, program, k))
    <3>1. \/ IsField(phase, program[k], q + 1, Head(agenda))
          \/ \E l : IsMethodOf(phase, program[k], q + 1, Head(agenda), l)
      BY <1>1, <1>3, <2>2, InsideHead
    <3>2. CASE IsField(phase, program[k], q + 1, Head(agenda))
      <4>1. BeforeField(k, q) /\ kind = "variable"
        BY <1>3, <2>2, <3>2 DEF BeforeField, IsField
      <4> QED  BY <1>3, <4>1 DEF PlacesWith
    <3>3. CASE \E l : IsMethodOf(phase, program[k], q + 1, Head(agenda), l)
      <4>1. PICK l : IsMethodOf(phase, program[k], q + 1, Head(agenda), l)
        BY <3>3
      <4>2. BeforeMethod(k, q, l) /\ kind = "method"
        BY <1>3, <2>2, <4>1 DEF BeforeMethod, IsMethodOf
      <4> QED  BY <1>3, <4>2 DEF PlacesWith
    <3> QED  BY <3>1, <3>2, <3>3
  <2> QED  BY <2>1, <2>2
<1>4. ASSUME NEW k, NEW q, NEW p, Within(phase, program, agenda, table, errors, k, q, p),
             Progressed(k, q, q, p)
      PROVE  PlacesWith(kind)
  <2>1. HeadOfBody(phase, program, agenda, k, q, p, BodyAt(phase, program, k, q))
    BY <1>1, <1>4, WithinHead, Zenon
  <2>2. CASE p = Len(BodyAt(phase, program, k, q))
    <3>1. kind = "leave"
      BY <2>1, <2>2 DEF HeadOfBody
    <3>2. AfterBody(k, q, p)
      BY <1>4, <2>2 DEF AfterBody
    <3> QED  BY <1>4, <3>1, <3>2 DEF PlacesWith
  <2>3. CASE p # Len(BodyAt(phase, program, k, q))
    <3>1. kind \in {"parameter", "variable", "use"}
      BY <2>1, <2>3 DEF HeadOfBody, InBody
    <3>2. BeforeLocal(k, q, p)
      BY <1>4, <2>3 DEF BeforeLocal
    <3> QED  BY <1>4, <3>1, <3>2 DEF PlacesWith
  <2> QED  BY <2>2, <2>3
<1> QED  BY <1>2, <1>3, <1>4 DEF OnTheWay

Visiting == Walking /\ OnTheWay /\ phase \in {"check", "generate"} /\ agenda # <<>>

\* A class is entered: nothing more is behind.
LEMMA ClassOnTheWay ==
  ASSUME Visiting, Head(agenda).kind = "class", program' = program, phase' = phase, roots' = roots,
         errors' = errors, NEW record, table' = EnterClass(table, node.id, record),
         agenda' = ((IF phase = "generate" THEN Tasks("method", node.methods)
                     ELSE Tasks("variable", node.fields) \o Tasks("method", node.methods)) \o <<Leave>>)
                     \o Tail(agenda)
  PROVE  OnTheWay'
<1>1. Walking /\ phase \in {"check", "generate"} /\ agenda # <<>>
  BY DEF Visiting
<1>2. PICK k : BeforeClass(k) /\ k # 0 /\ Progressed(k + 1, 0, 0, 0)
  BY PlaceWith DEF Visiting, PlacesWith
<1>3. PICK n : n = k + 1
  OBVIOUS
<1>4. table'.scopes = table.scopes /\ Inside(phase, program, agenda', table', errors', n, 0)
  BY <1>1, <1>2, <1>3, ClassEnteredAt
<1>5. SameTally(phase, program, n, 0, 0, 0, n, 0, 0, 0) /\ Progressed(n, 0, 0, 0)
  BY <1>2, <1>3 DEF SameTally
<1>6. Progressed(n, 0, 0, 0)'
  BY <1>4, <1>5, ProgressKept
<1> QED  BY <1>4, <1>6 DEF OnTheWay

\* A class is left: its members are behind.
LEMMA ClassLeft ==
  ASSUME Visiting, program' = program, phase' = phase, roots' = roots, errors' = errors, LeaveScope,
         NEW k, NEW q, AfterMembers(k, q), Progressed(k, q, 0, 0)
  PROVE  OnTheWay'
<1>1. Walking /\ phase \in Traversals /\ program \in Programs
  BY DEF Visiting, Walking
<1>2. table'.scopes = table.scopes /\ Outside(phase, program, agenda', table', errors', k)
  BY <1>1, LeaveClassWalks
<1>3. q = Len(Members(phase, program, k)) /\ k \in 1 .. Len(program) /\ Len(program) \in Nat
  BY <1>1, Program DEF AfterMembers, Inside
<1>4. SameTally(phase, program, k, q, 0, 0, k + 1, 0, 0, 0)
  <2> SUFFICES ASSUME NEW i, NEW l, IsMethodAt(program, i, l)
               PROVE  /\ TallyAt(phase, program, i, l, k + 1, 0, 0, 0) = TallyAt(phase, program, i, l, k, q, 0, 0)
                      /\ BehindAt(phase, program, i, l, k + 1, 0) <=> BehindAt(phase, program, i, l, k, q)
    BY DEF SameTally
  <2> DEFINE x == Member(phase, program, i, l)
             s == Members(phase, program, i)
             whole == Len(Body(phase, program[i].methods[l]))
  <2>1. i \in Nat /\ x \in 1 .. Len(s) /\ Len(s) \in Nat
    BY <1>1, MemberIs
  <2>2. i = k => Len(s) = q
    BY <1>3
  <2> HIDE DEF x, s, whole
  <2>3. Behind(i, x, k + 1, 0) <=> Behind(i, x, k, q)
    BY <1>3, <2>1, <2>2 DEF Behind
  <2>4. x # 0
    BY <2>1
  <2>5. Tally(i, x, whole, k + 1, 0, 0, 0) = Tally(i, x, whole, k, q, 0, 0)
    BY <2>3, <2>4 DEF Tally
  <2> QED  BY <2>3, <2>5 DEF x, whole, TallyAt, BehindAt
<1>5. Progressed(k + 1, 0, 0, 0)'
  BY <1>2, <1>4, ProgressKept
<1>6. k # 0
  BY <1>3
<1> QED  BY <1>2, <1>5, <1>6 DEF OnTheWay

\* A field is checked.
LEMMA FieldOnTheWay ==
  ASSUME Visiting, phase = "check", program' = program, phase' = phase, roots' = roots,
         errors \subseteq errors', table' = table, agenda' = <<>> \o Tail(agenda),
         NEW k, NEW q, BeforeField(k, q), Progressed(k, q, 0, 0)
  PROVE  OnTheWay'
<1>1. /\ Walking /\ phase \in Traversals /\ program \in Programs /\ Tree(table) /\ agenda # <<>>
      /\ phase \in {"check", "generate"}
  BY DEF Visiting, Walking
<1>2. PICK n : n = q + 1
  OBVIOUS
<1>3. Complete(table.scopes, program)
  BY <1>1, WalkingComplete
<1>4. Inside(phase, program, agenda', table', errors', k, n)
  BY <1>1, <1>2, <1>3, FieldDone
<1>5. q \in Nat /\ n \in DOMAIN program[k].fields /\ k \in 1 .. Len(program) /\ n \in Nat
  BY <1>2 DEF BeforeField, IsField, Inside
<1>6. SameTally(phase, program, k, q, 0, 0, k, n, 0, 0)
  <2> SUFFICES ASSUME NEW i, NEW l, IsMethodAt(program, i, l)
               PROVE  /\ TallyAt(phase, program, i, l, k, n, 0, 0) = TallyAt(phase, program, i, l, k, q, 0, 0)
                      /\ BehindAt(phase, program, i, l, k, n) <=> BehindAt(phase, program, i, l, k, q)
    BY DEF SameTally
  <2> DEFINE x == Member(phase, program, i, l)
             whole == Len(Body(phase, program[i].methods[l]))
             d == Len(program[i].fields)
  <2>1. i \in 2 .. Len(program) /\ x \in Nat /\ x > d /\ d \in Nat
    BY <1>1, MemberIs DEF IsMethodAt
  <2>2. i = k => n <= d
    <3> SUFFICES ASSUME i = k PROVE n <= d
      OBVIOUS
    <3>1. IsSequence(program[i].fields)
      BY <1>1, <2>1, Program DEF AreNamed
    <3>2. DOMAIN program[i].fields = 1 .. d
      BY <3>1 DEF IsSequence
    <3> HIDE DEF d
    <3> QED  BY <1>5, <3>2
  <2> HIDE DEF x, whole, d
  <2>3. Behind(i, x, k, n) <=> Behind(i, x, k, q)
    BY <1>2, <1>5, <2>1, <2>2 DEF Behind
  <2>4. Tally(i, x, whole, k, n, 0, 0) = Tally(i, x, whole, k, q, 0, 0)
    BY <2>3 DEF Tally
  <2> QED  BY <2>3, <2>4 DEF x, whole, TallyAt, BehindAt
<1>7. Progressed(k, n, 0, 0)'
  BY <1>6, ProgressKept
<1> QED  BY <1>4, <1>7 DEF OnTheWay
\* Methods have different roots and scopes, and those of main are none of them.
LEMMA RootsDiffer ==
  ASSUME NEW prog \in Programs, NEW scopes, Complete(scopes, prog), NEW i, NEW l, IsMethodAt(prog, i, l)
  PROVE  /\ RootOf(prog, i, l) # <<prog[1].id, Main>>
         /\ MethodScope(prog[i], prog[i].methods[l]) # MainScopeOf(prog[1])
         /\ \A j, k : IsMethodAt(prog, j, k) =>
              /\ RootOf(prog, j, k) = RootOf(prog, i, l) => j = i /\ k = l
              /\ MethodScope(prog[j], prog[j].methods[k]) = MethodScope(prog[i], prog[i].methods[l]) =>
                   j = i /\ k = l
<1>1. /\ Different(prog, 1 .. Len(prog)) /\ Len(prog) \in Nat /\ DOMAIN prog = 1 .. Len(prog)
      /\ \A x \in 2 .. Len(prog) : ClassDeclared(scopes, prog[x], Nat, 0, Nat)
  BY CompleteIs, Program
<1>2. i \in 2 .. Len(prog) /\ l \in DOMAIN prog[i].methods
  BY DEF IsMethodAt
<1>3. prog[i].id # prog[1].id
  <2>1. 1 \in 1 .. Len(prog) /\ i \in 1 .. Len(prog) /\ i # 1
    BY <1>1, <1>2
  <2> QED  BY <1>1, <2>1 DEF Different
<1>4. ASSUME NEW j, NEW k, IsMethodAt(prog, j, k), prog[j].id = prog[i].id,
             prog[j].methods[k].id = prog[i].methods[l].id
      PROVE  j = i /\ k = l
  <2>1. j \in 2 .. Len(prog) /\ k \in DOMAIN prog[j].methods
    BY <1>4 DEF IsMethodAt
  <2>2. j = i
    <3>1. j \in 1 .. Len(prog) /\ i \in 1 .. Len(prog)
      BY <1>1, <1>2, <2>1
    <3> QED  BY <1>1, <1>4, <3>1 DEF Different
  <2>3. k \in MethodsIn(prog[i], Nat) /\ l \in MethodsIn(prog[i], Nat)
    BY <1>1, <1>2, <2>1, <2>2, MethodsDeclared
  <2>4. Different(prog[i].methods, MethodsIn(prog[i], Nat))
    BY <1>1, <1>2 DEF ClassDeclared
  <2>5. k = l
    BY <1>2, <1>4, <2>1, <2>2, <2>3, <2>4 DEF Different
  <2> QED  BY <2>2, <2>5
<1>5. RootOf(prog, i, l) # <<prog[1].id, Main>>
  BY <1>3 DEF RootOf
<1>6. MethodScope(prog[i], prog[i].methods[l]) # MainScopeOf(prog[1])
  BY <1>3 DEF MethodScope, MainScopeOf, ClassStep
<1>7. ASSUME NEW j, NEW k, IsMethodAt(prog, j, k), RootOf(prog, j, k) = RootOf(prog, i, l)
      PROVE  j = i /\ k = l
  <2>1. prog[j].id = prog[i].id /\ prog[j].methods[k].id = prog[i].methods[l].id
    BY <1>7 DEF RootOf
  <2> QED  BY <1>4, <1>7, <2>1
<1>8. ASSUME NEW j, NEW k, IsMethodAt(prog, j, k),
             MethodScope(prog[j], prog[j].methods[k]) = MethodScope(prog[i], prog[i].methods[l])
      PROVE  j = i /\ k = l
  <2>1. prog[j].id = prog[i].id /\ prog[j].methods[k].id = prog[i].methods[l].id
    BY <1>8 DEF MethodScope, ClassStep, MethodStep
  <2> QED  BY <1>4, <1>8, <2>1
<1> QED  BY <1>5, <1>6, <1>7, <1>8


LEMMA RootAppended ==
  ASSUME NEW rs, Lists(rs), NEW r, NEW x
  PROVE  IsRoot(Append(rs, r), x) <=> (IsRoot(rs, x) \/ x = r)
<1> DEFINE more == Append(rs, r)
<1>1. PICK S : rs \in Seq(S)
  BY DEF Lists
<1>2. /\ Len(rs) \in Nat /\ DOMAIN rs = 1 .. Len(rs) /\ DOMAIN more = 1 .. Len(rs) + 1
      /\ more[Len(rs) + 1] = r /\ \A j \in 1 .. Len(rs) : more[j] = rs[j]
  BY <1>1
<1> HIDE DEF more
<1>3. \A j \in 1 .. Len(rs) + 1 : j \in 1 .. Len(rs) \/ j = Len(rs) + 1
  BY <1>2
<1>4. Len(rs) + 1 \in 1 .. Len(rs) + 1 /\ \A j \in 1 .. Len(rs) : j \in 1 .. Len(rs) + 1
  BY <1>2
<1>5. IsRoot(more, x) <=> (IsRoot(rs, x) \/ x = r)
  BY <1>2, <1>3, <1>4 DEF IsRoot
<1> QED  BY <1>5 DEF more

\* A root that is not that of a method.
LEMMA RootElsewhere ==
  ASSUME NEW pass, NEW prog, NEW scopes, NEW rs, Lists(rs), NEW errs, NEW k, NEW q, NEW last, NEW p,
         ProgressBy(pass, prog, scopes, rs, errs, k, q, last, p), NEW r,
         \A i, l : IsMethodAt(prog, i, l) => RootOf(prog, i, l) # r
  PROVE  ProgressBy(pass, prog, scopes, Append(rs, r), errs, k, q, last, p)
<1>1. ASSUME NEW i, NEW l, IsMethodAt(prog, i, l)
      PROVE  Progress(pass, prog, scopes, Append(rs, r), errs, i, l,
                      TallyAt(pass, prog, i, l, k, q, last, p), BehindAt(pass, prog, i, l, k, q))
  <2>1. Progress(pass, prog, scopes, rs, errs, i, l, TallyAt(pass, prog, i, l, k, q, last, p),
                 BehindAt(pass, prog, i, l, k, q))
    BY <1>1 DEF ProgressBy
  <2>2. IsRoot(Append(rs, r), RootOf(prog, i, l)) <=> IsRoot(rs, RootOf(prog, i, l))
    BY <1>1, RootAppended
  <2> QED  BY <2>1, <2>2 DEF Progress
<1> QED  BY <1>1 DEF ProgressBy

\* The body of main is entered: it is none of the methods that are counted.
LEMMA MainOnTheWay ==
  ASSUME Visiting, Lists(roots), Head(agenda).kind = "main", program' = program, phase' = phase,
         errors' = errors, table' = MainScope(node.id),
         agenda' = (Items(node.items) \o <<Leave, Leave>>) \o Tail(agenda),
         roots' = roots \/ roots' = Append(roots, <<node.id, Main>>)
  PROVE  OnTheWay'
<1>1. /\ Walking /\ phase \in {"check", "generate"} /\ agenda # <<>> /\ program \in Programs
      /\ phase \in Traversals
  BY DEF Visiting, Walking
<1>2. BeforeClass(0) /\ Progressed(1, 0, 0, 0)
  BY PlaceWith DEF Visiting, PlacesWith
<1>3. table'.scopes = table.scopes /\ Within(phase, program, agenda', table', errors', 1, 0, 0)
  BY <1>1, MainEntered
<1>4. Complete(table.scopes, program)
  BY <1>1, WalkingComplete
<1>5. node = program[1]
  <2>1. 0 # Len(program) /\ Outside(phase, program, agenda, table, errors, 0)
    BY <1>2 DEF BeforeClass
  <2>2. 0 + 1 \in 1 .. Len(program) /\ Head(agenda).node = program[0 + 1]
    BY <1>1, <2>1, OutsideHead
  <2> QED  BY <2>2 DEF node
<1>6. ProgressBy(phase, program, table.scopes, roots', errors, 1, 0, 0, 0)
  <2>1. ProgressBy(phase, program, table.scopes, roots, errors, 1, 0, 0, 0)
    BY <1>2 DEF Progressed
  <2>2. CASE roots' = Append(roots, <<node.id, Main>>)
    <3> DEFINE r == <<node.id, Main>>
    <3>1. \A i, l : IsMethodAt(program, i, l) => RootOf(program, i, l) # r
      BY <1>1, <1>4, <1>5, RootsDiffer
    <3>2. roots' = Append(roots, r)
      BY <2>2
    <3> HIDE DEF r
    <3>3. ProgressBy(phase, program, table.scopes, Append(roots, r), errors, 1, 0, 0, 0)
      BY <2>1, <3>1, RootElsewhere
    <3> QED  BY <3>2, <3>3
  <2> QED  BY <2>1, <2>2
<1>7. Progressed(1, 0, 0, 0)'
  BY <1>3, <1>6 DEF Progressed
<1> QED  BY <1>3, <1>7 DEF OnTheWay

\* One more method is begun, the m-th of its class.
OneMoreBegun(pass, prog, k, q, n, m) ==
  \A i, l : IsMethodAt(prog, i, l) =>
    /\ TallyAt(pass, prog, i, l, k, n, n, 0) = TallyAt(pass, prog, i, l, k, q, 0, 0)
    /\ BehindAt(pass, prog, i, l, k, n) <=> (BehindAt(pass, prog, i, l, k, q) \/ (i = k /\ l = m))

LEMMA SameMember ==
  ASSUME NEW prog \in Programs, NEW pass \in Traversals, NEW k, NEW m, IsMethodAt(prog, k, m),
         NEW l, IsMethodAt(prog, k, l)
  PROVE  Member(pass, prog, k, l) = Member(pass, prog, k, m) <=> l = m
<1>1. l \in Nat /\ m \in Nat /\ (pass # "generate" => Len(prog[k].fields) \in Nat)
  BY MemberIs
<1> QED  BY <1>1 DEF Member

LEMMA MethodBegun ==
  ASSUME NEW prog \in Programs, NEW pass \in Traversals, NEW k, NEW m, IsMethodAt(prog, k, m),
         NEW q \in Nat, NEW n, n = q + 1, Member(pass, prog, k, m) = n
  PROVE  OneMoreBegun(pass, prog, k, q, n, m)
<1> SUFFICES ASSUME NEW i, NEW l, IsMethodAt(prog, i, l)
             PROVE  /\ TallyAt(pass, prog, i, l, k, n, n, 0) = TallyAt(pass, prog, i, l, k, q, 0, 0)
                    /\ BehindAt(pass, prog, i, l, k, n) <=>
                         (BehindAt(pass, prog, i, l, k, q) \/ (i = k /\ l = m))
  BY DEF OneMoreBegun
<1> DEFINE x == Member(pass, prog, i, l)
           whole == Len(Body(pass, prog[i].methods[l]))
<1>1. i \in Nat /\ x \in Nat /\ x # 0 /\ k \in Nat
  BY MemberIs
<1>2. (i = k /\ x = n) <=> (i = k /\ l = m)
  BY SameMember
<1> HIDE DEF x, whole
<1>3. Behind(i, x, k, n) <=> (Behind(i, x, k, q) \/ (i = k /\ x = n))
  BY <1>1 DEF Behind
<1>4. Tally(i, x, whole, k, n, n, 0) = Tally(i, x, whole, k, q, 0, 0)
  <2>1. CASE i = k /\ x = n
    <3>1. ~(x <= q) /\ ~(i < k)
      BY <1>1, <2>1
    <3>2. ~Behind(i, x, k, q)
      BY <3>1 DEF Behind
    <3> QED  BY <1>1, <2>1, <3>2 DEF Tally
  <2>2. CASE ~(i = k /\ x = n)
    BY <1>1, <1>3, <2>2 DEF Tally
  <2> QED  BY <2>1, <2>2
<1> QED  BY <1>2, <1>3, <1>4 DEF TallyAt, BehindAt, x, whole

\* What is behind when the m-th method of the k-th class is begun.
LEMMA BegunChecked ==
  ASSUME NEW prog, NEW scopes, NEW rs, NEW errs, NEW k, NEW q, NEW n, NEW m,
         OneMoreBegun("check", prog, k, q, n, m), ProgressBy("check", prog, scopes, rs, errs, k, q, 0, 0)
  PROVE  ProgressBy("check", prog, scopes, rs, errs, k, n, n, 0)
<1>1. ASSUME NEW i, NEW l, IsMethodAt(prog, i, l)
      PROVE  Progress("check", prog, scopes, rs, errs, i, l, TallyAt("check", prog, i, l, k, n, n, 0),
                      BehindAt("check", prog, i, l, k, n))
  <2>1. Progress("check", prog, scopes, rs, errs, i, l, TallyAt("check", prog, i, l, k, q, 0, 0),
                 BehindAt("check", prog, i, l, k, q))
    BY <1>1 DEF ProgressBy
  <2>2. TallyAt("check", prog, i, l, k, n, n, 0) = TallyAt("check", prog, i, l, k, q, 0, 0)
    BY <1>1 DEF OneMoreBegun
  <2> QED  BY <2>1, <2>2 DEF Progress
<1> QED  BY <1>1 DEF ProgressBy

LEMMA BegunGenerated ==
  ASSUME NEW prog \in Programs, NEW scopes, Complete(scopes, prog), NEW rs, Lists(rs), NEW errs,
         NEW k, NEW q, NEW n, NEW m, IsMethodAt(prog, k, m), OneMoreBegun("generate", prog, k, q, n, m),
         ProgressBy("generate", prog, scopes, rs, errs, k, q, 0, 0)
  PROVE  ProgressBy("generate", prog, scopes, Append(rs, RootOf(prog, k, m)), errs, k, n, n, 0)
<1> DEFINE r == RootOf(prog, k, m)
<1>1. ASSUME NEW i, NEW l, IsMethodAt(prog, i, l)
      PROVE  Progress("generate", prog, scopes, Append(rs, r), errs, i, l,
                      TallyAt("generate", prog, i, l, k, n, n, 0), BehindAt("generate", prog, i, l, k, n))
  <2>1. Progress("generate", prog, scopes, rs, errs, i, l, TallyAt("generate", prog, i, l, k, q, 0, 0),
                 BehindAt("generate", prog, i, l, k, q))
    BY <1>1 DEF ProgressBy
  <2>2. /\ TallyAt("generate", prog, i, l, k, n, n, 0) = TallyAt("generate", prog, i, l, k, q, 0, 0)
        /\ BehindAt("generate", prog, i, l, k, n) <=>
             (BehindAt("generate", prog, i, l, k, q) \/ (i = k /\ l = m))
    BY <1>1 DEF OneMoreBegun
  <2>3. (i = k /\ l = m) <=> RootOf(prog, i, l) = r
    BY <1>1, RootsDiffer
  <2> HIDE DEF r
  <2>4. IsRoot(Append(rs, r), RootOf(prog, i, l)) <=> (IsRoot(rs, RootOf(prog, i, l)) \/ RootOf(prog, i, l) = r)
    BY RootAppended
  <2> QED  BY <2>1, <2>2, <2>3, <2>4 DEF Progress
<1> QED  BY <1>1 DEF ProgressBy

\* The body of a method is entered: nothing of it is done, and it has a root.
LEMMA MethodOnTheWay ==
  ASSUME Visiting, Lists(roots), Head(agenda).kind = "method", program' = program, phase' = phase,
         errors' = errors, NEW record, table' = EnterMethod(table, node.id, record),
         agenda' = (Body(phase, node) \o <<Leave>>) \o Tail(agenda),
         phase = "check" => roots' = roots,
         phase = "generate" => roots' = Append(roots, <<Current(table).record.id, node.id>>)
  PROVE  OnTheWay'
<1>1. /\ Walking /\ phase \in {"check", "generate"} /\ agenda # <<>> /\ program \in Programs
      /\ phase \in Traversals
  BY DEF Visiting, Walking
<1>2. PICK k, q, l : BeforeMethod(k, q, l) /\ Progressed(k, q, 0, 0)
  BY PlaceWith DEF Visiting, PlacesWith
<1>3. PICK n : n = q + 1
  OBVIOUS
<1>4. /\ table'.scopes = table.scopes /\ Within(phase, program, agenda', table', errors', k, n, 0)
      /\ Current(table).record.id = program[k].id
  BY <1>1, <1>2, <1>3, MethodEnteredAt
<1>5. /\ n \in 1 .. Len(Members(phase, program, k)) /\ k \in 2 .. Len(program)
      /\ Head(agenda) = Members(phase, program, k)[n] /\ q \in Nat
  <2>1. /\ Inside(phase, program, agenda, table, errors, k, q) /\ q # Len(Members(phase, program, k))
    BY <1>2 DEF BeforeMethod
  <2>2. q + 1 \in 1 .. Len(Members(phase, program, k)) /\ k \in 2 .. Len(program)
        /\ Head(agenda) = Members(phase, program, k)[q + 1]
    BY <1>1, <2>1, InsideHead
  <2>3. q \in Nat
    BY <2>1 DEF Inside
  <2> QED  BY <1>3, <2>2, <2>3
<1>6. Complete(table.scopes, program)
  BY <1>1, WalkingComplete
<1>7. PICK m : /\ IsMethodAt(program, k, m) /\ Member(phase, program, k, m) = n
               /\ Members(phase, program, k)[n].node = program[k].methods[m]
  BY <1>1, <1>5, MemberAt
<1>8. phase = "generate" => roots' = Append(roots, RootOf(program, k, m))
  BY <1>4, <1>5, <1>7 DEF RootOf, node
<1>9. OneMoreBegun(phase, program, k, q, n, m)
  BY <1>1, <1>3, <1>5, <1>7, MethodBegun
<1>10. ProgressBy(phase, program, table.scopes, roots, errors, k, q, 0, 0)
  BY <1>2 DEF Progressed
<1>11. ProgressBy(phase, program, table.scopes, roots', errors, k, n, n, 0)
  <2>1. CASE phase = "check"
    BY <1>9, <1>10, <2>1, BegunChecked
  <2>2. CASE phase = "generate"
    BY <1>1, <1>6, <1>7, <1>8, <1>9, <1>10, <2>2, BegunGenerated
  <2> QED  BY <1>1, <2>1, <2>2
<1>12. Progressed(k, n, n, 0)'
  BY <1>4, <1>11 DEF Progressed
<1> QED  BY <1>4, <1>12 DEF OnTheWay

\* A body is left: all of it is done.
LEMMA BodyLeft ==
  ASSUME Visiting, program' = program, phase' = phase, roots' = roots, errors' = errors, LeaveScope,
         NEW k, NEW q, NEW p, AfterBody(k, q, p), Progressed(k, q, q, p)
  PROVE  OnTheWay'
<1>1. Walking /\ phase \in Traversals /\ program \in Programs
  BY DEF Visiting, Walking
<1>2. table'.scopes = table.scopes /\ Inside(phase, program, agenda', table', errors', k, q)
  BY <1>1, LeaveMethodWalks
<1>3. p = Len(BodyAt(phase, program, k, q)) /\ k \in 1 .. Len(program) /\ q \in Nat
  BY <1>1 DEF AfterBody, Within
<1>4. SameTally(phase, program, k, q, q, p, k, q, 0, 0)
  <2> SUFFICES ASSUME NEW i, NEW l, IsMethodAt(program, i, l)
               PROVE  /\ TallyAt(phase, program, i, l, k, q, 0, 0) = TallyAt(phase, program, i, l, k, q, q, p)
                      /\ BehindAt(phase, program, i, l, k, q) <=> BehindAt(phase, program, i, l, k, q)
    BY DEF SameTally
  <2> DEFINE x == Member(phase, program, i, l)
             whole == Len(Body(phase, program[i].methods[l]))
  <2>1. i \in Nat /\ i # 1 /\ x \in Nat /\ x # 0 /\ Members(phase, program, i)[x].node = program[i].methods[l]
    BY <1>1, MemberIs
  <2>2. i = k /\ x = q => p = whole
    BY <1>3, <2>1 DEF BodyAt
  <2> HIDE DEF x, whole
  <2>3. i = k /\ x = q => Behind(i, x, k, q)
    BY <2>1 DEF Behind
  <2> QED  BY <2>1, <2>2, <2>3 DEF Tally, TallyAt, BehindAt, x, whole
<1>5. Progressed(k, q, 0, 0)'
  BY <1>2, <1>4, ProgressKept
<1> QED  BY <1>2, <1>5 DEF OnTheWay


LEMMA LeaveOnTheWay ==
  ASSUME Visiting, program' = program, phase' = phase, roots' = roots, errors' = errors, LeaveScope
  PROVE  OnTheWay'
<1>1. PlacesWith("leave")
  BY PlaceWith DEF Visiting, LeaveScope
<1> QED  BY <1>1, ClassLeft, BodyLeft DEF PlacesWith

-----------------------------------------------------------------------------
\* The method that a place within the body of a method is in.
InMethod(pass, prog, t, k, q, m) ==
  /\ IsMethodAt(prog, k, m) /\ Member(pass, prog, k, m) = q
  /\ BodyAt(pass, prog, k, q) = Body(pass, prog[k].methods[m])
  /\ t.current = MethodScope(prog[k], prog[k].methods[m])

LEMMA WithinMethod ==
  ASSUME NEW prog \in Programs, NEW pass \in Traversals, NEW tasks, NEW t, NEW errs,
         NEW k, NEW q, NEW p, Within(pass, prog, tasks, t, errs, k, q, p)
  PROVE  /\ k = 1 => t.current = MainScopeOf(prog[1])
         /\ k # 1 => \E m : InMethod(pass, prog, t, k, q, m)
<1>1. /\ k \in 1 .. Len(prog) /\ q \in 0 .. Len(Members(pass, prog, k)) /\ Begun(pass, prog, k, q)
      /\ t.current = <<ClassStep(prog[k].id), MethodStep(NameAt(pass, prog, k, q))>>
  BY DEF Within
<1>2. k = 1 => t.current = MainScopeOf(prog[1])
  BY <1>1 DEF NameAt, MainScopeOf
<1>3. ASSUME k # 1
      PROVE  \E m : InMethod(pass, prog, t, k, q, m)
  <2>1. q # 0 /\ Members(pass, prog, k)[q].kind = "method"
    BY <1>1, <1>3 DEF Begun
  <2>2. k \in 2 .. Len(prog) /\ q \in 1 .. Len(Members(pass, prog, k))
    <3>1. Len(Members(pass, prog, k)) \in Nat
      <4>1. Members(pass, prog, k) \in Seq(AllTasks(prog))
        BY <1>1, MembersAre
      <4> QED  BY <4>1
    <3> QED  BY <1>1, <1>3, <2>1, <3>1, Program
  <2>3. PICK m : /\ IsMethodAt(prog, k, m) /\ Member(pass, prog, k, m) = q
                 /\ Members(pass, prog, k)[q].node = prog[k].methods[m]
    BY <2>1, <2>2, MemberAt
  <2>4. BodyAt(pass, prog, k, q) = Body(pass, prog[k].methods[m])
    BY <1>3, <2>3 DEF BodyAt
  <2>5. t.current = MethodScope(prog[k], prog[k].methods[m])
    BY <1>1, <1>3, <2>3 DEF NameAt, MethodScope
  <2> QED  BY <2>3, <2>4, <2>5 DEF InMethod
<1> QED  BY <1>2, <1>3

\* One more task of the m-th method of its class is done.
OneMoreDone(pass, prog, k, q, p, n, m) ==
  \A i, l : IsMethodAt(prog, i, l) =>
    /\ i = k /\ l = m => /\ TallyAt(pass, prog, i, l, k, q, q, p) = p
                         /\ TallyAt(pass, prog, i, l, k, q, q, n) = n
    /\ ~(i = k /\ l = m) =>
         TallyAt(pass, prog, i, l, k, q, q, n) = TallyAt(pass, prog, i, l, k, q, q, p)

LEMMA TaskCounted ==
  ASSUME NEW prog \in Programs, NEW pass \in Traversals, NEW k, NEW q, NEW p, NEW n, NEW m,
         IsMethodAt(prog, k, m), Member(pass, prog, k, m) = q
  PROVE  OneMoreDone(pass, prog, k, q, p, n, m)
<1> SUFFICES ASSUME NEW i, NEW l, IsMethodAt(prog, i, l)
             PROVE  /\ i = k /\ l = m => /\ TallyAt(pass, prog, i, l, k, q, q, p) = p
                                         /\ TallyAt(pass, prog, i, l, k, q, q, n) = n
                    /\ ~(i = k /\ l = m) =>
                         TallyAt(pass, prog, i, l, k, q, q, n) = TallyAt(pass, prog, i, l, k, q, q, p)
  BY DEF OneMoreDone
<1>1. (i = k /\ Member(pass, prog, i, l) = q) <=> (i = k /\ l = m)
  BY SameMember
<1> QED  BY <1>1 DEF TallyAt, Tally

\* A task of main counts for no method.
LEMMA MainCounted ==
  ASSUME NEW prog \in Programs, NEW pass \in Traversals, NEW q, NEW p, NEW n
  PROVE  SameTally(pass, prog, 1, q, q, p, 1, q, q, n)
<1>1. ASSUME NEW i, NEW l, IsMethodAt(prog, i, l)
      PROVE  i # 1
  BY <1>1, MemberIs
<1> QED  BY <1>1 DEF SameTally, TallyAt, Tally

LEMMA TaskChecked ==
  ASSUME NEW prog \in Programs, NEW scopes, NEW rs, NEW errs, NEW more, errs \subseteq more,
         NEW k, NEW q, NEW p \in Nat, NEW n, n = p + 1, NEW m, OneMoreDone("check", prog, k, q, p, n, m),
         ProgressBy("check", prog, scopes, rs, errs, k, q, q, p),
         more = {} /\ prog[k].methods[m].items[n].kind = "use" =>
           Meant(prog, prog[k], prog[k].methods[m], prog[k].methods[m].items[n].id)
  PROVE  ProgressBy("check", prog, scopes, rs, more, k, q, q, n)
<1>1. ASSUME NEW i, NEW l, IsMethodAt(prog, i, l)
      PROVE  Progress("check", prog, scopes, rs, more, i, l, TallyAt("check", prog, i, l, k, q, q, n),
                      BehindAt("check", prog, i, l, k, q))
  <2>1. Progress("check", prog, scopes, rs, errs, i, l, TallyAt("check", prog, i, l, k, q, q, p),
                 BehindAt("check", prog, i, l, k, q))
    BY <1>1 DEF ProgressBy
  <2>2. more = {} => errs = {}
    OBVIOUS
  <2>3. CASE i = k /\ l = m
    <3> DEFINE c == prog[k]
               x == c.methods[m]
    <3>1. /\ TallyAt("check", prog, i, l, k, q, q, p) = p
          /\ TallyAt("check", prog, i, l, k, q, q, n) = n
      BY <1>1, <2>3 DEF OneMoreDone
    <3>2. more = {} => UsesMeant(prog, c, x, p)
      BY <2>1, <2>2, <2>3, <3>1 DEF Progress
    <3>3. \A j \in 1 .. n : j \in 1 .. p \/ j = n
      OBVIOUS
    <3>4. more = {} /\ x.items[n].kind = "use" => Meant(prog, c, x, x.items[n].id)
      OBVIOUS
    <3> HIDE DEF c, x
    <3>5. more = {} => UsesMeant(prog, c, x, n)
      BY <3>2, <3>3, <3>4 DEF UsesMeant
    <3> QED  BY <2>3, <3>1, <3>5 DEF Progress, c, x
  <2>4. CASE ~(i = k /\ l = m)
    <3>1. TallyAt("check", prog, i, l, k, q, q, n) = TallyAt("check", prog, i, l, k, q, q, p)
      BY <1>1, <2>4 DEF OneMoreDone
    <3> QED  BY <2>1, <2>2, <3>1 DEF Progress
  <2> QED  BY <2>3, <2>4
<1> QED  BY <1>1 DEF ProgressBy

\* The temporaries of the scopes of methods, with one more at a path.
OneTempMore(scopes, new, path, id) ==
  \A c, m : LET here == MethodScope(c, m) IN
    here \in DOMAIN scopes =>
      TempsOf(new[here].variables) =
        TempsOf(scopes[here].variables) \cup IF here = path THEN {id} ELSE {}

LEMMA CountedMore ==
  ASSUME NEW T, NEW n \in Nat, Counted(T, n), NEW id, id \notin T
  PROVE  Counted(T \cup {id}, n + 1)
  BY FS_AddElement DEF Counted

LEMMA TaskGenerated ==
  ASSUME NEW prog \in Programs, NEW scopes, Complete(scopes, prog), NEW new, NEW rs, NEW errs,
         NEW k, NEW q, NEW p \in Nat, NEW n, n = p + 1, NEW m, IsMethodAt(prog, k, m),
         OneMoreDone("generate", prog, k, q, p, n, m),
         ProgressBy("generate", prog, scopes, rs, errs, k, q, q, p), NEW path, NEW id,
         path = MethodScope(prog[k], prog[k].methods[m]), OneTempMore(scopes, new, path, id),
         id \notin TempsOf(scopes[path].variables)
  PROVE  ProgressBy("generate", prog, new, rs, errs, k, q, q, n)
<1>1. ASSUME NEW i, NEW l, IsMethodAt(prog, i, l)
      PROVE  Progress("generate", prog, new, rs, errs, i, l, TallyAt("generate", prog, i, l, k, q, q, n),
                      BehindAt("generate", prog, i, l, k, q))
  <2> DEFINE c == prog[i]
             x == c.methods[l]
             here == MethodScope(c, x)
             T == TempsOf(scopes[here].variables)
  <2>1. Progress("generate", prog, scopes, rs, errs, i, l, TallyAt("generate", prog, i, l, k, q, q, p),
                 BehindAt("generate", prog, i, l, k, q))
    BY <1>1 DEF ProgressBy
  <2>2. here = path <=> (i = k /\ l = m)
    BY <1>1, RootsDiffer
  <2>3. here \in DOMAIN scopes
    BY <1>1, CompleteScopes DEF HasScopes, IsMethodAt
  <2>4. TempsOf(new[here].variables) = T \cup IF here = path THEN {id} ELSE {}
    BY <2>3 DEF OneTempMore
  <2>5. Counted(T, TallyAt("generate", prog, i, l, k, q, q, p))
    BY <2>1 DEF Progress
  <2>6. here = path => id \notin T
    OBVIOUS
  <2> HIDE DEF T, here
  <2>7. Counted(TempsOf(new[here].variables), TallyAt("generate", prog, i, l, k, q, q, n))
    <3>1. CASE i = k /\ l = m
      <4>1. /\ TallyAt("generate", prog, i, l, k, q, q, p) = p
            /\ TallyAt("generate", prog, i, l, k, q, q, n) = n
        BY <1>1, <3>1 DEF OneMoreDone
      <4>2. Counted(T, p) /\ TempsOf(new[here].variables) = T \cup {id} /\ id \notin T
        BY <2>2, <2>4, <2>5, <2>6, <3>1, <4>1
      <4> QED  BY <4>1, <4>2, CountedMore
    <3>2. CASE ~(i = k /\ l = m)
      <4>1. TallyAt("generate", prog, i, l, k, q, q, n) = TallyAt("generate", prog, i, l, k, q, q, p)
        BY <1>1, <3>2 DEF OneMoreDone
      <4>2. TempsOf(new[here].variables) = T
        BY <2>2, <2>4, <3>2
      <4> QED  BY <2>5, <4>1, <4>2
    <3> QED  BY <3>1, <3>2
  <2> QED  BY <2>1, <2>7 DEF Progress, here
<1> QED  BY <1>1 DEF ProgressBy

LEMMA MainTaskGenerated ==
  ASSUME NEW prog \in Programs, NEW scopes, Complete(scopes, prog), NEW new, NEW rs, NEW errs,
         NEW q, NEW p, NEW n, ProgressBy("generate", prog, scopes, rs, errs, 1, q, q, p), NEW path, NEW id,
         path = MainScopeOf(prog[1]), OneTempMore(scopes, new, path, id)
  PROVE  ProgressBy("generate", prog, new, rs, errs, 1, q, q, n)
<1>1. "generate" \in Traversals
  BY DEF Traversals
<1>2. SameTally("generate", prog, 1, q, q, p, 1, q, q, n)
  BY <1>1, MainCounted
<1>3. ASSUME NEW i, NEW l, IsMethodAt(prog, i, l)
      PROVE  Progress("generate", prog, new, rs, errs, i, l, TallyAt("generate", prog, i, l, 1, q, q, n),
                      BehindAt("generate", prog, i, l, 1, q))
  <2> DEFINE here == MethodScope(prog[i], prog[i].methods[l])
  <2>1. Progress("generate", prog, scopes, rs, errs, i, l, TallyAt("generate", prog, i, l, 1, q, q, p),
                 BehindAt("generate", prog, i, l, 1, q))
    BY <1>3 DEF ProgressBy
  <2>2. here # path
    BY <1>3, RootsDiffer
  <2>3. here \in DOMAIN scopes
    BY <1>3, CompleteScopes DEF HasScopes, IsMethodAt
  <2>4. TempsOf(new[here].variables) = TempsOf(scopes[here].variables)
    BY <2>2, <2>3 DEF OneTempMore
  <2>5. TallyAt("generate", prog, i, l, 1, q, q, n) = TallyAt("generate", prog, i, l, 1, q, q, p)
    BY <1>2, <1>3 DEF SameTally
  <2> QED  BY <2>1, <2>4, <2>5 DEF Progress
<1> QED  BY <1>3 DEF ProgressBy


\* The next task of the m-th method is that of its n-th item, or of its n-th use.
LEMMA NextItem ==
  ASSUME Visiting, NEW k, NEW q, NEW p, BeforeLocal(k, q, p), NEW m, InMethod(phase, program, table, k, q, m),
         NEW n, n = p + 1
  PROVE  /\ k \in 2 .. Len(program) /\ m \in DOMAIN program[k].methods /\ p \in Nat
         /\ LET items == program[k].methods[m].items IN
            /\ phase = "check" =>
                 /\ n \in DOMAIN items /\ node = items[n] /\ Head(agenda).kind = items[n].kind
                 /\ IsName(items[n].id)
<1>1. /\ program \in Programs /\ phase \in Traversals /\ phase \in {"check", "generate"}
  BY DEF Visiting, Walking
<1>2. /\ Within(phase, program, agenda, table, errors, k, q, p) /\ p # Len(BodyAt(phase, program, k, q))
  BY DEF BeforeLocal
<1>3. k \in 2 .. Len(program) /\ m \in DOMAIN program[k].methods
      /\ BodyAt(phase, program, k, q) = Body(phase, program[k].methods[m])
  BY DEF InMethod, IsMethodAt
<1> DEFINE x == program[k].methods[m]
           s == BodyAt(phase, program, k, q)
<1>4. HeadOfBody(phase, program, agenda, k, q, p, BodyAt(phase, program, k, q))
  BY <1>1, <1>2, WithinHead, Zenon
<1>5. p \in Nat /\ n \in 1 .. Len(s) /\ Head(agenda) = s[n]
  <2>1. p \in 0 .. Len(s)
    BY <1>2 DEF Within
  <2> QED  BY <1>2, <1>4, <2>1 DEF HeadOfBody
<1>6. ASSUME phase = "check"
      PROVE  /\ n \in DOMAIN x.items /\ node = x.items[n] /\ Head(agenda).kind = x.items[n].kind
             /\ IsName(x.items[n].id)
  <2>1. s = Items(x.items)
    BY <1>3, <1>6 DEF Body
  <2>2. IsMethod(x)
    BY <1>1, <1>3, Program
  <2>3. \A i \in DOMAIN x.items : Task(x.items[i].kind, x.items[i]) \in AllTasks(program)
    <3>1. Proper(program, x)
      BY <1>1, <1>3, MethodIs
    <3>2. {"variable", "use"} \subseteq Kinds
      BY DEF Kinds
    <3> HIDE DEF x
    <3> QED  BY <3>1, <3>2 DEF Proper, Visitable
  <2> HIDE DEF x
  <2>4. IsSequence(x.items) /\ \A i \in DOMAIN x.items : IsName(x.items[i].id)
    BY <2>2 DEF IsMethod, AreNamed
  <2>5. /\ TaskEach(Items(x.items), x.items, AllTasks(program))
        /\ \A i \in 1 .. Len(x.items) : Items(x.items)[i].kind = x.items[i].kind
    BY <2>3, <2>4, ItemsAre
  <2> HIDE DEF s
  <2>6. n \in 1 .. Len(x.items) /\ DOMAIN x.items = 1 .. Len(x.items)
    BY <1>5, <2>1, <2>5 DEF TaskEach
  <2> QED  BY <1>5, <2>1, <2>4, <2>5, <2>6 DEF TaskEach, node
<1> QED  BY <1>3, <1>5, <1>6

\* What the look-up finds from within a method is in the text of the program.
LEMMA ResolvedMeans ==
  ASSUME NEW prog \in Programs, NEW t, Tree(t), Complete(t.scopes, prog),
         NEW k \in 2 .. Len(prog), NEW m \in DOMAIN prog[k].methods,
         t.current = MethodScope(prog[k], prog[k].methods[m]), NEW id, IsName(id),
         NEW kind \in {"variables", "classes", "methods"}, Found(t, kind, id)
  PROVE  Meant(prog, prog[k], prog[k].methods[m], id)
<1> DEFINE c == prog[k]
           x == c.methods[m]
           outer == <<ClassStep(c.id)>>
           here == <<ClassStep(c.id), MethodStep(x.id)>>
<1>1. t.current = here
  BY DEF MethodScope
<1>2. PICK path : path \in {Root, outer, here} /\ id \in DOMAIN t.scopes[path][kind]
  <2>1. Enclosing(t.current) = {Root, outer, here}
    BY <1>1, EnclosingPaths
  <2> QED  BY <2>1 DEF Found, Holders, Enclosing
<1>3. /\ DOMAIN t.scopes[Root].classes = {prog[i].id : i \in 1 .. Len(prog)}
      /\ ClassDeclared(t.scopes, c, Nat, 0, Nat) /\ DOMAIN prog = 1 .. Len(prog)
  BY CompleteIs, Program
<1>4. m \in MethodsIn(c, Nat) /\ MethodDeclared(t.scopes, c, x, Nat)
  BY <1>3, MethodsDeclared
<1>5. outer \in DOMAIN t.scopes /\ here \in DOMAIN t.scopes
  BY <1>3, <1>4 DEF ClassDeclared, MethodDeclared, ClassScope, MethodScope
<1>6. ClassAt(t, outer, c.id) /\ MethodAt(t, here, c.id, x.id)
  BY <1>5, TreeKinds
<1>7. id # This /\ ~IsTemp(id)
  BY DEF IsName, IsTemp
<1> HIDE DEF c, x
<1>8. CASE kind = "variables"
  <2>1. id \in DOMAIN t.scopes[path].variables
    BY <1>2, <1>8
  <2>2. id \in Names(t.scopes[path].variables)
    BY <1>7, <2>1 DEF Names
  <2>3. CASE path = Root
    BY <2>1, <2>3 DEF Tree
  <2>4. CASE path = outer
    <3>1. Names(t.scopes[path].variables) = {This} \cup {c.fields[i].id : i \in DOMAIN c.fields \cap Nat}
      BY <1>3, <2>4 DEF ClassDeclared, VariablesAre, ClassScope
    <3>2. id \in Ids(c.fields)
      BY <1>7, <2>2, <3>1 DEF Ids
    <3> QED  BY <3>2 DEF Meant, c
  <2>5. CASE path = here
    <3>1. Names(t.scopes[path].variables) = {} \cup {Locals(x)[i].id : i \in DOMAIN Locals(x) \cap Nat}
      BY <1>4, <2>5 DEF MethodDeclared, VariablesAre, MethodScope
    <3>2. id \in Ids(Locals(x))
      BY <2>2, <3>1 DEF Ids
    <3> QED  BY <3>2 DEF Meant, c, x
  <2> QED  BY <1>2, <2>3, <2>4, <2>5
<1>9. CASE kind = "classes"
  <2>1. id \in DOMAIN t.scopes[path].classes
    BY <1>2, <1>9
  <2>2. path = Root
    BY <1>2, <1>6, <2>1 DEF ClassAt, MethodAt
  <2>3. id \in Ids(prog)
    BY <1>3, <2>1, <2>2 DEF Ids
  <2> QED  BY <2>3 DEF Meant
<1>10. CASE kind = "methods"
  <2>1. id \in DOMAIN t.scopes[path].methods
    BY <1>2, <1>10
  <2>2. path = outer
    BY <1>2, <1>6, <2>1 DEF MethodAt, Tree
  <2>3. DOMAIN t.scopes[outer].methods = {c.methods[l].id : l \in MethodsIn(c, Nat)}
    BY <1>3 DEF ClassDeclared, ClassScope
  <2>4. id \in Ids(c.methods)
    BY <2>1, <2>2, <2>3 DEF Ids, MethodsIn
  <2> QED  BY <2>4 DEF Meant, c
<1> QED  BY <1>8, <1>9, <1>10

\* A task of a body is checked.
LEMMA ItemChecked ==
  ASSUME Visiting, phase = "check", program' = program, phase' = phase, roots' = roots,
         errors \subseteq errors', table' = table, agenda' = <<>> \o Tail(agenda),
         Head(agenda).kind = "use" /\ errors' = {} => Resolves(node.id),
         NEW k, NEW q, NEW p, BeforeLocal(k, q, p), Progressed(k, q, q, p)
  PROVE  OnTheWay'
<1>1. /\ Walking /\ phase \in Traversals /\ program \in Programs /\ Tree(table) /\ agenda # <<>>
      /\ phase \in {"check", "generate"}
  BY DEF Visiting, Walking
<1>2. PICK n : n = p + 1
  OBVIOUS
<1>3. Complete(table.scopes, program)
  BY <1>1, WalkingComplete
<1>4. Within(phase, program, agenda', table', errors', k, q, n)
  BY <1>1, <1>2, <1>3, ItemDone
<1>5. Within(phase, program, agenda, table, errors, k, q, p)
  BY DEF BeforeLocal
<1>6. ProgressBy(phase, program, table.scopes, roots, errors, k, q, q, p)
  BY DEF Progressed
<1>7. ProgressBy(phase, program, table.scopes, roots, errors', k, q, q, n)
  <2>1. CASE k = 1
    <3>1. SameTally(phase, program, 1, q, q, p, 1, q, q, n)
      BY <1>1, MainCounted
    <3> QED  BY <1>6, <2>1, <3>1, ProgressMoved
  <2>2. CASE k # 1
    <3>1. PICK m : InMethod(phase, program, table, k, q, m)
      BY <1>1, <1>5, <2>2, WithinMethod
    <3>2. IsMethodAt(program, k, m) /\ Member(phase, program, k, m) = q
          /\ table.current = MethodScope(program[k], program[k].methods[m])
      BY <3>1 DEF InMethod
    <3> DEFINE x == program[k].methods[m]
    <3>3. /\ k \in 2 .. Len(program) /\ m \in DOMAIN program[k].methods /\ p \in Nat
          /\ n \in DOMAIN x.items /\ node = x.items[n] /\ Head(agenda).kind = x.items[n].kind
          /\ IsName(x.items[n].id)
      BY <1>2, <3>1, NextItem
    <3>4. errors' = {} /\ x.items[n].kind = "use" => Meant(program, program[k], x, x.items[n].id)
      <4> SUFFICES ASSUME errors' = {}, x.items[n].kind = "use"
                   PROVE  Meant(program, program[k], x, x.items[n].id)
        OBVIOUS
      <4>1. PICK kind \in {"variables", "classes", "methods"} : Found(table, kind, x.items[n].id)
        BY <3>3 DEF Resolves
      <4> QED  BY <1>1, <1>3, <3>2, <3>3, <4>1, ResolvedMeans
    <3>5. OneMoreDone(phase, program, k, q, p, n, m)
      BY <1>1, <3>2, TaskCounted
    <3> QED  BY <1>1, <1>2, <1>6, <3>3, <3>4, <3>5, TaskChecked
  <2> QED  BY <2>1, <2>2
<1>8. Progressed(k, q, q, n)'
  BY <1>7 DEF Progressed
<1> QED  BY <1>4, <1>8 DEF OnTheWay

LEMMA CheckOnTheWay ==
  ASSUME Visiting, Lists(roots), Check
  PROVE  OnTheWay'
<1>1. CASE CheckClass
  <2>1. /\ phase = "check" /\ Head(agenda).kind = "class" /\ program' = program /\ phase' = phase
        /\ table' = EnterClass(table, node.id, NoRef) /\ roots' = roots /\ errors' = errors
        /\ agenda' = (Tasks("variable", node.fields) \o Tasks("method", node.methods) \o <<Leave>>)
                       \o Tail(agenda)
    BY <1>1 DEF CheckClass, Doing, Enters, Proceed, Semantic
  <2> QED  BY <2>1, ClassOnTheWay
<1>2. CASE CheckMain
  <2>1. /\ phase = "check" /\ Head(agenda).kind = "main" /\ program' = program /\ phase' = phase
        /\ table' = MainScope(node.id) /\ roots' = roots /\ errors' = errors
        /\ agenda' = (Items(node.items) \o <<Leave, Leave>>) \o Tail(agenda)
    BY <1>2 DEF CheckMain, Doing, Enters, Proceed, Semantic
  <2> QED  BY <2>1, MainOnTheWay
<1>3. CASE CheckMethod
  <2>1. /\ phase = "check" /\ Head(agenda).kind = "method" /\ program' = program /\ phase' = phase
        /\ table' = EnterMethod(table, node.id, NoRef) /\ roots' = roots /\ errors' = errors
        /\ agenda' = (Items(node.items) \o <<Leave>>) \o Tail(agenda)
    BY <1>3 DEF CheckMethod, Doing, Enters, Proceed, Semantic
  <2>2. Body("check", node) = Items(node.items)
    BY DEF Body
  <2> QED  BY <2>1, <2>2, MethodOnTheWay
<1>4. CASE CheckVariable
  <2>1. /\ phase = "check" /\ Head(agenda).kind = "variable" /\ program' = program /\ phase' = phase
        /\ table' = table /\ agenda' = <<>> \o Tail(agenda) /\ roots' = roots /\ errors \subseteq errors'
    BY <1>4 DEF CheckVariable, Doing, Enters, Refuse, Proceed, Semantic
  <2>2. PlacesWith("variable")
    BY <2>1, PlaceWith DEF Visiting
  <2> QED  BY <2>1, <2>2, FieldOnTheWay, ItemChecked DEF PlacesWith
<1>5. CASE CheckUse
  <2>1. /\ phase = "check" /\ Head(agenda).kind = "use" /\ program' = program /\ phase' = phase
        /\ table' = table /\ agenda' = <<>> \o Tail(agenda) /\ roots' = roots /\ errors \subseteq errors'
        /\ errors' = {} => Resolves(node.id)
    BY <1>5 DEF CheckUse, Doing, Enters, Refuse, Proceed, Semantic
  <2>2. PICK k, q, p : BeforeLocal(k, q, p) /\ Progressed(k, q, q, p)
    BY <2>1, PlaceWith DEF Visiting, PlacesWith
  <2> QED  BY <2>1, <2>2, ItemChecked
<1> QED  BY <1>1, <1>2, <1>3, <1>4, <1>5 DEF Check


-----------------------------------------------------------------------------
(***************************************************************************)
(* The temporaries: none until code is generated, then each with a number  *)
(* of its own below the next, and only in the scopes of methods.           *)
(***************************************************************************)
NoTemps(scopes) == \A path \in DOMAIN scopes : TempsOf(scopes[path].variables) = {}

Numbered(scopes, next) ==
  /\ \A path \in DOMAIN scopes : \A id \in TempsOf(scopes[path].variables) :
       \E n \in Nat : n < next /\ id = Temp(n)
  /\ \A p, q \in DOMAIN scopes : p # q =>
       TempsOf(scopes[p].variables) \cap TempsOf(scopes[q].variables) = {}
  /\ \A x : <<x>> \in DOMAIN scopes => TempsOf(scopes[<<x>>].variables) = {}

Fresh ==
  /\ phase \in {"declare", "check"} => nextTemp = 0 /\ NoTemps(table.scopes)
  /\ phase \in {"generate", "emit", "done"} => Numbered(table.scopes, nextTemp)

LEMMA NoneNumbered ==
  ASSUME NEW scopes, NoTemps(scopes), NEW n
  PROVE  Numbered(scopes, n)
  BY DEF NoTemps, Numbered

LEMMA TempsEmplaced ==
  ASSUME NEW map, NEW id, NEW value
  PROVE  /\ ~IsTemp(id) => TempsOf(Emplace(map, id, value)) = TempsOf(map)
         /\ IsTemp(id) => TempsOf(Emplace(map, id, value)) = TempsOf(map) \cup {id}
<1> DEFINE z == Emplace(map, id, value)
<1>1. DOMAIN z = DOMAIN map \cup {id}
  BY DEF Emplace
<1> HIDE DEF z
<1>2. /\ ~IsTemp(id) => TempsOf(z) = TempsOf(map)
      /\ IsTemp(id) => TempsOf(z) = TempsOf(map) \cup {id}
  BY <1>1 DEF TempsOf
<1> QED  BY <1>2 DEF z

LEMMA NothingTemps == TempsOf(Nothing) = {}
  BY DEF TempsOf, Nothing

\* A scope gets a name, or a scope of names is added.
OneVariableMore(scopes, new, here, id, type) ==
  /\ DOMAIN new = DOMAIN scopes
  /\ \A path \in DOMAIN scopes : path # here => new[path].variables = scopes[path].variables
  /\ new[here].variables = Emplace(scopes[here].variables, id, type)

LEMMA NameAdded ==
  ASSUME NEW scopes, NoTemps(scopes), NEW new, NEW here, NEW id, NEW type, ~IsTemp(id),
         OneVariableMore(scopes, new, here, id, type)
  PROVE  NoTemps(new)
<1>1. TempsOf(new[here].variables) = TempsOf(scopes[here].variables)
  BY TempsEmplaced DEF OneVariableMore
<1> QED  BY <1>1 DEF NoTemps, OneVariableMore

LEMMA ScopeAdded ==
  ASSUME NEW t, NoTemps(t.scopes), NEW u, NEW path, OneMore(t, u, path),
         TempsOf(u.scopes[path].variables) = {}
  PROVE  NoTemps(u.scopes)
<1>1. DOMAIN u.scopes = DOMAIN t.scopes \cup {path}
  BY DEF OneMore
<1>2. \A p \in DOMAIN t.scopes : u.scopes[p].variables = t.scopes[p].variables
  BY DEF OneMore
<1> QED  BY <1>1, <1>2 DEF NoTemps

LEMMA NameIsNoTemp ==
  ASSUME NEW id, IsName(id)
  PROVE  ~IsTemp(id)
  BY DEF IsName, IsTemp

LEMMA TempIsTemp ==
  ASSUME NEW n
  PROVE  IsTemp(Temp(n)) /\ \A m : Temp(m) = Temp(n) => m = n
  BY DEF IsTemp, Temp

LEMMA DeclareClassFresh ==
  ASSUME Walking, NoTemps(table.scopes), DeclareClass
  PROVE  NoTemps(table'.scopes)
<1>1. /\ phase = "declare" /\ agenda # <<>> /\ Head(agenda).kind = "class"
      /\ program \in Programs /\ Tree(table)
  BY DEF DeclareClass, Doing, Walking
<1>2. CASE Found(table, "classes", node.id) /\ Refuse("duplicate")
  BY <1>2 DEF Refuse
<1>3. CASE /\ ~Found(table, "classes", node.id)
           /\ Enters(OpenClass(node.id),
                     Tasks("variable", node.fields) \o Tasks("method", node.methods) \o <<Leave>>)
  <2>1. PICK k : BeforeClass(k) /\ k # 0
    BY <1>1, PlaceIs DEF Places
  <2>2. table.current = Root
    BY <2>1 DEF BeforeClass, Outside
  <2>3. node.id \notin DOMAIN table.scopes[Root].classes
    BY <1>3, <2>2, FoundAtRoot, FieldByName
  <2>4. table' = OpenClass(node.id)
    BY <1>3 DEF Enters
  <2>5. ClassAdded(table, table', node.id)
    BY <1>1, <2>2, <2>3, <2>4, ClassOpened
  <2>6. /\ OneMore(table, table', <<ClassStep(node.id)>>)
        /\ table'.scopes[<<ClassStep(node.id)>>].variables = Emplace(Nothing, This, node.id)
    BY <2>5 DEF ClassAdded
  <2>7. TempsOf(table'.scopes[<<ClassStep(node.id)>>].variables) = {}
    BY <2>6, TempsEmplaced, NothingTemps, ThisIsNoTemp
  <2> QED  BY <2>6, <2>7, ScopeAdded
<1> QED  BY <1>2, <1>3 DEF DeclareClass

LEMMA DeclareMainFresh ==
  ASSUME Walking, DeclareMain
  PROVE  NoTemps(table'.scopes)
<1>1. /\ phase = "declare" /\ agenda # <<>> /\ Head(agenda).kind = "main" /\ program \in Programs
      /\ phase \in Traversals
  BY DEF DeclareMain, Doing, Walking
<1>2. BeforeClass(0)
  BY <1>1, PlaceIs DEF Places
<1>3. node = program[1] /\ table = EmptyTable
  <2>1. 0 # Len(program) /\ Outside(phase, program, agenda, table, errors, 0)
    BY <1>2 DEF BeforeClass
  <2>2. 0 + 1 \in 1 .. Len(program) /\ Head(agenda).node = program[0 + 1]
    BY <1>1, <2>1, OutsideHead
  <2>3. table = EmptyTable
    BY <1>1, <2>1 DEF Outside, Known
  <2> QED  BY <2>2, <2>3 DEF node
<1>4. table' = Exit(AddVariable(OpenMethod(OpenClass(node.id), <<"void">>, Main), Strings, node.arg))
  BY DEF DeclareMain, Enters
<1>5. MainAdded(table', node.id, node.arg)
  BY <1>3, <1>4, MainOpened
<1> DEFINE outer == <<ClassStep(node.id)>>
           path  == <<ClassStep(node.id), MethodStep(Main)>>
<1>6. /\ DOMAIN table'.scopes = {Root, outer, path} /\ DOMAIN table'.scopes[Root].variables = {}
      /\ table'.scopes[outer].variables = Emplace(Nothing, This, node.id)
      /\ table'.scopes[path].variables = Emplace(Nothing, node.arg, Strings)
  BY <1>5 DEF MainAdded, Tree
<1>7. ~IsTemp(node.arg)
  BY <1>1, <1>3, Program, NameIsNoTemp
<1>8. TempsOf(table'.scopes[outer].variables) = {} /\ TempsOf(table'.scopes[path].variables) = {}
  BY <1>6, <1>7, TempsEmplaced, NothingTemps, ThisIsNoTemp
<1>9. TempsOf(table'.scopes[Root].variables) = {}
  BY <1>6 DEF TempsOf
<1> HIDE DEF outer, path
<1> QED  BY <1>6, <1>8, <1>9 DEF NoTemps

LEMMA DeclareMethodFresh ==
  ASSUME Walking, NoTemps(table.scopes), DeclareMethod
  PROVE  NoTemps(table'.scopes)
<1>1. /\ phase = "declare" /\ agenda # <<>> /\ Head(agenda).kind = "method"
      /\ program \in Programs /\ Tree(table)
  BY DEF DeclareMethod, Doing, Walking
<1>2. CASE node.id \in DOMAIN Record(table, Current(table).record).methods /\ Refuse("duplicate")
  BY <1>2 DEF Refuse
<1>3. CASE /\ node.id \notin DOMAIN Record(table, Current(table).record).methods
           /\ Enters(OpenMethod(table, node.type, node.id),
                     Tasks("parameter", node.params)
                       \o Items(OfKind("variable", node.items)) \o <<Leave>>)
  <2>1. PICK k, q, l : BeforeMethod(k, q, l)
    BY <1>1, PlaceIs DEF Places
  <2>2. PICK class : class = program[k].id
    OBVIOUS
  <2>3. table.current = <<ClassStep(class)>>
    BY <2>1, <2>2 DEF BeforeMethod, Inside
  <2>4. node.id \notin DOMAIN table.scopes[table.current].methods
    BY <1>1, <1>3, <2>3, ClassRecordIs
  <2>5. table' = OpenMethod(table, node.type, node.id)
    BY <1>3 DEF Enters
  <2>6. MethodAdded(table, table', class, node.type, node.id)
    BY <1>1, <2>3, <2>4, <2>5, MethodOpened
  <2> DEFINE path == <<ClassStep(class), MethodStep(node.id)>>
  <2>7. OneMore(table, table', path) /\ table'.scopes[path].variables = Nothing
    BY <2>6 DEF MethodAdded
  <2> HIDE DEF path
  <2>8. TempsOf(table'.scopes[path].variables) = {}
    BY <2>7, NothingTemps
  <2> QED  BY <2>7, <2>8, ScopeAdded
<1> QED  BY <1>2, <1>3 DEF DeclareMethod

\* The variables that are declared have names.
LEMMA LocalIsNamed ==
  ASSUME Walking, NEW k, NEW q, NEW p, NEW n, NEW l, Declaring(k, q, p, n, l)
  PROVE  /\ IsName(node.id)
         /\ table.current = <<ClassStep(program[k].id), MethodStep(program[k].methods[l].id)>>
<1> DEFINE m == program[k].methods[l]
<1>1. /\ k \in 2 .. Len(program) /\ l \in DOMAIN program[k].methods /\ n \in DOMAIN Locals(m)
      /\ Head(agenda).node = Locals(m)[n] /\ program \in Programs
      /\ table.current = MethodScope(program[k], m)
  BY DEF Declaring, IsLocal, Walking
<1>2. AreNamed(Locals(m))
  BY <1>1, LocalsAreNamed
<1> HIDE DEF m
<1>3. IsName(Locals(m)[n].id)
  BY <1>1, <1>2 DEF AreNamed
<1> QED  BY <1>1, <1>3 DEF node, MethodScope, m

LEMMA DeclareParameterFresh ==
  ASSUME Walking, NoTemps(table.scopes), DeclareParameter
  PROVE  NoTemps(table'.scopes)
<1>1. /\ phase = "declare" /\ agenda # <<>> /\ Head(agenda).kind = "parameter" /\ Tree(table)
  BY DEF DeclareParameter, Doing, Walking
<1>2. CASE InScope(table, "variables", node.id) /\ Refuse("duplicate")
  BY <1>2 DEF Refuse
<1>3. CASE /\ ~InScope(table, "variables", node.id)
           /\ Enters(AddParameter(AddVariable(table, node.type, node.id),
                                  Current(table).record, node.id), <<>>)
  <2>1. PICK k, q, p : BeforeLocal(k, q, p)
    BY <1>1, PlaceIs DEF Places
  <2>2. PICK n, l : Declaring(k, q, p, n, l)
    BY <1>1, <2>1, DeclaringIs
  <2>3. PICK class, method : table.current = <<ClassStep(class), MethodStep(method)>>
    BY <2>2, LocalIsNamed
  <2>4. PICK x : x = node
    OBVIOUS
  <2>5. table' = AddParameter(AddVariable(table, x.type, x.id), Current(table).record, x.id)
    BY <1>3, <2>4 DEF Enters
  <2>6. /\ SameTree(table, table')
        /\ \A path \in DOMAIN table.scopes :
             path # table.current => table'.scopes[path].variables = table.scopes[path].variables
        /\ table'.scopes[table.current].variables
             = Emplace(table.scopes[table.current].variables, x.id, x.type)
        /\ Parameterized(table, table', class, method,
                         [path |-> table.current, kind |-> "variables", id |-> x.id])
    BY <1>1, <2>3, <2>5, ParameterDeclared
  <2>7. ~IsTemp(x.id)
    BY <2>2, <2>4, LocalIsNamed, NameIsNoTemp
  <2>8. OneVariableMore(table.scopes, table'.scopes, table.current, x.id, x.type)
    BY <2>6 DEF OneVariableMore, SameTree
  <2> QED  BY <2>7, <2>8, NameAdded
<1> QED  BY <1>2, <1>3 DEF DeclareParameter

LEMMA DeclareVariableFresh ==
  ASSUME Walking, NoTemps(table.scopes), DeclareVariable
  PROVE  NoTemps(table'.scopes)
<1>1. /\ phase = "declare" /\ agenda # <<>> /\ Head(agenda).kind = "variable" /\ Tree(table)
      /\ program \in Programs /\ phase \in Traversals
  BY DEF DeclareVariable, Doing, Walking
<1>2. CASE Taken(node.id) /\ Refuse("duplicate")
  BY <1>2 DEF Refuse
<1>3. CASE /\ ~Taken(node.id)
           /\ Enters(AddToRecord(AddVariable(table, node.type, node.id),
                                 Current(table).record, "variables", node.id), <<>>)
  <2>1. IsName(node.id) /\ table.current # Root
    <3>1. ASSUME NEW k, NEW q, BeforeField(k, q)
          PROVE  IsName(node.id) /\ table.current # Root
      <4>1. /\ Inside(phase, program, agenda, table, errors, k, q) /\ q # Len(Members(phase, program, k))
            /\ IsField(phase, program[k], q + 1, Head(agenda))
        BY <3>1 DEF BeforeField
      <4>2. k \in 2 .. Len(program)
        BY <1>1, <4>1, InsideHead
      <4>3. table.current # Root
        BY <4>1, PathLengths DEF Inside
      <4>4. q + 1 \in DOMAIN program[k].fields /\ node = program[k].fields[q + 1]
        BY <4>1 DEF IsField, node
      <4>5. IsName(node.id)
        BY <1>1, <4>2, <4>4, Program DEF AreNamed
      <4> QED  BY <4>3, <4>5
    <3>2. ASSUME NEW k, NEW q, NEW p, BeforeLocal(k, q, p)
          PROVE  IsName(node.id) /\ table.current # Root
      <4>1. PICK n, l : Declaring(k, q, p, n, l)
        BY <1>1, <3>2, DeclaringIs
      <4> QED  BY <4>1, LocalIsNamed, PathLengths
    <3>3. (\E k, q : BeforeField(k, q)) \/ (\E k, q, p : BeforeLocal(k, q, p))
      BY <1>1, PlaceIs DEF Places
    <3> QED  BY <3>1, <3>2, <3>3
  <2>2. table' = AddToRecord(AddVariable(table, node.type, node.id), Current(table).record, "variables", node.id)
    BY <1>3 DEF Enters
  <2>3. /\ SameTree(table, table')
        /\ \A path \in DOMAIN table.scopes :
             path # table.current => table'.scopes[path].variables = table.scopes[path].variables
        /\ table'.scopes[table.current].variables
             = Emplace(table.scopes[table.current].variables, node.id, node.type)
    BY <1>1, <2>1, <2>2, VariableDeclared
  <2>4. ~IsTemp(node.id)
    BY <2>1, NameIsNoTemp
  <2>5. OneVariableMore(table.scopes, table'.scopes, table.current, node.id, node.type)
    BY <2>3 DEF OneVariableMore, SameTree
  <2> QED  BY <2>4, <2>5, NameAdded
<1> QED  BY <1>2, <1>3 DEF DeclareVariable

\* A scope that is entered again, or left, leaves the scopes as they are.
LEMMA ScopesStay ==
  ASSUME Walking, Check \/ GenerateClass \/ GenerateMain \/ GenerateMethod \/ LeaveScope
  PROVE  table'.scopes = table.scopes
<1>1. CASE CheckClass \/ GenerateClass
  <2>1. /\ phase \in {"check", "generate"} /\ agenda # <<>> /\ Head(agenda).kind = "class"
        /\ program' = program /\ phase' = phase
        /\ \E record : table' = EnterClass(table, node.id, record)
        /\ agenda' = ((IF phase = "generate" THEN Tasks("method", node.methods)
                       ELSE Tasks("variable", node.fields) \o Tasks("method", node.methods)) \o <<Leave>>)
                       \o Tail(agenda)
    BY <1>1 DEF CheckClass, GenerateClass, Doing, Enters, Proceed, Semantic
  <2>2. PICK record : table' = EnterClass(table, node.id, record)
    BY <2>1
  <2>3. PICK k : BeforeClass(k) /\ k # 0
    BY <2>1, PlaceIs DEF Places
  <2>4. PICK n : n = k + 1
    OBVIOUS
  <2> QED  BY <2>1, <2>2, <2>3, <2>4, ClassEnteredAt
<1>2. CASE CheckMain \/ GenerateMain
  <2>1. /\ phase \in {"check", "generate"} /\ agenda # <<>> /\ Head(agenda).kind = "main"
        /\ program' = program /\ phase' = phase /\ table' = MainScope(node.id)
        /\ agenda' = (Items(node.items) \o <<Leave, Leave>>) \o Tail(agenda)
    BY <1>2 DEF CheckMain, GenerateMain, Doing, Enters, Proceed, Semantic
  <2> QED  BY <2>1, MainEntered
<1>3. CASE CheckMethod \/ GenerateMethod
  <2>1. /\ phase \in {"check", "generate"} /\ agenda # <<>> /\ Head(agenda).kind = "method"
        /\ program' = program /\ phase' = phase
        /\ \E record : table' = EnterMethod(table, node.id, record)
        /\ agenda' = (Body(phase, node) \o <<Leave>>) \o Tail(agenda)
    BY <1>3 DEF CheckMethod, GenerateMethod, Doing, Enters, Proceed, Semantic, Body
  <2>2. PICK record : table' = EnterMethod(table, node.id, record)
    BY <2>1
  <2> QED  BY <2>1, <2>2, MethodEntered
<1>4. CASE CheckVariable \/ CheckUse
  BY <1>4 DEF CheckVariable, CheckUse, Enters, Refuse
<1>5. CASE LeaveScope
  <2>1. table' = Exit(table) /\ IsTable(table)
    BY <1>5 DEF LeaveScope, Enters, Walking, Tree
  <2> QED  BY <2>1, ExitIs DEF At
<1> QED  BY <1>1, <1>2, <1>3, <1>4, <1>5 DEF Check

\* A temporary is added to the scope of a method, with the next number.
TempAdded(scopes, new, here, next) ==
  /\ DOMAIN new = DOMAIN scopes /\ here \in DOMAIN scopes /\ \A x : here # <<x>>
  /\ \A path \in DOMAIN scopes : path # here => new[path].variables = scopes[path].variables
  /\ TempsOf(new[here].variables) = TempsOf(scopes[here].variables) \cup {Temp(next)}

LEMMA UseAdded ==
  ASSUME Walking, GenerateUse
  PROVE  /\ TempAdded(table.scopes, table'.scopes, table.current, nextTemp)
         /\ Tree(table') /\ table'.current = table.current /\ Complete(table'.scopes, program)
<1>1. /\ phase = "generate" /\ agenda # <<>> /\ Head(agenda).kind = "use"
      /\ table' = AddVariable(table, <<"int">>, Temp(nextTemp)) /\ Tree(table)
  BY DEF GenerateUse, Doing, Enters, Walking
<1>2. /\ Tree(table') /\ table'.current = table.current /\ Complete(table'.scopes, program)
  BY <1>1, TemporaryAdded
<1>3. PICK k, q, p : BeforeLocal(k, q, p)
  BY <1>1, PlaceIs DEF Places
<1>4. table.current # Root /\ \A x : table.current # <<x>>
  <2>1. PICK a, b : table.current = <<a, b>>
    BY <1>3 DEF BeforeLocal, Within
  <2> QED  BY <2>1, PathLengths
<1>5. /\ SameTree(table, table')
      /\ \A path \in DOMAIN table.scopes : path # table.current => table'.scopes[path] = table.scopes[path]
      /\ table'.scopes[table.current].variables
           = Emplace(table.scopes[table.current].variables, Temp(nextTemp), <<"int">>)
  BY <1>1, <1>4, VariableAdded
<1>6. TempsOf(table'.scopes[table.current].variables)
        = TempsOf(table.scopes[table.current].variables) \cup {Temp(nextTemp)}
  BY <1>5, TempsEmplaced, TempIsTemp
<1>7. DOMAIN table'.scopes = DOMAIN table.scopes /\ table.current \in DOMAIN table.scopes
  BY <1>1, <1>5 DEF SameTree, Tree
<1>8. TempAdded(table.scopes, table'.scopes, table.current, nextTemp)
  BY <1>4, <1>5, <1>6, <1>7 DEF TempAdded
<1> QED  BY <1>2, <1>8

\* The next number is new.
LEMMA TempIsNew ==
  ASSUME NEW scopes, NEW next \in Nat, Numbered(scopes, next), NEW path \in DOMAIN scopes
  PROVE  Temp(next) \notin TempsOf(scopes[path].variables)
<1>1. SUFFICES ASSUME Temp(next) \in TempsOf(scopes[path].variables)
               PROVE  FALSE
  OBVIOUS
<1>2. PICK n \in Nat : n < next /\ Temp(next) = Temp(n)
  BY <1>1 DEF Numbered
<1>3. n = next
  BY <1>2, TempIsTemp
<1> QED  BY <1>2, <1>3

LEMMA StillNumbered ==
  ASSUME NEW scopes, NEW next \in Nat, Numbered(scopes, next), NEW new, NEW here,
         TempAdded(scopes, new, here, next)
  PROVE  Numbered(new, next + 1)
<1> DEFINE T(p) == TempsOf(scopes[p].variables)
           N(p) == TempsOf(new[p].variables)
           x == Temp(next)
<1>1. /\ DOMAIN new = DOMAIN scopes /\ here \in DOMAIN scopes /\ \A y : here # <<y>>
      /\ N(here) = T(here) \cup {x}
  BY DEF TempAdded
<1>2. \A p \in DOMAIN scopes : p # here => N(p) = T(p)
  BY DEF TempAdded
<1>3. \A p \in DOMAIN scopes : x \notin T(p)
  BY TempIsNew
<1>4. /\ \A p \in DOMAIN scopes : \A id \in T(p) : \E n \in Nat : n < next /\ id = Temp(n)
      /\ \A p, q \in DOMAIN scopes : p # q => T(p) \cap T(q) = {}
      /\ \A y : <<y>> \in DOMAIN scopes => T(<<y>>) = {}
  BY DEF Numbered
<1> HIDE DEF T, N, x
<1>5. \A p \in DOMAIN new : \A id \in N(p) : id = x \/ \E n \in Nat : n < next /\ id = Temp(n)
  BY <1>1, <1>2, <1>4
<1>6. \A p \in DOMAIN new : \A id \in N(p) : \E n \in Nat : n < next + 1 /\ id = Temp(n)
  <2> SUFFICES ASSUME NEW p \in DOMAIN new, NEW id \in N(p)
               PROVE  \E n \in Nat : n < next + 1 /\ id = Temp(n)
    OBVIOUS
  <2>1. CASE id = x
    BY <2>1 DEF x
  <2>2. CASE \E n \in Nat : n < next /\ id = Temp(n)
    <3>1. PICK n \in Nat : n < next /\ id = Temp(n)
      BY <2>2
    <3>2. n < next + 1
      BY <3>1
    <3> QED  BY <3>1, <3>2
  <2> QED  BY <1>5, <2>1, <2>2
<1>7. \A p, q \in DOMAIN new : p # q => N(p) \cap N(q) = {}
  BY <1>1, <1>2, <1>3, <1>4
<1>8. \A y : <<y>> \in DOMAIN new => N(<<y>>) = {}
  BY <1>1, <1>2, <1>4
<1> QED  BY <1>6, <1>7, <1>8 DEF Numbered, N

LEMMA FreshStays ==
  ASSUME Fresh, phase' = phase, table'.scopes = table.scopes, nextTemp' = nextTemp
  PROVE  Fresh'
  BY DEF Fresh

LEMMA DeclareFresh ==
  ASSUME Kept, Fresh, Declare
  PROVE  Fresh'
<1>1. phase = "declare" /\ phase' = phase /\ nextTemp' = nextTemp
  BY DEF Declare, DeclareClass, DeclareMain, DeclareMethod, DeclareParameter, DeclareVariable,
         Doing, Semantic
<1>2. Walking /\ NoTemps(table.scopes) /\ nextTemp = 0
  BY <1>1 DEF Kept, Fresh, Traversals
<1>3. NoTemps(table'.scopes)
  BY <1>2, DeclareClassFresh, DeclareMainFresh, DeclareMethodFresh, DeclareParameterFresh,
     DeclareVariableFresh DEF Declare
<1> QED  BY <1>1, <1>2, <1>3 DEF Fresh

LEMMA UseFresh ==
  ASSUME Kept, Fresh, GenerateUse
  PROVE  Fresh'
<1>1. phase = "generate" /\ phase' = phase /\ nextTemp' = nextTemp + 1
  BY DEF GenerateUse, Doing
<1>2. Walking /\ Numbered(table.scopes, nextTemp) /\ nextTemp \in Nat
  BY <1>1 DEF Kept, Fresh, Traversals
<1>3. TempAdded(table.scopes, table'.scopes, table.current, nextTemp)
  BY <1>2, UseAdded
<1>4. Numbered(table'.scopes, nextTemp + 1)
  BY <1>2, <1>3, StillNumbered
<1> QED  BY <1>1, <1>4 DEF Fresh

\* Every other step leaves the scopes alone.
LEMMA OthersFresh ==
  ASSUME Kept, Fresh, Check \/ GenerateClass \/ GenerateMain \/ GenerateMethod \/ LeaveScope
  PROVE  Fresh'
<1>1. phase \in Traversals /\ phase' = phase /\ nextTemp' = nextTemp
  BY DEF Check, CheckClass, CheckMain, CheckMethod, CheckVariable, CheckUse, GenerateClass, GenerateMain,
         GenerateMethod, LeaveScope, Doing, Semantic, Traversals
<1>2. table'.scopes = table.scopes
  BY <1>1, ScopesStay DEF Kept
<1> QED  BY <1>1, <1>2, FreshStays

\* A use takes a temporary: the scope of its method has one more.
LEMMA UseOnTheWay ==
  ASSUME Visiting, nextTemp \in Nat, Numbered(table.scopes, nextTemp), GenerateUse
  PROVE  OnTheWay'
<1>1. /\ Walking /\ phase = "generate" /\ phase \in Traversals /\ phase \in {"check", "generate"}
      /\ program \in Programs /\ agenda # <<>> /\ Head(agenda).kind = "use" /\ program' = program
      /\ phase' = phase /\ roots' = roots /\ errors' = errors /\ agenda' = <<>> \o Tail(agenda)
      /\ table.current \in DOMAIN table.scopes
  BY DEF Visiting, Walking, GenerateUse, Doing, Enters, Proceed, Tree
<1>2. PICK k, q, p : BeforeLocal(k, q, p) /\ Progressed(k, q, q, p)
  BY <1>1, PlaceWith DEF Visiting, PlacesWith
<1>3. PICK n : n = p + 1
  OBVIOUS
<1>4. /\ TempAdded(table.scopes, table'.scopes, table.current, nextTemp)
      /\ Tree(table') /\ table'.current = table.current /\ Complete(table'.scopes, program)
  BY <1>1, UseAdded
<1>5. Within(phase, program, agenda', table', errors', k, q, n)
  BY <1>1, <1>2, <1>3, <1>4, ItemDone
<1>6. Within(phase, program, agenda, table, errors, k, q, p) /\ p \in Nat
  BY <1>2 DEF BeforeLocal, Within
<1>7. ProgressBy(phase, program, table.scopes, roots, errors, k, q, q, p)
  BY <1>2 DEF Progressed
<1>8. Complete(table.scopes, program)
  BY <1>1, WalkingComplete
<1>9. PICK path : path = table.current
  OBVIOUS
<1>10. OneTempMore(table.scopes, table'.scopes, path, Temp(nextTemp))
  <2>1. /\ \A x \in DOMAIN table.scopes : x # path => table'.scopes[x].variables = table.scopes[x].variables
        /\ TempsOf(table'.scopes[path].variables) = TempsOf(table.scopes[path].variables) \cup {Temp(nextTemp)}
    BY <1>4, <1>9 DEF TempAdded
  <2> QED  BY <2>1 DEF OneTempMore
<1>11. Temp(nextTemp) \notin TempsOf(table.scopes[path].variables)
  BY <1>1, <1>9, TempIsNew
<1>12. ProgressBy("generate", program, table'.scopes, roots, errors, k, q, q, n)
  <2>1. CASE k = 1
    <3>1. path = MainScopeOf(program[1])
      BY <1>1, <1>6, <1>9, <2>1, WithinMethod
    <3> QED  BY <1>1, <1>7, <1>8, <1>10, <2>1, <3>1, MainTaskGenerated
  <2>2. CASE k # 1
    <3>1. PICK m : InMethod(phase, program, table, k, q, m)
      BY <1>1, <1>6, <2>2, WithinMethod
    <3>2. IsMethodAt(program, k, m) /\ Member(phase, program, k, m) = q
          /\ path = MethodScope(program[k], program[k].methods[m])
      BY <1>9, <3>1 DEF InMethod
    <3>3. OneMoreDone("generate", program, k, q, p, n, m)
      BY <1>1, <3>2, TaskCounted
    <3>4. ProgressBy("generate", program, table.scopes, roots, errors, k, q, q, p)
      BY <1>1, <1>7
    <3> QED  BY <1>1, <1>3, <1>6, <1>8, <1>10, <1>11, <3>2, <3>3, <3>4, TaskGenerated
  <2> QED  BY <2>1, <2>2
<1>13. Progressed(k, q, q, n)'
  BY <1>1, <1>12 DEF Progressed
<1> QED  BY <1>1, <1>5, <1>13 DEF OnTheWay

LEMMA GenerateOnTheWay ==
  ASSUME Visiting, Lists(roots), nextTemp \in Nat, Numbered(table.scopes, nextTemp), Generate
  PROVE  OnTheWay'
<1>1. CASE GenerateClass
  <2>1. /\ phase = "generate" /\ Head(agenda).kind = "class" /\ program' = program /\ phase' = phase
        /\ table' = EnterClass(table, node.id, Lookup(table, "classes", node.id))
        /\ roots' = roots /\ errors' = errors
        /\ agenda' = (Tasks("method", node.methods) \o <<Leave>>) \o Tail(agenda)
    BY <1>1 DEF GenerateClass, Doing, Enters, Proceed, Semantic
  <2> QED  BY <2>1, ClassOnTheWay
<1>2. CASE GenerateMain
  <2>1. /\ Head(agenda).kind = "main" /\ program' = program /\ phase' = phase
        /\ table' = MainScope(node.id) /\ errors' = errors
        /\ roots' = Append(roots, <<node.id, Main>>)
        /\ agenda' = (Items(node.items) \o <<Leave, Leave>>) \o Tail(agenda)
    BY <1>2 DEF GenerateMain, Doing, Enters, Proceed
  <2> QED  BY <2>1, MainOnTheWay
<1>3. CASE GenerateMethod
  <2>1. /\ phase = "generate" /\ Head(agenda).kind = "method" /\ program' = program /\ phase' = phase
        /\ table' = EnterMethod(table, node.id, Lookup(table, "methods", node.id)) /\ errors' = errors
        /\ roots' = Append(roots, <<Current(table).record.id, node.id>>)
        /\ agenda' = (Items(OfKind("use", node.items)) \o <<Leave>>) \o Tail(agenda)
    BY <1>3 DEF GenerateMethod, Doing, Enters, Proceed
  <2>2. Body("generate", node) = Items(OfKind("use", node.items))
    BY DEF Body
  <2> QED  BY <2>1, <2>2, MethodOnTheWay
<1> QED  BY <1>1, <1>2, <1>3, UseOnTheWay DEF Generate

-----------------------------------------------------------------------------
(***************************************************************************)
(* No method is generated twice: its root is new.                          *)
(***************************************************************************)
IsPair(r) == r = <<r[1], r[2]>>

Distinct(rs) ==
  /\ \A j \in DOMAIN rs : IsPair(rs[j])
  /\ \A j, k \in DOMAIN rs : rs[j] = rs[k] => j = k

LEMMA PairIs ==
  ASSUME NEW a, NEW b
  PROVE  IsPair(<<a, b>>)
  BY DEF IsPair

LEMMA DistinctAppended ==
  ASSUME NEW rs, Lists(rs), Distinct(rs), NEW r, IsPair(r), ~IsRoot(rs, r)
  PROVE  Distinct(Append(rs, r))
<1> DEFINE more == Append(rs, r)
<1>1. PICK S : rs \in Seq(S)
  BY DEF Lists
<1>2. /\ Len(rs) \in Nat /\ DOMAIN rs = 1 .. Len(rs) /\ DOMAIN more = 1 .. Len(rs) + 1
      /\ more[Len(rs) + 1] = r /\ \A j \in 1 .. Len(rs) : more[j] = rs[j]
  BY <1>1
<1> HIDE DEF more
<1>3. \A j \in 1 .. Len(rs) : more[j] # r
  BY <1>2 DEF IsRoot
<1>4. \A j \in 1 .. Len(rs) + 1 : j \in 1 .. Len(rs) \/ j = Len(rs) + 1
  BY <1>2
<1>5. \A j, k \in 1 .. Len(rs) : more[j] = more[k] => j = k
  BY <1>2 DEF Distinct
<1>6. \A j \in 1 .. Len(rs) + 1 : IsPair(more[j])
  BY <1>2, <1>4 DEF Distinct
<1>7. \A j, k \in 1 .. Len(rs) + 1 : more[j] = more[k] => j = k
  BY <1>2, <1>3, <1>4, <1>5
<1>8. Distinct(more)
  BY <1>2, <1>6, <1>7 DEF Distinct
<1> QED  BY <1>8 DEF more

\* The method that is generated next has no root yet.
LEMMA RootIsNew ==
  ASSUME Visiting, GenerateMethod
  PROVE  ~IsRoot(roots, <<Current(table).record.id, node.id>>)
<1>1. /\ Walking /\ agenda # <<>> /\ program \in Programs /\ Tree(table)
      /\ phase \in Traversals /\ phase = "generate" /\ Head(agenda).kind = "method"
  BY DEF Visiting, Walking, GenerateMethod, Doing
<1>2. PICK k, q, l : BeforeMethod(k, q, l) /\ Progressed(k, q, 0, 0)
  BY <1>1, PlaceWith DEF Visiting, PlacesWith
<1>3. PICK n : n = q + 1
  OBVIOUS
<1>4. Inside(phase, program, agenda, table, errors, k, q) /\ q # Len(Members(phase, program, k))
  BY <1>2 DEF BeforeMethod
<1>5. /\ n \in 1 .. Len(Members(phase, program, k)) /\ k \in 2 .. Len(program)
      /\ Head(agenda) = Members(phase, program, k)[n] /\ q \in Nat /\ k \in Nat
  BY <1>1, <1>3, <1>4, InsideHead, Program DEF Inside
<1>6. PICK m : /\ IsMethodAt(program, k, m) /\ Member(phase, program, k, m) = n
               /\ Members(phase, program, k)[n].node = program[k].methods[m]
  BY <1>1, <1>5, MemberAt
<1>7. Current(table).record.id = program[k].id
  <2>1. PICK class : class = program[k].id
    OBVIOUS
  <2>2. table.current = <<ClassStep(class)>>
    BY <1>4, <2>1 DEF Inside
  <2>3. Current(table).record = [path |-> Root, kind |-> "classes", id |-> class]
    BY <1>1, <2>2, ClassRecordIs
  <2> QED  BY <2>1, <2>3
<1>8. <<Current(table).record.id, node.id>> = RootOf(program, k, m)
  BY <1>5, <1>6, <1>7 DEF RootOf, node
<1>9. ~BehindAt(phase, program, k, m, k, q)
  <2>1. ~(n <= q) /\ ~(k < k)
    BY <1>3, <1>5
  <2> QED  BY <1>6, <2>1 DEF BehindAt, Behind
<1>10. ~IsRoot(roots, RootOf(program, k, m))
  BY <1>1, <1>2, <1>6, <1>9 DEF Progressed, ProgressBy, Progress
<1> QED  BY <1>8, <1>10

LEMMA GenerateDistinct ==
  ASSUME Visiting, Lists(roots), Distinct(roots), Generate
  PROVE  Distinct(roots')
<1>1. CASE GenerateMain
  <2>1. Head(agenda).kind = "main" /\ roots' = Append(roots, <<node.id, Main>>)
    BY <1>1 DEF GenerateMain, Doing
  <2>2. PICK r : roots' = Append(roots, r) /\ IsPair(r)
    BY <2>1, PairIs
  <2>3. roots = <<>>
    BY <2>1, PlaceWith DEF Visiting, PlacesWith
  <2>4. ~IsRoot(roots, r)
    BY <2>3, EmptyLists DEF IsRoot
  <2> QED  BY <2>2, <2>4, DistinctAppended
<1>2. CASE GenerateMethod
  <2>1. PICK r : r = <<Current(table).record.id, node.id>> /\ IsPair(r)
    BY PairIs
  <2>2. roots' = Append(roots, r)
    BY <1>2, <2>1 DEF GenerateMethod
  <2>3. ~IsRoot(roots, r)
    BY <1>2, <2>1, RootIsNew
  <2> QED  BY <2>1, <2>2, <2>3, DistinctAppended
<1>3. CASE GenerateClass \/ GenerateUse
  BY <1>3 DEF GenerateClass, GenerateUse, Semantic
<1> QED  BY <1>1, <1>2, <1>3 DEF Generate

-----------------------------------------------------------------------------
(***************************************************************************)
(* A traversal starts with nothing behind it and ends with everything.     *)
(***************************************************************************)
LEMMA ItemsLength ==
  ASSUME NEW nodes, IsSequence(nodes)
  PROVE  Len(Items(nodes)) = Len(nodes)
<1> DEFINE U == {Task(nodes[i].kind, nodes[i]) : i \in DOMAIN nodes}
<1>1. \A i \in DOMAIN nodes : Task(nodes[i].kind, nodes[i]) \in U
  OBVIOUS
<1> HIDE DEF U
<1>2. TaskEach(Items(nodes), nodes, U)
  BY <1>1, ItemsAre
<1> QED  BY <1>2 DEF TaskEach

LEMMA BodyLength ==
  ASSUME NEW prog \in Programs, NEW i, NEW l, IsMethodAt(prog, i, l)
  PROVE  LET m == prog[i].methods[l] IN
         /\ IsSequence(m.items) /\ IsSequence(OfKind("use", m.items))
         /\ Len(Body("check", m)) = Len(m.items)
         /\ Len(Body("generate", m)) = Len(OfKind("use", m.items))
<1> DEFINE m == prog[i].methods[l]
<1>1. Proper(prog, m)
  BY MethodIs DEF IsMethodAt
<1>2. Body("check", m) = Items(m.items) /\ Body("generate", m) = Items(OfKind("use", m.items))
  BY DEF Body
<1> HIDE DEF m
<1>3. IsSequence(m.items) /\ IsSequence(OfKind("use", m.items))
  BY <1>1 DEF Proper
<1>4. /\ Len(Items(m.items)) = Len(m.items)
      /\ Len(Items(OfKind("use", m.items))) = Len(OfKind("use", m.items))
  BY <1>3, ItemsLength
<1> QED  BY <1>2, <1>3, <1>4 DEF m

LEMMA NothingBehind ==
  ASSUME NEW prog \in Programs, NEW pass \in Traversals, NEW i, NEW l, IsMethodAt(prog, i, l)
  PROVE  TallyAt(pass, prog, i, l, 1, 0, 0, 0) = 0 /\ ~BehindAt(pass, prog, i, l, 1, 0)
<1> DEFINE x == Member(pass, prog, i, l)
           whole == Len(Body(pass, prog[i].methods[l]))
<1>1. i \in 2 .. Len(prog) /\ i \in Nat
  BY MemberIs DEF IsMethodAt
<1> HIDE DEF x, whole
<1>2. ~Behind(i, x, 1, 0)
  BY <1>1 DEF Behind
<1>3. Tally(i, x, whole, 1, 0, 0, 0) = 0
  BY <1>2 DEF Tally
<1> QED  BY <1>2, <1>3 DEF TallyAt, BehindAt, x, whole

LEMMA AllBehind ==
  ASSUME NEW prog \in Programs, NEW pass \in Traversals, NEW i, NEW l, IsMethodAt(prog, i, l)
  PROVE  /\ TallyAt(pass, prog, i, l, Len(prog) + 1, 0, 0, 0) = Len(Body(pass, prog[i].methods[l]))
         /\ BehindAt(pass, prog, i, l, Len(prog) + 1, 0)
<1> DEFINE x == Member(pass, prog, i, l)
           whole == Len(Body(pass, prog[i].methods[l]))
<1>1. i \in 2 .. Len(prog) /\ Len(prog) \in Nat
  BY Program DEF IsMethodAt
<1> HIDE DEF x, whole
<1>2. i < Len(prog) + 1 /\ i # Len(prog) + 1
  BY <1>1
<1>3. Behind(i, x, Len(prog) + 1, 0)
  BY <1>2 DEF Behind
<1>4. Tally(i, x, whole, Len(prog) + 1, 0, 0, 0) = whole
  BY <1>2, <1>3 DEF Tally
<1> QED  BY <1>3, <1>4 DEF TallyAt, BehindAt, x, whole

AllMeant(prog) ==
  \A i, l : IsMethodAt(prog, i, l) =>
    UsesMeant(prog, prog[i], prog[i].methods[l], Len(prog[i].methods[l].items))

LEMMA CheckStarts ==
  ASSUME NEW prog \in Programs, NEW scopes, NEW rs, NEW errs
  PROVE  ProgressBy("check", prog, scopes, rs, errs, 1, 0, 0, 0)
<1>1. "check" \in Traversals
  BY DEF Traversals
<1>2. ASSUME NEW i, NEW l, IsMethodAt(prog, i, l)
      PROVE  Progress("check", prog, scopes, rs, errs, i, l, TallyAt("check", prog, i, l, 1, 0, 0, 0),
                      BehindAt("check", prog, i, l, 1, 0))
  <2>1. TallyAt("check", prog, i, l, 1, 0, 0, 0) = 0
    BY <1>1, <1>2, NothingBehind
  <2>2. UsesMeant(prog, prog[i], prog[i].methods[l], 0)
    <3>1. 1 .. 0 = {}
      OBVIOUS
    <3> QED  BY <3>1 DEF UsesMeant
  <2> QED  BY <2>1, <2>2 DEF Progress
<1> QED  BY <1>2 DEF ProgressBy

LEMMA CheckEnds ==
  ASSUME NEW prog \in Programs, NEW scopes, NEW rs,
         ProgressBy("check", prog, scopes, rs, {}, Len(prog) + 1, 0, 0, 0)
  PROVE  AllMeant(prog)
<1>1. "check" \in Traversals
  BY DEF Traversals
<1>2. ASSUME NEW i, NEW l, IsMethodAt(prog, i, l)
      PROVE  UsesMeant(prog, prog[i], prog[i].methods[l], Len(prog[i].methods[l].items))
  <2> DEFINE n == TallyAt("check", prog, i, l, Len(prog) + 1, 0, 0, 0)
             begun == BehindAt("check", prog, i, l, Len(prog) + 1, 0)
  <2>1. Progress("check", prog, scopes, rs, {}, i, l, n, begun)
    BY <1>2 DEF ProgressBy
  <2>2. n = Len(Body("check", prog[i].methods[l]))
    BY <1>1, <1>2, AllBehind
  <2>3. Len(Body("check", prog[i].methods[l])) = Len(prog[i].methods[l].items)
    BY <1>2, BodyLength
  <2> HIDE DEF n, begun
  <2>4. UsesMeant(prog, prog[i], prog[i].methods[l], n)
    BY <2>1 DEF Progress
  <2> QED  BY <2>2, <2>3, <2>4
<1> QED  BY <1>2 DEF AllMeant

LEMMA GenerateStarts ==
  ASSUME NEW prog \in Programs, NEW scopes, Complete(scopes, prog), NoTemps(scopes), AllMeant(prog), NEW errs
  PROVE  ProgressBy("generate", prog, scopes, <<>>, errs, 1, 0, 0, 0)
<1>1. "generate" \in Traversals
  BY DEF Traversals
<1>2. Counted({}, 0)
  BY FS_EmptySet DEF Counted
<1>3. ASSUME NEW i, NEW l, IsMethodAt(prog, i, l)
      PROVE  Progress("generate", prog, scopes, <<>>, errs, i, l, TallyAt("generate", prog, i, l, 1, 0, 0, 0),
                      BehindAt("generate", prog, i, l, 1, 0))
  <2> DEFINE here == MethodScope(prog[i], prog[i].methods[l])
  <2>1. TallyAt("generate", prog, i, l, 1, 0, 0, 0) = 0 /\ ~BehindAt("generate", prog, i, l, 1, 0)
    BY <1>1, <1>3, NothingBehind
  <2>2. here \in DOMAIN scopes
    BY <1>3, CompleteScopes DEF HasScopes, IsMethodAt
  <2> HIDE DEF here
  <2>3. TempsOf(scopes[here].variables) = {}
    BY <2>2 DEF NoTemps
  <2>4. ~IsRoot(<<>>, RootOf(prog, i, l))
    BY EmptyLists DEF IsRoot
  <2>5. UsesMeant(prog, prog[i], prog[i].methods[l], Len(prog[i].methods[l].items))
    BY <1>3 DEF AllMeant
  <2> QED  BY <1>2, <2>1, <2>3, <2>4, <2>5 DEF Progress, here
<1> QED  BY <1>3 DEF ProgressBy

\* What code generation leaves of the m-th method.
MethodGenerated(prog, scopes, rs, i, l) ==
  LET m == prog[i].methods[l] IN
  /\ UsesMeant(prog, prog[i], m, Len(m.items))
  /\ Counted(TempsOf(scopes[MethodScope(prog[i], m)].variables), Len(OfKind("use", m.items)))
  /\ IsRoot(rs, RootOf(prog, i, l))

AllGenerated(prog, scopes, rs) ==
  \A i, l : IsMethodAt(prog, i, l) => MethodGenerated(prog, scopes, rs, i, l)

LEMMA GenerateEnds ==
  ASSUME NEW prog \in Programs, NEW scopes, NEW rs, NEW errs,
         ProgressBy("generate", prog, scopes, rs, errs, Len(prog) + 1, 0, 0, 0)
  PROVE  AllGenerated(prog, scopes, rs)
<1>1. "generate" \in Traversals
  BY DEF Traversals
<1>2. ASSUME NEW i, NEW l, IsMethodAt(prog, i, l)
      PROVE  MethodGenerated(prog, scopes, rs, i, l)
  <2> DEFINE n == TallyAt("generate", prog, i, l, Len(prog) + 1, 0, 0, 0)
             begun == BehindAt("generate", prog, i, l, Len(prog) + 1, 0)
  <2>1. Progress("generate", prog, scopes, rs, errs, i, l, n, begun)
    BY <1>2 DEF ProgressBy
  <2>2. n = Len(Body("generate", prog[i].methods[l])) /\ begun
    BY <1>1, <1>2, AllBehind
  <2>3. Len(Body("generate", prog[i].methods[l])) = Len(OfKind("use", prog[i].methods[l].items))
    BY <1>2, BodyLength
  <2> HIDE DEF n, begun
  <2> QED  BY <2>1, <2>2, <2>3 DEF Progress, MethodGenerated
<1> QED  BY <1>2 DEF AllGenerated

LEMMA OnTheWayEnds ==
  ASSUME Walking, OnTheWay, agenda = <<>>
  PROVE  Progressed(Len(program) + 1, 0, 0, 0)
<1>1. program \in Programs /\ phase \in Traversals
  BY DEF Walking
<1>2. ASSUME NEW k, NEW q, Inside(phase, program, agenda, table, errors, k, q)
      PROVE  FALSE
  BY <1>1, <1>2, InsideHead
<1>3. ASSUME NEW k, NEW q, NEW p, Within(phase, program, agenda, table, errors, k, q, p)
      PROVE  FALSE
  <2>1. HeadOfBody(phase, program, agenda, k, q, p, BodyAt(phase, program, k, q))
    BY <1>1, <1>3, WithinHead, Zenon
  <2> QED  BY <2>1 DEF HeadOfBody
<1>4. PICK k : Outside(phase, program, agenda, table, errors, k) /\ Progressed(k + 1, 0, 0, 0)
  BY <1>2, <1>3 DEF OnTheWay
<1>5. k = Len(program)
  BY <1>1, <1>4, OutsideHead
<1> QED  BY <1>4, <1>5

-----------------------------------------------------------------------------
(***************************************************************************)
(* The invariant of the later passes.                                      *)
(***************************************************************************)
RootScope(root) == <<ClassStep(root[1]), MethodStep(root[2])>>

\* The roots that are behind the code generator are emitted, from their scopes.
Finished ==
  phase \in {"emit", "done"} =>
    /\ AllGenerated(program, table.scopes, roots)
    /\ \A j \in DOMAIN emitted : emitted[j] = MethodTables(table, RootScope(roots[j]))
    /\ phase = "done" => Len(emitted) = Len(roots)

Compiled ==
  /\ Fresh /\ Distinct(roots) /\ Finished
  /\ phase \in {"check", "generate"} => OnTheWay

LEMMA InitCompiled ==
  ASSUME Init
  PROVE  Compiled
<1>1. phase = "declare" /\ table = EmptyTable /\ nextTemp = 0 /\ roots = <<>>
  BY DEF Init
<1>2. DOMAIN table.scopes = {Root} /\ DOMAIN table.scopes[Root].variables = {}
  BY <1>1, EmptyTableIs DEF Tree
<1>3. NoTemps(table.scopes)
  BY <1>2 DEF NoTemps, TempsOf
<1>4. Distinct(roots)
  BY <1>1, EmptyLists DEF Distinct
<1> QED  BY <1>1, <1>3, <1>4 DEF Compiled, Fresh, Finished

LEMMA DeclareCompiled ==
  ASSUME Kept, Compiled, Declare
  PROVE  Compiled'
<1>1. phase = "declare" /\ phase' = phase /\ roots' = roots
  BY DEF Declare, DeclareClass, DeclareMain, DeclareMethod, DeclareParameter, DeclareVariable,
         Doing, Semantic
<1>2. Fresh'
  BY DeclareFresh DEF Compiled
<1> QED  BY <1>1, <1>2 DEF Compiled, Finished

LEMMA CheckCompiled ==
  ASSUME Kept, Compiled, Check
  PROVE  Compiled'
<1>1. phase = "check" /\ phase' = phase /\ roots' = roots /\ agenda # <<>>
  BY DEF Check, CheckClass, CheckMain, CheckMethod, CheckVariable, CheckUse, Doing, Semantic
<1>2. Visiting /\ Lists(roots)
  BY <1>1 DEF Visiting, Kept, Compiled, Rooted, Traversals
<1>3. OnTheWay'
  BY <1>2, CheckOnTheWay
<1>4. Fresh'
  BY OthersFresh DEF Compiled
<1> QED  BY <1>1, <1>3, <1>4 DEF Compiled, Finished

LEMMA LeaveCompiled ==
  ASSUME Kept, Compiled, LeaveScope
  PROVE  Compiled'
<1>1. /\ phase \in {"declare", "check", "generate"} /\ program' = program /\ phase' = phase
      /\ roots' = roots /\ errors' = errors /\ agenda # <<>>
  BY DEF LeaveScope, Enters, Semantic
<1>2. phase \in {"check", "generate"} => OnTheWay'
  <2> SUFFICES ASSUME phase \in {"check", "generate"} PROVE OnTheWay'
    OBVIOUS
  <2>1. Visiting
    BY <1>1 DEF Visiting, Kept, Compiled, Traversals
  <2> QED  BY <1>1, <2>1, LeaveOnTheWay
<1>3. Fresh'
  BY OthersFresh DEF Compiled
<1> QED  BY <1>1, <1>2, <1>3 DEF Compiled, Finished

LEMMA GenerateCompiled ==
  ASSUME Kept, Compiled, Generate
  PROVE  Compiled'
<1>1. phase = "generate" /\ phase' = phase /\ agenda # <<>>
  BY DEF Generate, GenerateClass, GenerateMain, GenerateMethod, GenerateUse, Doing, Semantic
<1>2. /\ Visiting /\ Lists(roots) /\ Distinct(roots) /\ nextTemp \in Nat
      /\ Numbered(table.scopes, nextTemp)
  BY <1>1 DEF Visiting, Kept, Compiled, Rooted, Fresh, Traversals
<1>3. OnTheWay'
  BY <1>2, GenerateOnTheWay
<1>4. Distinct(roots')
  BY <1>2, GenerateDistinct
<1>5. Fresh'
  BY UseFresh, OthersFresh DEF Compiled, Generate
<1> QED  BY <1>1, <1>3, <1>4, <1>5 DEF Compiled, Finished

\* One more root is emitted, from its own scope.
LEMMA EmitCompiled ==
  ASSUME Kept, Compiled, EmitMethod
  PROVE  Compiled'
<1> DEFINE n == Len(emitted)
           resolved == ResolveScope(table, node[1], node[2])
<1>1. /\ phase = "emit" /\ agenda # <<>> /\ program' = program /\ phase' = phase
      /\ nextTemp' = nextTemp /\ roots' = roots /\ table' = resolved.table
      /\ emitted' = Append(emitted, MethodTables(resolved.table, resolved.scope))
  BY DEF EmitMethod, Doing, Enters
<1>2. /\ Tree(table) /\ table.current = Root /\ agenda = From(Tasks("root", roots), n + 1)
      /\ Lists(roots) /\ Lists(emitted) /\ n <= Len(roots)
      /\ \A i \in DOMAIN roots : HasRoot(table.scopes, roots[i])
  BY <1>1 DEF Kept, Rooted, Settled
<1>3. n \in Nat
  BY <1>2, ListsAppend
<1>4. n + 1 \in 1 .. Len(roots) /\ node = roots[n + 1]
  BY <1>1, <1>2, <1>3, RootTasks DEF node
<1>5. HasRoot(table.scopes, node)
  <2>1. n + 1 \in DOMAIN roots
    BY <1>2, <1>4 DEF Lists
  <2> QED  BY <1>2, <1>4, <2>1
<1>6. resolved = [table |-> table, scope |-> RootScope(node)]
  BY <1>2, <1>5, ScopeResolved DEF HasRoot, RootScope
<1>7. table' = table /\ emitted' = Append(emitted, MethodTables(table, RootScope(roots[n + 1])))
  BY <1>1, <1>4, <1>6
<1>8. Finished /\ Fresh /\ Distinct(roots)
  BY DEF Compiled
<1>9. \A j \in DOMAIN emitted' : emitted'[j] = MethodTables(table, RootScope(roots[j]))
  <2>1. PICK S : emitted \in Seq(S)
    BY <1>2 DEF Lists
  <2>2. PICK x : x = MethodTables(table, RootScope(roots[n + 1]))
    OBVIOUS
  <2>3. /\ DOMAIN emitted = 1 .. n /\ DOMAIN emitted' = 1 .. n + 1 /\ emitted'[n + 1] = x
        /\ \A j \in 1 .. n : emitted'[j] = emitted[j]
    BY <1>7, <2>1, <2>2
  <2>4. \A j \in 1 .. n : emitted[j] = MethodTables(table, RootScope(roots[j]))
    BY <1>1, <1>8, <2>3 DEF Finished
  <2>5. \A j \in 1 .. n + 1 : j \in 1 .. n \/ j = n + 1
    BY <1>3
  <2> QED  BY <2>2, <2>3, <2>4, <2>5
<1>10. Finished'
  BY <1>1, <1>7, <1>8, <1>9 DEF Finished
<1>11. Fresh'
  BY <1>1, <1>7, <1>8, FreshStays
<1> QED  BY <1>1, <1>8, <1>10, <1>11 DEF Compiled

LEMMA AllEmitted ==
  ASSUME Lists(roots), NEW n \in Nat, n <= Len(roots), From(Tasks("root", roots), n + 1) = <<>>
  PROVE  n = Len(roots)
<1> DEFINE s == Tasks("root", roots)
           U == {s[i] : i \in DOMAIN roots}
<1>1. PICK S : roots \in Seq(S)
  BY DEF Lists
<1>2. Len(roots) \in Nat /\ DOMAIN roots = 1 .. Len(roots)
  BY <1>1
<1>3. s = [i \in 1 .. Len(roots) |-> Task("root", roots[i])]
  BY <1>2 DEF Tasks
<1>4. \A i \in 1 .. Len(roots) : s[i] \in U
  BY <1>2
<1> HIDE DEF U
<1>5. s \in Seq(U) /\ Len(s) = Len(roots)
  <2> HIDE DEF s
  <2> QED  BY <1>2, <1>3, <1>4
<1> HIDE DEF s
<1>6. <<>> \in Seq(U)
  BY EmptySeq
<1>7. From(s, n + 1) = <<>>
  BY DEF s
<1>8. ASSUME n # Len(roots) PROVE FALSE
  <2> DEFINE d == Len(roots)
             left == From(s, n + 1)
             rest == From(s, (n + 1) + 1)
  <2>1. d \in Nat /\ n <= d /\ Len(s) = d /\ n # d
    BY <1>2, <1>5, <1>8
  <2>2. n + 1 \in 1 .. Len(s)
    <3> HIDE DEF d
    <3>1. n + 1 \in 1 .. d
      BY <2>1
    <3> QED  BY <2>1, <3>1
  <2>3. Starting(left \o <<>>, s[n + 1], rest \o <<>>) /\ left \in Seq(U)
    BY <1>5, <1>6, <2>2, FromSome, Zenon
  <2> HIDE DEF left, rest
  <2>4. left \o <<>> = left
    BY <2>3, ConcatEmptySeq
  <2>5. left = <<>>
    BY <1>7 DEF left
  <2> QED  BY <2>3, <2>4, <2>5 DEF Starting
<1> QED  BY <1>8

\* The places where a traversal starts.
LEMMA StartsOnTheWay ==
  ASSUME Kept, NextPass, NEW pass \in {"check", "generate"}, phase' = pass, table' = table,
         agenda' = Classes(program),
         ProgressBy(pass, program, table.scopes, roots, errors, 1, 0, 0, 0), roots = <<>>
  PROVE  OnTheWay'
<1>1. program' = program /\ errors' = errors /\ roots' = roots
  BY NextPassIs
<1>2. program \in Programs /\ pass \in Traversals
  BY DEF Kept, Traversals
<1>3. table.current = Root /\ Complete(table.scopes, program)
  BY NextPassTable
<1>4. Known(pass, program, table', errors', 0, Nat, 0, Nat)
  BY <1>3, KnownLater
<1>5. Outside(pass, program, agenda', table', errors', 0)
  BY <1>2, <1>3, <1>4, Started
<1>6. Progressed(1, 0, 0, 0)'
  BY <1>1 DEF Progressed
<1>7. Progressed(0 + 1, 0, 0, 0)'
  <2>1. 0 + 1 = 1
    OBVIOUS
  <2> QED  BY <1>6, <2>1
<1> QED  BY <1>1, <1>5, <1>7 DEF OnTheWay

LEMMA NextPassCompiled ==
  ASSUME Kept, Compiled, NextPass
  PROVE  Compiled'
<1>1. /\ agenda = <<>> /\ errors = {} /\ program' = program /\ errors' = errors /\ nextTemp' = nextTemp
      /\ roots' = roots /\ emitted' = emitted
      /\ \/ phase = "declare" /\ Starts("check")
         \/ phase = "check" /\ Starts("generate")
         \/ phase = "generate" /\ Starts("emit")
         \/ phase = "emit" /\ Starts("done")
  BY NextPassIs
<1>2. ToRoot(table) = table /\ Complete(table.scopes, program)
  BY NextPassTable
<1>3. program \in Programs /\ Rooted /\ Settled /\ (phase \in Traversals => Walking) /\ Tree(table)
  BY DEF Kept
<1>4. Fresh /\ Distinct(roots) /\ Finished /\ (phase \in {"check", "generate"} => OnTheWay)
  BY DEF Compiled
<1>5. CASE phase = "declare" /\ Starts("check")
  <2>1. phase' = "check" /\ agenda' = Classes(program) /\ table' = table
    BY <1>2, <1>5 DEF Starts
  <2>2. roots = <<>>
    BY <1>3, <1>5 DEF Rooted
  <2>3. ProgressBy("check", program, table.scopes, roots, errors, 1, 0, 0, 0)
    BY <1>3, CheckStarts
  <2>4. OnTheWay'
    BY <2>1, <2>2, <2>3, StartsOnTheWay
  <2>5. Fresh'
    BY <1>1, <1>4, <1>5, <2>1 DEF Fresh
  <2> QED  BY <1>1, <1>4, <2>1, <2>4, <2>5 DEF Compiled, Finished
<1>6. CASE phase = "check" /\ Starts("generate")
  <2>1. phase' = "generate" /\ agenda' = Classes(program) /\ table' = table
    BY <1>2, <1>6 DEF Starts
  <2>2. roots = <<>>
    BY <1>3, <1>6 DEF Rooted
  <2>3. Walking /\ OnTheWay
    BY <1>3, <1>4, <1>6 DEF Traversals
  <2>4. ProgressBy("check", program, table.scopes, roots, {}, Len(program) + 1, 0, 0, 0)
    BY <1>1, <1>6, <2>3, OnTheWayEnds DEF Progressed
  <2>5. AllMeant(program)
    BY <1>3, <2>4, CheckEnds
  <2>6. NoTemps(table.scopes)
    BY <1>4, <1>6 DEF Fresh
  <2>7. ProgressBy("generate", program, table.scopes, <<>>, errors, 1, 0, 0, 0)
    BY <1>2, <1>3, <2>5, <2>6, GenerateStarts
  <2>8. ProgressBy("generate", program, table.scopes, roots, errors, 1, 0, 0, 0)
    BY <2>2, <2>7
  <2>9. OnTheWay'
    BY <2>1, <2>2, <2>8, StartsOnTheWay
  <2>10. Fresh'
    <3>1. Numbered(table.scopes, nextTemp)
      BY <2>6, NoneNumbered
    <3> QED  BY <1>1, <2>1, <3>1 DEF Fresh
  <2> QED  BY <1>1, <1>4, <2>1, <2>9, <2>10 DEF Compiled, Finished
<1>7. CASE phase = "generate" /\ Starts("emit")
  <2>1. phase' = "emit" /\ table' = table
    BY <1>7 DEF Starts
  <2>2. Walking /\ OnTheWay /\ emitted = <<>>
    BY <1>3, <1>4, <1>7 DEF Traversals, Rooted
  <2>3. ProgressBy("generate", program, table.scopes, roots, errors, Len(program) + 1, 0, 0, 0)
    BY <1>1, <1>7, <2>2, OnTheWayEnds DEF Progressed
  <2>4. AllGenerated(program, table.scopes, roots)
    BY <1>3, <2>3, GenerateEnds
  <2>5. Finished'
    BY <1>1, <2>1, <2>2, <2>4, EmptyLists DEF Finished
  <2>6. Fresh'
    BY <1>1, <1>4, <1>7, <2>1 DEF Fresh
  <2> QED  BY <1>1, <1>4, <2>1, <2>5, <2>6 DEF Compiled
<1>8. CASE phase = "emit" /\ Starts("done")
  <2>1. phase' = "done" /\ table' = table
    BY <1>8 DEF Starts
  <2>2. Len(emitted) = Len(roots)
    <3>1. /\ Lists(roots) /\ Lists(emitted) /\ Len(emitted) <= Len(roots)
          /\ From(Tasks("root", roots), Len(emitted) + 1) = <<>>
      BY <1>1, <1>3, <1>8 DEF Rooted, Settled
    <3>2. Len(emitted) \in Nat
      BY <3>1, ListsAppend
    <3> QED  BY <3>1, <3>2, AllEmitted
  <2>3. Finished'
    BY <1>1, <1>4, <1>8, <2>1, <2>2 DEF Finished
  <2>4. Fresh'
    BY <1>1, <1>4, <1>8, <2>1 DEF Fresh
  <2> QED  BY <1>1, <1>4, <2>1, <2>3, <2>4 DEF Compiled
<1> QED  BY <1>1, <1>5, <1>6, <1>7, <1>8

LEMMA StepCompiled ==
  ASSUME Kept, Compiled, [Next]_vars
  PROVE  Compiled'
<1>1. ASSUME Reject
      PROVE  Compiled'
  BY <1>1 DEF Reject, Compiled, Fresh, Finished
<1>2. ASSUME UNCHANGED vars
      PROVE  Compiled'
  BY <1>2 DEF vars, Compiled, Fresh, Finished, OnTheWay, Progressed
<1> QED
  BY <1>1, <1>2, DeclareCompiled, CheckCompiled, GenerateCompiled, EmitCompiled, LeaveCompiled, NextPassCompiled
     DEF Next, Ended

LEMMA AlwaysCompiled == Spec => [](Kept /\ Compiled)
<1>1. Init => Compiled
  BY InitCompiled
<1>2. Kept /\ Compiled /\ [Next]_vars => Compiled'
  BY StepCompiled
<1> QED  BY <1>1, <1>2, AlwaysKept, PTL DEF Spec

-----------------------------------------------------------------------------
(***************************************************************************)
(* The bytecode of an accepted program.                                    *)
(***************************************************************************)
LEMMA SequenceDomain ==
  ASSUME NEW s, IsSequence(s)
  PROVE  DOMAIN s \cap Nat = DOMAIN s
<1>1. DOMAIN s = 1 .. Len(s) /\ Len(s) \in Nat
  BY DEF IsSequence
<1>2. \A i \in 1 .. Len(s) : i \in Nat
  BY <1>1
<1> QED  BY <1>1, <1>2

\* The scope of a method holds what its declaration spells out, temporaries aside.
ScopeSpelledOut(scopes, c, m) ==
  LET here == scopes[MethodScope(c, m)].variables
      outer == scopes[ClassScope(c)].variables
  IN  /\ ClassScope(c) \in DOMAIN scopes /\ MethodScope(c, m) \in DOMAIN scopes
      /\ Names(here) = Ids(Locals(m)) /\ DOMAIN outer = Ids(c.fields) \cup {This}
      /\ scopes[ClassScope(c)].methods[m.id].parameters =
           [x \in DOMAIN m.params |-> ParameterRef(c, m, m.params[x])]

\* What the scope of a method holds when all is generated.
LEMMA ScopeGenerated ==
  ASSUME NEW prog \in Programs, NEW scopes, NEW next, Complete(scopes, prog), Numbered(scopes, next),
         NEW i, NEW l, IsMethodAt(prog, i, l), NEW c, c = prog[i], NEW m, m = c.methods[l]
  PROVE  ScopeSpelledOut(scopes, c, m)
<1> DEFINE here == scopes[MethodScope(c, m)].variables
           outer == scopes[ClassScope(c)].variables
<1>1. i \in 2 .. Len(prog) /\ l \in DOMAIN c.methods
  BY DEF IsMethodAt
<1>2. ClassDeclared(scopes, c, Nat, 0, Nat)
  BY <1>1, CompleteIs
<1>3. MethodDeclared(scopes, c, m, Nat)
  BY <1>1, <1>2, MethodsDeclared
<1>4. AreNamed(c.fields) /\ AreNamed(Locals(m)) /\ Proper(prog, m)
  BY <1>1, Program, LocalsAreNamed, MethodIs
<1>5. /\ DOMAIN c.fields \cap Nat = DOMAIN c.fields /\ DOMAIN m.params \cap Nat = DOMAIN m.params
      /\ DOMAIN Locals(m) \cap Nat = DOMAIN Locals(m)
  <2>1. IsSequence(c.fields) /\ IsSequence(m.params) /\ IsSequence(Locals(m))
    BY <1>4 DEF AreNamed, Proper
  <2> QED  BY <2>1, SequenceDomain
<1>6. Names(here) = Ids(Locals(m))
  BY <1>3, <1>5 DEF MethodDeclared, VariablesAre, Ids
<1>7. DOMAIN outer = Ids(c.fields) \cup {This}
  <2>1. Names(outer) = Ids(c.fields) \cup {This}
    BY <1>2, <1>5 DEF ClassDeclared, VariablesAre, Ids
  <2>2. TempsOf(outer) = {}
    BY <1>2 DEF ClassDeclared, ClassScope, Numbered
  <2>3. DOMAIN outer = Names(outer)
    BY <2>2 DEF TempsOf, Names
  <2> QED  BY <2>1, <2>3
<1>8. scopes[ClassScope(c)].methods[m.id].parameters =
        [x \in DOMAIN m.params |-> ParameterRef(c, m, m.params[x])]
  BY <1>3, <1>5 DEF MethodDeclared
<1> QED  BY <1>2, <1>3, <1>6, <1>7, <1>8 DEF ClassDeclared, MethodDeclared, ScopeSpelledOut

\* The tables that are read off the scope of a method.
ReadOff(read, here, outer, parameters) ==
  /\ read.locals = DOMAIN here /\ read.fields = DOMAIN outer
  /\ read.parameters = [x \in DOMAIN parameters |-> parameters[x].id]

LEMMA TablesAre ==
  ASSUME NEW here, NEW outer, NEW parameters
  PROVE  ReadOff([locals |-> DOMAIN here, fields |-> DOMAIN outer,
                  parameters |-> [x \in DOMAIN parameters |-> parameters[x].id]],
                 here, outer, parameters)
BY DEF ReadOff

LEMMA TablesRead ==
  ASSUME NEW t, Tree(t), NEW c, NEW m, MethodScope(c, m) \in DOMAIN t.scopes
  PROVE  ReadOff(MethodTables(t, MethodScope(c, m)), t.scopes[MethodScope(c, m)].variables,
                 t.scopes[ClassScope(c)].variables, t.scopes[ClassScope(c)].methods[m.id].parameters)
<1> DEFINE path == MethodScope(c, m)
           outer == ClassScope(c)
           record == t.scopes[outer].methods[m.id]
<1>1. PICK class, id : class = c.id /\ id = m.id
  OBVIOUS
<1>2. path = <<ClassStep(class), MethodStep(id)>> /\ outer = <<ClassStep(class)>>
  BY <1>1 DEF MethodScope, ClassScope
<1>3. MethodAt(t, path, class, id)
  BY <1>2, TreeKinds
<1>4. Parent(path) = outer
  BY <1>2, PathSteps
<1>5. t.scopes[path].record = [path |-> outer, kind |-> "methods", id |-> id]
  BY <1>2, <1>3 DEF MethodAt
<1> HIDE DEF path, outer
<1>6. Record(t, t.scopes[path].record) = t.scopes[outer].methods[id]
  BY <1>5 DEF Record
<1>7. MethodTables(t, path) =
        [locals |-> DOMAIN t.scopes[path].variables, fields |-> DOMAIN t.scopes[outer].variables,
         parameters |-> [x \in DOMAIN record.parameters |-> record.parameters[x].id]]
  BY <1>1, <1>4, <1>6 DEF MethodTables
<1>8. ReadOff(MethodTables(t, path), t.scopes[path].variables, t.scopes[outer].variables,
              record.parameters)
  BY <1>7, TablesAre
<1> QED  BY <1>1, <1>8 DEF path, outer

\* The bytecode of a method is where its root is.
LEMMA MethodEmitted ==
  ASSUME Kept, Compiled, phase = "done", NEW i, NEW l, IsMethodAt(program, i, l)
  PROVE  Emitted(program[i], program[i].methods[l]) =
           MethodTables(table, MethodScope(program[i], program[i].methods[l]))
<1> DEFINE root == RootOf(program, i, l)
           j == CHOOSE k \in DOMAIN roots : roots[k] = root
<1>1. AllGenerated(program, table.scopes, roots) /\ Len(emitted) = Len(roots)
      /\ \A k \in DOMAIN emitted : emitted[k] = MethodTables(table, RootScope(roots[k]))
  BY DEF Compiled, Finished
<1>2. DOMAIN emitted = DOMAIN roots
  <2>1. Lists(roots) /\ Lists(emitted)
    BY DEF Kept, Rooted
  <2>2. DOMAIN roots = 1 .. Len(roots) /\ DOMAIN emitted = 1 .. Len(emitted)
    BY <2>1 DEF Lists
  <2> QED  BY <1>1, <2>2
<1>3. IsRoot(roots, root)
  BY <1>1 DEF AllGenerated, MethodGenerated
<1>4. j \in DOMAIN roots /\ roots[j] = root
  BY <1>3 DEF IsRoot
<1>5. Emitted(program[i], program[i].methods[l]) = emitted[j]
  BY DEF Emitted, RootOf
<1> HIDE DEF j
<1>6. RootScope(root) = MethodScope(program[i], program[i].methods[l])
  BY DEF RootScope, RootOf, MethodScope
<1> QED  BY <1>1, <1>2, <1>4, <1>5, <1>6

\* No two methods are given the same temporary.
LEMMA EmittedApart ==
  ASSUME Kept, Compiled, phase = "done", NEW j \in DOMAIN emitted, NEW k \in DOMAIN emitted, j # k,
         NEW id \in emitted[j].locals \cap emitted[k].locals
  PROVE  ~IsTemp(id)
<1> DEFINE p == RootScope(roots[j])
           q == RootScope(roots[k])
<1>1. /\ Numbered(table.scopes, nextTemp) /\ Distinct(roots) /\ Len(emitted) = Len(roots)
      /\ emitted[j] = MethodTables(table, p) /\ emitted[k] = MethodTables(table, q)
  BY DEF Compiled, Finished, Fresh
<1>2. j \in DOMAIN roots /\ k \in DOMAIN roots
  <2>1. Lists(roots) /\ Lists(emitted)
    BY DEF Kept, Rooted
  <2>2. DOMAIN roots = 1 .. Len(roots) /\ DOMAIN emitted = 1 .. Len(emitted)
    BY <2>1 DEF Lists
  <2> QED  BY <1>1, <2>2
<1>3. p \in DOMAIN table.scopes /\ q \in DOMAIN table.scopes
  BY <1>2 DEF Kept, Rooted, HasRoot, RootScope
<1>4. p # q
  <2>1. roots[j] # roots[k] /\ IsPair(roots[j]) /\ IsPair(roots[k])
    BY <1>1, <1>2 DEF Distinct
  <2>2. ASSUME roots[j][1] = roots[k][1], roots[j][2] = roots[k][2] PROVE FALSE
    BY <2>1, <2>2 DEF IsPair
  <2> QED  BY <2>2 DEF RootScope, ClassStep, MethodStep
<1> HIDE DEF p, q
<1>5. id \in DOMAIN table.scopes[p].variables /\ id \in DOMAIN table.scopes[q].variables
  BY <1>1 DEF MethodTables
<1>6. TempsOf(table.scopes[p].variables) \cap TempsOf(table.scopes[q].variables) = {}
  BY <1>1, <1>3, <1>4 DEF Numbered
<1> QED  BY <1>5, <1>6 DEF TempsOf

\* The tables of a method are what its declaration says.
AsDeclared(e, c, m) ==
  /\ e.parameters = [i \in DOMAIN m.params |-> m.params[i].id]
  /\ {id \in e.locals : ~IsTemp(id)} = Ids(Locals(m))
  /\ Cardinality({id \in e.locals : IsTemp(id)}) = Len(OfKind("use", m.items))
  /\ e.fields = Ids(c.fields) \cup {This}

LEMMA MethodAsDeclared ==
  ASSUME Kept, Compiled, phase = "done", NEW i, NEW l, IsMethodAt(program, i, l)
  PROVE  AsDeclared(Emitted(program[i], program[i].methods[l]), program[i], program[i].methods[l])
<1> DEFINE c == program[i]
           m == c.methods[l]
           e == Emitted(c, m)
           here == table.scopes[MethodScope(c, m)].variables
           outer == table.scopes[ClassScope(c)].variables
           parameters == table.scopes[ClassScope(c)].methods[m.id].parameters
<1>1. /\ program \in Programs /\ Tree(table) /\ Complete(table.scopes, program)
      /\ Numbered(table.scopes, nextTemp) /\ AllGenerated(program, table.scopes, roots)
  BY DEF Kept, Settled, Compiled, Fresh, Finished
<1>2. /\ MethodScope(c, m) \in DOMAIN table.scopes
      /\ Names(here) = Ids(Locals(m)) /\ DOMAIN outer = Ids(c.fields) \cup {This}
      /\ parameters = [x \in DOMAIN m.params |-> ParameterRef(c, m, m.params[x])]
  <2>1. ScopeSpelledOut(table.scopes, c, m)
    BY <1>1, ScopeGenerated
  <2> HIDE DEF c, m
  <2> QED  BY <2>1 DEF ScopeSpelledOut
<1>3. Counted(TempsOf(here), Len(OfKind("use", m.items)))
  BY <1>1 DEF AllGenerated, MethodGenerated
<1>4. e = MethodTables(table, MethodScope(c, m))
  BY MethodEmitted
<1> HIDE DEF c, m, e
<1>5. ReadOff(e, here, outer, parameters)
  BY <1>1, <1>2, <1>4, TablesRead
<1> HIDE DEF here, outer, parameters
<1>6. e.parameters = [x \in DOMAIN m.params |-> m.params[x].id]
  BY <1>2, <1>5 DEF ReadOff, ParameterRef
<1>7. {id \in e.locals : ~IsTemp(id)} = Ids(Locals(m))
  BY <1>2, <1>5 DEF ReadOff, Names
<1>8. Cardinality({id \in e.locals : IsTemp(id)}) = Len(OfKind("use", m.items))
  BY <1>3, <1>5 DEF ReadOff, Counted, TempsOf
<1> QED  BY <1>2, <1>5, <1>6, <1>7, <1>8 DEF ReadOff, AsDeclared, c, m, e

\* A class node and a method of it, by their places in the program.
LEMMA MethodPlace ==
  ASSUME program \in Programs, NEW c \in ClassNodes, NEW m \in ToSet(c.methods)
  PROVE  \E i, l : IsMethodAt(program, i, l) /\ c = program[i] /\ m = program[i].methods[l]
<1>1. PICK i \in 2 .. Len(program) : c = program[i]
  BY ClassNodesAre
<1>2. PICK l \in DOMAIN c.methods : m = c.methods[l]
  BY DEF ToSet
<1> QED  BY <1>1, <1>2 DEF IsMethodAt

\* The bytecode of a method lists its parameters in order, its own locals, as
\* many temporaries as its body takes, and the fields of its class; nothing of
\* another method (SymbolTable::resolveScope, CFG::generateBytecode).
THEOREM TablesAsDeclared == Spec => []EmittedAsDeclared
<1>1. ASSUME Kept, Compiled, phase = "done"
      PROVE  EmittedAsDeclared
  <2>1. program \in Programs /\ Len(emitted) = Len(roots)
    BY <1>1 DEF Kept, Compiled, Finished
  <2>2. ASSUME NEW c \in ClassNodes, NEW m \in ToSet(c.methods)
        PROVE  AsDeclared(Emitted(c, m), c, m)
    <3>1. PICK i, l : IsMethodAt(program, i, l) /\ c = program[i] /\ m = program[i].methods[l]
      BY <2>1, MethodPlace
    <3> QED  BY <1>1, <3>1, MethodAsDeclared
  <2>3. \A j, k \in DOMAIN emitted : j # k =>
          \A id \in emitted[j].locals \cap emitted[k].locals : ~IsTemp(id)
    BY <1>1, EmittedApart
  <2> QED  BY <2>1, <2>2, <2>3, Zenon DEF EmittedAsDeclared, AsDeclared
<1>2. Kept /\ Compiled => EmittedAsDeclared
  BY <1>1 DEF EmittedAsDeclared
<1> QED  BY <1>2, AlwaysCompiled, PTL

\* Once the tables of an accepted program are emitted, a name used in a method is a
\* local, a parameter or a field in its tables, or the name of a class or of a method
\* of its class, which visit_identifier_node accepts and the machine does not find.
THEOREM UsesAreKnown == Spec => []UsesReachVariables
<1>1. ASSUME Kept, Compiled, phase = "done"
      PROVE  UsesReachVariables
  <2> SUFFICES ASSUME NEW c \in ClassNodes, NEW m \in ToSet(c.methods), NEW use \in Uses(m)
               PROVE  \/ use.id \in Emitted(c, m).locals \cup Emitted(c, m).fields
                      \/ use.id \in Ids(program) \cup Ids(c.methods)
    BY DEF UsesReachVariables
  <2>1. program \in Programs /\ AllGenerated(program, table.scopes, roots)
    BY <1>1 DEF Kept, Compiled, Finished
  <2>2. PICK i, l : IsMethodAt(program, i, l) /\ c = program[i] /\ m = program[i].methods[l]
    BY <2>1, MethodPlace
  <2>3. UsesMeant(program, c, m, Len(m.items))
    BY <2>1, <2>2 DEF AllGenerated, MethodGenerated
  <2>4. /\ {id \in Emitted(c, m).locals : ~IsTemp(id)} = Ids(Locals(m))
        /\ Emitted(c, m).fields = Ids(c.fields) \cup {This}
    BY <1>1, <2>2, MethodAsDeclared DEF AsDeclared
  <2>5. IsSequence(m.items)
    BY <2>1, <2>2, BodyLength
  <2>6. use \in ToSet(m.items) /\ use.kind = "use"
    <3>1. PICK j \in DOMAIN OfKind("use", m.items) : use = OfKind("use", m.items)[j]
      BY DEF Uses, ToSet
    <3> QED  BY <2>5, <3>1, OfKindIs
  <2>7. PICK j \in DOMAIN m.items : use = m.items[j]
    BY <2>6 DEF ToSet
  <2>8. j \in DOMAIN m.items \cap 1 .. Len(m.items)
    BY <2>5 DEF IsSequence
  <2>9. Meant(program, c, m, use.id)
    BY <2>3, <2>6, <2>7, <2>8 DEF UsesMeant
  <2> QED  BY <2>4, <2>9 DEF Meant
<1>2. Kept /\ Compiled => UsesReachVariables
  BY <1>1 DEF UsesReachVariables
<1> QED  BY <1>2, AlwaysCompiled, PTL

=============================================================================

------------------------------ MODULE MC_Driver ------------------------------
(***************************************************************************)
(* Sessions of compiles in one directory, over sources that each phase     *)
(* refuses, with and without invalid tokens, and two that none refuses.    *)
(***************************************************************************)
EXTENDS Driver

Src(name, refused, invalid, met) ==
  [name |-> name, refused |-> refused, invalid |-> invalid, met |-> met]

MCSources ==
  {Src("good", "none", FALSE, FALSE), Src("other", "none", FALSE, FALSE),
   Src("invalid", "none", TRUE, TRUE), Src("both", "syntax", TRUE, TRUE),
   Src("late", "syntax", TRUE, FALSE), Src("long", "number", TRUE, TRUE)}
  \cup {Src(p, p, FALSE, FALSE) : p \in Phases}
=============================================================================

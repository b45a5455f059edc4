------------------------------- MODULE MCBfd -------------------------------
(* A small instance of Bfd: an object whose sections overlap and share a name,    *)
(* one without a dynamic table, a text file, and one with a broken symbol table.  *)
EXTENDS Bfd

Sec(n, v, s) == [name |-> n, vma |-> v, size |-> s]
T(b, n)      == [bound |-> b, names |-> n]

Program == [object |-> TRUE, hasSyms |-> TRUE,
            static |-> T(1, <<"main", "puts">>), dynamic |-> T(1, <<"puts", "exit">>),
            sections |-> <<Sec("text", 0, 2), Sec("text", 1, 2)>>]
Relocatable == [object |-> TRUE, hasSyms |-> TRUE, sections |-> <<>>,
                static |-> T(1, <<"main", "main">>), dynamic |-> T(-1, Nil)]
Text   == [object |-> FALSE, hasSyms |-> FALSE, static |-> T(0, Nil), dynamic |-> T(0, Nil),
           sections |-> <<>>]
Broken == [object |-> TRUE, hasSyms |-> TRUE, static |-> T(1, Nil), dynamic |-> T(0, Nil),
           sections |-> <<>>]

MCLayout == [f \in Files |-> CASE f = "program" -> Program [] f = "object" -> Relocatable
                               [] f = "text" -> Text [] f = "broken" -> Broken]

Symmetry == Permutations(Targets) \cup Permutations(Fds)
=============================================================================

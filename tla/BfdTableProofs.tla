--------------------------- MODULE BfdTableProofs ---------------------------
(***************************************************************************)
(* Theorems about the tables of Bfd targets, for any layout of the files:  *)
(* what the loops of cls_target_sections and load_static_syms leave in a  *)
(* Ruby hash, the types, and what section_for_vma and symbols answer.      *)
(*                                                                         *)
(* What a recursive function computes is shown by a least counterexample:  *)
(* the set of the arguments where the claim fails is a subset of Nat, and  *)
(* if it is not empty it has a least member, whose predecessor refutes it. *)
(*                                                                         *)
(* That the tables are those of the target's own file rests on the         *)
(* descriptors, FilesInvariant of BfdProofs.                               *)
(***************************************************************************)
EXTENDS BfdProofs, SequenceTheorems, WellFoundedInduction

\* A set of natural numbers that is not empty has a least member.
LEMMA Least ==
  ASSUME NEW T, T \subseteq Nat, T # {}
  PROVE  \E x \in T : \A y \in T : x <= y
<1> DEFINE R == OpToRel(<, Nat)
<1>1. IsWellFoundedOn(R, Nat) BY NatLessThanWellFounded
<1> HIDE DEF R
<1>2. PICK x \in T : \A y \in T : ~(<<y, x>> \in R) BY <1>1, WFMin
<1>3. ASSUME NEW y \in T PROVE x <= y
  <2>1. ~(<<y, x>> \in OpToRel(<, Nat)) BY <1>2 DEF R
  <2> QED BY <2>1 DEF OpToRel
<1> QED BY <1>2, <1>3

\* The recursive function of Filled exists, and so satisfies its equation.
LEMMA FilledUnfolds ==
  ASSUME NEW h, NEW pairs, Len(pairs) \in Nat
  PROVE  \E g : /\ g = [n \in 0 .. Len(pairs) |->
                          IF n = 0 THEN h ELSE Aset(g[n - 1], pairs[n].key, pairs[n].value)]
                /\ Filled(h, pairs) = g[Len(pairs)]
<1> DEFINE G(g, m) == g = [n \in 0 .. m |-> IF n = 0 THEN h ELSE Aset(g[n - 1], pairs[n].key, pairs[n].value)]
           T == {m \in Nat : ~\E g : G(g, m)}
<1>1. T = {}
  <2>1. SUFFICES ASSUME T # {} PROVE FALSE OBVIOUS
  <2>2. PICK m \in T : \A k \in T : m <= k BY <2>1, Least
  <2>3. m # 0
    <3>1. G([n \in 0 .. 0 |-> h], 0) OBVIOUS
    <3> QED BY <3>1
  <2>4. PICK g : G(g, m - 1)
    <3>1. m \in Nat /\ m - 1 \in Nat BY <2>3
    <3> HIDE DEF G
    <3>2. m - 1 \notin T
      <4> HIDE DEF T
      <4> QED BY <2>2, <3>1
    <3> QED BY <3>1, <3>2
  <2> DEFINE f == [n \in 0 .. m |-> IF n = m THEN Aset(g[m - 1], pairs[m].key, pairs[m].value) ELSE g[n]]
  <2>5. G(f, m)
    <3>1. ASSUME NEW n \in 0 .. m
          PROVE  f[n] = IF n = 0 THEN h ELSE Aset(f[n - 1], pairs[n].key, pairs[n].value)
      <4>1. CASE n = m
        <5>1. f[n - 1] = g[m - 1] BY <2>2, <2>3, <4>1
        <5> QED BY <2>3, <4>1, <5>1
      <4>2. CASE n # m /\ n # 0
        <5>1. f[n - 1] = g[n - 1] /\ f[n] = g[n] BY <4>2
        <5>2. n \in 0 .. m - 1 BY <4>2
        <5>3. g[n] = Aset(g[n - 1], pairs[n].key, pairs[n].value) BY <2>4, <4>2, <5>2
        <5> QED BY <4>2, <5>1, <5>3
      <4>3. CASE n = 0 /\ n # m
        <5>1. 0 \in 0 .. m - 1 BY <2>2, <2>3
        <5> QED BY <2>4, <4>3, <5>1
      <4> QED BY <4>1, <4>2, <4>3
    <3>2. f = [n \in 0 .. m |-> f[n]] OBVIOUS
    <3> HIDE DEF f
    <3> QED BY <3>1, <3>2
  <2> QED BY <2>2, <2>5
<1>2. \E g : G(g, Len(pairs)) BY <1>1
<1> DEFINE after == CHOOSE g : G(g, Len(pairs))
<1>3. G(after, Len(pairs)) BY <1>2
<1>4. Filled(h, pairs) = after[Len(pairs)] BY DEF Filled
<1> QED BY <1>3, <1>4

---------------------------------------------------------------------------
(* Ruby hashes *)

\* An entry of a hash.
Pair(K, V) == [key: K, value: V]

\* The hash r is h with the pair p put into it.
Put(K, V, h, p, r) ==
  /\ r \in Seq(Pair(K, V)) /\ (\E i \in DOMAIN r : r[i].key = p.key) /\ DOMAIN h \subseteq DOMAIN r
  /\ \A i \in DOMAIN h : r[i] = IF h[i].key = p.key THEN p ELSE h[i]
  /\ \A i \in DOMAIN r : i \notin DOMAIN h => r[i] = p

\* rb_hash_aset: a key that is there gets the value, another one is appended.
LEMMA AsetOK ==
  ASSUME NEW K, NEW V, NEW h \in Seq(Pair(K, V)), NEW p \in Pair(K, V)
  PROVE  Put(K, V, h, p, Aset(h, p.key, p.value))
<1> DEFINE r == Aset(h, p.key, p.value)
<1>1. p = [key |-> p.key, value |-> p.value] BY DEF Pair
<1>2. CASE \E i \in DOMAIN h : h[i].key = p.key
  <2>1. r = [i \in DOMAIN h |-> IF h[i].key = p.key THEN p ELSE h[i]]
    BY <1>1, <1>2 DEF Aset
  <2> HIDE DEF r
  <2>2. \A i \in DOMAIN h : h[i] \in Pair(K, V) OBVIOUS
  <2>3. DOMAIN h = 1 .. Len(h) /\ Len(h) \in Nat OBVIOUS
  <2>4. r \in [1 .. Len(h) -> Pair(K, V)] BY <2>1, <2>2, <2>3
  <2>5. r \in Seq(Pair(K, V)) BY <2>3, <2>4, SeqDef
  <2>6. Put(K, V, h, p, r) BY <1>2, <2>1, <2>5 DEF Put
  <2> QED BY <2>6 DEF r
<1>3. CASE ~\E i \in DOMAIN h : h[i].key = p.key
  <2>1. r = Append(h, p) BY <1>1, <1>3 DEF Aset
  <2> HIDE DEF r
  <2>2. DOMAIN r = DOMAIN h \cup {Len(h) + 1} /\ r[Len(h) + 1] = p BY <2>1
  <2>3. \A i \in DOMAIN h : r[i] = h[i] BY <2>1
  <2>6. Put(K, V, h, p, r) BY <1>3, <2>1, <2>2, <2>3 DEF Put
  <2> QED BY <2>6 DEF r
<1> QED BY <1>2, <1>3

\* The hash r holds what was in h and the first n pairs; of two pairs with a key, the later one.
After(K, V, h, pairs, n, r) ==
  /\ r \in Seq(Pair(K, V))
  /\ \A i \in DOMAIN h : /\ i \in DOMAIN r /\ r[i].key = h[i].key
                         /\ (\A m \in 1 .. n : pairs[m].key # h[i].key) => r[i] = h[i]
  /\ \A i \in 1 .. n : \E j \in DOMAIN r : r[j].key = pairs[i].key
  /\ \A j \in DOMAIN r :
       \/ \E i \in 1 .. n : r[j] = pairs[i] /\ \A m \in 1 .. n : m > i => pairs[m].key # pairs[i].key
       \/ (\E i \in DOMAIN h : r[j] = h[i]) /\ \A m \in 1 .. n : pairs[m].key # r[j].key

\* A loop over rb_hash_aset: by a least n after which the hash is not what it should be.
LEMMA FilledOK ==
  ASSUME NEW K, NEW V, NEW h \in Seq(Pair(K, V)), NEW pairs \in Seq(Pair(K, V))
  PROVE  After(K, V, h, pairs, Len(pairs), Filled(h, pairs))
<1> DEFINE Good(r, n) == After(K, V, h, pairs, n, r)
<1>1. Len(pairs) \in Nat /\ DOMAIN pairs = 1 .. Len(pairs) OBVIOUS
<1>2. PICK g : /\ g = [n \in 0 .. Len(pairs) |->
                         IF n = 0 THEN h ELSE Aset(g[n - 1], pairs[n].key, pairs[n].value)]
               /\ Filled(h, pairs) = g[Len(pairs)]
  BY <1>1, FilledUnfolds
<1>3. Good(h, 0) BY DEF After
<1>4. ASSUME NEW n \in 1 .. Len(pairs), NEW r, Good(r, n - 1), NEW p \in Pair(K, V), p = pairs[n],
             NEW q, q = Aset(r, p.key, p.value)
      PROVE  Good(q, n)
  <2>2. r \in Seq(Pair(K, V)) BY <1>4 DEF After
  <2>3. \A i \in DOMAIN h : i \in DOMAIN r /\ r[i].key = h[i].key BY <1>4 DEF After
  <2>10. \A i \in DOMAIN h : (\A m \in 1 .. n - 1 : pairs[m].key # h[i].key) => r[i] = h[i] BY <1>4 DEF After
  <2>9. \A i \in 1 .. n - 1 : \E j \in DOMAIN r : r[j].key = pairs[i].key BY <1>4 DEF After
  <2>4. /\ q \in Seq(Pair(K, V)) /\ (\E i \in DOMAIN q : q[i].key = p.key) /\ DOMAIN r \subseteq DOMAIN q
        /\ \A i \in DOMAIN r : q[i] = IF r[i].key = p.key THEN p ELSE r[i]
        /\ \A i \in DOMAIN q : i \notin DOMAIN r => q[i] = p
    <3>1. Put(K, V, r, p, q) BY <1>4, <2>2, AsetOK
    <3> QED BY <3>1 DEF Put
  <2>5. \A i \in DOMAIN r : q[i].key = r[i].key BY <2>4
  <2>6. \A i \in DOMAIN h : i \in DOMAIN q /\ q[i].key = h[i].key
    <3>1. \A i \in DOMAIN h : i \in DOMAIN q BY <2>3, <2>4
    <3>2. \A i \in DOMAIN h : q[i].key = h[i].key BY <2>3, <2>5
    <3> QED BY <3>1, <3>2
  <2>11. \A i \in DOMAIN h : (\A m \in 1 .. n : pairs[m].key # h[i].key) => q[i] = h[i]
    <3>1. SUFFICES ASSUME NEW i \in DOMAIN h, \A m \in 1 .. n : pairs[m].key # h[i].key PROVE q[i] = h[i]
      OBVIOUS
    <3>2. \A m \in 1 .. n - 1 : m \in 1 .. n OBVIOUS
    <3>3. \A m \in 1 .. n - 1 : pairs[m].key # h[i].key BY <3>1, <3>2
    <3>4. r[i] = h[i] BY <2>10, <3>3
    <3>5. n \in 1 .. n OBVIOUS
    <3>6. p.key # h[i].key BY <1>4, <3>1, <3>5
    <3>7. i \in DOMAIN r BY <2>3
    <3>8. q[i] = IF r[i].key = p.key THEN p ELSE r[i] BY <2>4, <3>7
    <3> QED BY <3>4, <3>6, <3>8
  <2>7. \A i \in 1 .. n : \E j \in DOMAIN q : q[j].key = pairs[i].key
    <3>1. \A i \in 1 .. n : i = n \/ i \in 1 .. n - 1 OBVIOUS
    <3>2. \A i \in 1 .. n - 1 : \E j \in DOMAIN q : q[j].key = pairs[i].key
      BY <2>4, <2>5, <2>9
    <3> QED BY <1>4, <2>4, <3>1, <3>2
  <2>8. ASSUME NEW j \in DOMAIN q
        PROVE  \/ \E i \in 1 .. n : q[j] = pairs[i] /\ \A m \in 1 .. n : m > i => pairs[m].key # pairs[i].key
               \/ (\E i \in DOMAIN h : q[j] = h[i]) /\ \A m \in 1 .. n : pairs[m].key # q[j].key
    <3>1. CASE q[j] = p BY <1>4, <3>1
    <3>2. CASE q[j] # p
      <4>1. j \in DOMAIN r /\ q[j] = r[j] /\ r[j].key # p.key BY <2>4, <2>8, <3>2
      <4>2. CASE \E i \in 1 .. n - 1 : /\ r[j] = pairs[i]
                                       /\ \A m \in 1 .. n - 1 : m > i => pairs[m].key # pairs[i].key
        <5>1. PICK i \in 1 .. n - 1 :
                r[j] = pairs[i] /\ \A m \in 1 .. n - 1 : m > i => pairs[m].key # pairs[i].key
          BY <4>2
        <5>2. ASSUME NEW m \in 1 .. n, m > i PROVE pairs[m].key # pairs[i].key
          <6>1. m = n \/ m \in 1 .. n - 1 OBVIOUS
          <6> QED BY <1>4, <4>1, <5>1, <5>2, <6>1
        <5> QED BY <4>1, <5>1, <5>2
      <4>3. CASE (\E i \in DOMAIN h : r[j] = h[i]) /\ \A m \in 1 .. n - 1 : pairs[m].key # r[j].key
        <5>1. \A m \in 1 .. n : m = n \/ m \in 1 .. n - 1 OBVIOUS
        <5> QED BY <1>4, <4>1, <4>3, <5>1
      <4> QED BY <1>4, <4>1, <4>2, <4>3 DEF After
    <3> QED BY <3>1, <3>2
  <2> QED BY <2>4, <2>6, <2>7, <2>8, <2>11 DEF After
<1> DEFINE T == {n \in Nat : n <= Len(pairs) /\ ~Good(g[n], n)}
<1>5. T = {}
  <2>1. SUFFICES ASSUME T # {} PROVE FALSE OBVIOUS
  <2> HIDE DEF Good
  <2>2. PICK n \in T : \A k \in T : n <= k BY <2>1, Least
  <2>3. n \in 0 .. Len(pairs) /\ ~Good(g[n], n) BY <1>1, <2>2
  <2>4. n # 0 BY <1>1, <1>2, <1>3, <2>3
  <2>5. n - 1 \in Nat /\ n - 1 <= Len(pairs) /\ n \in 1 .. Len(pairs) BY <1>1, <2>3, <2>4
  <2>6. Good(g[n - 1], n - 1)
    <3>1. n - 1 \notin T
      <4> HIDE DEF T
      <4> QED BY <2>2, <2>5
    <3> QED BY <2>5, <3>1
  <2>7. g[n] = Aset(g[n - 1], pairs[n].key, pairs[n].value) BY <1>2, <2>3, <2>4
  <2>8. pairs[n] \in Pair(K, V) BY <1>1, <2>5
  <2> QED BY <1>4, <2>3, <2>5, <2>6, <2>7, <2>8
<1> HIDE DEF Good
<1> QED
  <2>1. Good(g[Len(pairs)], Len(pairs)) BY <1>1, <1>5
  <2> QED BY <1>2, <2>1 DEF Good

\* The hash r gives for each name the last section that bears it.
LastNamed(secs, r) ==
  /\ DOMAIN secs = 1 .. Len(secs) /\ Len(secs) \in Nat /\ DOMAIN secs \subseteq Positions
  /\ r \in Seq(Pair(STRING, DOMAIN secs))
  /\ \A k \in DOMAIN secs : \E j \in DOMAIN r : r[j].key = secs[k].name
  /\ \A j \in DOMAIN r : \A k \in DOMAIN secs :
       r[j].key = secs[r[j].value].name /\ (r[j].key = secs[k].name => k <= r[j].value)

\* cls_target_sections: of two sections with a name the later one is found.
LEMMA SectionHashOK ==
  ASSUME NEW f \in Files PROVE LastNamed(Layout[f].sections, SectionHash(Layout[f].sections))
<1> SUFFICES ASSUME NEW secs, secs = Layout[f].sections, NEW r, r = SectionHash(secs)
             PROVE  LastNamed(secs, r)
  OBVIOUS
<1> DEFINE pairs == [k \in DOMAIN secs |-> [key |-> secs[k].name, value |-> k]]
           K == STRING  V == DOMAIN secs
<1>1. secs \in Seq([name: STRING, vma: Nat, size: Nat]) BY FileAssumption DEF Layouts
<1>2. DOMAIN secs \subseteq Positions BY DEF Positions
<1>3. DOMAIN secs = 1 .. Len(secs) /\ Len(secs) \in Nat BY <1>1
<1>4. \A k \in DOMAIN secs : secs[k].name \in STRING
  <2> DEFINE S == [name: STRING, vma: Nat, size: Nat]
  <2>1. secs \in Seq(S) BY <1>1
  <2>2. \A s \in S : s.name \in STRING OBVIOUS
  <2> HIDE DEF S
  <2>3. \A k \in DOMAIN secs : secs[k] \in S BY <2>1
  <2> QED BY <2>2, <2>3
<1>5. pairs \in Seq(Pair(K, V)) /\ Len(pairs) = Len(secs)
  <2>1. pairs \in [1 .. Len(secs) -> Pair(K, V)] BY <1>3, <1>4 DEF Pair
  <2>2. pairs \in Seq(Pair(K, V)) BY <1>3, <2>1, SeqDef
  <2>3. DOMAIN pairs = 1 .. Len(secs) BY <1>3
  <2> HIDE DEF pairs
  <2> QED BY <1>3, <2>2, <2>3
<1>6. <<>> \in Seq(Pair(K, V)) /\ DOMAIN <<>> = {} OBVIOUS
<1> HIDE DEF K, V
<1>8. After(K, V, <<>>, pairs, Len(secs), r)
  <2> HIDE DEF pairs
  <2>1. After(K, V, <<>>, pairs, Len(pairs), Filled(<<>>, pairs)) BY <1>5, <1>6, FilledOK
  <2>2. r = Filled(<<>>, pairs) BY DEF SectionHash, pairs
  <2> QED BY <1>5, <2>1, <2>2
<1>9. \A k \in 1 .. Len(secs) : pairs[k].key = secs[k].name BY <1>3
<1>13. \A k \in 1 .. Len(secs) : pairs[k].value = k BY <1>3
<1> HIDE DEF pairs
<1>10. r \in Seq(Pair(K, V)) BY <1>8 DEF After
<1>14. \A k \in 1 .. Len(secs) : \E j \in DOMAIN r : r[j].key = secs[k].name
  <2>1. \A k \in 1 .. Len(secs) : \E j \in DOMAIN r : r[j].key = pairs[k].key BY <1>8 DEF After
  <2> QED BY <1>9, <2>1
<1>11. \A j \in DOMAIN r : \E i \in 1 .. Len(secs) :
         r[j] = pairs[i] /\ \A m \in 1 .. Len(secs) : m > i => pairs[m].key # pairs[i].key
  BY <1>6, <1>8 DEF After
<1>12. ASSUME NEW j \in DOMAIN r, NEW k \in 1 .. Len(secs)
       PROVE  r[j].key = secs[r[j].value].name /\ (r[j].key = secs[k].name => k <= r[j].value)
  <2>1. PICK i \in 1 .. Len(secs) :
          r[j] = pairs[i] /\ \A m \in 1 .. Len(secs) : m > i => pairs[m].key # pairs[i].key
    BY <1>11
  <2>2. r[j].key = secs[i].name /\ r[j].value = i BY <1>9, <1>13, <2>1
  <2>3. k > i => secs[k].name # secs[i].name BY <1>9, <2>1
  <2> QED BY <1>3, <2>2, <2>3
<1>15. r \in Seq(Pair(STRING, DOMAIN secs)) BY <1>10 DEF K, V
<1> QED BY <1>2, <1>3, <1>12, <1>14, <1>15 DEF LastNamed

\* The entries of a hash.
Entries(h) == {h[i] : i \in DOMAIN h}
\* The kinds of symbols.
Bindings == {"static", "dynamic"}

\* The names that a table adds.
NamesOf(table) == IF table.bound = 1 THEN ToSet(table.names) ELSE {}
\* The entries of h with the names N bound anew.
Bound(h, N, binding) == {[key |-> s, value |-> binding] : s \in N} \cup {e \in Entries(h) : e.key \notin N}

\* load_static_syms and load_dyn_syms: every name of the table is bound, the others are as before.
LEMMA AddSymbolsOK ==
  ASSUME NEW table \in Tables, ~Unreadable(table), NEW binding \in Bindings,
         NEW h \in Seq(Pair(STRING, Bindings))
  PROVE  /\ AddSymbols(h, table, binding) \in Seq(Pair(STRING, Bindings))
         /\ Entries(AddSymbols(h, table, binding)) = Bound(h, NamesOf(table), binding)
<1> DEFINE r == AddSymbols(h, table, binding)
           N == NamesOf(table)
<1>1. CASE table.bound # 1
  <2>1. r = h /\ N = {} BY <1>1 DEF AddSymbols, NamesOf
  <2> QED BY <2>1 DEF Bound
<1>2. CASE table.bound = 1
  <2> DEFINE names == table.names
             pairs == [i \in DOMAIN names |-> [key |-> names[i], value |-> binding]]
             K == STRING  V == Bindings
  <2>1. names \in Seq(STRING) BY <1>2 DEF Tables, Unreadable
  <2> HIDE DEF names
  <2>2. DOMAIN names = 1 .. Len(names) /\ Len(names) \in Nat /\ \A i \in DOMAIN names : names[i] \in STRING
    BY <2>1
  <2>3. pairs \in Seq(Pair(K, V)) /\ Len(pairs) = Len(names)
    <3>1. pairs \in [1 .. Len(names) -> Pair(K, V)] BY <2>2 DEF Pair
    <3>2. pairs \in Seq(Pair(K, V)) BY <2>2, <3>1, SeqDef
    <3>3. DOMAIN pairs = 1 .. Len(names) BY <2>2
    <3> HIDE DEF pairs
    <3> QED BY <2>2, <3>2, <3>3
  <2>5. After(K, V, h, pairs, Len(names), r)
    <3>1. h \in Seq(Pair(K, V)) OBVIOUS
    <3>2. r = Filled(h, pairs) BY <1>2 DEF AddSymbols, names
    <3> HIDE DEF pairs, K, V
    <3> QED BY <2>3, <3>1, <3>2, FilledOK
  <2>6. N = {names[i] : i \in 1 .. Len(names)} BY <1>2, <2>2 DEF ToSet, NamesOf, names
  <2> HIDE DEF r, N
  <2>7. \A i \in 1 .. Len(names) : pairs[i] = [key |-> names[i], value |-> binding] BY <2>2
  <2>8. \A i \in 1 .. Len(names) : pairs[i].key = names[i] BY <2>2
  <2> HIDE DEF pairs, K, V
  <2>12. r \in Seq(Pair(K, V)) BY <2>5 DEF After
  <2>13. \A i \in DOMAIN h :
           i \in DOMAIN r /\ ((\A m \in 1 .. Len(names) : names[m] # h[i].key) => r[i] = h[i])
    <3>1. \A i \in DOMAIN h :
            i \in DOMAIN r /\ ((\A m \in 1 .. Len(names) : pairs[m].key # h[i].key) => r[i] = h[i])
      BY <2>5 DEF After
    <3> QED BY <2>8, <3>1
  <2>14. \A i \in 1 .. Len(names) : \E j \in DOMAIN r : r[j].key = names[i]
    <3>1. \A i \in 1 .. Len(names) : \E j \in DOMAIN r : r[j].key = pairs[i].key BY <2>5 DEF After
    <3> QED BY <2>8, <3>1
  <2>15. \A j \in DOMAIN r :
           \/ \E i \in 1 .. Len(names) : r[j] = pairs[i]
           \/ (\E i \in DOMAIN h : r[j] = h[i]) /\ \A m \in 1 .. Len(names) : names[m] # r[j].key
    <3>1. \A j \in DOMAIN r :
            \/ \E i \in 1 .. Len(names) : r[j] = pairs[i]
            \/ (\E i \in DOMAIN h : r[j] = h[i]) /\ \A m \in 1 .. Len(names) : pairs[m].key # r[j].key
      BY <2>5 DEF After
    <3> QED BY <2>8, <3>1
  <2> DEFINE new == {[key |-> s, value |-> binding] : s \in N}
             old == {e \in Entries(h) : e.key \notin N}
  <2>9. ASSUME NEW j \in DOMAIN r PROVE r[j] \in new \cup old
    <3>1. CASE \E i \in 1 .. Len(names) : r[j] = pairs[i] BY <2>6, <2>7, <3>1
    <3>2. CASE (\E i \in DOMAIN h : r[j] = h[i]) /\ \A m \in 1 .. Len(names) : names[m] # r[j].key
      BY <2>6, <3>2 DEF Entries
    <3> QED BY <2>15, <3>1, <3>2
  <2>10. ASSUME NEW s \in N PROVE [key |-> s, value |-> binding] \in Entries(r)
    <3>1. PICK i \in 1 .. Len(names) : s = names[i] BY <2>6
    <3>2. PICK j \in DOMAIN r : r[j].key = s BY <2>14, <3>1
    <3>3. PICK m \in 1 .. Len(names) : r[j] = pairs[m] BY <2>15, <3>1, <3>2
    <3>4. r[j] = [key |-> s, value |-> binding] BY <2>7, <2>8, <3>2, <3>3
    <3> QED BY <3>4 DEF Entries
  <2>11. ASSUME NEW i \in DOMAIN h, h[i].key \notin N PROVE h[i] \in Entries(r)
    <3>1. i \in DOMAIN r /\ r[i] = h[i] BY <2>6, <2>11, <2>13
    <3> QED BY <3>1 DEF Entries
  <2>16. r \in Seq(Pair(STRING, Bindings)) BY <2>12 DEF K, V
  <2>17. Entries(r) \subseteq new \cup old
    <3> HIDE DEF new, old
    <3> QED BY <2>9 DEF Entries
  <2>18. new \subseteq Entries(r) BY <2>10
  <2>19. old \subseteq Entries(r) BY <2>11 DEF Entries
  <2> QED BY <2>16, <2>17, <2>18, <2>19 DEF r, N, Bound
<1> QED BY <1>1, <1>2

\* No table that cls_target_symbols reads makes it crash.
Readable(l) == ~Crashes(l)

\* cls_target_symbols: each name that a table has, dynamic exactly if the dynamic table has it.
LEMMA SymbolHashOK ==
  ASSUME NEW l \in Layouts, Readable(l), NEW r, r = SymbolHash(l)
  PROVE  LET Names(table) == IF l.hasSyms /\ table.bound = 1 THEN ToSet(table.names) ELSE {}
         IN  /\ r \in Seq(Pair(STRING, Bindings))
             /\ Entries(r) = {[key |-> s, value |-> IF s \in Names(l.dynamic) THEN "dynamic" ELSE "static"] :
                                s \in Names(l.static) \cup Names(l.dynamic)}
<1>3. l.static \in Tables /\ l.dynamic \in Tables BY DEF Layouts
<1> DEFINE Names(table) == IF l.hasSyms /\ table.bound = 1 THEN ToSet(table.names) ELSE {}
           S == Names(l.static)  D == Names(l.dynamic)
           all == {[key |-> s, value |-> IF s \in D THEN "dynamic" ELSE "static"] : s \in S \cup D}
<1>4. CASE ~l.hasSyms
  <2>1. r = <<>> BY <1>4 DEF SymbolHash
  <2>2. S = {} /\ D = {} BY <1>4
  <2>3. r \in Seq(Pair(STRING, Bindings)) BY <2>1
  <2>4. Entries(r) = {} BY <2>1 DEF Entries
  <2>5. all = {} BY <2>2
  <2> QED BY <2>3, <2>4, <2>5
<1>5. CASE l.hasSyms
  <2>1. PICK g : g = AddSymbols(<<>>, l.static, "static") OBVIOUS
  <2>2. r = AddSymbols(g, l.dynamic, "dynamic") BY <1>5, <2>1 DEF SymbolHash
  <2>3. ~Unreadable(l.static) /\ ~Unreadable(l.dynamic) BY <1>5 DEF Readable, Crashes
  <2>4. <<>> \in Seq(Pair(STRING, Bindings)) /\ Entries(<<>>) = {} BY DEF Entries
  <2>5. "static" \in Bindings /\ "dynamic" \in Bindings BY DEF Bindings
  <2>6. S = NamesOf(l.static) /\ D = NamesOf(l.dynamic) BY <1>5 DEF NamesOf
  <2> HIDE DEF S, D
  <2>7. g \in Seq(Pair(STRING, Bindings)) /\ Entries(g) = Bound(<<>>, S, "static")
    BY <1>3, <2>1, <2>3, <2>4, <2>5, <2>6, AddSymbolsOK
  <2>8. r \in Seq(Pair(STRING, Bindings)) /\ Entries(r) = Bound(g, D, "dynamic")
    BY <1>3, <2>2, <2>3, <2>5, <2>6, <2>7, AddSymbolsOK
  <2>9. Entries(r) = {[key |-> s, value |-> "dynamic"] : s \in D} \cup {e \in Entries(g) : e.key \notin D}
    BY <2>8 DEF Bound
  <2>10. Entries(g) = {[key |-> s, value |-> "static"] : s \in S} BY <2>4, <2>7 DEF Bound
  <2>11. Entries(r) = all
    <3>1. ASSUME NEW e \in Entries(r) PROVE e \in all
      <4>1. CASE e \in {[key |-> s, value |-> "dynamic"] : s \in D} BY <4>1
      <4>2. CASE e \in Entries(g) /\ e.key \notin D BY <2>10, <4>2
      <4> QED BY <2>9, <4>1, <4>2
    <3>2. ASSUME NEW s \in S \cup D
          PROVE  [key |-> s, value |-> IF s \in D THEN "dynamic" ELSE "static"] \in Entries(r)
      <4>1. CASE s \in D BY <2>9, <4>1
      <4>2. CASE s \in S /\ s \notin D BY <2>9, <2>10, <4>2
      <4> QED BY <4>1, <4>2
    <3> QED BY <3>1, <3>2
  <2> QED BY <2>8, <2>11 DEF S, D
<1> QED BY <1>4, <1>5

---------------------------------------------------------------------------
(* Types *)

HashOf(V) == Seq([key: STRING, value: V])

\* The types of the two tables.
LEMMA SectionsType ==
  ASSUME NEW f \in Files PROVE SectionHash(Layout[f].sections) \in HashOf(Positions)
<1>1. PICK secs, r : secs = Layout[f].sections /\ r = SectionHash(secs) OBVIOUS
<1>2. LastNamed(secs, r) BY <1>1, SectionHashOK
<1>3. DOMAIN secs \subseteq Positions /\ r \in Seq(Pair(STRING, DOMAIN secs)) BY <1>2 DEF LastNamed
<1>4. Pair(STRING, DOMAIN secs) \subseteq Pair(STRING, Positions) BY <1>3 DEF Pair
<1>5. \A i \in 1 .. Len(r) : r[i] \in Pair(STRING, DOMAIN secs) BY <1>3
<1>6. r = [i \in 1 .. Len(r) |-> r[i]] /\ Len(r) \in Nat BY <1>3
<1>7. r \in [1 .. Len(r) -> Pair(STRING, Positions)] BY <1>4, <1>5, <1>6
<1>8. r \in Seq(Pair(STRING, Positions)) BY <1>6, <1>7, SeqDef
<1> QED BY <1>1, <1>8 DEF HashOf, Pair

LEMMA SymbolsType ==
  ASSUME NEW l \in Layouts, Readable(l) PROVE SymbolHash(l) \in HashOf(Bindings)
<1>1. SymbolHash(l) \in Seq(Pair(STRING, Bindings)) BY SymbolHashOK
<1> QED BY <1>1 DEF HashOf, Pair

\* Whatever is read through the descriptor is a layout, and its own file's if the
\* descriptor refers to it.
LEMMA SeenType ==
  ASSUME NEW f \in Files, NEW now \in Files \cup {Nil}, NEW l \in LayoutsSeen(f, now)
  PROVE  l \in Layouts /\ (now = f => l = Layout[f])
<1>1. Layout[f] \in Layouts BY FileAssumption
<1>2. CASE now = f BY <1>1, <1>2 DEF LayoutsSeen
<1>3. CASE now # f
  <2>1. PICK a \in NamesSeen(now, "static"), b \in NamesSeen(now, "dynamic") :
          l = WithNames(Layout[f], a, b)
    BY <1>3 DEF LayoutsSeen
  <2>2. a \in Seq(STRING) \cup {Nil} /\ b \in Seq(STRING) \cup {Nil}
    <3>1. ASSUME NEW g \in Files
          PROVE  /\ Layout[g].static.names \in Seq(STRING) \cup {Nil}
                 /\ Layout[g].dynamic.names \in Seq(STRING) \cup {Nil}
      BY FileAssumption DEF Layouts, Tables
    <3> QED BY <3>1 DEF NamesSeen
  <2> DEFINE s == [Layout[f].static EXCEPT !.names = a]  d == [Layout[f].dynamic EXCEPT !.names = b]
  <2>3. s \in Tables /\ d \in Tables BY <1>1, <2>2 DEF Layouts, Tables
  <2>4. l = [Layout[f] EXCEPT !.static = s, !.dynamic = d] BY <2>1 DEF WithNames
  <2> HIDE DEF s, d
  <2>5. l \in Layouts BY <1>1, <2>3, <2>4 DEF Layouts
  <2> QED BY <1>3, <2>5
<1> QED BY <1>2, <1>3

\* TypeOK in parts that a step changes together.
FilesType ==
  /\ fds \in [Fds -> Files \cup {Nil}] /\ opens \in 0 .. MaxOpens
  /\ io \in [Ios -> [fd: Fds, file: Files] \cup {Nil}]
  /\ rejected \subseteq Fds /\ shared \subseteq Fds
TargetsType ==
  /\ tgt \in [Targets -> TargetType]
  /\ \A t \in Targets :
       tgt[t].state # "none" => tgt[t].fd \in Fds /\ Object(tgt[t].file)
ContentsType == contents \in [Targets \X Positions -> Files \cup {Nil}]
CallType ==
  call \in [pc: {"idle", "written", "yield"}, temp: Temps \cup {Nil}, file: Files \cup {Nil},
             block: BOOLEAN, target: Targets \cup {Nil}]
TempsType ==
  /\ CallType
  /\ call.pc # "idle" => call.temp \in Temps /\ call.file \in Files
  /\ call.pc = "yield" => call.target \in Targets
  /\ temp \in [Temps -> {"none", "disk", "deleted"}] /\ tempFile \in Temps \cup {Nil}
  /\ finalized \subseteq Temps /\ unlinked \subseteq Temps
  /\ result \in [Temps -> {Nil, "target", "rejected", "lost", "done", "unlink raised", "block raised"}]
FaultType == fault \in {"none", "symbol table", "stale pointer"}

LEMMA TypeParts == TypeOK <=> FilesType /\ TargetsType /\ ContentsType /\ TempsType /\ FaultType
BY DEF TypeOK, FilesType, TargetsType, ContentsType, CallType, TempsType, FaultType

\* Everything that opens a file.
LEMMA OpenedType ==
  ASSUME FilesType, NEW n \in Fds, NEW f \in Files, Opened(n, f),
         io' = io \/ (\E i \in Ios : io' = [io EXCEPT ![i] = [fd |-> n, file |-> f]]),
         rejected' = rejected \/ rejected' = rejected \cup {n}, shared' = shared
  PROVE  FilesType'
<1>1. fds' \in [Fds -> Files \cup {Nil}] BY DEF FilesType, Opened
<1>2. opens' \in 0 .. MaxOpens BY LayoutAssumption DEF FilesType, Opened
<1>3. io' \in [Ios -> [fd: Fds, file: Files] \cup {Nil}]
  <2>1. [fd |-> n, file |-> f] \in [fd: Fds, file: Files] OBVIOUS
  <2> DEFINE r == [fd |-> n, file |-> f]
  <2> HIDE DEF r
  <2>2. \A i \in Ios : io' = [io EXCEPT ![i] = r] => io' \in [Ios -> [fd: Fds, file: Files] \cup {Nil}]
    BY <2>1 DEF FilesType, r
  <2> QED BY <2>2 DEF FilesType, r
<1> QED BY <1>1, <1>2, <1>3 DEF FilesType

\* A target that is made.
LEMMA MadeType ==
  ASSUME TargetsType, NEW t \in Targets, NEW n \in Fds, NEW f \in Files, Object(f), Made(t, n, f)
  PROVE  TargetsType'
<1> DEFINE r == [NoTarget EXCEPT !.state = "live", !.fd = n, !.file = f]
<1>1. r \in TargetType /\ r.fd = n /\ r.file = f BY DEF NoTarget, TargetType
<1> HIDE DEF r
<1>2. tgt' = [tgt EXCEPT ![t] = r] BY DEF Made, r
<1>3. tgt' \in [Targets -> TargetType] BY <1>1, <1>2 DEF TargetsType
<1>4. tgt'[t] = r /\ \A u \in Targets : u # t => tgt'[u] = tgt[u] BY <1>2 DEF TargetsType
<1>5. \A u \in Targets : tgt'[u].state # "none" => tgt'[u].fd \in Fds /\ Object(tgt'[u].file)
  BY <1>1, <1>4 DEF TargetsType
<1>6. \A x : Object(x)' <=> Object(x) BY DEF Object
<1> QED BY <1>3, <1>5, <1>6 DEF TargetsType

\* The other steps that change a target.
LEMMA TargetStep ==
  ASSUME TargetsType, fds \in [Fds -> Files \cup {Nil}], NEW t \in Targets, Live(t),
         \/ Collect(t) \/ LoadSections(t) \/ LoadSymbols(t) \/ Close(t)
         \/ \E k \in Temps \cup {Nil} : SetTempFile(t, k)
  PROVE  TargetsType'
<1>1. tgt[t] \in TargetType /\ tgt[t].fd \in Fds /\ Object(tgt[t].file) BY DEF TargetsType, Live
<1>2. tgt[t].file \in Files BY <1>1 DEF TargetType, Object
<1>3. CASE tgt' = tgt BY <1>3 DEF TargetsType, Object
<1>4. ASSUME NEW r \in TargetType, r.fd = tgt[t].fd, r.file = tgt[t].file, tgt' = [tgt EXCEPT ![t] = r]
      PROVE  TargetsType'
  <2>1. tgt' \in [Targets -> TargetType] BY <1>4 DEF TargetsType
  <2>2. tgt'[t] = r /\ \A u \in Targets : u # t => tgt'[u] = tgt[u] BY <1>4 DEF TargetsType
  <2>3. \A u \in Targets : tgt'[u].state # "none" => tgt'[u].fd \in Fds /\ Object(tgt'[u].file)
    BY <1>1, <1>4, <2>2 DEF TargetsType
  <2> QED BY <2>1, <2>3 DEF TargetsType, Object
<1>5. CASE Collect(t)
  <2> DEFINE r == [tgt[t] EXCEPT !.state = "gone"]
  <2>1. r \in TargetType /\ r.fd = tgt[t].fd /\ r.file = tgt[t].file BY <1>1 DEF TargetType
  <2>2. tgt' = [tgt EXCEPT ![t] = r] BY <1>5 DEF Collect
  <2> QED BY <1>4, <2>1, <2>2
<1>6. CASE LoadSections(t)
  <2>1. PICK h : h = SectionHash(Layout[tgt[t].file].sections) OBVIOUS
  <2>2. h \in Seq([key: STRING, value: Positions]) BY <1>2, <2>1, SectionsType DEF HashOf
  <2> DEFINE r == [tgt[t] EXCEPT !.sections = h]
  <2>3. r \in TargetType /\ r.fd = tgt[t].fd /\ r.file = tgt[t].file BY <1>1, <2>2 DEF TargetType
  <2>4. tgt' = [tgt EXCEPT ![t] = r] BY <1>6, <2>1 DEF LoadSections
  <2> QED BY <1>4, <2>3, <2>4
<1>7. CASE LoadSymbols(t) /\ tgt' # tgt
  <2>1. PICK l \in LayoutsSeen(tgt[t].file, fds[tgt[t].fd]) :
          ~Crashes(l) /\ tgt' = [tgt EXCEPT ![t].symbols = SymbolHash(l)]
    BY <1>7 DEF LoadSymbols
  <2>2. l \in Layouts BY <1>1, <1>2, SeenType
  <2>3. PICK h : h = SymbolHash(l) OBVIOUS
  <2>4. h \in Seq([key: STRING, value: {"static", "dynamic"}])
    BY <2>1, <2>2, <2>3, SymbolsType DEF HashOf, Bindings, Readable
  <2> DEFINE r == [tgt[t] EXCEPT !.symbols = h]
  <2>5. r \in TargetType /\ r.fd = tgt[t].fd /\ r.file = tgt[t].file BY <1>1, <2>4 DEF TargetType
  <2>6. tgt' = [tgt EXCEPT ![t] = r] BY <2>1, <2>3
  <2> QED BY <1>4, <2>5, <2>6
<1>8. ASSUME NEW k \in Temps \cup {Nil}, tgt' = [tgt EXCEPT ![t].temp_file = k] PROVE TargetsType'
  <2> DEFINE r == [tgt[t] EXCEPT !.temp_file = k]
  <2>1. r \in TargetType /\ r.fd = tgt[t].fd /\ r.file = tgt[t].file BY <1>1 DEF TargetType
  <2>2. tgt' = [tgt EXCEPT ![t] = r] BY <1>8
  <2> QED BY <1>4, <2>1, <2>2
<1>9. CASE Close(t) BY <1>3, <1>8, <1>9 DEF Close
<1>10. ASSUME NEW k \in Temps \cup {Nil}, SetTempFile(t, k) PROVE TargetsType'
  BY <1>8, <1>10 DEF SetTempFile
<1> QED BY <1>3, <1>5, <1>6, <1>7, <1>9, <1>10

LEMMA TypeInit == Init => TypeOK
<1> SUFFICES ASSUME Init PROVE TypeOK OBVIOUS
<1>1. FilesType BY LayoutAssumption DEF Init, FilesType
<1>2. TargetsType
  <2>1. NoTarget \in TargetType /\ NoTarget.state = "none" BY DEF NoTarget, TargetType
  <2> QED BY <2>1 DEF Init, TargetsType
<1>3. ContentsType BY DEF Init, ContentsType
<1>4. TempsType BY DEF Init, TempsType, CallType, NoCall
<1>5. FaultType BY DEF Init, FaultType
<1> QED BY <1>1, <1>2, <1>3, <1>4, <1>5, TypeParts

\* The steps that end a call of from_buffer.
LEMMA EndsType ==
  ASSUME TempsType, call.pc # "idle",
         NEW how \in {"target", "rejected", "lost", "done", "unlink raised", "block raised"}, Ends(how),
         temp' = temp \/ temp' = [temp EXCEPT ![call.temp] = "deleted"],
         tempFile' = tempFile \/ tempFile' = call.temp, UNCHANGED <<finalized, unlinked>>
  PROVE  TempsType'
BY DEF TempsType, CallType, Ends, NoCall

\* One step for each action: the parts it changes, and the others by UNCHANGED.
LEMMA TypeNext == TypeOK /\ [Next]_vars => TypeOK'
<1> SUFFICES ASSUME TypeOK, [Next]_vars PROVE TypeOK' OBVIOUS
<1>1. FilesType /\ TargetsType /\ ContentsType /\ TempsType /\ FaultType BY TypeParts
<1>2. UNCHANGED files => FilesType' BY <1>1 DEF FilesType, files
<1>3. UNCHANGED tgt => TargetsType' BY <1>1 DEF TargetsType, Object
<1>4. UNCHANGED contents => ContentsType' BY <1>1 DEF ContentsType
<1>5. UNCHANGED temps => TempsType'
  <2>1. UNCHANGED call => CallType' BY <1>1 DEF TempsType, CallType
  <2> QED BY <1>1, <2>1 DEF TempsType, temps
<1>6. UNCHANGED fault => FaultType' BY <1>1 DEF FaultType
<1> DEFINE Kept == FilesType' /\ TargetsType' /\ ContentsType' /\ TempsType' /\ FaultType'
<1>7. ASSUME NEW i \in Ios, NEW f \in Files, NEW n \in Fds, OpenIo(i, f, n) PROVE Kept
  BY <1>1, <1>3, <1>4, <1>5, <1>6, <1>7, OpenedType DEF OpenIo
<1>8. ASSUME NEW i \in Ios, CloseIo(i) PROVE Kept
  <2>1. FilesType' BY <1>1, <1>8 DEF CloseIo, FilesType
  <2> QED BY <2>1, <1>3, <1>4, <1>5, <1>6, <1>8 DEF CloseIo
<1>9. ASSUME NEW t \in Targets, NEW f \in Files, NEW n \in Fds, NewFromPath(t, f, n) PROVE Kept
  BY <1>1, <1>4, <1>5, <1>6, <1>9, OpenedType, MadeType DEF NewFromPath
<1>10. ASSUME NEW f \in Files, NEW n \in Fds, PathRejected(f, n) PROVE Kept
  BY <1>1, <1>3, <1>4, <1>5, <1>6, <1>10, OpenedType DEF PathRejected, Rejected
<1>11. ASSUME NEW t \in Targets, NEW i \in Ios, NewFromIo(t, i) PROVE Kept
  <2>1. PICK n \in Fds : n = io[i].fd BY <1>1, <1>11 DEF NewFromIo, FilesType
  <2>2. PICK f \in Files : f = fds[n] BY <1>1, <1>11, <2>1 DEF NewFromIo, FilesType, Object
  <2>3. TargetsType' BY <1>1, <1>11, <2>1, <2>2, MadeType DEF NewFromIo
  <2>4. FilesType' BY <1>1, <1>11, <2>1 DEF NewFromIo, FilesType
  <2> QED BY <1>4, <1>5, <1>6, <1>11, <2>3, <2>4 DEF NewFromIo
<1>12. ASSUME NEW t \in Targets, Collect(t) PROVE Kept
  <2>1. TargetsType' BY <1>1, <1>12, TargetStep DEF Collect, Live, FilesType
  <2>2. FilesType' BY <1>1, <1>12 DEF Collect, FilesType
  <2> QED BY <1>4, <1>5, <1>6, <1>12, <2>1, <2>2 DEF Collect
<1>13. ASSUME NEW t \in Targets, LoadSections(t) PROVE Kept
  <2>1. TargetsType' BY <1>1, <1>13, TargetStep DEF LoadSections, Live, FilesType
  <2> QED BY <1>2, <1>4, <1>5, <1>6, <1>13, <2>1 DEF LoadSections
<1>14. ASSUME NEW t \in Targets, LoadSymbols(t) PROVE Kept
  <2>1. TargetsType' BY <1>1, <1>14, TargetStep DEF LoadSymbols, Live, FilesType
  <2>2. FaultType' BY <1>6, <1>14 DEF LoadSymbols, FaultType
  <2> QED BY <1>2, <1>4, <1>5, <1>14, <2>1, <2>2 DEF LoadSymbols
<1>15. ASSUME NEW t \in Targets, UseStale(t) PROVE Kept
  <2>1. FaultType' BY <1>15 DEF UseStale, FaultType
  <2> QED BY <1>2, <1>3, <1>4, <1>5, <1>15, <2>1 DEF UseStale
<1>16. ASSUME NEW t \in Targets, NEW k \in Positions, Read(t, k) PROVE Kept
  <2>1. tgt[t].fd \in Fds BY <1>1, <1>16 DEF Read, TargetsType
  <2>2. ContentsType' BY <1>1, <1>16, <2>1 DEF Read, ContentsType, FilesType
  <2> QED BY <1>2, <1>3, <1>5, <1>6, <1>16, <2>2 DEF Read
<1>17. ASSUME NEW k \in Temps, NEW f \in Files, NEW block \in BOOLEAN, FromBuffer(k, f, block) PROVE Kept
  <2>1. TempsType' BY <1>1, <1>17 DEF FromBuffer, TempsType, CallType, NoCall
  <2> QED BY <1>2, <1>3, <1>4, <1>6, <1>17, <2>1 DEF FromBuffer
<1>18. ASSUME NEW k \in Temps, Finalize(k) PROVE Kept
  <2>1. TempsType' BY <1>1, <1>18 DEF Finalize, TempsType, CallType
  <2> QED BY <1>2, <1>3, <1>4, <1>6, <1>18, <2>1 DEF Finalize
<1>19. ASSUME NEW t \in Targets, NEW n \in Fds, BufferTarget(t, n) PROVE Kept
  <2>1. call.pc = "written" /\ call.temp \in Temps /\ call.file \in Files
    BY <1>1, <1>19 DEF BufferTarget, TempsType, CallType
  <2>2. FilesType' BY <1>1, <1>19, <2>1, OpenedType DEF BufferTarget
  <2>3. TargetsType' BY <1>1, <1>19, <2>1, MadeType DEF BufferTarget
  <2>4. TempsType'
    <3>1. CASE call.block BY <1>1, <1>19, <2>1, <3>1 DEF BufferTarget, TempsType, CallType
    <3>2. CASE ~call.block BY <1>1, <1>19, <2>1, <3>2, EndsType DEF BufferTarget
    <3> QED BY <3>1, <3>2
  <2> QED BY <1>4, <1>6, <1>19, <2>2, <2>3, <2>4 DEF BufferTarget
<1>20. ASSUME NEW n \in Fds, BufferRejected(n) PROVE Kept
  <2>1. call.pc = "written" /\ call.file \in Files BY <1>1, <1>20 DEF BufferRejected, TempsType, CallType
  <2>2. FilesType' BY <1>1, <1>20, <2>1, OpenedType DEF BufferRejected, Rejected
  <2>3. TempsType' BY <1>1, <1>20, <2>1, EndsType DEF BufferRejected
  <2> QED BY <1>3, <1>4, <1>6, <1>20, <2>2, <2>3 DEF BufferRejected
<1>21. ASSUME BufferLost PROVE Kept
  <2>1. TempsType' BY <1>1, <1>21, EndsType DEF BufferLost
  <2> QED BY <1>2, <1>3, <1>4, <1>6, <1>21, <2>1 DEF BufferLost
<1>22. ASSUME BlockReturns PROVE Kept
  <2>1. TempsType' BY <1>1, <1>22, EndsType DEF BlockReturns
  <2> QED BY <1>2, <1>3, <1>4, <1>6, <1>22, <2>1 DEF BlockReturns
<1>23. ASSUME BlockRaises PROVE Kept
  <2>1. TempsType' BY <1>1, <1>23, EndsType DEF BlockRaises
  <2> QED BY <1>2, <1>3, <1>4, <1>6, <1>23, <2>1 DEF BlockRaises
<1>24. ASSUME UNCHANGED vars PROVE Kept BY <1>2, <1>3, <1>4, <1>5, <1>6, <1>24 DEF vars
<1>25. ASSUME NEW t \in Targets, Close(t) PROVE Kept
  <2>1. TargetsType' BY <1>1, <1>25, TargetStep DEF Close, Live, FilesType
  <2>2. tgt[t].temp_file \in Temps \cup {Nil} BY <1>1 DEF TargetsType, TargetType
  <2>3. TempsType'
    <3>1. CallType' BY <1>1, <1>25 DEF Close, TempsType, CallType
    <3> QED BY <1>1, <1>25, <2>2, <3>1 DEF Close, TempsType
  <2> QED BY <1>2, <1>4, <1>6, <1>25, <2>1, <2>3 DEF Close
<1>26. ASSUME NEW t \in Targets, NEW k \in Temps \cup {Nil}, SetTempFile(t, k) PROVE Kept
  <2>1. TargetsType' BY <1>1, <1>26, TargetStep DEF SetTempFile, Live, FilesType
  <2> QED BY <1>2, <1>4, <1>5, <1>6, <1>26, <2>1 DEF SetTempFile
<1>27. Kept => TypeOK'
  BY DEF TypeOK, FilesType, TargetsType, ContentsType, CallType, TempsType, FaultType
<1> QED
  BY <1>7, <1>8, <1>9, <1>10, <1>11, <1>12, <1>13, <1>14, <1>15, <1>16, <1>17, <1>18, <1>19, <1>20,
     <1>21, <1>22, <1>23, <1>24, <1>25, <1>26, <1>27 DEF Next

\* The state of the targets, their tables, the IO objects and the call of from_buffer has
\* the types that the code relies on, whatever is opened and loaded (BFD.c, BFD.rb).
THEOREM TypeCorrect == Spec => []TypeOK
BY TypeInit, TypeNext, PTL DEF Spec

---------------------------------------------------------------------------
(* Tables *)

\* What is in the tables of a target that is there, and cannot have read another file.
Right(r) == r.state = "live" =>
  /\ r.sections # Nil => r.sections = SectionHash(Layout[r.file].sections)
  /\ r.symbols # Nil /\ r.fd \notin shared =>
       Readable(Layout[r.file]) /\ r.symbols = SymbolHash(Layout[r.file])
TablesInv == \A t \in Targets : Right(tgt[t])

\* Only the loads change a table, and a target that is made or collected has none.
LEMMA TablesNext == TypeOK /\ FilesInv /\ TablesInv /\ [Next]_vars => TablesInv'
<1> SUFFICES ASSUME TypeOK, FilesInv, TablesInv, [Next]_vars PROVE TablesInv' OBVIOUS
<1>1. DOMAIN tgt = Targets /\ \A t \in Targets : DOMAIN tgt[t] = Fields
  BY DEF FilesInv, Shapes
<1>2. shared \subseteq shared'
  BY DEF Next, OpenIo, CloseIo, NewFromPath, PathRejected, NewFromIo, Close, SetTempFile, Collect, LoadSections,
         LoadSymbols, UseStale, Read, FromBuffer, Finalize, BufferTarget, BufferRejected, BufferLost,
         BlockReturns, BlockRaises, files, vars
<1> DEFINE Now(r) == r.state = "live" =>
      /\ r.sections # Nil => r.sections = SectionHash(Layout[r.file].sections)
      /\ r.symbols # Nil /\ r.fd \notin shared' =>
           Readable(Layout[r.file]) /\ r.symbols = SymbolHash(Layout[r.file])
<1>3. \A r : Readable(r)' <=> Readable(r) BY DEF Readable
<1>4. \A t \in Targets : Now(tgt[t]) BY <1>2 DEF TablesInv, Right
<1>5. (\A t \in Targets : Now(tgt'[t])) => TablesInv' BY <1>3 DEF TablesInv, Right
<1>6. ASSUME NEW t \in Targets, NEW r, Now(r), tgt' = [tgt EXCEPT ![t] = r] PROVE TablesInv'
  <2> HIDE DEF Now
  <2> QED BY <1>1, <1>4, <1>5, <1>6
<1>7. CASE tgt' = tgt BY <1>4, <1>5, <1>7
<1>8. ASSUME NEW t \in Targets, NEW n, NEW f, Made(t, n, f) PROVE TablesInv'
  <2> DEFINE r == [NoTarget EXCEPT !.state = "live", !.fd = n, !.file = f]
  <2>1. r.sections = Nil /\ r.symbols = Nil BY DEF NoTarget
  <2>2. tgt' = [tgt EXCEPT ![t] = r] BY <1>8 DEF Made
  <2> HIDE DEF r
  <2> QED BY <1>6, <2>1, <2>2
<1>9. ASSUME NEW t \in Targets, Collect(t) PROVE TablesInv'
  <2> DEFINE r == [tgt[t] EXCEPT !.state = "gone"]
  <2>1. r.state = "gone" BY <1>1 DEF Fields
  <2>2. tgt' = [tgt EXCEPT ![t] = r] BY <1>9 DEF Collect
  <2> HIDE DEF r
  <2> QED BY <1>6, <2>1, <2>2
<1>10. ASSUME NEW t \in Targets, LoadSections(t) PROVE TablesInv'
  <2>1. PICK h : h = SectionHash(Layout[tgt[t].file].sections) OBVIOUS
  <2> DEFINE r == [tgt[t] EXCEPT !.sections = h]
  <2>2. /\ r.sections = h /\ r.symbols = tgt[t].symbols /\ r.state = tgt[t].state /\ r.file = tgt[t].file
        /\ r.fd = tgt[t].fd
    BY <1>1 DEF Fields
  <2>3. tgt' = [tgt EXCEPT ![t] = r] BY <1>10, <2>1 DEF LoadSections
  <2> HIDE DEF r
  <2> QED BY <1>4, <1>6, <2>1, <2>2, <2>3
<1>11. ASSUME NEW t \in Targets, LoadSymbols(t), tgt' # tgt PROVE TablesInv'
  <2>1. PICK l \in LayoutsSeen(tgt[t].file, fds[tgt[t].fd]) :
          ~Crashes(l) /\ tgt' = [tgt EXCEPT ![t].symbols = SymbolHash(l)]
    BY <1>11 DEF LoadSymbols
  <2>2. Live(t) /\ tgt[t].fd \in Fds /\ tgt[t].file \in Files BY <1>11 DEF LoadSymbols, Live, FilesInv, Shapes
  <2>3. fds[tgt[t].fd] = tgt[t].file \/ tgt[t].fd \in shared BY <2>2 DEF FilesInv, OwnFile
  <2>4. tgt[t].fd \notin shared => l = Layout[tgt[t].file] BY <2>1, <2>2, <2>3, SeenType DEF FilesInv, Shapes
  <2>5. PICK h : h = SymbolHash(l) OBVIOUS
  <2> DEFINE r == [tgt[t] EXCEPT !.symbols = h]
  <2>6. /\ r.symbols = h /\ r.sections = tgt[t].sections /\ r.state = tgt[t].state /\ r.file = tgt[t].file
        /\ r.fd = tgt[t].fd
    BY <1>1 DEF Fields
  <2>7. tgt' = [tgt EXCEPT ![t] = r] BY <2>1, <2>5
  <2> HIDE DEF r
  <2>8. Now(r) BY <1>2, <1>4, <2>1, <2>4, <2>5, <2>6 DEF Readable
  <2> QED BY <1>6, <2>7, <2>8
<1>12. ASSUME NEW t \in Targets, NEW v, tgt' = [tgt EXCEPT ![t].temp_file = v] PROVE TablesInv'
  <2> DEFINE r == [tgt[t] EXCEPT !.temp_file = v]
  <2>1. /\ r.sections = tgt[t].sections /\ r.symbols = tgt[t].symbols /\ r.state = tgt[t].state
        /\ r.file = tgt[t].file /\ r.fd = tgt[t].fd
    BY <1>1 DEF Fields
  <2>2. tgt' = [tgt EXCEPT ![t] = r] BY <1>12
  <2> HIDE DEF r
  <2> QED BY <1>4, <1>6, <2>1, <2>2
<1>13. \/ tgt' = tgt
       \/ \E t \in Targets :
            \/ Collect(t) \/ LoadSections(t) \/ LoadSymbols(t) \/ \E n, f : Made(t, n, f)
            \/ \E v : tgt' = [tgt EXCEPT ![t].temp_file = v]
  BY DEF Next, OpenIo, CloseIo, NewFromPath, PathRejected, NewFromIo, Close, SetTempFile, UseStale, Read,
         FromBuffer, Finalize, BufferTarget, BufferRejected, BufferLost, BlockReturns, BlockRaises, vars
<1> QED BY <1>7, <1>8, <1>9, <1>10, <1>11, <1>12, <1>13

\* The tables that the loads leave are sound.
LEMMA TablesSoundIfRight == TypeOK /\ TablesInv => TablesSound
<1> SUFFICES ASSUME TypeOK, TablesInv, NEW t \in Targets, Live(t)
             PROVE  LET l == Layout[tgt[t].file]
                        Names(table) == IF l.hasSyms /\ table.bound = 1 THEN ToSet(table.names) ELSE {}
                    IN  /\ tgt[t].sections # Nil => \A vma \in Addresses :
                             LET a == SectionForVma(t, vma) IN
                             IF a # NotFound THEN Covers(l.sections[a], vma)
                             ELSE \A k \in DOMAIN l.sections : Covers(l.sections[k], vma) =>
                                    \E j \in DOMAIN l.sections :
                                      k < j /\ l.sections[j].name = l.sections[k].name
                        /\ tgt[t].symbols # Nil /\ tgt[t].fd \notin shared =>
                             {tgt[t].symbols[i] : i \in DOMAIN tgt[t].symbols} =
                               {[key |-> s, value |-> IF s \in Names(l.dynamic) THEN "dynamic" ELSE "static"] :
                                  s \in Names(l.static) \cup Names(l.dynamic)}
  BY DEF TablesSound
<1>1. PICK f \in Files : f = tgt[t].file BY DEF TypeOK, TargetType, Object, Live
<1>2. PICK secs : secs = Layout[f].sections OBVIOUS
<1>3. ASSUME tgt[t].sections # Nil, NEW vma \in Addresses
      PROVE  LET a == SectionForVma(t, vma) IN
             IF a # NotFound THEN Covers(secs[a], vma)
             ELSE \A k \in DOMAIN secs : Covers(secs[k], vma) =>
                    \E j \in DOMAIN secs : k < j /\ secs[j].name = secs[k].name
  <2>1. PICK h : h = tgt[t].sections /\ h = SectionHash(secs) BY <1>1, <1>2, <1>3 DEF TablesInv, Right, Live
  <2>2. LastNamed(secs, h) BY <1>2, <2>1, SectionHashOK
  <2>6. DOMAIN secs = 1 .. Len(secs) /\ Len(secs) \in Nat /\ h \in Seq(Pair(STRING, DOMAIN secs))
    BY <2>2 DEF LastNamed
  <2>3. \A j \in DOMAIN h : h[j].value \in DOMAIN secs
    <3>1. \A j \in DOMAIN h : h[j] \in Pair(STRING, DOMAIN secs) BY <2>6
    <3> QED BY <3>1 DEF Pair
  <2> DEFINE hits == {i \in DOMAIN h : Covers(secs[h[i].value], vma)}
             first == CHOOSE i \in hits : \A j \in hits : i <= j
  <2>4. CASE hits = {}
    <3>1. SectionForVma(t, vma) = NotFound BY <1>1, <1>2, <1>3, <2>1, <2>4 DEF SectionForVma
    <3>2. ASSUME NEW k \in DOMAIN secs, Covers(secs[k], vma)
          PROVE  \E j \in DOMAIN secs : k < j /\ secs[j].name = secs[k].name
      <4>1. PICK i \in DOMAIN h : h[i].key = secs[k].name BY <2>2 DEF LastNamed
      <4>2. h[i].value \in DOMAIN secs /\ secs[h[i].value].name = secs[k].name /\ k <= h[i].value
        BY <2>2, <2>3, <4>1 DEF LastNamed
      <4>3. h[i].value # k BY <2>4, <3>2
      <4> QED BY <2>6, <4>2, <4>3
    <3> QED BY <3>1, <3>2
  <2>5. CASE hits # {}
    <3>1. hits \subseteq Nat BY <2>6
    <3>2. \E i \in hits : \A j \in hits : i <= j
      <4> HIDE DEF hits
      <4> QED BY <2>5, <3>1, Least
    <3>3. first \in hits
      <4> HIDE DEF hits
      <4> QED BY <3>2
    <3>4. SectionForVma(t, vma) = h[first].value BY <1>1, <1>2, <1>3, <2>1, <2>5 DEF SectionForVma
    <3>5. Covers(secs[h[first].value], vma) /\ h[first].value \in DOMAIN secs BY <2>3, <3>3
    <3> HIDE DEF hits, first
    <3>6. h[first].value # NotFound BY <2>6, <3>5 DEF NotFound
    <3> QED BY <3>4, <3>5, <3>6
  <2> QED BY <2>4, <2>5
<1>4. ASSUME tgt[t].symbols # Nil, tgt[t].fd \notin shared
      PROVE  LET l == Layout[f]
                 Names(table) == IF l.hasSyms /\ table.bound = 1 THEN ToSet(table.names) ELSE {}
             IN  {tgt[t].symbols[i] : i \in DOMAIN tgt[t].symbols} =
                   {[key |-> s, value |-> IF s \in Names(l.dynamic) THEN "dynamic" ELSE "static"] :
                      s \in Names(l.static) \cup Names(l.dynamic)}
  <2>1. PICK r : r = tgt[t].symbols OBVIOUS
  <2>2. Readable(Layout[f]) /\ r = SymbolHash(Layout[f]) BY <1>1, <1>4, <2>1 DEF TablesInv, Right, Live
  <2>3. Layout[f] \in Layouts BY FileAssumption
  <2> QED BY <2>1, <2>2, <2>3, SymbolHashOK DEF Entries
<1> QED BY <1>1, <1>2, <1>3, <1>4

\* section_for_vma and symbols answer right for every layout of the sections and symbols,
\* names that repeat and sections that overlap included, in every order of loading, closing
\* and reusing numbers; symbols only for a target whose number is not that of an IO that was
\* passed to Target.new, whose symbols may be read from another file (BFD.c, lines 304, 327).
THEOREM TablesRight == Spec => []TablesSound
<1>1. Init => TablesInv BY DEF Init, TablesInv, Right, NoTarget
<1>2. Spec => [](TypeOK /\ TablesInv)
  BY <1>1, TypeInit, TypeNext, TablesNext, FilesInvariant, PTL DEF Spec
<1> QED BY <1>2, TablesSoundIfRight, PTL

=============================================================================

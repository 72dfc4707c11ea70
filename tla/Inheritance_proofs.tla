-------------------------- MODULE Inheritance_proofs --------------------------
(***************************************************************************)
(* Proofs about GroupTree and Inheritance: any set of groups, any number   *)
(* of requests that interleave and of restarts, and any monitors, devices, *)
(* settings, bindings, windows, teams and grants on them.                  *)
(***************************************************************************)
EXTENDS Inheritance, FiniteSetTheorems, WellFoundedInduction, TLAPS

-----------------------------------------------------------------------------
(***************************************************************************)
(* The operators on closure tables, row by row.                            *)
(***************************************************************************)
Tables == SUBSET (Groups \X Groups \X Nat)

\* A row of a table is a triple.
LEMMA Triple ==
  ASSUME NEW c \in Tables, NEW x \in c
  PROVE  /\ x = <<x[1], x[2], x[3]>>
         /\ x[1] \in Groups /\ x[2] \in Groups /\ x[3] \in Nat
BY DEF Tables

\* Two groups are linked by a row of some depth.
LEMMA LinkedRow ==
  ASSUME NEW c \in Tables, NEW a, NEW b
  PROVE  Linked(c, a, b) <=> \E d \in Nat : <<a, b, d>> \in c
<1>1. ASSUME NEW x \in c, x[1] = a, x[2] = b
      PROVE  \E d \in Nat : <<a, b, d>> \in c
  <2>1. <<a, b, x[3]>> \in c /\ x[3] \in Nat
    BY <1>1, Triple
  <2> QED
    BY <2>1
<1>2. ASSUME NEW d \in Nat, <<a, b, d>> \in c
      PROVE  Linked(c, a, b)
  BY <1>2 DEF Linked
<1> QED
  BY <1>1, <1>2 DEF Linked

\* The paths under a parent, row by row.
LEMMA UnderRow ==
  ASSUME NEW c \in Tables, NEW p, NEW g, NEW a, NEW h, NEW d \in Nat
  PROVE  <<a, h, d>> \in PathsUnder(c, p, g) <=> h = g /\ d # 0 /\ <<a, p, d - 1>> \in c
<1>1. ASSUME NEW x \in c, x[2] = p, <<a, h, d>> = <<x[1], g, x[3] + 1>>
      PROVE  h = g /\ d # 0 /\ <<a, p, d - 1>> \in c
  <2>1. x = <<x[1], x[2], x[3]>> /\ x[3] \in Nat
    BY Triple
  <2>2. a = x[1] /\ h = g /\ d = x[3] + 1
    BY <1>1
  <2>3. d - 1 = x[3] /\ d # 0
    BY <2>1, <2>2
  <2> QED
    BY <1>1, <2>1, <2>2, <2>3
<1>2. ASSUME h = g, d # 0, <<a, p, d - 1>> \in c
      PROVE  <<a, h, d>> \in PathsUnder(c, p, g)
  <2> DEFINE x == <<a, p, d - 1>>
  <2>1. x \in c /\ x[2] = p /\ <<a, h, d>> = <<x[1], g, x[3] + 1>>
    BY <1>2
  <2> QED
    BY <2>1 DEF PathsUnder
<1> QED
  BY <1>1, <1>2 DEF PathsUnder

\* A group's rows follow its parent, row by row.
LEMMA FollowRow ==
  ASSUME NEW c \in Tables, NEW par, NEW g \in Groups
  PROVE  RowsFollow(c, par, g) <=>
           \A a \in Groups, d \in Nat : <<a, g, d>> \in c <=>
             \/ a = g /\ d = 0
             \/ par[g] \in Groups /\ d # 0 /\ <<a, par[g], d - 1>> \in c
<1> DEFINE mine == {x \in c : x[2] = g}
           due == {<<g, g, 0>>} \cup IF par[g] \in Groups THEN PathsUnder(c, par[g], g) ELSE {}
<1>1. ASSUME NEW a, NEW d \in Nat
      PROVE  <<a, g, d>> \in due <=>
             \/ a = g /\ d = 0
             \/ par[g] \in Groups /\ d # 0 /\ <<a, par[g], d - 1>> \in c
  BY UnderRow
<1>2. ASSUME NEW a, NEW d
      PROVE  <<a, g, d>> \in mine <=> <<a, g, d>> \in c
  OBVIOUS
<1>3. ASSUME NEW x \in due
      PROVE  \E a \in Groups, d \in Nat : x = <<a, g, d>>
  <2>1. CASE x = <<g, g, 0>>
    BY <2>1
  <2>2. CASE x \in PathsUnder(c, par[g], g)
    <3>1. PICK y \in c : y[2] = par[g] /\ x = <<y[1], g, y[3] + 1>>
      BY <2>2 DEF PathsUnder
    <3>2. y[1] \in Groups /\ y[3] + 1 \in Nat
      BY Triple
    <3> QED
      BY <3>1, <3>2
  <2> QED
    BY <2>1, <2>2
<1>4. ASSUME NEW x \in mine
      PROVE  \E a \in Groups, d \in Nat : x = <<a, g, d>>
  BY Triple
<1> HIDE DEF mine, due
<1>5. mine = due <=> \A a \in Groups, d \in Nat : <<a, g, d>> \in c <=> <<a, g, d>> \in due
  BY <1>2, <1>3, <1>4
<1> QED
  BY <1>1, <1>5 DEF RowsFollow, mine, due

\* The rows a cut leaves.
LEMMA CutRow ==
  ASSUME NEW c, NEW D, NEW a, NEW h, NEW d
  PROVE  <<a, h, d>> \in CutRows(c, D) <=> <<a, h, d>> \in c /\ (h \in D => a \in D)
<1> DEFINE x == <<a, h, d>>
<1>1. x[1] = a /\ x[2] = h
  OBVIOUS
<1>2. x \in CutRows(c, D) <=> x \in c /\ ~(x[2] \in D /\ x[1] \notin D)
  BY Zenon DEF CutRows
<1> QED
  BY <1>1, <1>2

\* The rows a link adds.
LEMMA CrossRow ==
  ASSUME NEW c \in Tables, NEW p, NEW g, NEW a, NEW h, NEW d
  PROVE  <<a, h, d>> \in CrossRows(c, p, g) <=>
           \E i, j \in Nat : <<a, p, i>> \in c /\ <<g, h, j>> \in c /\ d = i + j + 1
<1>1. ASSUME <<a, h, d>> \in CrossRows(c, p, g)
      PROVE  \E i, j \in Nat : <<a, p, i>> \in c /\ <<g, h, j>> \in c /\ d = i + j + 1
  <2> DEFINE A == {z \in c : z[2] = p}
             B == {z \in c : z[1] = g}
  <2>0. <<a, h, d>> \in {<<x[1], y[2], x[3] + y[3] + 1>> : x \in A, y \in B}
    BY <1>1 DEF CrossRows
  <2> HIDE DEF A, B
  <2>1. PICK x \in A, y \in B : <<a, h, d>> = <<x[1], y[2], x[3] + y[3] + 1>>
    BY <2>0
  <2>2. x \in c /\ y \in c /\ x[2] = p /\ y[1] = g
    BY DEF A, B
  <2>3. x = <<x[1], x[2], x[3]>> /\ y = <<y[1], y[2], y[3]>> /\ x[3] \in Nat /\ y[3] \in Nat
    BY <2>2, Triple
  <2>4. a = x[1] /\ h = y[2] /\ d = x[3] + y[3] + 1
    BY <2>1
  <2>5. <<a, p, x[3]>> \in c /\ <<g, h, y[3]>> \in c
    BY <2>2, <2>3, <2>4
  <2> QED
    BY <2>3, <2>4, <2>5
<1>2. ASSUME NEW i \in Nat, NEW j \in Nat, <<a, p, i>> \in c, <<g, h, j>> \in c, d = i + j + 1
      PROVE  <<a, h, d>> \in CrossRows(c, p, g)
  <2> DEFINE x == <<a, p, i>>
             y == <<g, h, j>>
  <2>1. /\ x \in {z \in c : z[2] = p} /\ y \in {z \in c : z[1] = g}
        /\ <<a, h, d>> = <<x[1], y[2], x[3] + y[3] + 1>>
    BY <1>2
  <2> QED
    BY <2>1 DEF CrossRows
<1> QED
  BY <1>1, <1>2

\* The rows a link adds form a table.
LEMMA CrossTable ==
  ASSUME NEW c \in Tables, NEW p, NEW g
  PROVE  CrossRows(c, p, g) \in Tables
<1> SUFFICES ASSUME NEW x \in CrossRows(c, p, g)
             PROVE  x \in Groups \X Groups \X Nat
  BY DEF Tables
<1> DEFINE A == {z \in c : z[2] = p}
           B == {z \in c : z[1] = g}
<1>1. x \in {<<y[1], z[2], y[3] + z[3] + 1>> : y \in A, z \in B}
  BY DEF CrossRows
<1>2. \A y \in A : y[1] \in Groups /\ y[3] \in Nat
  BY Triple
<1>3. \A z \in B : z[2] \in Groups /\ z[3] \in Nat
  BY Triple
<1> HIDE DEF A, B
<1>4. PICK y \in A, z \in B : x = <<y[1], z[2], y[3] + z[3] + 1>>
  BY <1>1
<1>5. y[3] + z[3] + 1 \in Nat
  BY <1>2, <1>3
<1> QED
  BY <1>2, <1>3, <1>4, <1>5

-----------------------------------------------------------------------------
(***************************************************************************)
(* A table that flattens a tree, row by row, and what the statements of    *)
(* create, move and delete do to it.                                       *)
(***************************************************************************)
Parents(par, done) == \A h \in done : par[h] \in done \cup {Root}
RowsOf(c, par, done) ==
  \A h \in done, a \in Groups, d \in Nat : <<a, h, d>> \in c <=>
    \/ a = h /\ d = 0
    \/ par[h] \in Groups /\ d # 0 /\ <<a, par[h], d - 1>> \in c

OneDepth(c) ==
  \A a, b \in Groups, d, e \in Nat : <<a, b, d>> \in c /\ <<a, b, e>> \in c => d = e

Chained(c) == \A a, b, h \in Groups : Linked(c, a, b) /\ Linked(c, b, h) => Linked(c, a, h)

\* Flattens is these four facts and that links go one way.
LEMMA FlattensRows ==
  ASSUME NEW c \in Tables, NEW par, NEW done \in SUBSET Groups
  PROVE  Flattens(c, par, done) <=>
           Parents(par, done) /\ RowsOf(c, par, done) /\ OneWay(c) /\ OneDepth(c) /\ Chained(c)
<1>1. (\A h \in done : RowsFollow(c, par, h)) <=> RowsOf(c, par, done)
  BY FollowRow DEF RowsOf
<1>2. (\A x, y \in c : x[1] = y[1] /\ x[2] = y[2] => x = y) <=> OneDepth(c)
  <2>1. ASSUME \A x, y \in c : x[1] = y[1] /\ x[2] = y[2] => x = y,
               NEW a, NEW b, NEW d, NEW e, <<a, b, d>> \in c, <<a, b, e>> \in c
        PROVE  d = e
    <3>1. <<a, b, d>>[1] = <<a, b, e>>[1] /\ <<a, b, d>>[2] = <<a, b, e>>[2]
      OBVIOUS
    <3>2. <<a, b, d>> = <<a, b, e>>
      BY <2>1, <3>1, Zenon
    <3> QED
      BY <3>2
  <2>2. ASSUME OneDepth(c), NEW x \in c, NEW y \in c, x[1] = y[1], x[2] = y[2]
        PROVE  x = y
    <3>1. /\ x = <<x[1], x[2], x[3]>> /\ y = <<x[1], x[2], y[3]>>
          /\ x[1] \in Groups /\ x[2] \in Groups /\ x[3] \in Nat /\ y[3] \in Nat
      BY Triple, <2>2
    <3>2. x[3] = y[3]
      BY <2>2, <3>1 DEF OneDepth
    <3> QED
      BY <3>1, <3>2
  <2> QED
    BY <2>1, <2>2, Zenon DEF OneDepth
<1>3. (\A x, y \in c : x[2] = y[1] => Linked(c, x[1], y[2])) <=> Chained(c)
  <2>1. ASSUME \A x, y \in c : x[2] = y[1] => Linked(c, x[1], y[2]),
               NEW a, NEW b, NEW h, Linked(c, a, b), Linked(c, b, h)
        PROVE  Linked(c, a, h)
    <3>1. PICK x \in c : x[1] = a /\ x[2] = b
      BY <2>1 DEF Linked
    <3>2. PICK y \in c : y[1] = b /\ y[2] = h
      BY <2>1 DEF Linked
    <3> QED
      BY <2>1, <3>1, <3>2, Zenon
  <2>2. ASSUME Chained(c), NEW x \in c, NEW y \in c, x[2] = y[1]
        PROVE  Linked(c, x[1], y[2])
    <3>1. x[1] \in Groups /\ x[2] \in Groups /\ y[2] \in Groups
      BY Triple
    <3>2. Linked(c, x[1], x[2]) /\ Linked(c, x[2], y[2])
      BY <2>2 DEF Linked
    <3> QED
      BY <2>2, <3>1, <3>2 DEF Chained
  <2> QED
    BY <2>1, <2>2, Zenon DEF Chained
<1> QED
  BY <1>1, <1>2, <1>3 DEF Flattens, Parents

\* Every group that is done has its own row.
LEMMA OwnRow ==
  ASSUME NEW c \in Tables, NEW par, NEW done \in SUBSET Groups, NEW g \in done,
         Flattens(c, par, done)
  PROVE  <<g, g, 0>> \in c
<1>1. RowsOf(c, par, done) /\ g \in Groups
  BY FlattensRows
<1> QED
  BY <1>1 DEF RowsOf

\* A table and a tree matter only where the tree is flattened.
LEMMA SamePointers ==
  ASSUME NEW c, NEW par, NEW new, NEW done, \A h \in done : new[h] = par[h],
         Flattens(c, par, done)
  PROVE  Flattens(c, new, done)
BY DEF Flattens, RowsFollow

\* The cut of a move takes every row that enters the subtree: the group is a root.
LEMMA CutFlattens ==
  ASSUME NEW c \in Tables, NEW E \in SUBSET Groups, NEW S, NEW par \in [Groups -> S],
         NEW g \in E, Root \notin Groups, Flattens(c, par, E)
  PROVE  /\ CutRows(c, DescendantsIn(c, g)) \in Tables
         /\ Flattens(CutRows(c, DescendantsIn(c, g)), [par EXCEPT ![g] = Root], E)
<1> DEFINE D == DescendantsIn(c, g)
           cut == CutRows(c, D)
           new == [par EXCEPT ![g] = Root]
<1>1. Parents(par, E) /\ RowsOf(c, par, E) /\ OneWay(c) /\ OneDepth(c) /\ Chained(c)
  BY FlattensRows
<1>2. \A h \in Groups : h \in D <=> Linked(c, g, h)
  BY DEF DescendantsIn
<1>3. cut \in Tables /\ cut \subseteq c
  BY DEF Tables, CutRows
<1> HIDE DEF D, cut
<1>4. ASSUME NEW a, NEW h, NEW d
      PROVE  <<a, h, d>> \in cut <=> <<a, h, d>> \in c /\ (h \in D => a \in D)
  BY CutRow, Zenon DEF cut
<1>5. new[g] = Root /\ \A h \in Groups \ {g} : new[h] = par[h]
  OBVIOUS
<1>6. \A a, b : Linked(c, a, b) <=> \E d \in Nat : <<a, b, d>> \in c
  BY LinkedRow
<1> HIDE DEF new
<1>7. ASSUME NEW a, NEW b
      PROVE  Linked(cut, a, b) <=> Linked(c, a, b) /\ (b \in D => a \in D)
  <2>1. Linked(cut, a, b) <=> \E d \in Nat : <<a, b, d>> \in cut
    BY <1>3, LinkedRow
  <2> QED
    BY <1>4, <1>6, <2>1, Zenon
<1>8. g \in Groups /\ <<g, g, 0>> \in c /\ g \in D
  <2>1. g \in Groups /\ <<g, g, 0>> \in c
    BY <1>1 DEF RowsOf
  <2> QED
    BY <1>2, <1>6, <2>1
<1>9. Parents(new, E)
  BY <1>1, <1>5, <1>8 DEF Parents
<1>10. RowsOf(cut, new, E)
  <2> SUFFICES ASSUME NEW h \in E, NEW a \in Groups, NEW d \in Nat
               PROVE  <<a, h, d>> \in cut <=>
                        \/ a = h /\ d = 0
                        \/ new[h] \in Groups /\ d # 0 /\ <<a, new[h], d - 1>> \in cut
    BY DEF RowsOf
  <2>1. <<a, h, d>> \in c <=>
          \/ a = h /\ d = 0
          \/ par[h] \in Groups /\ d # 0 /\ <<a, par[h], d - 1>> \in c
    BY <1>1 DEF RowsOf
  <2>2. CASE h = g
    <3>1. ASSUME <<a, g, d>> \in cut
          PROVE  a = g /\ d = 0
      <4>1. <<a, g, d>> \in c /\ a \in D
        BY <1>4, <1>8, <3>1
      <4>2. Linked(c, a, g) /\ Linked(c, g, a)
        BY <1>2, <1>6, <4>1
      <4>3. a = g
        BY <1>1, <1>8, <4>2 DEF OneWay
      <4> QED
        BY <1>1, <1>8, <4>1, <4>3 DEF OneDepth
    <3>2. <<g, g, 0>> \in cut
      BY <1>4, <1>8
    <3> QED
      BY <1>5, <2>2, <3>1, <3>2
  <2>3. CASE h # g /\ h \notin D
    <3>1. ASSUME par[h] \in Groups
          PROVE  par[h] \notin D
      <4> SUFFICES ASSUME par[h] \in D
                   PROVE  FALSE
        OBVIOUS
      <4>1. PICK i \in Nat : <<g, par[h], i>> \in c
        BY <1>2, <1>6, <3>1
      <4>2. <<g, h, i + 1>> \in c <=>
              \/ g = h /\ i + 1 = 0
              \/ par[h] \in Groups /\ i + 1 # 0 /\ <<g, par[h], (i + 1) - 1>> \in c
        BY <1>1, <1>8 DEF RowsOf
      <4>3. (i + 1) - 1 = i /\ i + 1 # 0 /\ i + 1 \in Nat
        OBVIOUS
      <4>4. <<g, h, i + 1>> \in c
        BY <3>1, <4>1, <4>2, <4>3
      <4>5. h \in D
        BY <1>2, <1>6, <4>3, <4>4
      <4> QED
        BY <2>3, <4>5
    <3> QED
      BY <1>4, <1>5, <2>1, <2>3, <3>1
  <2>4. CASE h # g /\ h \in D
    <3>1. PICK e \in Nat : <<g, h, e>> \in c
      BY <1>2, <1>6, <2>4
    <3>2. par[h] \in Groups /\ e # 0 /\ <<g, par[h], e - 1>> \in c
      BY <1>1, <1>8, <2>4, <3>1 DEF RowsOf
    <3>3. e - 1 \in Nat
      BY <3>2
    <3>4. par[h] \in D
      BY <1>2, <1>6, <3>2, <3>3
    <3> QED
      BY <1>4, <1>5, <2>1, <2>4, <3>2, <3>4
  <2> QED
    BY <2>2, <2>3, <2>4
<1>11. OneWay(cut)
  BY <1>1, <1>7 DEF OneWay
<1>12. OneDepth(cut)
  BY <1>1, <1>3 DEF OneDepth
<1>13. Chained(cut)
  BY <1>1, <1>7 DEF Chained
<1> QED
  BY <1>3, <1>9, <1>10, <1>11, <1>12, <1>13, FlattensRows DEF cut, new, D

\* The link of a move joins a subtree under a parent that is outside it.
LEMMA LinkFlattens ==
  ASSUME NEW c \in Tables, NEW E \in SUBSET Groups, NEW S, NEW par \in [Groups -> S],
         NEW g \in E, NEW p \in E, Root \notin Groups, Flattens(c, par, E), par[g] = Root,
         ~Linked(c, g, p),
         \A x \in CrossRows(c, p, g) : ~Linked(c, x[1], x[2])
  PROVE  /\ c \cup CrossRows(c, p, g) \in Tables
         /\ Flattens(c \cup CrossRows(c, p, g), [par EXCEPT ![g] = p], E)
<1> DEFINE cross == CrossRows(c, p, g)
           t == c \cup cross
           new == [par EXCEPT ![g] = p]
           Joined(a, h, d) ==
             \E i, j \in Nat : <<a, p, i>> \in c /\ <<g, h, j>> \in c /\ d = i + j + 1
<1>1. Parents(par, E) /\ RowsOf(c, par, E) /\ OneWay(c) /\ OneDepth(c) /\ Chained(c)
  BY FlattensRows
<1>2. g \in Groups /\ p \in Groups
  OBVIOUS
<1>3. new[g] = p /\ \A h \in Groups \ {g} : new[h] = par[h]
  BY <1>2
<1> HIDE DEF new
<1>4. ASSUME NEW a, NEW h, NEW d
      PROVE  <<a, h, d>> \in cross <=> Joined(a, h, d)
  BY CrossRow
<1>5. cross \in Tables
  BY CrossTable
<1>6. t \in Tables
  BY <1>5 DEF Tables
<1>7. ASSUME NEW a, NEW h
      PROVE  Linked(c, a, h) <=> \E d \in Nat : <<a, h, d>> \in c
  BY LinkedRow
<1>8. ASSUME NEW a, NEW h, NEW d, <<a, h, d>> \in cross
      PROVE  ~Linked(c, a, h) /\ Linked(c, a, p) /\ Linked(c, g, h)
  <2>1. <<a, h, d>>[1] = a /\ <<a, h, d>>[2] = h
    OBVIOUS
  <2>2. ~Linked(c, a, h)
    BY <1>8, <2>1, Zenon
  <2>3. Linked(c, a, p) /\ Linked(c, g, h)
    BY <1>4, <1>7, <1>8, Zenon
  <2> QED
    BY <2>2, <2>3
<1>9. ASSUME NEW a, NEW h, Linked(c, a, p), Linked(c, g, h)
      PROVE  \E d \in Nat : <<a, h, d>> \in cross
  <2>1. PICK i \in Nat : <<a, p, i>> \in c
    BY <1>7, <1>9
  <2>2. PICK j \in Nat : <<g, h, j>> \in c
    BY <1>7, <1>9
  <2>3. <<a, h, i + j + 1>> \in cross
    BY <1>4, <2>1, <2>2
  <2>4. i + j + 1 \in Nat
    OBVIOUS
  <2> QED
    BY <2>3, <2>4
<1> HIDE DEF cross
<1> HIDE DEF Joined
<1>10. ASSUME NEW a, NEW h, NEW d
       PROVE  <<a, h, d>> \in t <=> <<a, h, d>> \in c \/ <<a, h, d>> \in cross
  OBVIOUS
<1> HIDE DEF t
<1>11. ASSUME NEW a, NEW h
       PROVE  Linked(t, a, h) <=> Linked(c, a, h) \/ (Linked(c, a, p) /\ Linked(c, g, h))
  <2>1. Linked(t, a, h) <=> \E d \in Nat : <<a, h, d>> \in t
    BY <1>6, LinkedRow
  <2>2. ASSUME Linked(t, a, h), ~Linked(c, a, h)
        PROVE  Linked(c, a, p) /\ Linked(c, g, h)
    <3>1. PICK d \in Nat : <<a, h, d>> \in t
      BY <2>1, <2>2
    <3>2. <<a, h, d>> \in cross
      BY <1>7, <1>10, <2>2, <3>1
    <3> QED
      BY <1>8, <3>2
  <2>3. ASSUME Linked(c, a, h)
        PROVE  Linked(t, a, h)
    BY <1>7, <1>10, <2>1, <2>3
  <2>4. ASSUME Linked(c, a, p), Linked(c, g, h)
        PROVE  Linked(t, a, h)
    BY <1>9, <1>10, <2>1, <2>4
  <2> QED
    BY <2>2, <2>3, <2>4
<1>12. Parents(new, E)
  BY <1>1, <1>3, <1>2 DEF Parents
<1>13. <<g, g, 0>> \in c /\ Linked(c, g, g) /\ <<p, p, 0>> \in c
  <2>1. <<g, g, 0>> \in c /\ <<p, p, 0>> \in c
    BY <1>1, <1>2 DEF RowsOf
  <2> QED
    BY <1>7, <2>1
<1>14. RowsOf(t, new, E)
  <2> SUFFICES ASSUME NEW h \in E, NEW a \in Groups, NEW d \in Nat
               PROVE  <<a, h, d>> \in t <=>
                        \/ a = h /\ d = 0
                        \/ new[h] \in Groups /\ d # 0 /\ <<a, new[h], d - 1>> \in t
    BY DEF RowsOf
  <2>1. \A e \in Nat, b \in Groups : <<b, h, e>> \in c <=>
          \/ b = h /\ e = 0
          \/ par[h] \in Groups /\ e # 0 /\ <<b, par[h], e - 1>> \in c
    BY <1>1 DEF RowsOf
  <2>2. CASE h = g
    <3>1. <<a, g, d>> \in c <=> a = g /\ d = 0
      BY <2>1, <2>2
    <3>2. <<a, p, d - 1>> \in t <=> <<a, p, d - 1>> \in c
      BY <1>8, <1>10
    <3>3. ASSUME <<a, g, d>> \in cross
          PROVE  d # 0 /\ <<a, p, d - 1>> \in c
      <4>0. Joined(a, g, d)
        BY <1>4, <3>3
      <4>1. PICK i \in Nat, j \in Nat : <<a, p, i>> \in c /\ <<g, g, j>> \in c /\ d = i + j + 1
        BY <4>0 DEF Joined
      <4>2. j = 0
        BY <1>1, <1>2, <1>13, <4>1 DEF OneDepth
      <4>3. d # 0 /\ d - 1 = i
        BY <4>1, <4>2
      <4> QED
        BY <4>1, <4>3
    <3>4. ASSUME d # 0, <<a, p, d - 1>> \in c
          PROVE  <<a, g, d>> \in cross
      <4>1. d - 1 \in Nat /\ d = (d - 1) + 0 + 1
        BY <3>4
      <4>2. Joined(a, g, d)
        BY <1>13, <3>4, <4>1 DEF Joined
      <4> QED
        BY <1>4, <4>2
    <3> QED
      BY <1>2, <1>3, <1>10, <2>2, <3>1, <3>2, <3>3, <3>4
  <2>3. CASE h # g /\ par[h] \notin Groups
    <3>1. ~Linked(c, g, h)
      BY <1>2, <1>7, <2>1, <2>3
    <3>2. <<a, h, d>> \notin cross
      BY <1>8, <3>1
    <3> QED
      BY <1>3, <1>10, <2>1, <2>3, <3>2
  <2>4. CASE h # g /\ par[h] \in Groups
    <3> DEFINE q == par[h]
    <3>1. new[h] = q /\ q \in Groups
      BY <1>3, <2>4
    <3>2. ASSUME <<a, h, d>> \in cross
          PROVE  d # 0 /\ <<a, q, d - 1>> \in cross
      <4>0. Joined(a, h, d)
        BY <1>4, <3>2
      <4>1. PICK i \in Nat, j \in Nat : <<a, p, i>> \in c /\ <<g, h, j>> \in c /\ d = i + j + 1
        BY <4>0 DEF Joined
      <4>2. j # 0 /\ <<g, q, j - 1>> \in c
        BY <1>2, <2>1, <2>4, <4>1
      <4>3. d # 0 /\ j - 1 \in Nat /\ d - 1 = i + (j - 1) + 1
        BY <4>1, <4>2
      <4>4. Joined(a, q, d - 1)
        BY <4>1, <4>2, <4>3 DEF Joined
      <4> QED
        BY <1>4, <4>3, <4>4
    <3>3. ASSUME d # 0, <<a, q, d - 1>> \in cross
          PROVE  <<a, h, d>> \in cross
      <4>0. Joined(a, q, d - 1)
        BY <1>4, <3>3
      <4>1. PICK i \in Nat, j \in Nat : <<a, p, i>> \in c /\ <<g, q, j>> \in c /\ d - 1 = i + j + 1
        BY <4>0 DEF Joined
      <4>2. j + 1 \in Nat /\ j + 1 # 0 /\ (j + 1) - 1 = j /\ d = i + (j + 1) + 1
        BY <4>1
      <4>3. <<g, h, j + 1>> \in c
        BY <1>2, <2>1, <2>4, <4>1, <4>2
      <4>4. Joined(a, h, d)
        BY <4>1, <4>2, <4>3 DEF Joined
      <4> QED
        BY <1>4, <4>4
    <3> HIDE DEF q
    <3>4. <<a, h, d>> \in c <=> (a = h /\ d = 0) \/ (d # 0 /\ <<a, q, d - 1>> \in c)
      BY <2>1, <2>4 DEF q
    <3> QED
      BY <1>10, <3>1, <3>2, <3>3, <3>4
  <2> QED
    BY <2>2, <2>3, <2>4
<1>15. OneWay(t)
  <2> SUFFICES ASSUME NEW a \in Groups, NEW b \in Groups, Linked(t, a, b), Linked(t, b, a)
               PROVE  a = b
    BY DEF OneWay
  <2>1. CASE Linked(c, a, b) /\ Linked(c, b, a)
    BY <1>1, <2>1 DEF OneWay
  <2>2. CASE Linked(c, a, b) /\ Linked(c, b, p) /\ Linked(c, g, a)
    BY <1>1, <1>2, <2>2 DEF Chained
  <2>3. CASE Linked(c, b, a) /\ Linked(c, a, p) /\ Linked(c, g, b)
    BY <1>1, <1>2, <2>3 DEF Chained
  <2>4. CASE Linked(c, a, p) /\ Linked(c, g, b) /\ Linked(c, b, p) /\ Linked(c, g, a)
    BY <1>1, <1>2, <2>4 DEF Chained
  <2> QED
    BY <1>11, <2>1, <2>2, <2>3, <2>4, Zenon
<1>16. OneDepth(t)
  <2> SUFFICES ASSUME NEW a \in Groups, NEW b \in Groups, NEW d \in Nat, NEW e \in Nat,
                      <<a, b, d>> \in t, <<a, b, e>> \in t
               PROVE  d = e
    BY DEF OneDepth
  <2>1. CASE <<a, b, d>> \in c /\ <<a, b, e>> \in c
    BY <1>1, <2>1 DEF OneDepth
  <2>2. CASE <<a, b, d>> \in cross /\ <<a, b, e>> \in cross
    <3>4. Joined(a, b, d)
      BY <1>4, <2>2
    <3>1. PICK i \in Nat, j \in Nat : <<a, p, i>> \in c /\ <<g, b, j>> \in c /\ d = i + j + 1
      BY <3>4 DEF Joined
    <3>5. Joined(a, b, e)
      BY <1>4, <2>2
    <3>2. PICK k \in Nat, l \in Nat : <<a, p, k>> \in c /\ <<g, b, l>> \in c /\ e = k + l + 1
      BY <3>5 DEF Joined
    <3>3. i = k /\ j = l
      BY <1>1, <1>2, <3>1, <3>2 DEF OneDepth
    <3> QED
      BY <3>1, <3>2, <3>3
  <2>3. ~(<<a, b, d>> \in c /\ <<a, b, e>> \in cross) /\ ~(<<a, b, d>> \in cross /\ <<a, b, e>> \in c)
    BY <1>7, <1>8
  <2> QED
    BY <1>10, <2>1, <2>2, <2>3, Zenon
<1>17. Chained(t)
  <2> SUFFICES ASSUME NEW a \in Groups, NEW b \in Groups, NEW h \in Groups,
                      Linked(t, a, b), Linked(t, b, h)
               PROVE  Linked(t, a, h)
    BY DEF Chained
  <2>1. CASE Linked(c, a, b) /\ Linked(c, b, h)
    BY <1>1, <1>11, <2>1 DEF Chained
  <2>2. CASE Linked(c, a, b) /\ Linked(c, b, p) /\ Linked(c, g, h)
    <3>1. Linked(c, a, p)
      BY <1>1, <1>2, <2>2 DEF Chained
    <3> QED
      BY <1>11, <2>2, <3>1
  <2>3. CASE Linked(c, a, p) /\ Linked(c, g, b) /\ Linked(c, b, h)
    <3>1. Linked(c, g, h)
      BY <1>1, <1>2, <2>3 DEF Chained
    <3> QED
      BY <1>11, <2>3, <3>1
  <2>4. CASE Linked(c, g, b) /\ Linked(c, b, p)
    BY <1>1, <1>2, <2>4 DEF Chained
  <2> QED
    BY <1>11, <2>1, <2>2, <2>3, <2>4, Zenon
<1> QED
  BY <1>6, <1>12, <1>14, <1>15, <1>16, <1>17, FlattensRows DEF t, new, cross

\* A new group that has its own row only takes its parent's rows, one deeper.
LEMMA CopyFlattens ==
  ASSUME NEW c \in Tables, NEW E \in SUBSET Groups, NEW par, NEW g \in Groups \ E,
         NEW p \in E, Root \notin Groups, Flattens(c, par, E), par[g] = p,
         \A x \in c : x[1] = g \/ x[2] = g => x = <<g, g, 0>>,
         <<g, g, 0>> \in c
  PROVE  /\ c \cup PathsUnder(c, p, g) \in Tables
         /\ Flattens(c \cup PathsUnder(c, p, g), par, E \cup {g})
<1> DEFINE under == PathsUnder(c, p, g)
           t == c \cup under
<1>1. Parents(par, E) /\ RowsOf(c, par, E) /\ OneWay(c) /\ OneDepth(c) /\ Chained(c)
  BY FlattensRows
<1>2. g \in Groups /\ p \in Groups /\ p # g
  OBVIOUS
<1>3. ASSUME NEW a, NEW h, NEW d \in Nat
      PROVE  <<a, h, d>> \in under <=> h = g /\ d # 0 /\ <<a, p, d - 1>> \in c
  BY UnderRow
<1>4. under \in Tables
  <2> SUFFICES ASSUME NEW x \in under
               PROVE  x \in Groups \X Groups \X Nat
    BY DEF Tables
  <2>1. PICK y \in c : x = <<y[1], g, y[3] + 1>>
    BY DEF PathsUnder
  <2>2. y[1] \in Groups /\ y[3] + 1 \in Nat
    BY Triple
  <2> QED
    BY <1>2, <2>1, <2>2
<1>5. t \in Tables
  BY <1>4 DEF Tables
<1>6. ASSUME NEW a, NEW h
      PROVE  Linked(c, a, h) <=> \E d \in Nat : <<a, h, d>> \in c
  BY LinkedRow
<1> HIDE DEF under
<1>7. ASSUME NEW a, NEW h, NEW d
      PROVE  <<a, h, d>> \in t <=> <<a, h, d>> \in c \/ <<a, h, d>> \in under
  OBVIOUS
<1> HIDE DEF t
<1>8. ASSUME NEW a, NEW h, NEW d, <<a, h, d>> \in c, a = g \/ h = g
      PROVE  a = g /\ h = g /\ d = 0
  <2>1. <<a, h, d>>[1] = a /\ <<a, h, d>>[2] = h
    OBVIOUS
  <2>2. <<a, h, d>> = <<g, g, 0>>
    BY <1>8, <2>1, Zenon
  <2> QED
    BY <2>2
<1>9. ASSUME NEW a, NEW h, Linked(c, a, h), a = g \/ h = g
      PROVE  a = g /\ h = g
  <2>1. PICK d \in Nat : <<a, h, d>> \in c
    BY <1>6, <1>9
  <2> QED
    BY <1>8, <1>9, <2>1
<1>10. ASSUME NEW a, NEW h
       PROVE  Linked(t, a, h) <=> Linked(c, a, h) \/ (h = g /\ Linked(c, a, p))
  <2>1. Linked(t, a, h) <=> \E d \in Nat : <<a, h, d>> \in t
    BY <1>5, LinkedRow
  <2>2. ASSUME NEW d \in Nat, <<a, h, d>> \in under
        PROVE  h = g /\ Linked(c, a, p)
    <3>1. h = g /\ d # 0 /\ <<a, p, d - 1>> \in c
      BY <1>3, <2>2
    <3>2. d - 1 \in Nat
      BY <3>1
    <3> QED
      BY <1>6, <3>1, <3>2
  <2>3. ASSUME h = g, Linked(c, a, p)
        PROVE  Linked(t, a, h)
    <3>1. PICK i \in Nat : <<a, p, i>> \in c
      BY <1>6, <2>3
    <3>2. i + 1 \in Nat /\ i + 1 # 0 /\ (i + 1) - 1 = i
      OBVIOUS
    <3>3. <<a, h, i + 1>> \in under
      BY <1>3, <2>3, <3>1, <3>2
    <3> QED
      BY <1>7, <2>1, <3>2, <3>3
  <2>4. ASSUME Linked(t, a, h), ~Linked(c, a, h)
        PROVE  h = g /\ Linked(c, a, p)
    <3>1. PICK d \in Nat : <<a, h, d>> \in t
      BY <2>1, <2>4
    <3>2. <<a, h, d>> \in under
      BY <1>6, <1>7, <2>4, <3>1
    <3> QED
      BY <2>2, <3>2
  <2>5. ASSUME Linked(c, a, h)
        PROVE  Linked(t, a, h)
    BY <1>6, <1>7, <2>1, <2>5
  <2> QED
    BY <2>3, <2>4, <2>5
<1>11. Parents(par, E \cup {g})
  BY <1>1 DEF Parents
<1>12. RowsOf(t, par, E \cup {g})
  <2> SUFFICES ASSUME NEW h \in E \cup {g}, NEW a \in Groups, NEW d \in Nat
               PROVE  <<a, h, d>> \in t <=>
                        \/ a = h /\ d = 0
                        \/ par[h] \in Groups /\ d # 0 /\ <<a, par[h], d - 1>> \in t
    BY DEF RowsOf
  <2>1. CASE h = g
    <3>1. <<a, g, d>> \in c <=> a = g /\ d = 0
      BY <1>8
    <3>2. <<a, g, d>> \in under <=> d # 0 /\ <<a, p, d - 1>> \in c
      BY <1>3
    <3>3. ASSUME d # 0
          PROVE  <<a, p, d - 1>> \in t <=> <<a, p, d - 1>> \in c
      <4>1. d - 1 \in Nat
        BY <3>3
      <4>2. <<a, p, d - 1>> \notin under
        BY <1>2, <1>3, <4>1
      <4> QED
        BY <1>7, <4>2
    <3> QED
      BY <1>2, <1>7, <2>1, <3>1, <3>2, <3>3
  <2>2. CASE h # g
    <3>1. <<a, h, d>> \in t <=> <<a, h, d>> \in c
      BY <1>3, <1>7, <2>2
    <3>2. ASSUME par[h] \in Groups, d # 0
          PROVE  <<a, par[h], d - 1>> \in t <=> <<a, par[h], d - 1>> \in c
      <4>1. par[h] # g /\ d - 1 \in Nat
        BY <1>1, <2>2, <3>2 DEF Parents
      <4>2. <<a, par[h], d - 1>> \notin under
        BY <1>3, <4>1
      <4> QED
        BY <1>7, <4>2
    <3>3. <<a, h, d>> \in c <=>
            \/ a = h /\ d = 0
            \/ par[h] \in Groups /\ d # 0 /\ <<a, par[h], d - 1>> \in c
      BY <1>1, <2>2 DEF RowsOf
    <3> QED
      BY <3>1, <3>2, <3>3
  <2> QED
    BY <2>1, <2>2
<1>13. OneWay(t)
  <2> SUFFICES ASSUME NEW a \in Groups, NEW b \in Groups, Linked(t, a, b), Linked(t, b, a)
               PROVE  a = b
    BY DEF OneWay
  <2>1. CASE Linked(c, a, b) /\ Linked(c, b, a)
    BY <1>1, <2>1 DEF OneWay
  <2>2. CASE b = g
    BY <1>2, <1>9, <1>10, <2>2
  <2>3. CASE a = g
    BY <1>2, <1>9, <1>10, <2>3
  <2> QED
    BY <1>10, <2>1, <2>2, <2>3
<1>14. OneDepth(t)
  <2> SUFFICES ASSUME NEW a \in Groups, NEW b \in Groups, NEW d \in Nat, NEW e \in Nat,
                      <<a, b, d>> \in t, <<a, b, e>> \in t
               PROVE  d = e
    BY DEF OneDepth
  <2>1. CASE <<a, b, d>> \in c /\ <<a, b, e>> \in c
    BY <1>1, <2>1 DEF OneDepth
  <2>2. CASE <<a, b, d>> \in under /\ <<a, b, e>> \in under
    <3>1. d # 0 /\ <<a, p, d - 1>> \in c /\ e # 0 /\ <<a, p, e - 1>> \in c
      BY <1>3, <2>2
    <3>2. d - 1 \in Nat /\ e - 1 \in Nat
      BY <3>1
    <3>3. d - 1 = e - 1
      BY <1>1, <1>2, <3>1, <3>2 DEF OneDepth
    <3> QED
      BY <3>3
  <2>3. ASSUME NEW i \in Nat, NEW j \in Nat, <<a, b, i>> \in c, <<a, b, j>> \in under
        PROVE  FALSE
    <3>1. b = g /\ j # 0 /\ <<a, p, j - 1>> \in c
      BY <1>3, <2>3
    <3>2. a = g
      BY <1>8, <2>3, <3>1
    <3> QED
      BY <1>2, <1>8, <3>1, <3>2
  <2> QED
    BY <1>7, <2>1, <2>2, <2>3
<1>15. Chained(t)
  <2> SUFFICES ASSUME NEW a \in Groups, NEW b \in Groups, NEW h \in Groups,
                      Linked(t, a, b), Linked(t, b, h)
               PROVE  Linked(t, a, h)
    BY DEF Chained
  <2>1. CASE b = g
    <3>1. h = g
      BY <1>2, <1>9, <1>10, <2>1
    <3> QED
      BY <2>1, <3>1
  <2>2. CASE b # g
    <3>1. Linked(c, a, b)
      BY <1>10, <2>2
    <3>2. CASE Linked(c, b, h)
      BY <1>1, <1>10, <3>1, <3>2 DEF Chained
    <3>3. CASE h = g /\ Linked(c, b, p)
      <4>1. Linked(c, a, p)
        BY <1>1, <1>2, <3>1, <3>3 DEF Chained
      <4> QED
        BY <1>10, <3>3, <4>1
    <3> QED
      BY <1>10, <3>2, <3>3
  <2> QED
    BY <2>1, <2>2
<1>16. E \cup {g} \in SUBSET Groups
  OBVIOUS
<1> QED
  BY <1>5, <1>11, <1>12, <1>13, <1>14, <1>15, <1>16, FlattensRows DEF t, under

\* The row of a new group itself leaves the others alone, and is all a root needs.
LEMMA SelfFlattens ==
  ASSUME NEW c \in Tables, NEW E \in SUBSET Groups, NEW par, NEW g \in Groups \ E,
         Root \notin Groups, Flattens(c, par, E),
         \A x \in c : x[1] # g /\ x[2] # g
  PROVE  /\ c \cup {<<g, g, 0>>} \in Tables
         /\ Flattens(c \cup {<<g, g, 0>>}, par, E)
         /\ par[g] = Root => Flattens(c \cup {<<g, g, 0>>}, par, E \cup {g})
<1> DEFINE t == c \cup {<<g, g, 0>>}
<1>1. Parents(par, E) /\ RowsOf(c, par, E) /\ OneWay(c) /\ OneDepth(c) /\ Chained(c)
  BY FlattensRows
<1>2. t \in Tables
  BY DEF Tables
<1>3. ASSUME NEW a, NEW h, NEW d
      PROVE  <<a, h, d>> \in t <=> <<a, h, d>> \in c \/ (a = g /\ h = g /\ d = 0)
  OBVIOUS
<1> HIDE DEF t
<1>4. ASSUME NEW a, NEW h, NEW d, <<a, h, d>> \in c
      PROVE  a # g /\ h # g
  <2>1. <<a, h, d>>[1] = a /\ <<a, h, d>>[2] = h
    OBVIOUS
  <2> QED
    BY <1>4, <2>1, Zenon
<1>5. ASSUME NEW a, NEW h
      PROVE  Linked(c, a, h) => a # g /\ h # g
  BY <1>4, LinkedRow
<1>6. ASSUME NEW a, NEW h
      PROVE  Linked(t, a, h) <=> Linked(c, a, h) \/ (a = g /\ h = g)
  <2>1. Linked(t, a, h) <=> \E d \in Nat : <<a, h, d>> \in t
    BY <1>2, LinkedRow
  <2>2. Linked(c, a, h) <=> \E d \in Nat : <<a, h, d>> \in c
    BY LinkedRow
  <2> QED
    BY <1>3, <2>1, <2>2
<1>7. RowsOf(t, par, E)
  <2> SUFFICES ASSUME NEW h \in E, NEW a \in Groups, NEW d \in Nat
               PROVE  <<a, h, d>> \in t <=>
                        \/ a = h /\ d = 0
                        \/ par[h] \in Groups /\ d # 0 /\ <<a, par[h], d - 1>> \in t
    BY DEF RowsOf
  <2>1. h # g /\ (par[h] \in Groups => par[h] # g)
    BY <1>1 DEF Parents
  <2>2. <<a, h, d>> \in c <=>
          \/ a = h /\ d = 0
          \/ par[h] \in Groups /\ d # 0 /\ <<a, par[h], d - 1>> \in c
    BY <1>1 DEF RowsOf
  <2> QED
    BY <1>3, <2>1, <2>2
<1>8. ASSUME par[g] = Root
      PROVE  RowsOf(t, par, E \cup {g}) /\ Parents(par, E \cup {g})
  <2>1. \A a \in Groups, d \in Nat : <<a, g, d>> \in t <=> a = g /\ d = 0
    BY <1>3, <1>4
  <2> QED
    BY <1>1, <1>7, <1>8, <2>1 DEF RowsOf, Parents
<1>9. OneWay(t)
  BY <1>1, <1>5, <1>6 DEF OneWay
<1>10. OneDepth(t)
  BY <1>1, <1>3, <1>4 DEF OneDepth
<1>11. Chained(t)
  BY <1>1, <1>5, <1>6 DEF Chained
<1>12. E \cup {g} \in SUBSET Groups
  OBVIOUS
<1>13. Flattens(t, par, E)
  BY <1>1, <1>2, <1>7, <1>9, <1>10, <1>11, FlattensRows
<1>14. ASSUME par[g] = Root
       PROVE  Flattens(t, par, E \cup {g})
  BY <1>2, <1>8, <1>9, <1>10, <1>11, <1>12, <1>14, FlattensRows
<1> QED
  BY <1>2, <1>13, <1>14 DEF t

\* Groups that leave with all their children take their rows with them.
LEMMA DeleteFlattens ==
  ASSUME NEW c \in Tables, NEW E \in SUBSET Groups, NEW par, NEW X,
         Root \notin Groups, Flattens(c, par, E),
         \A h \in E \ X : par[h] \notin X
  PROVE  Flattens({x \in c : x[1] \notin X /\ x[2] \notin X}, par, E \ X)
<1> DEFINE t == {x \in c : x[1] \notin X /\ x[2] \notin X}
<1>1. Parents(par, E) /\ RowsOf(c, par, E) /\ OneWay(c) /\ OneDepth(c) /\ Chained(c)
  BY FlattensRows
<1>2. t \in Tables
  BY DEF Tables
<1>3. ASSUME NEW a, NEW h, NEW d
      PROVE  <<a, h, d>> \in t <=> <<a, h, d>> \in c /\ a \notin X /\ h \notin X
  <2> DEFINE x == <<a, h, d>>
  <2>1. x[1] = a /\ x[2] = h
    OBVIOUS
  <2>2. x \in t <=> x \in c /\ x[1] \notin X /\ x[2] \notin X
    BY Zenon
  <2> QED
    BY <2>1, <2>2
<1> HIDE DEF t
<1>4. ASSUME NEW a, NEW h
      PROVE  Linked(t, a, h) <=> Linked(c, a, h) /\ a \notin X /\ h \notin X
  <2>1. Linked(t, a, h) <=> \E d \in Nat : <<a, h, d>> \in t
    BY <1>2, LinkedRow
  <2>2. Linked(c, a, h) <=> \E d \in Nat : <<a, h, d>> \in c
    BY LinkedRow
  <2> QED
    BY <1>3, <2>1, <2>2
<1>5. RowsOf(t, par, E \ X)
  <2> SUFFICES ASSUME NEW h \in E \ X, NEW a \in Groups, NEW d \in Nat
               PROVE  <<a, h, d>> \in t <=>
                        \/ a = h /\ d = 0
                        \/ par[h] \in Groups /\ d # 0 /\ <<a, par[h], d - 1>> \in t
    BY DEF RowsOf
  <2>1. <<a, h, d>> \in c <=>
          \/ a = h /\ d = 0
          \/ par[h] \in Groups /\ d # 0 /\ <<a, par[h], d - 1>> \in c
    BY <1>1 DEF RowsOf
  <2>2. par[h] \notin X
    OBVIOUS
  <2>3. <<a, h, d>> \in t <=> <<a, h, d>> \in c /\ a \notin X
    BY <1>3
  <2>4. <<a, par[h], d - 1>> \in t <=> <<a, par[h], d - 1>> \in c /\ a \notin X
    BY <1>3, <2>2
  <2> QED
    BY <2>1, <2>3, <2>4
<1>6. Parents(par, E \ X)
  BY <1>1 DEF Parents
<1>7. OneWay(t) /\ Chained(t)
  BY <1>1, <1>4 DEF OneWay, Chained
<1>8. OneDepth(t)
  BY <1>1, <1>3 DEF OneDepth
<1>9. E \ X \in SUBSET Groups
  OBVIOUS
<1>10. Flattens(t, par, E \ X)
  BY <1>2, <1>5, <1>6, <1>7, <1>8, <1>9, FlattensRows
<1> QED
  BY <1>10 DEF t

-----------------------------------------------------------------------------
(***************************************************************************)
(* Type correctness, and which groups exist after each step.               *)
(***************************************************************************)
\* The three columns of group_closure keep their types, and a request stays a request.
LEMMA TypeStep ==
  ASSUME TreeTypeOK, [TreeNext]_treeVars
  PROVE  TreeTypeOK'
<1> USE DEF TreeTypeOK
<1> DEFINE Request == [step : Steps, group : Groups \cup {Root},
                       to : Groups \cup {Root}, subtree : SUBSET Groups]
<1>1. Idle \in Request
  BY DEF Idle, Steps
<1>2. closure \in Tables
  BY DEF Tables
<1>3. ASSUME NEW r \in Requests, Finish(r)
      PROVE  req' \in [Requests -> Request]
  BY <1>1, <1>3 DEF Finish
<1>4. ASSUME NEW r \in Requests, NEW s \in Steps, Advance(r, s)
      PROVE  req' \in [Requests -> Request]
  BY <1>4 DEF Advance
<1>5. ASSUME NEW rows \in Tables
      PROVE  Accepted(closure, rows) \in Tables
  BY <1>2, <1>5 DEF Accepted, Tables
<1>6. ASSUME NEW r \in Requests, NEW p \in Groups \cup {Root}, StartCreate(r, p)
      PROVE  TreeTypeOK'
  BY <1>1, <1>6 DEF StartCreate, Idle, Steps
<1>7. ASSUME NEW r \in Requests, InsertRow(r)
      PROVE  TreeTypeOK'
  <2>1. req[r] \in Request
    OBVIOUS
  <2>2. CASE Finish(r) /\ UNCHANGED parent
    BY <1>3, <1>7, <2>2 DEF InsertRow
  <2>3. ASSUME NEW g \in Groups, parent' = [parent EXCEPT ![g] = req[r].to],
               req' = [req EXCEPT ![r].step = "self", ![r].group = g]
        PROVE  TreeTypeOK'
    <3>1. parent' \in [Groups -> Groups \cup {Root, Unborn, Gone}]
      BY <2>1, <2>3
    <3>2. req' \in [Requests -> Request]
      BY <2>1, <2>3 DEF Steps
    <3> QED
      BY <1>7, <3>1, <3>2 DEF InsertRow
  <2> QED
    BY <1>7, <2>2, <2>3 DEF InsertRow
<1>8. ASSUME NEW r \in Requests, InsertSelf(r)
      PROVE  TreeTypeOK'
  <2>1. req' \in [Requests -> Request]
    BY <1>3, <1>4, <1>8 DEF InsertSelf, Steps
  <2>2. closure' \subseteq Groups \X Groups \X Nat
    BY <1>8 DEF InsertSelf, Exists
  <2> QED
    BY <1>8, <2>1, <2>2 DEF InsertSelf
<1>9. ASSUME NEW r \in Requests, CopyAncestors(r)
      PROVE  TreeTypeOK'
  <2>1. closure' \in Tables
    <3> DEFINE rows == PathsUnder(closure, req[r].to, req[r].group)
    <3>1. CASE \E x \in rows : Linked(closure, x[1], x[2]) \/ x[1] \notin Exists \/ x[2] \notin Exists
      BY <1>2, <1>9, <3>1 DEF CopyAncestors, Accepted
    <3>2. CASE ~\E x \in rows : Linked(closure, x[1], x[2]) \/ x[1] \notin Exists \/ x[2] \notin Exists
      <4>1. rows \in Tables
        <5> SUFFICES ASSUME NEW x \in rows
                     PROVE  x \in Groups \X Groups \X Nat
          BY DEF Tables
        <5>1. PICK y \in closure : x = <<y[1], req[r].group, y[3] + 1>>
          BY DEF PathsUnder
        <5>2. y[1] \in Groups /\ y[3] + 1 \in Nat
          BY <1>2, Triple
        <5>3. x[2] \in Groups
          BY <3>2 DEF Exists
        <5> QED
          BY <5>1, <5>2, <5>3
      <4> QED
        BY <1>2, <1>9, <3>2, <4>1 DEF CopyAncestors, Accepted, Tables
    <3> QED
      BY <3>1, <3>2
  <2> QED
    BY <1>3, <1>9, <2>1 DEF CopyAncestors, Tables
<1>10. ASSUME NEW r \in Requests, NEW g \in Groups, NEW p \in Groups \cup {Root}, StartMove(r, g, p)
       PROVE  TreeTypeOK'
  BY <1>1, <1>10 DEF StartMove, Idle, Steps
<1>11. ASSUME NEW r \in Requests, CheckMove(r)
       PROVE  TreeTypeOK'
  BY <1>3, <1>4, <1>11 DEF CheckMove, Steps
<1>12. ASSUME NEW r \in Requests, CollectSubtree(r)
       PROVE  TreeTypeOK'
  <2>1. DescendantsIn(closure, req[r].group) \in SUBSET Groups
    BY DEF DescendantsIn
  <2> DEFINE D == DescendantsIn(closure, req[r].group)
  <2>2. req' = [req EXCEPT ![r] = [req[r] EXCEPT !.step = "cut", !.subtree = D]]
    BY <1>12 DEF CollectSubtree
  <2> HIDE DEF D
  <2>3. D \in SUBSET Groups /\ "cut" \in Steps /\ req[r] \in Request
    BY <2>1 DEF D, Steps
  <2>4. [req[r] EXCEPT !.step = "cut", !.subtree = D] \in Request
    BY <2>3
  <2>5. req' \in [Requests -> Request]
    BY <2>2, <2>4
  <2> QED
    BY <1>12, <2>5 DEF CollectSubtree
<1>13. ASSUME NEW r \in Requests, CutSubtree(r)
       PROVE  TreeTypeOK'
  <2>1. req' \in [Requests -> Request]
    BY <1>4, <1>13 DEF CutSubtree, Steps
  <2> QED
    BY <1>13, <2>1 DEF CutSubtree, CutRows
<1>14. ASSUME NEW r \in Requests, LinkSubtree(r)
       PROVE  TreeTypeOK'
  <2>1. req' \in [Requests -> Request]
    BY <1>3, <1>4, <1>14 DEF LinkSubtree, Steps
  <2>2. CrossRows(closure, req[r].to, req[r].group) \in Tables
    BY <1>2, CrossTable
  <2> QED
    BY <1>5, <1>14, <2>1, <2>2 DEF LinkSubtree, Tables
<1>15. ASSUME NEW r \in Requests, SetParent(r)
       PROVE  TreeTypeOK'
  <2>1. req' \in [Requests -> Request]
    BY <1>3, <1>15 DEF SetParent
  <2>2. parent' \in [Groups -> Groups \cup {Root, Unborn, Gone}]
    BY <1>15 DEF SetParent
  <2>3. crashes' = crashes /\ closure' = closure /\ muddled' \in BOOLEAN
    BY <1>15 DEF SetParent
  <2> QED
    BY <2>1, <2>2, <2>3
<1>16. ASSUME NEW g \in Groups, DeleteGroup(g)
       PROVE  TreeTypeOK'
  BY <1>16 DEF DeleteGroup
<1>17. CASE CrashTree
  BY <1>1, <1>17 DEF CrashTree
<1>18. CASE UNCHANGED treeVars
  BY <1>18 DEF treeVars
<1> QED
  BY <1>6, <1>7, <1>8, <1>9, <1>10, <1>11, <1>12, <1>13, <1>14, <1>15, <1>16, <1>17, <1>18
     DEF TreeNext, TreeStep

\* No group at all is a tree.
LEMMA TreeInitTypes == TreeInit => TreeTypeOK
<1>1. Idle \in [step : Steps, group : Groups \cup {Root},
                to : Groups \cup {Root}, subtree : SUBSET Groups]
  BY DEF Idle, Steps
<1> SUFFICES ASSUME TreeInit
             PROVE  TreeTypeOK
  OBVIOUS
<1> HIDE DEF Idle
<1>2. parent \in [Groups -> Groups \cup {Root, Unborn, Gone}]
  BY DEF TreeInit
<1>3. req \in [Requests -> [step : Steps, group : Groups \cup {Root},
                            to : Groups \cup {Root}, subtree : SUBSET Groups]]
  BY <1>1 DEF TreeInit
<1>4. closure \subseteq Groups \X Groups \X Nat /\ crashes \in Nat /\ muddled \in BOOLEAN
  BY DEF TreeInit
<1> QED
  BY <1>2, <1>3, <1>4 DEF TreeTypeOK

\* A deletion takes the group, and with every group its children.
LEMMA CascadeClosed ==
  ASSUME NEW g
  PROVE  /\ Cascade(g) \subseteq Exists
         /\ g \in Exists => g \in Cascade(g)
         /\ \A y \in Exists : parent[y] \in Cascade(g) => y \in Cascade(g)
<1>1. Cascade(g) \subseteq Exists /\ (g \in Exists => g \in Cascade(g))
  BY DEF Cascade
<1>2. ASSUME NEW y \in Exists, parent[y] \in Cascade(g)
      PROVE  y \in Cascade(g)
  <2> SUFFICES ASSUME NEW S \in SUBSET Exists, g \in S,
                      \A z \in Exists : parent[z] \in S => z \in S
               PROVE  y \in S
    BY DEF Cascade
  <2>1. parent[y] \in S
    BY <1>2 DEF Cascade
  <2> QED
    BY <2>1
<1> QED
  BY <1>1, <1>2

\* What a step does to the set of groups that exist.
LEMMA ExistsAfter ==
  ASSUME TreeTypeOK
  PROVE  /\ parent' = parent => Exists' = Exists
         /\ \A r \in Requests : SetParent(r) => Exists' = Exists
         /\ \A g \in Groups, p \in Exists \cup {Root} :
              parent' = [parent EXCEPT ![g] = p] => Exists' = Exists \cup {g}
         /\ \A g \in Groups : DeleteGroup(g) => Exists' = Exists \ Cascade(g)
<1> USE DEF TreeTypeOK
<1>1. parent' = parent => Exists' = Exists
  BY DEF Exists
<1>2. ASSUME NEW g \in Groups, NEW p \in Exists \cup {Root}, parent' = [parent EXCEPT ![g] = p]
      PROVE  Exists' = Exists \cup {g}
  <2>1. p \in Groups \cup {Root}
    BY DEF Exists
  <2>2. ASSUME NEW h \in Groups
        PROVE  parent'[h] \in Groups \cup {Root} <=> parent[h] \in Groups \cup {Root} \/ h = g
    BY <1>2, <2>1
  <2> QED
    BY <2>2 DEF Exists
<1>3. ASSUME NEW r \in Requests, SetParent(r)
      PROVE  Exists' = Exists
  <2>1. CASE req[r].group \in Exists /\ req[r].to \in Exists \cup {Root}
    <3>1. parent' = [parent EXCEPT ![req[r].group] = req[r].to]
      BY <1>3, <2>1 DEF SetParent
    <3>2. req[r].group \in Groups
      BY <2>1 DEF Exists
    <3> QED
      BY <1>2, <2>1, <3>1, <3>2
  <2>2. CASE ~(req[r].group \in Exists /\ req[r].to \in Exists \cup {Root})
    BY <1>1, <1>3, <2>2 DEF SetParent
  <2> QED
    BY <2>1, <2>2
<1>4. ASSUME NEW g \in Groups, DeleteGroup(g)
      PROVE  Exists' = Exists \ Cascade(g)
  <2> DEFINE X == Cascade(g)
  <2>1. parent' = [x \in Groups |-> IF x \in X THEN Gone ELSE parent[x]]
    BY <1>4 DEF DeleteGroup
  <2> HIDE DEF X
  <2>2. ASSUME NEW h \in Groups
        PROVE  parent'[h] \in Groups \cup {Root} <=> parent[h] \in Groups \cup {Root} /\ h \notin X
    BY <2>1, TreeAssumption
  <2> QED
    BY <2>2 DEF Exists, X
<1> QED
  BY <1>1, <1>2, <1>3, <1>4

\* The statements that write rows write rows of groups that exist.
LEMMA AcceptedKeys ==
  ASSUME NEW rows \in Tables, closure \subseteq Exists \X Exists \X Nat
  PROVE  Accepted(closure, rows) \subseteq Exists \X Exists \X Nat
<1>1. CASE \E x \in rows : Linked(closure, x[1], x[2]) \/ x[1] \notin Exists \/ x[2] \notin Exists
  BY <1>1 DEF Accepted
<1>2. CASE ~\E x \in rows : Linked(closure, x[1], x[2]) \/ x[1] \notin Exists \/ x[2] \notin Exists
  <2>1. ASSUME NEW x \in rows
        PROVE  x \in Exists \X Exists \X Nat
    <3>1. x = <<x[1], x[2], x[3]>> /\ x[3] \in Nat
      BY Triple
    <3>2. x[1] \in Exists /\ x[2] \in Exists
      BY <1>2
    <3> QED
      BY <3>1, <3>2
  <2> QED
    BY <1>2, <2>1 DEF Accepted
<1> QED
  BY <1>1, <1>2

\* The foreign keys hold whatever the requests do to each other.
LEMMA KeysStep ==
  ASSUME TreeTypeOK, KeysHold, [TreeNext]_treeVars
  PROVE  KeysHold'
<1> USE DEF TreeTypeOK
<1> DEFINE Linkable == closure \subseteq Exists \X Exists \X Nat
<1>1. Linkable /\ \A g \in Exists : parent[g] \in Exists \cup {Root}
  BY DEF KeysHold
<1>2. closure \in Tables /\ Exists \subseteq Groups
  BY DEF Tables, Exists
<1>3. ASSUME parent' = parent, closure' \subseteq Exists \X Exists \X Nat
      PROVE  KeysHold'
  <2>1. Exists' = Exists
    BY <1>3, ExistsAfter
  <2> QED
    BY <1>1, <1>3, <2>1 DEF KeysHold
<1>4. ASSUME NEW g \in Groups, NEW p \in Exists \cup {Root}, closure' = closure,
             parent' = [parent EXCEPT ![g] = p]
      PROVE  KeysHold'
  <2>1. Exists' = Exists \cup {g}
    BY <1>4, ExistsAfter
  <2>2. ASSUME NEW h \in Exists'
        PROVE  parent'[h] \in Exists' \cup {Root}
    BY <1>1, <1>2, <1>4, <2>1
  <2>3. closure' \subseteq Exists' \X Exists' \X Nat
    BY <1>1, <1>4, <2>1
  <2> QED
    BY <2>2, <2>3 DEF KeysHold
<1>5. ASSUME NEW r \in Requests, InsertRow(r)
      PROVE  KeysHold'
  <2>1. CASE parent' = parent
    BY <1>1, <1>3, <1>5, <2>1 DEF InsertRow
  <2>2. ASSUME req[r].to \in Exists \cup {Root},
               NEW g \in Groups, parent' = [parent EXCEPT ![g] = req[r].to]
        PROVE  KeysHold'
    BY <1>4, <1>5, <2>2 DEF InsertRow
  <2> QED
    BY <1>5, <2>1, <2>2 DEF InsertRow
<1>6. ASSUME NEW r \in Requests, InsertSelf(r)
      PROVE  KeysHold'
  <2>1. closure' \subseteq Exists \X Exists \X Nat
    BY <1>1, <1>6 DEF InsertSelf
  <2> QED
    BY <1>3, <1>6, <2>1 DEF InsertSelf
<1>7. ASSUME NEW r \in Requests, CopyAncestors(r)
      PROVE  KeysHold'
  <2> DEFINE rows == PathsUnder(closure, req[r].to, req[r].group)
  <2>1. closure' = Accepted(closure, rows)
    BY <1>7 DEF CopyAncestors
  <2>2. CASE closure' = closure
    BY <1>1, <1>3, <1>7, <2>2 DEF CopyAncestors
  <2>3. CASE closure' # closure
    <3>1. \A x \in rows : x[2] \in Exists
      BY <2>1, <2>3 DEF Accepted
    <3>2. rows \in Tables
      <4> SUFFICES ASSUME NEW x \in rows
                   PROVE  x \in Groups \X Groups \X Nat
        BY DEF Tables
      <4>1. PICK y \in closure : x = <<y[1], req[r].group, y[3] + 1>>
        BY DEF PathsUnder
      <4>2. y[1] \in Groups /\ y[3] + 1 \in Nat
        BY <1>2, Triple
      <4>3. x[2] \in Groups
        BY <1>2, <3>1
      <4> QED
        BY <4>1, <4>2, <4>3
    <3> HIDE DEF rows
    <3>3. closure' \subseteq Exists \X Exists \X Nat
      BY <1>1, <2>1, <3>2, AcceptedKeys
    <3> QED
      BY <1>3, <1>7, <3>3 DEF CopyAncestors
  <2> QED
    BY <2>2, <2>3
<1>8. ASSUME NEW r \in Requests, CutSubtree(r)
      PROVE  KeysHold'
  <2>1. closure' \subseteq closure
    BY <1>8 DEF CutSubtree, CutRows
  <2> QED
    BY <1>1, <1>3, <1>8, <2>1 DEF CutSubtree
<1>9. ASSUME NEW r \in Requests, LinkSubtree(r)
      PROVE  KeysHold'
  <2> DEFINE rows == CrossRows(closure, req[r].to, req[r].group)
  <2>1. rows \in Tables
    BY <1>2, CrossTable
  <2>2. closure' = Accepted(closure, rows)
    BY <1>9 DEF LinkSubtree
  <2> HIDE DEF rows
  <2>3. closure' \subseteq Exists \X Exists \X Nat
    BY <1>1, <2>1, <2>2, AcceptedKeys
  <2> QED
    BY <1>3, <1>9, <2>3 DEF LinkSubtree
<1>10. ASSUME NEW r \in Requests, SetParent(r)
       PROVE  KeysHold'
  <2>1. CASE parent' = parent
    BY <1>1, <1>3, <1>10, <2>1 DEF SetParent
  <2>2. CASE req[r].group \in Exists /\ req[r].to \in Exists \cup {Root}
    BY <1>2, <1>4, <1>10, <2>2 DEF SetParent
  <2> QED
    BY <1>10, <2>1, <2>2 DEF SetParent
<1>11. ASSUME NEW g \in Groups, DeleteGroup(g)
       PROVE  KeysHold'
  <2> DEFINE X == Cascade(g)
  <2>1. Exists' = Exists \ X
    BY <1>11, ExistsAfter
  <2>2. /\ parent' = [x \in Groups |-> IF x \in X THEN Gone ELSE parent[x]]
        /\ closure' = {x \in closure : x[1] \notin X /\ x[2] \notin X}
    BY <1>11 DEF DeleteGroup
  <2>3. \A y \in Exists : parent[y] \in X => y \in X
    BY CascadeClosed
  <2>4. Root \notin X
    BY <1>2, CascadeClosed, TreeAssumption
  <2> HIDE DEF X
  <2>5. ASSUME NEW h \in Exists'
        PROVE  parent'[h] \in Exists' \cup {Root}
    BY <1>1, <1>2, <2>1, <2>2, <2>3, <2>4
  <2>6. ASSUME NEW x \in closure'
        PROVE  x \in Exists' \X Exists' \X Nat
    <3>1. x \in closure /\ x[1] \notin X /\ x[2] \notin X
      BY <2>2
    <3>2. x = <<x[1], x[2], x[3]>> /\ x[1] \in Exists /\ x[2] \in Exists /\ x[3] \in Nat
      BY <1>1, <3>1
    <3>3. x[1] \in Exists' /\ x[2] \in Exists'
      BY <2>1, <3>1, <3>2
    <3> QED
      BY <3>2, <3>3
  <2> QED
    BY <2>5, <2>6 DEF KeysHold
<1>12. ASSUME parent' = parent, closure' = closure
       PROVE  KeysHold'
  BY <1>1, <1>3, <1>12
<1>13. ASSUME NEW r \in Requests,
              \/ \E p \in Groups \cup {Root} : StartCreate(r, p)
              \/ \E g \in Groups, p \in Groups \cup {Root} : StartMove(r, g, p)
              \/ CheckMove(r) \/ CollectSubtree(r)
       PROVE  KeysHold'
  BY <1>12, <1>13 DEF StartCreate, StartMove, CheckMove, CollectSubtree
<1>14. CASE CrashTree \/ UNCHANGED treeVars
  BY <1>12, <1>14 DEF CrashTree, treeVars
<1> QED
  BY <1>5, <1>6, <1>7, <1>8, <1>9, <1>10, <1>11, <1>13, <1>14 DEF TreeNext, TreeStep

-----------------------------------------------------------------------------
(***************************************************************************)
(* The table follows the parents.                                          *)
(***************************************************************************)
Sound == TreeTypeOK /\ KeysHold /\ TreeInv

\* What Sound says of the tables while nothing has gone wrong.
LEMMA Tidy ==
  ASSUME Sound
  PROVE  /\ closure \in Tables /\ Exists \in SUBSET Groups /\ Exists \ Fresh \in SUBSET Groups
         /\ Root \notin Groups /\ closure \subseteq Exists \X Exists \X Nat
         /\ \A g \in Exists : parent[g] \in Exists \cup {Root}
         /\ \A g \in Groups : parent[g] = Unborn => g \notin Exists
BY TreeAssumption DEF Sound, TreeTypeOK, KeysHold, Tables, Exists

\* A request that is busy without moving anything knows that no one moves.
LEMMA Calm ==
  ASSUME Sound, ~muddled, NEW r \in Requests, Busy(r), ~Moving(r)
  PROVE  ~MoveInFlight /\ Flattens(closure, parent, Exists \ Fresh)
<1>1. ~MoveInFlight
  <2> SUFFICES ASSUME NEW q \in Requests, Moving(q)
               PROVE  FALSE
    BY DEF MoveInFlight
  <2>1. MoveInv(q)
    BY DEF Sound, TreeInv
  <2> QED
    BY <2>1 DEF MoveInv
<1> QED
  BY <1>1 DEF Sound, TreeInv

\* A request that creates nothing is no concern of one that does.
LEMMA CreateStays ==
  ASSUME NEW q \in Requests, CreateInv(q), UNCHANGED <<parent, closure>>,
         \A s \in Requests : req'[s] = req[s] \/ req'[s].step \notin {"self", "copy"}
  PROVE  CreateInv(q)'
<1> SUFFICES ASSUME req'[q].step \in {"self", "copy"}
             PROVE  CreateInv(q)'
  BY DEF CreateInv
<1>1. req'[q] = req[q] /\ Exists' = Exists
  BY DEF Exists
<1>2. \A s \in Requests \ {q} : req'[s].step \in {"self", "copy"} => req'[s].group # req[q].group
  BY <1>1 DEF CreateInv
<1> QED
  BY <1>1, <1>2 DEF CreateInv

\* The groups still being created, request by request.
LEMMA FreshStays ==
  ASSUME \A s \in Requests : \/ req'[s] = req[s]
                             \/ /\ req[s].step \notin {"self", "copy"}
                                /\ req'[s].step \notin {"self", "copy"}
  PROVE  Fresh' = Fresh
<1>1. \A s \in Requests : req'[s].step \in {"self", "copy"} <=> req[s].step \in {"self", "copy"}
  OBVIOUS
<1>2. \A s \in Requests : req[s].step \in {"self", "copy"} => req'[s].group = req[s].group
  OBVIOUS
<1> QED
  BY <1>1, <1>2 DEF Fresh

\* While a move is under way nobody creates, so it is the only request.
LEMMA MoverAlone ==
  ASSUME Sound, ~muddled, NEW r \in Requests, Moving(r)
  PROVE  /\ MoveInv(r) /\ Fresh = {} /\ req[r].group \in Exists
         /\ \A q \in Requests \ {r} : req[q].step = "idle"
<1>1. MoveInv(r)
  BY DEF Sound, TreeInv
<1>2. \A q \in Requests \ {r} : req[q].step = "idle"
  BY <1>1 DEF MoveInv, Busy
<1>3. Fresh = {}
  BY <1>2 DEF Fresh, Moving
<1> QED
  BY <1>1, <1>2, <1>3 DEF MoveInv

\* A move keeps the invariant when its own next step is right.
LEMMA MoveStays ==
  ASSUME Sound, ~muddled, NEW r \in Requests, Moving(r),
         \A q \in Requests \ {r} : req'[q] = req[q],
         req'[r].step \notin {"self", "copy"}, req'[r].group = req[r].group,
         MoveInv(r)'
  PROVE  (\A q \in Requests : CreateInv(q)' /\ MoveInv(q)') /\ (Moving(r)' => MoveInFlight')
<1>1. \A q \in Requests \ {r} : req'[q].step = "idle"
  BY MoverAlone
<1>2. ASSUME NEW q \in Requests
      PROVE  CreateInv(q)'
  BY <1>1 DEF CreateInv
<1>3. ASSUME NEW q \in Requests \ {r}
      PROVE  MoveInv(q)'
  BY <1>1 DEF MoveInv, Moving
<1> QED
  BY <1>2, <1>3 DEF MoveInFlight

\* Starting a create.
LEMMA StartCreateStep ==
  ASSUME Sound, NEW r \in Requests, NEW p \in Groups \cup {Root}, StartCreate(r, p), ~muddled'
  PROVE  TreeInv'
<1> USE DEF Sound
<1>1. ~muddled /\ ~MoveInFlight
  BY DEF StartCreate, TreeTypeOK
<1>2. req'[r].step = "insert" /\ \A q \in Requests \ {r} : req'[q] = req[q]
  BY DEF StartCreate, TreeTypeOK, Idle
<1>3. req[r].step = "idle"
  BY DEF StartCreate, Busy
<1>4. Fresh' = Fresh /\ Exists' = Exists
  BY <1>2, <1>3, FreshStays, ExistsAfter DEF StartCreate
<1>5. ASSUME NEW q \in Requests
      PROVE  CreateInv(q)' /\ ~Moving(q)'
  <2>1. CreateInv(q)'
    BY <1>1, <1>2, CreateStays DEF TreeInv, StartCreate
  <2>2. ~Moving(q)'
    BY <1>1, <1>2 DEF Moving, MoveInFlight
  <2> QED
    BY <2>1, <2>2
<1>6. Flattens(closure', parent', Exists' \ Fresh')
  BY <1>1, <1>4 DEF TreeInv, StartCreate
<1> QED
  BY <1>5, <1>6 DEF TreeInv, MoveInv

\* The row of a new group is inserted: it has no rows in the closure yet.
LEMMA InsertRowStep ==
  ASSUME Sound, NEW r \in Requests, InsertRow(r), ~muddled'
  PROVE  TreeInv'
<1> USE DEF Sound
<1>1. ~muddled /\ req[r].step = "insert"
  BY DEF InsertRow
<1>2. ~MoveInFlight /\ Flattens(closure, parent, Exists \ Fresh)
  BY <1>1, Calm DEF Busy, Moving
<1>3. closure' = closure
  BY DEF InsertRow
<1>4. CASE Finish(r) /\ UNCHANGED parent
  <2>1. req'[r] = Idle /\ \A q \in Requests \ {r} : req'[q] = req[q]
    BY <1>4 DEF Finish, TreeTypeOK
  <2>2. req'[r].step = "idle"
    BY <2>1 DEF Idle
  <2>3. Fresh' = Fresh /\ Exists' = Exists
    BY <1>1, <1>4, <2>1, <2>2, FreshStays, ExistsAfter
  <2>4. ASSUME NEW q \in Requests
        PROVE  CreateInv(q)' /\ ~Moving(q)'
    <3>1. CreateInv(q)'
      BY <1>1, <1>3, <1>4, <2>1, <2>2, CreateStays DEF TreeInv
    <3>2. ~Moving(q)'
      BY <1>2, <2>1, <2>2 DEF Moving, MoveInFlight
    <3> QED
      BY <3>1, <3>2
  <2>5. Flattens(closure', parent', Exists' \ Fresh')
    BY <1>2, <1>3, <1>4, <2>3
  <2> QED
    BY <2>4, <2>5 DEF TreeInv, MoveInv
<1>5. ASSUME req[r].to \in Exists \cup {Root}, NEW g \in Groups, parent[g] = Unborn,
             parent' = [parent EXCEPT ![g] = req[r].to],
             req' = [req EXCEPT ![r].step = "self", ![r].group = g]
      PROVE  TreeInv'
  <2>1. g \notin Exists /\ g # req[r].to
    BY <1>5, Tidy
  <2>2. Exists' = Exists \cup {g}
    BY <1>5, ExistsAfter
  <2>3. /\ req'[r].step = "self" /\ req'[r].group = g /\ req'[r].to = req[r].to
        /\ \A q \in Requests \ {r} : req'[q] = req[q]
    BY <1>5 DEF TreeTypeOK
  <2>4. parent'[g] = req[r].to /\ \A h \in Groups \ {g} : parent'[h] = parent[h]
    BY <1>5 DEF TreeTypeOK
  <2>5. ASSUME NEW q \in Requests, req[q].step \in {"self", "copy"}
        PROVE  req[q].group # g /\ q # r /\ req'[q] = req[q]
    BY <1>1, <1>5, <2>3, <2>5 DEF TreeInv, CreateInv
  <2>6. {x \in closure : x[1] = g \/ x[2] = g} = {}
    BY <2>1, Tidy
  <2>7. parent'[g] # Unborn
    BY <1>5, <2>4, TreeAssumption DEF Exists
  <2>8. ASSUME NEW q \in Requests
        PROVE  CreateInv(q)'
    <3>1. CASE q = r
      <4>1. \A s \in Requests \ {r} : req'[s].step \in {"self", "copy"} => req'[s].group # g
        BY <2>3, <2>5
      <4> QED
        BY <1>3, <2>1, <2>3, <2>4, <2>6, <2>7, <3>1, <4>1 DEF CreateInv
    <3>2. CASE q # r /\ req[q].step \in {"self", "copy"}
      <4>1. CreateInv(q) /\ req'[q] = req[q] /\ req[q].group # g
        BY <1>1, <2>5, <3>2 DEF TreeInv
      <4>2. \A s \in Requests \ {q} : req'[s].step \in {"self", "copy"} => req'[s].group # req[q].group
        BY <2>3, <3>2, <4>1 DEF CreateInv
      <4>3. req[q].group \in Groups /\ parent'[req[q].group] = parent[req[q].group]
        BY <2>4, <3>2, <4>1 DEF CreateInv
      <4>4. req[q].group \in Exists' <=> req[q].group \in Exists
        BY <2>2, <4>1
      <4> QED
        BY <1>3, <3>2, <4>1, <4>2, <4>3, <4>4 DEF CreateInv
    <3>3. CASE q # r /\ req[q].step \notin {"self", "copy"}
      BY <2>3, <3>3 DEF CreateInv
    <3> QED
      BY <3>1, <3>2, <3>3
  <2>9. \A q \in Requests : ~Moving(q)'
    BY <1>2, <2>3 DEF Moving, MoveInFlight
  <2>10. Fresh' = Fresh \cup {g}
    <3>1. \A q \in Requests : req'[q].step \in {"self", "copy"} <=>
                                req[q].step \in {"self", "copy"} \/ q = r
      BY <1>1, <2>3
    <3> QED
      BY <1>1, <2>3, <2>5, <3>1 DEF Fresh
  <2>11. Exists' \ Fresh' = Exists \ Fresh
    BY <2>1, <2>2, <2>10
  <2>12. \A h \in Exists \ Fresh : parent'[h] = parent[h]
    BY <2>1, <2>4, Tidy
  <2>13. Flattens(closure', parent', Exists' \ Fresh')
    BY <1>2, <1>3, <2>11, <2>12, SamePointers
  <2> QED
    BY <2>8, <2>9, <2>13 DEF TreeInv, MoveInv
<1> QED
  BY <1>4, <1>5 DEF InsertRow

\* A request that leaves the creating steps takes its group out of the fresh ones.
LEMMA FreshLeaves ==
  ASSUME Sound, ~muddled, NEW r \in Requests, req[r].step \in {"self", "copy"},
         req'[r].step = "idle", \A q \in Requests \ {r} : req'[q] = req[q]
  PROVE  Fresh' = Fresh \ {req[r].group}
<1>1. \A q \in Requests \ {r} : req[q].step \in {"self", "copy"} => req[q].group # req[r].group
  BY DEF Sound, TreeInv, CreateInv
<1>2. \A q \in Requests : req'[q].step \in {"self", "copy"} <=>
                            req[q].step \in {"self", "copy"} /\ q # r
  OBVIOUS
<1> QED
  BY <1>1, <1>2 DEF Fresh

\* The other creating requests, when one of them writes rows that are not of their groups.
LEMMA OthersCreate ==
  ASSUME Sound, ~muddled, NEW r \in Requests, NEW q \in Requests \ {r},
         req'[q] = req[q], UNCHANGED parent,
         req'[r].step \in {"self", "copy"} => req'[r].group = req[r].group /\ Creating(r)
                                              /\ req[r].step # "insert",
         req[q].step \in {"self", "copy"} =>
           \A x \in (closure \cup closure') : x[1] = req[q].group \/ x[2] = req[q].group =>
             x \in closure /\ x \in closure',
         \A s \in Requests \ {r} : req'[s] = req[s]
  PROVE  CreateInv(q)'
<1> SUFFICES ASSUME req[q].step \in {"self", "copy"}
             PROVE  CreateInv(q)'
  BY DEF CreateInv
<1>1. CreateInv(q)
  BY DEF Sound, TreeInv
<1>2. Exists' = Exists
  BY DEF Exists
<1> DEFINE g == req[q].group
<1>3. {x \in closure' : x[1] = g \/ x[2] = g} = {x \in closure : x[1] = g \/ x[2] = g}
  OBVIOUS
<1>4. \A s \in Requests \ {q} : req'[s].step \in {"self", "copy"} => req'[s].group # g
  BY <1>1 DEF CreateInv, Creating
<1> QED
  BY <1>1, <1>2, <1>3, <1>4 DEF CreateInv

\* The row of the group itself.
LEMMA InsertSelfStep ==
  ASSUME Sound, NEW r \in Requests, InsertSelf(r), ~muddled'
  PROVE  TreeInv'
<1> USE DEF Sound
<1> DEFINE g == req[r].group
<1>1. ~muddled /\ req[r].step = "self" /\ parent' = parent
  BY DEF InsertSelf
<1>2. ~MoveInFlight /\ Flattens(closure, parent, Exists \ Fresh)
  BY <1>1, Calm DEF Busy, Moving
<1>3. /\ g \in Groups /\ req[r].to # g /\ parent[g] # Unborn
      /\ g \in Exists => parent[g] = req[r].to
      /\ {x \in closure : x[1] = g \/ x[2] = g} = {}
      /\ \A q \in Requests \ {r} : req[q].step \in {"self", "copy"} => req[q].group # g
  BY <1>1 DEF TreeInv, CreateInv
<1>4. Exists' = Exists /\ g \in Fresh
  BY <1>1, ExistsAfter DEF Fresh
<1>5. \A q \in Requests \ {r} : req'[q] = req[q]
  BY DEF InsertSelf, Finish, Advance, TreeTypeOK
<1>6. \A x \in closure : x[1] # g /\ x[2] # g
  BY <1>3
<1>7. CASE g \notin Exists
  <2>1. closure' = closure /\ req'[r].step = "idle"
    BY <1>7 DEF InsertSelf, Finish, Idle, TreeTypeOK
  <2>2. Fresh' = Fresh \ {g}
    BY <1>1, <1>5, <2>1, FreshLeaves
  <2>3. Exists' \ Fresh' = Exists \ Fresh
    BY <1>4, <1>7, <2>2
  <2>4. ASSUME NEW q \in Requests
        PROVE  CreateInv(q)' /\ ~Moving(q)'
    <3>1. CreateInv(q)'
      BY <1>1, <1>5, <2>1, CreateStays DEF TreeInv
    <3>2. ~Moving(q)'
      BY <1>2, <1>5, <2>1 DEF Moving, MoveInFlight
    <3> QED
      BY <3>1, <3>2
  <2> QED
    BY <1>1, <1>2, <2>1, <2>3, <2>4 DEF TreeInv, MoveInv
<1>8. CASE g \in Exists
  <2> DEFINE row == <<g, g, 0>>
  <2>1. closure' = closure \cup {row}
    BY <1>8 DEF InsertSelf
  <2>2. row[1] = g /\ row[2] = g
    OBVIOUS
  <2>3. {x \in closure' : x[1] = g \/ x[2] = g} = {row}
    BY <1>6, <2>1, <2>2
  <2>4. g \in Groups \ (Exists \ Fresh) /\ closure \in Tables /\ Exists \ Fresh \in SUBSET Groups
        /\ Root \notin Groups
    BY <1>3, <1>4, Tidy
  <2>5. Flattens(closure', parent, Exists \ Fresh)
    BY <1>2, <1>6, <2>1, <2>4, SelfFlattens
  <2>6. parent[g] = Root => Flattens(closure', parent, (Exists \ Fresh) \cup {g})
    BY <1>2, <1>6, <2>1, <2>4, SelfFlattens
  <2> HIDE DEF row
  <2>7. CASE req[r].to = Root
    <3>1. req'[r].step = "idle"
      BY <1>8, <2>7 DEF InsertSelf, Finish, Idle, TreeTypeOK
    <3>2. Fresh' = Fresh \ {g}
      BY <1>1, <1>5, <3>1, FreshLeaves
    <3>3. Exists' \ Fresh' = (Exists \ Fresh) \cup {g}
      BY <1>4, <1>8, <3>2
    <3>4. ASSUME NEW q \in Requests
          PROVE  CreateInv(q)' /\ ~Moving(q)'
      <4>1. CASE q = r
        BY <3>1, <4>1 DEF CreateInv, Moving
      <4>2. CASE q # r
        <5>1. CreateInv(q)'
          BY <1>1, <1>3, <1>5, <2>1, <2>2, <3>1, <4>2, OthersCreate
        <5>2. ~Moving(q)'
          BY <1>2, <1>5, <4>2 DEF Moving, MoveInFlight
        <5> QED
          BY <5>1, <5>2
      <4> QED
        BY <4>1, <4>2
    <3>5. Flattens(closure', parent', Exists' \ Fresh')
      BY <1>1, <1>3, <1>8, <2>6, <2>7, <3>3
    <3> QED
      BY <3>4, <3>5 DEF TreeInv, MoveInv
  <2>8. CASE req[r].to # Root
    <3>1. req'[r].step = "copy" /\ req'[r].group = g /\ req'[r].to = req[r].to
      BY <1>8, <2>8 DEF InsertSelf, Advance, TreeTypeOK
    <3>2. Fresh' = Fresh
      <4>1. \A q \in Requests : req'[q].step \in {"self", "copy"} <=> req[q].step \in {"self", "copy"}
        BY <1>1, <1>5, <3>1
      <4>2. \A q \in Requests : req'[q].group = req[q].group
        BY <1>5, <3>1
      <4> QED
        BY <4>1, <4>2 DEF Fresh
    <3>3. ASSUME NEW q \in Requests
          PROVE  CreateInv(q)' /\ ~Moving(q)'
      <4>1. CASE q = r
        <5>1. \A s \in Requests \ {r} : req'[s].step \in {"self", "copy"} => req'[s].group # g
          BY <1>3, <1>5
        <5>2. CreateInv(r)'
          BY <1>1, <1>3, <1>4, <1>8, <2>3, <2>8, <3>1, <5>1 DEF CreateInv, row
        <5> QED
          BY <3>1, <4>1, <5>2 DEF Moving
      <4>2. CASE q # r
        <5>1. CreateInv(q)'
          BY <1>1, <1>3, <1>5, <2>1, <2>2, <3>1, <4>2, OthersCreate DEF Creating
        <5>2. ~Moving(q)'
          BY <1>2, <1>5, <4>2 DEF Moving, MoveInFlight
        <5> QED
          BY <5>1, <5>2
      <4> QED
        BY <4>1, <4>2
    <3>4. Flattens(closure', parent', Exists' \ Fresh')
      BY <1>1, <1>4, <2>5, <3>2
    <3> QED
      BY <3>3, <3>4 DEF TreeInv, MoveInv
  <2> QED
    BY <2>7, <2>8
<1> QED
  BY <1>7, <1>8

\* The parent's rows, one deeper.
LEMMA CopyAncestorsStep ==
  ASSUME Sound, NEW r \in Requests, CopyAncestors(r), ~muddled'
  PROVE  TreeInv'
<1> USE DEF Sound
<1> DEFINE g == req[r].group
           p == req[r].to
           rows == PathsUnder(closure, p, g)
<1>1. ~muddled /\ p \notin Fresh /\ req[r].step = "copy" /\ parent' = parent
  BY DEF CopyAncestors, TreeTypeOK
<1>2. ~MoveInFlight /\ Flattens(closure, parent, Exists \ Fresh)
  BY <1>1, Calm DEF Busy, Moving
<1>3. /\ g \in Groups /\ p # g /\ p # Root
      /\ g \in Exists => parent[g] = p
      /\ {x \in closure : x[1] = g \/ x[2] = g} = IF g \in Exists THEN {<<g, g, 0>>} ELSE {}
      /\ \A q \in Requests \ {r} : req[q].step \in {"self", "copy"} => req[q].group # g
  BY <1>1 DEF TreeInv, CreateInv
<1>4. Exists' = Exists /\ g \in Fresh
  BY <1>1, ExistsAfter DEF Fresh
<1>5. req'[r].step = "idle" /\ \A q \in Requests \ {r} : req'[q] = req[q]
  BY DEF CopyAncestors, Finish, Idle, TreeTypeOK
<1>6. Fresh' = Fresh \ {g}
  BY <1>1, <1>5, FreshLeaves
<1>7. closure' = Accepted(closure, rows)
  BY DEF CopyAncestors
<1>8. \A q \in Requests : ~Moving(q)'
  BY <1>2, <1>5 DEF Moving, MoveInFlight
<1>9. \A x \in rows : x[2] = g
  BY DEF PathsUnder
<1>10. CASE g \notin Exists
  <2>1. closure' = closure
    <3>1. CASE rows = {}
      BY <1>7, <3>1 DEF Accepted
    <3>2. CASE rows # {}
      BY <1>7, <1>9, <1>10, <3>2 DEF Accepted
    <3> QED
      BY <3>1, <3>2
  <2>2. Exists' \ Fresh' = Exists \ Fresh
    BY <1>4, <1>6, <1>10
  <2>3. \A q \in Requests : CreateInv(q)'
    BY <1>1, <1>5, <2>1, CreateStays DEF TreeInv
  <2> QED
    BY <1>1, <1>2, <1>8, <2>1, <2>2, <2>3 DEF TreeInv, MoveInv
<1>11. CASE g \in Exists
  <2>1. p \in Exists \ Fresh /\ parent[g] = p
    BY <1>1, <1>3, <1>11, Tidy
  <2>2. <<g, g, 0>> \in closure /\ \A x \in closure : x[1] = g \/ x[2] = g => x = <<g, g, 0>>
    BY <1>3, <1>11
  <2>3. ASSUME NEW x \in rows
        PROVE  ~Linked(closure, x[1], x[2]) /\ x[1] \in Exists /\ x[2] \in Exists
    <3>1. PICK y \in closure : y[2] = p /\ x = <<y[1], g, y[3] + 1>>
      BY DEF PathsUnder
    <3>2. y[1] \in Exists /\ x[1] = y[1] /\ x[2] = g
      BY <3>1, Tidy
    <3>3. y # <<g, g, 0>>
      BY <1>3, <3>1
    <3>4. y[1] # g
      BY <2>2, <3>3
    <3>5. ~Linked(closure, y[1], g)
      <4> SUFFICES ASSUME NEW z \in closure, z[1] = y[1], z[2] = g
                   PROVE  FALSE
        BY DEF Linked
      <4>1. z = <<g, g, 0>>
        BY <2>2
      <4> QED
        BY <3>4, <4>1
    <3> QED
      BY <1>11, <3>2, <3>5
  <2>4. closure' = closure \cup rows
    BY <1>7, <2>3 DEF Accepted
  <2>5. Exists' \ Fresh' = (Exists \ Fresh) \cup {g}
    BY <1>4, <1>6, <1>11
  <2>6. g \in Groups \ (Exists \ Fresh) /\ closure \in Tables /\ Exists \ Fresh \in SUBSET Groups
        /\ Root \notin Groups
    BY <1>3, <1>4, Tidy
  <2>7. Flattens(closure', parent', Exists' \ Fresh')
    <3>1. Flattens(closure \cup PathsUnder(closure, p, g), parent, (Exists \ Fresh) \cup {g})
      BY <1>2, <2>1, <2>2, <2>6, CopyFlattens
    <3> QED
      BY <1>1, <2>4, <2>5, <3>1
  <2>8. ASSUME NEW q \in Requests
        PROVE  CreateInv(q)'
    <3>1. CASE q = r
      BY <1>5, <3>1 DEF CreateInv
    <3>2. CASE q # r
      <4>1. ASSUME req[q].step \in {"self", "copy"}, NEW x \in rows,
                   x[1] = req[q].group \/ x[2] = req[q].group
            PROVE  FALSE
        <5> DEFINE h == req[q].group
        <5>1. h # g /\ h \in Fresh
          BY <1>3, <3>2, <4>1 DEF Fresh
        <5>2. {z \in closure : z[1] = h \/ z[2] = h} \subseteq {<<h, h, 0>>}
          BY <1>1, <4>1 DEF TreeInv, CreateInv
        <5>3. PICK y \in closure : y[2] = p /\ x = <<y[1], g, y[3] + 1>>
          BY DEF PathsUnder
        <5>4. y[1] = h
          BY <4>1, <5>1, <5>3
        <5>5. y = <<h, h, 0>>
          BY <5>2, <5>4
        <5> QED
          BY <1>1, <5>1, <5>3, <5>5
      <4>2. req[q].step \in {"self", "copy"} =>
              \A x \in (closure \cup closure') : x[1] = req[q].group \/ x[2] = req[q].group =>
                x \in closure /\ x \in closure'
        BY <2>4, <4>1
      <4> QED
        BY <1>1, <1>5, <3>2, <4>2, OthersCreate
    <3> QED
      BY <3>1, <3>2
  <2> QED
    BY <1>8, <2>7, <2>8 DEF TreeInv, MoveInv
<1> QED
  BY <1>10, <1>11

\* Starting a move.
LEMMA StartMoveStep ==
  ASSUME Sound, NEW r \in Requests, NEW g \in Groups, NEW p \in Groups \cup {Root},
         StartMove(r, g, p), ~muddled'
  PROVE  TreeInv'
<1> USE DEF Sound
<1>1. ~muddled /\ \A q \in Requests : req[q].step = "idle"
  BY DEF StartMove, Busy, TreeTypeOK
<1>2. Flattens(closure, parent, Exists)
  <2>1. ~MoveInFlight /\ Fresh = {}
    BY <1>1 DEF MoveInFlight, Moving, Fresh
  <2> QED
    BY <1>1, <2>1 DEF TreeInv
<1>3. /\ req'[r].step = (IF p = Root THEN "collect" ELSE "check")
      /\ req'[r].group = g /\ req'[r].to = p
      /\ \A q \in Requests \ {r} : req'[q] = req[q]
  BY DEF StartMove, TreeTypeOK, Idle
<1>4. closure' = closure /\ parent' = parent /\ Exists' = Exists /\ g \in Exists
  BY ExistsAfter DEF StartMove
<1>5. [parent' EXCEPT ![g] = parent'[g]] = parent
  BY <1>4 DEF TreeTypeOK
<1>6. ASSUME NEW q \in Requests
      PROVE  CreateInv(q)'
  BY <1>1, <1>3 DEF CreateInv
<1>7. MoveInv(r)'
  BY <1>1, <1>2, <1>3, <1>4, <1>5 DEF MoveInv, Busy
<1>8. ASSUME NEW q \in Requests \ {r}
      PROVE  MoveInv(q)'
  BY <1>1, <1>3 DEF MoveInv, Moving
<1>9. MoveInFlight'
  BY <1>3 DEF MoveInFlight, Moving
<1> QED
  BY <1>6, <1>7, <1>8, <1>9 DEF TreeInv

\* A move that ends leaves every request idle.
LEMMA MoveEnds ==
  ASSUME Sound, ~muddled, NEW r \in Requests, Moving(r), Finish(r),
         Flattens(closure', parent', Exists')
  PROVE  TreeInv'
<1>1. \A q \in Requests : req'[q].step = "idle"
  BY MoverAlone DEF Finish, Idle, Sound, TreeTypeOK
<1>2. Fresh' = {}
  BY <1>1 DEF Fresh
<1> QED
  BY <1>1, <1>2 DEF TreeInv, CreateInv, MoveInv, Moving, MoveInFlight

\* A move that goes on.
LEMMA MoveGoesOn ==
  ASSUME Sound, ~muddled, NEW r \in Requests, Moving(r), NEW s \in Steps,
         s \in {"collect", "cut", "link", "set"}, Advance(r, s), MoveInv(r)'
  PROVE  TreeInv'
<1>1. req'[r].step = s /\ req'[r].group = req[r].group /\ \A q \in Requests \ {r} : req'[q] = req[q]
  BY DEF Advance, Sound, TreeTypeOK
<1>2. Moving(r)'
  BY <1>1 DEF Moving
<1> QED
  BY <1>1, <1>2, MoveStays DEF TreeInv

\* The check of the new parent.
LEMMA CheckMoveStep ==
  ASSUME Sound, NEW r \in Requests, CheckMove(r), ~muddled'
  PROVE  TreeInv'
<1> DEFINE g == req[r].group
           p == req[r].to
<1>1. ~muddled /\ req[r].step = "check" /\ Moving(r) /\ closure' = closure /\ parent' = parent
  BY DEF CheckMove, Moving
<1>2. Exists' = Exists
  BY <1>1, ExistsAfter DEF Sound
<1>3. /\ Flattens(closure, [parent EXCEPT ![g] = parent[g]], Exists) /\ g \in Exists
      /\ \A q \in Requests \ {r} : req[q].step = "idle"
  BY <1>1, MoverAlone DEF MoveInv
<1>4. [parent EXCEPT ![g] = parent[g]] = parent
  BY DEF Sound, TreeTypeOK
<1>5. CASE Finish(r)
  BY <1>1, <1>2, <1>3, <1>4, <1>5, MoveEnds
<1>6. CASE ~Linked(closure, g, p) /\ Advance(r, "collect")
  <2>1. /\ req'[r].step = "collect" /\ req'[r].group = g /\ req'[r].to = p
        /\ \A q \in Requests \ {r} : req'[q] = req[q]
    BY <1>6 DEF Advance, Sound, TreeTypeOK
  <2>2. MoveInv(r)'
    BY <1>1, <1>2, <1>3, <1>6, <2>1 DEF MoveInv, Busy
  <2> QED
    BY <1>1, <1>6, <2>2, MoveGoesOn DEF Steps
<1> QED
  BY <1>5, <1>6 DEF CheckMove

\* The subtree is read.
LEMMA CollectSubtreeStep ==
  ASSUME Sound, NEW r \in Requests, CollectSubtree(r), ~muddled'
  PROVE  TreeInv'
<1> DEFINE g == req[r].group
           p == req[r].to
<1>1. ~muddled /\ req[r].step = "collect" /\ Moving(r) /\ closure' = closure /\ parent' = parent
  BY DEF CollectSubtree, Moving
<1>2. Exists' = Exists
  BY <1>1, ExistsAfter DEF Sound
<1>3. /\ Flattens(closure, [parent EXCEPT ![g] = parent[g]], Exists) /\ g \in Exists
      /\ p = Root \/ ~Linked(closure, g, p)
      /\ \A q \in Requests \ {r} : req[q].step = "idle"
  BY <1>1, MoverAlone DEF MoveInv
<1>4. /\ req'[r].step = "cut" /\ req'[r].group = g /\ req'[r].to = p
      /\ req'[r].subtree = DescendantsIn(closure, g)
      /\ \A q \in Requests \ {r} : req'[q] = req[q]
  BY DEF CollectSubtree, Sound, TreeTypeOK
<1>5. DescendantsIn(closure', req'[r].group) = DescendantsIn(closure, g)
  BY <1>1, <1>4
<1>6. MoveInv(r)'
  BY <1>1, <1>2, <1>3, <1>4, <1>5 DEF MoveInv, Busy
<1> QED
  BY <1>1, <1>4, <1>6, MoveStays DEF TreeInv, Moving

\* The cut.
LEMMA CutSubtreeStep ==
  ASSUME Sound, NEW r \in Requests, CutSubtree(r), ~muddled'
  PROVE  TreeInv'
<1> DEFINE g == req[r].group
           p == req[r].to
<1>1. ~muddled /\ req[r].step = "cut" /\ Moving(r) /\ parent' = parent
  BY DEF CutSubtree, Moving
<1>2. Exists' = Exists
  BY <1>1, ExistsAfter DEF Sound
<1>3. /\ Flattens(closure, [parent EXCEPT ![g] = parent[g]], Exists) /\ g \in Exists
      /\ p = Root \/ ~Linked(closure, g, p)
      /\ req[r].subtree = DescendantsIn(closure, g)
      /\ \A q \in Requests \ {r} : req[q].step = "idle"
  BY <1>1, MoverAlone DEF MoveInv
<1>4. [parent EXCEPT ![g] = parent[g]] = parent
      /\ parent \in [Groups -> Groups \cup {Root, Unborn, Gone}]
  BY DEF Sound, TreeTypeOK
<1>5. closure' = CutRows(closure, DescendantsIn(closure, g))
  BY <1>3 DEF CutSubtree
<1>6. Flattens(closure', [parent EXCEPT ![g] = Root], Exists)
  <2>1. closure \in Tables /\ Exists \in SUBSET Groups /\ Root \notin Groups
    BY Tidy
  <2> HIDE DEF g
  <2> QED
    BY <1>3, <1>4, <1>5, <2>1, CutFlattens
<1>7. p = Root \/ ~Linked(closure', g, p)
  BY <1>3, <1>5 DEF CutRows, Linked
<1>8. PICK s \in {"set", "link"} : Advance(r, s) /\ s = (IF p = Root THEN "set" ELSE "link")
  BY DEF CutSubtree
<1>9. /\ req'[r].step = s /\ req'[r].group = g /\ req'[r].to = p
      /\ \A q \in Requests \ {r} : req'[q] = req[q]
  BY <1>8 DEF Advance, Sound, TreeTypeOK
<1>10. MoveInv(r)'
  BY <1>1, <1>2, <1>3, <1>6, <1>7, <1>8, <1>9 DEF MoveInv, Busy
<1> QED
  BY <1>1, <1>8, <1>10, MoveGoesOn DEF Steps

\* The link.
LEMMA LinkSubtreeStep ==
  ASSUME Sound, NEW r \in Requests, LinkSubtree(r), ~muddled'
  PROVE  TreeInv'
<1> DEFINE g == req[r].group
           p == req[r].to
           rows == CrossRows(closure, p, g)
           cut == [parent EXCEPT ![g] = Root]
<1>1. /\ ~muddled /\ req[r].step = "link" /\ Moving(r) /\ parent' = parent
      /\ closure' = Accepted(closure, rows)
      /\ closure' # closure \/ rows = {}
      /\ Advance(r, "set")
  BY DEF LinkSubtree, Moving, Sound, TreeTypeOK
<1>2. Exists' = Exists
  BY <1>1, ExistsAfter DEF Sound
<1>3. /\ Flattens(closure, cut, Exists) /\ g \in Exists
      /\ p = Root \/ ~Linked(closure, g, p)
      /\ \A q \in Requests \ {r} : req[q].step = "idle"
  BY <1>1, MoverAlone DEF MoveInv
<1>4. /\ closure \in Tables /\ Exists \in SUBSET Groups /\ Root \notin Groups
  BY Tidy
<1>5. cut \in [Groups -> Groups \cup {Root, Unborn, Gone}] /\ cut[g] = Root
  BY <1>3, <1>4 DEF Sound, TreeTypeOK
<1>6. ASSUME NEW to, to = p
      PROVE  [cut EXCEPT ![g] = to] = [parent EXCEPT ![g] = to]
  BY DEF Sound, TreeTypeOK
<1>7. p \in Exists \cup {Root} => Flattens(closure', [parent EXCEPT ![g] = p], Exists)
  <2>1. CASE p = Root
    <3>1. \A x \in closure : x[2] # p
      BY <1>4, <2>1, Triple
    <3>2. rows = {}
      <4> DEFINE A == {z \in closure : z[2] = p}
                 B == {z \in closure : z[1] = g}
      <4>1. rows = {<<x[1], y[2], x[3] + y[3] + 1>> : x \in A, y \in B}
        BY DEF CrossRows
      <4>2. A = {}
        BY <3>1
      <4> HIDE DEF A, B
      <4> QED
        BY <4>1, <4>2
    <3>3. closure' = closure
      BY <1>1, <3>2 DEF Accepted
    <3> QED
      BY <1>3, <2>1, <3>3
  <2>2. CASE p \in Exists
    <3>1. p # Root /\ ~Linked(closure, g, p)
      BY <1>3, <1>4, <2>2
    <3>2. rows # {}
      <4>1. g \in Groups /\ p \in Groups
        BY <1>3, <1>4, <2>2
      <4> HIDE DEF g, p, cut
      <4>3. <<p, p, 0>> \in closure /\ <<g, g, 0>> \in closure
        BY <1>3, <1>4, <2>2, OwnRow
      <4>4. \E i, j \in Nat : <<p, p, i>> \in closure /\ <<g, g, j>> \in closure /\ 1 = i + j + 1
        <5>1. 0 \in Nat /\ 1 = 0 + 0 + 1
          OBVIOUS
        <5> QED
          BY <4>3, <5>1
      <4>5. <<p, g, 1>> \in rows
        BY <1>4, <4>4, CrossRow, Zenon
      <4> QED
        BY <4>5
    <3>3. closure' = closure \cup rows /\ \A x \in rows : ~Linked(closure, x[1], x[2])
      BY <1>1, <3>2, Zenon DEF Accepted
    <3>4. Flattens(closure \cup rows, [cut EXCEPT ![g] = p], Exists)
      <4> HIDE DEF g, p, cut
      <4> QED
        BY <1>3, <1>4, <1>5, <2>2, <3>1, <3>3, LinkFlattens
    <3> QED
      BY <1>6, <3>3, <3>4
  <2> QED
    BY <2>1, <2>2
<1>8. /\ req'[r].step = "set" /\ req'[r].group = g /\ req'[r].to = p
      /\ \A q \in Requests \ {r} : req'[q] = req[q]
  BY <1>1 DEF Advance, Sound, TreeTypeOK
<1>9. MoveInv(r)'
  <2> HIDE DEF g, p, rows, cut
  <2> QED
    BY <1>1, <1>2, <1>3, <1>7, <1>8 DEF MoveInv, Busy, g, p
<1> QED
  BY <1>1, <1>9, MoveGoesOn DEF Steps

\* The pointer is set.
LEMMA SetParentStep ==
  ASSUME Sound, NEW r \in Requests, SetParent(r), ~muddled'
  PROVE  TreeInv'
<1> DEFINE g == req[r].group
           p == req[r].to
<1>1. ~muddled /\ req[r].step = "set" /\ Moving(r) /\ p \in Exists \cup {Root}
      /\ closure' = closure /\ Finish(r)
  BY DEF SetParent, Moving, Sound, TreeTypeOK
<1>2. Exists' = Exists
  BY ExistsAfter DEF Sound
<1>3. Flattens(closure, [parent EXCEPT ![g] = p], Exists) /\ g \in Exists
  BY <1>1, MoverAlone DEF MoveInv
<1>4. parent' = [parent EXCEPT ![g] = p]
  BY <1>1, <1>3 DEF SetParent
<1> QED
  BY <1>1, <1>2, <1>3, <1>4, MoveEnds

\* A group is deleted with everything under it.
LEMMA DeleteGroupStep ==
  ASSUME Sound, NEW g \in Groups, DeleteGroup(g), ~muddled'
  PROVE  TreeInv'
<1> DEFINE X == Cascade(g)
<1>1. ~muddled /\ ~MoveInFlight /\ req' = req
  BY DEF DeleteGroup, Sound, TreeTypeOK
<1>2. Flattens(closure, parent, Exists \ Fresh)
  BY <1>1 DEF Sound, TreeInv
<1>3. /\ parent' = [x \in Groups |-> IF x \in X THEN Gone ELSE parent[x]]
      /\ closure' = {x \in closure : x[1] \notin X /\ x[2] \notin X}
  BY DEF DeleteGroup
<1>4. Exists' = Exists \ X /\ Fresh' = Fresh
  BY <1>1, ExistsAfter DEF Sound, Fresh
<1>5. /\ X \subseteq Exists
      /\ \A y \in Exists : parent[y] \in X => y \in X
  BY CascadeClosed
<1> HIDE DEF X
<1>6. \A q \in Requests : ~Moving(q)'
  BY <1>1 DEF Moving, MoveInFlight
<1>7. ASSUME NEW q \in Requests
      PROVE  CreateInv(q)'
  <2> DEFINE h == req[q].group
  <2> SUFFICES ASSUME req[q].step \in {"self", "copy"}
               PROVE  CreateInv(q)'
    BY <1>1 DEF CreateInv
  <2>1. /\ h \in Groups /\ req[q].to # h /\ parent[h] # Unborn
        /\ req[q].step = "copy" => req[q].to # Root
        /\ h \in Exists => parent[h] = req[q].to
        /\ {x \in closure : x[1] = h \/ x[2] = h} =
             IF req[q].step = "copy" /\ h \in Exists THEN {<<h, h, 0>>} ELSE {}
        /\ \A s \in Requests \ {q} : req[s].step \in {"self", "copy"} => req[s].group # h
    BY <1>1 DEF Sound, TreeInv, CreateInv
  <2>2. CASE h \in X
    <3>1. parent'[h] # Unborn /\ h \notin Exists'
      BY <1>3, <1>4, <2>1, <2>2, TreeAssumption
    <3>2. {x \in closure' : x[1] = h \/ x[2] = h} = {}
      BY <1>3, <2>2
    <3> QED
      BY <1>1, <2>1, <3>1, <3>2 DEF CreateInv
  <2>3. CASE h \notin X
    <3>1. parent'[h] = parent[h] /\ (h \in Exists' <=> h \in Exists)
      BY <1>3, <1>4, <2>1, <2>3
    <3>2. {x \in closure' : x[1] = h \/ x[2] = h} = {x \in closure : x[1] = h \/ x[2] = h}
      <4>1. ASSUME NEW x \in closure, x[1] = h \/ x[2] = h
            PROVE  x \in closure'
        <5>1. x = <<h, h, 0>>
          BY <2>1, <4>1
        <5>2. x[1] = h /\ x[2] = h
          BY <5>1
        <5> QED
          BY <1>3, <2>3, <5>2
      <4>2. closure' \subseteq closure
        BY <1>3
      <4> QED
        BY <4>1, <4>2
    <3> QED
      BY <1>1, <2>1, <3>1, <3>2 DEF CreateInv
  <2> QED
    BY <2>2, <2>3
<1>8. Flattens(closure', parent', Exists' \ Fresh')
  <2>1. \A h \in (Exists \ Fresh) \ X : parent[h] \notin X
    BY <1>5
  <2>2. closure \in Tables /\ Exists \ Fresh \in SUBSET Groups /\ Root \notin Groups
    BY Tidy
  <2>3. Flattens(closure', parent, (Exists \ Fresh) \ X)
    BY <1>2, <1>3, <2>1, <2>2, DeleteFlattens
  <2>4. \A h \in (Exists \ Fresh) \ X : parent'[h] = parent[h]
    BY <1>3, <2>2
  <2>5. Exists' \ Fresh' = (Exists \ Fresh) \ X
    BY <1>4
  <2> QED
    BY <2>3, <2>4, <2>5, SamePointers
<1> QED
  BY <1>6, <1>7, <1>8 DEF TreeInv, MoveInv

\* A restart that cuts nothing short leaves a table that is right.
LEMMA CrashTreeStep ==
  ASSUME Sound, CrashTree, ~muddled'
  PROVE  TreeInv'
<1>1. /\ ~muddled /\ parent' = parent /\ closure' = closure
      /\ \A r \in Requests : req[r].step \notin {"self", "copy", "link", "set"}
  BY DEF CrashTree, Sound, TreeTypeOK
<1>2. \A r \in Requests : req'[r].step = "idle"
  BY DEF CrashTree, Idle
<1>3. Exists' = Exists /\ Fresh' = {}
  BY <1>1, <1>2, ExistsAfter DEF Sound, Fresh
<1>4. Flattens(closure, parent, Exists)
  <2>1. CASE MoveInFlight
    <3>1. PICK r \in Requests : Moving(r)
      BY <2>1 DEF MoveInFlight
    <3>2. req[r].step \in {"check", "collect", "cut"}
      BY <1>1, <3>1 DEF Moving
    <3>3. Flattens(closure, [parent EXCEPT ![req[r].group] = parent[req[r].group]], Exists)
      BY <1>1, <3>1, <3>2, MoverAlone DEF MoveInv
    <3>4. [parent EXCEPT ![req[r].group] = parent[req[r].group]] = parent
      BY DEF Sound, TreeTypeOK
    <3> QED
      BY <3>3, <3>4
  <2>2. CASE ~MoveInFlight
    <3>1. Fresh = {}
      BY <1>1 DEF Fresh
    <3> QED
      BY <1>1, <2>2, <3>1 DEF Sound, TreeInv
  <2> QED
    BY <2>1, <2>2
<1> QED
  BY <1>1, <1>2, <1>3, <1>4 DEF TreeInv, CreateInv, MoveInv, Moving, MoveInFlight

\* Every step keeps the table following the parents.
LEMMA TreeStepKeeps ==
  ASSUME Sound, [TreeNext]_treeVars
  PROVE  TreeInv'
<1> SUFFICES ASSUME ~muddled'
             PROVE  TreeInv'
  BY DEF TreeInv
<1>1. ASSUME NEW r \in Requests, TreeStep(r)
      PROVE  TreeInv'
  BY <1>1, StartCreateStep, InsertRowStep, InsertSelfStep, CopyAncestorsStep, StartMoveStep,
     CheckMoveStep, CollectSubtreeStep, CutSubtreeStep, LinkSubtreeStep, SetParentStep DEF TreeStep
<1>2. CASE UNCHANGED treeVars
  <2>1. /\ parent' = parent /\ closure' = closure /\ req' = req /\ ~muddled
        /\ Exists' = Exists /\ Fresh' = Fresh
    BY <1>2 DEF treeVars, Exists, Fresh
  <2>2. ASSUME NEW r \in Requests
        PROVE  CreateInv(r)' /\ MoveInv(r)'
    <3>1. CreateInv(r) /\ MoveInv(r)
      BY <2>1 DEF Sound, TreeInv
    <3>2. CreateInv(r)'
      BY <2>1, <3>1 DEF CreateInv
    <3>3. MoveInv(r)'
      BY <2>1, <3>1 DEF MoveInv, Moving, Busy
    <3> QED
      BY <3>2, <3>3
  <2>3. ~MoveInFlight' => Flattens(closure', parent', Exists' \ Fresh')
    BY <2>1 DEF Sound, TreeInv, MoveInFlight, Moving
  <2> QED
    BY <2>2, <2>3 DEF TreeInv
<1> QED
  BY <1>1, <1>2, DeleteGroupStep, CrashTreeStep DEF TreeNext

-----------------------------------------------------------------------------
(***************************************************************************)
(* The table is the tree.  The reference walks the parent pointers, and so *)
(* these proofs go by induction on the length of a path, in the form that  *)
(* needs no operator as a parameter: a set of numbers that holds 0 and,    *)
(* with every number, the next one.                                        *)
(***************************************************************************)
\* A set of numbers has a least one.
LEMMA Least ==
  ASSUME NEW T \in SUBSET Nat, T # {}
  PROVE  \E n \in T : \A m \in T : n <= m
<1> DEFINE R == OpToRel(<, Nat)
<1>1. IsWellFoundedOn(R, Nat)
  BY NatLessThanWellFounded
<1>2. ASSUME NEW m \in Nat, NEW n \in Nat, m < n
      PROVE  <<m, n>> \in R
  BY <1>2 DEF OpToRel
<1> HIDE DEF R
<1>3. PICK n \in T : \A m \in T : ~(<<m, n>> \in R)
  BY <1>1, WFMin
<1>4. ASSUME NEW m \in T
      PROVE  n <= m
  <2>1. m \in Nat /\ n \in Nat /\ ~(m < n)
    BY <1>2, <1>3
  <2> QED
    BY <2>1
<1> QED
  BY <1>4

\* Induction over a set.
LEMMA SetInduction ==
  ASSUME NEW T, 0 \in T, \A n \in Nat : n \in T => n + 1 \in T
  PROVE  Nat \subseteq T
<1> SUFFICES ASSUME NEW k \in Nat, k \notin T
             PROVE  FALSE
  OBVIOUS
<1> DEFINE U == {n \in Nat : n \notin T}
<1>1. U \in SUBSET Nat /\ U # {}
  OBVIOUS
<1> HIDE DEF U
<1>2. PICK n \in U : \A m \in U : n <= m
  BY <1>1, Least
<1>3. n \in Nat /\ n # 0 /\ n \notin T
  BY DEF U
<1>4. n - 1 \in Nat /\ ~(n <= n - 1) /\ (n - 1) + 1 = n
  BY <1>3
<1>5. n - 1 \in T
  BY <1>2, <1>4 DEF U
<1> QED
  BY <1>3, <1>4, <1>5

\* The walk up the tree is well defined: its definition has a solution.
LEMMA AboveDefined ==
  /\ \A g \in Ids : Above(g, 0) = g
  /\ \A n \in 0..Cardinality(Groups), g \in Ids :
       n # 0 => Above(g, n) = Up(Above(g, n - 1))
<1> DEFINE First == [g \in Ids |-> g]
           Further(f) == [g \in Ids |-> Up(f[g])]
           Walk(f, n) == IF n = 0 THEN First ELSE Further(f[n - 1])
           T == {m \in Nat : \E f : f = [n \in 0..m |-> Walk(f, n)]}
           K == Cardinality(Groups)
<1>1. K \in Nat
  BY GroupsAssumption, FS_CardinalityType
<1> HIDE DEF First, Further
<1>2. 0 \in T
  <2> DEFINE f == [n \in 0..0 |-> First]
  <2>1. \A n \in 0..0 : Walk(f, n) = First
    OBVIOUS
  <2>2. f = [n \in 0..0 |-> Walk(f, n)]
    BY <2>1
  <2> QED
    BY <2>2
<1>3. ASSUME NEW m \in Nat, m \in T
      PROVE  m + 1 \in T
  <2>1. PICK f : f = [n \in 0..m |-> Walk(f, n)]
    BY <1>3
  <2> DEFINE h == [n \in 0..(m + 1) |-> IF n <= m THEN f[n] ELSE Further(f[m])]
  <2>2. ASSUME NEW n \in 0..(m + 1)
        PROVE  h[n] = Walk(h, n)
    <3>1. CASE n = 0
      <4>1. h[0] = f[0] /\ 0 \in 0..m
        BY <3>1
      <4>2. f[0] = First
        BY <2>1, <4>1
      <4> QED
        BY <3>1, <4>1, <4>2
    <3>2. CASE n # 0 /\ n <= m
      <4>1. n \in 0..m /\ n - 1 \in 0..m /\ n - 1 \in 0..(m + 1)
        BY <3>2
      <4>2. h[n] = f[n] /\ h[n - 1] = f[n - 1]
        BY <3>2, <4>1
      <4>3. f[n] = Further(f[n - 1])
        BY <2>1, <3>2, <4>1
      <4> QED
        BY <3>2, <4>2, <4>3
    <3>3. CASE n = m + 1
      <4>1. n # 0 /\ n - 1 = m /\ ~(n <= m) /\ m \in 0..(m + 1)
        BY <3>3
      <4>2. h[n] = Further(f[m]) /\ h[m] = f[m]
        BY <4>1
      <4> QED
        BY <4>1, <4>2
    <3> QED
      BY <3>1, <3>2, <3>3
  <2>3. h = [n \in 0..(m + 1) |-> Walk(h, n)]
    <3> DEFINE w == [n \in 0..(m + 1) |-> Walk(h, n)]
    <3>1. \A n \in 0..(m + 1) : h[n] = w[n]
      BY <2>2
    <3> QED
      BY <3>1
  <2> HIDE DEF h
  <2> QED
    BY <2>3
<1> HIDE DEF T
<1>4. K \in T
  BY <1>1, <1>2, <1>3, SetInduction
<1>5. \E f : f = [n \in 0..K |-> Walk(f, n)]
  BY <1>4 DEF T
<1>6. AllAbove = [n \in 0..K |-> Walk(AllAbove, n)]
  BY <1>5, Zenon DEF AllAbove, First, Further
<1>7. 0 \in 0..K /\ AllAbove[0] = First
  BY <1>1, <1>6
<1>8. ASSUME NEW n \in 0..K, n # 0
      PROVE  AllAbove[n] = Further(AllAbove[n - 1])
  BY <1>6, <1>8
<1>9. \A g \in Ids : Above(g, 0) = g
  BY <1>7 DEF Above, First
<1>10. ASSUME NEW n \in 0..K, NEW g \in Ids, n # 0
       PROVE  Above(g, n) = Up(Above(g, n - 1))
  BY <1>8, <1>10 DEF Above, Further
<1> QED
  BY <1>9, <1>10

\* Walking one group further from g is walking from its parent; above a root there is none.
LEMMA AboveParent ==
  ASSUME TreeTypeOK
  PROVE  \A n \in Nat : n + 1 <= Cardinality(Groups) =>
           /\ \A g \in Groups : Above(g, n + 1) = Above(parent[g], n)
           /\ Above(Root, n) = Root
<1> DEFINE K == Cardinality(Groups)
           Shifts(n) == /\ \A g \in Groups : Above(g, n + 1) = Above(parent[g], n)
                        /\ Above(Root, n) = Root
           T == {n \in Nat : n + 1 <= K => Shifts(n)}
<1>1. K \in Nat
  BY GroupsAssumption, FS_CardinalityType
<1>2. /\ Root \in Ids /\ Up(Root) = Root
      /\ \A g \in Groups : g \in Ids /\ parent[g] \in Ids /\ Up(g) = parent[g]
  BY TreeAssumption DEF TreeTypeOK, Ids, Up
<1> HIDE DEF K
<1>3. ASSUME NEW n \in Nat, n + 1 <= K
      PROVE  /\ n + 1 \in 0..K /\ n + 1 # 0 /\ (n + 1) - 1 = n /\ n \in 0..K
  BY <1>1, <1>3
<1>4. ASSUME NEW n \in Nat, n + 1 <= K, NEW g \in Ids
      PROVE  Above(g, n + 1) = Up(Above(g, n))
  BY <1>3, <1>4, AboveDefined DEF K
<1>5. 0 \in T
  <2> SUFFICES ASSUME 0 + 1 <= K
               PROVE  Shifts(0)
    OBVIOUS
  <2>1. \A g \in Ids : Above(g, 0) = g
    BY AboveDefined
  <2>2. ASSUME NEW g \in Groups
        PROVE  Above(g, 0 + 1) = Above(parent[g], 0)
    <3>1. Above(g, 0 + 1) = Up(Above(g, 0))
      BY <1>2, <1>4
    <3> QED
      BY <1>2, <2>1, <3>1
  <2> QED
    BY <1>2, <2>1, <2>2
<1>6. ASSUME NEW n \in Nat, n \in T
      PROVE  n + 1 \in T
  <2> SUFFICES ASSUME (n + 1) + 1 <= K
               PROVE  Shifts(n + 1)
    OBVIOUS
  <2>1. n + 1 \in Nat /\ n + 1 <= K
    BY <1>1
  <2>2. Shifts(n)
    BY <1>6, <2>1
  <2>3. ASSUME NEW g \in Groups
        PROVE  Above(g, (n + 1) + 1) = Above(parent[g], n + 1)
    <3>1. Above(g, (n + 1) + 1) = Up(Above(g, n + 1))
      BY <1>2, <1>4, <2>1
    <3>2. Above(parent[g], n + 1) = Up(Above(parent[g], n))
      BY <1>2, <1>4, <2>1
    <3> QED
      BY <2>2, <3>1, <3>2
  <2>4. Above(Root, n + 1) = Root
    BY <1>2, <1>4, <2>1, <2>2
  <2> QED
    BY <2>3, <2>4
<1> HIDE DEF T, Shifts
<1>7. Nat \subseteq T
  BY <1>5, <1>6, SetInduction
<1> QED
  BY <1>7 DEF T, Shifts, K

\* A path is shorter than the number of groups: a group is not among its ancestors.
LEMMA DepthBound ==
  ASSUME NEW c \in Tables, NEW done \in SUBSET Groups, NEW par, Flattens(c, par, done)
  PROVE  \A n \in Nat, g \in done, a \in Groups :
           <<a, g, n>> \in c => n + 1 <= Cardinality(AncestorsIn(c, g))
<1> DEFINE Deep(n, g) == \E a \in Groups : <<a, g, n>> \in c
           Many(n, g) == n + 1 <= Cardinality(AncestorsIn(c, g))
           T == {n \in Nat : \A g \in done : Deep(n, g) => Many(n, g)}
<1>1. Parents(par, done) /\ RowsOf(c, par, done) /\ OneWay(c) /\ OneDepth(c) /\ Chained(c)
  BY FlattensRows
<1>2. ASSUME NEW g \in Groups
      PROVE  IsFiniteSet(AncestorsIn(c, g)) /\ Cardinality(AncestorsIn(c, g)) \in Nat
  <2>1. AncestorsIn(c, g) \in SUBSET Groups
    BY DEF AncestorsIn
  <2> QED
    BY <2>1, GroupsAssumption, FS_Subset, FS_CardinalityType
<1>3. \A g \in done : g \in Groups /\ <<g, g, 0>> \in c
  BY OwnRow
<1>4. \A a, g \in Groups : a \in AncestorsIn(c, g) <=> \E d \in Nat : <<a, g, d>> \in c
  BY LinkedRow DEF AncestorsIn
<1>5. 0 \in T
  <2> SUFFICES ASSUME NEW g \in done
               PROVE  Many(0, g)
    OBVIOUS
  <2>1. g \in AncestorsIn(c, g)
    BY <1>3, <1>4
  <2>2. Cardinality(AncestorsIn(c, g)) # 0
    BY <1>2, <1>3, <2>1, FS_EmptySet
  <2> QED
    BY <1>2, <1>3, <2>2
<1>6. ASSUME NEW n \in Nat, n \in T
      PROVE  n + 1 \in T
  <2>1. n + 1 \in Nat /\ n + 1 # 0 /\ (n + 1) - 1 = n
    OBVIOUS
  <2> SUFFICES ASSUME NEW g \in done, NEW a \in Groups, <<a, g, n + 1>> \in c
               PROVE  Many(n + 1, g)
    BY <2>1, Zenon
  <2> DEFINE p == par[g]
             A == AncestorsIn(c, p)
  <2>2. p \in Groups /\ <<a, p, n>> \in c
    BY <1>1, <2>1 DEF RowsOf
  <2>3. p \in done
    BY <1>1, <2>2, TreeAssumption DEF Parents
  <2>4. n + 1 <= Cardinality(A)
    BY <1>6, <2>2, <2>3
  <2>5. <<p, g, 1>> \in c
    <3>1. 1 \in Nat /\ 1 # 0 /\ 1 - 1 = 0 /\ <<p, p, 0>> \in c
      BY <1>3, <2>3
    <3> QED
      BY <1>1, <2>2, <3>1 DEF RowsOf
  <2>6. g \notin A
    <3> SUFFICES ASSUME g \in A
                 PROVE  FALSE
      OBVIOUS
    <3>1. Linked(c, g, p) /\ Linked(c, p, g)
      BY <1>3, <1>4, <2>2, <2>5, LinkedRow
    <3>2. g = p
      BY <1>1, <1>3, <2>2, <3>1 DEF OneWay
    <3>3. <<g, g, 0>> \in c /\ <<g, g, 1>> \in c
      BY <1>3, <2>5, <3>2
    <3>4. 0 = 1
      BY <1>1, <1>3, <3>3 DEF OneDepth
    <3> QED
      BY <3>4
  <2>7. A \cup {g} \in SUBSET AncestorsIn(c, g)
    <3>1. ASSUME NEW b \in A
          PROVE  b \in AncestorsIn(c, g)
      <4>1. b \in Groups /\ Linked(c, b, p) /\ Linked(c, p, g)
        BY <1>3, <1>4, <2>2, <2>5, LinkedRow DEF AncestorsIn
      <4> QED
        BY <1>1, <1>3, <2>2, <4>1 DEF Chained, AncestorsIn
    <3>2. g \in AncestorsIn(c, g)
      BY <1>3, <1>4
    <3> QED
      BY <3>1, <3>2
  <2>8. IsFiniteSet(A) /\ Cardinality(A) \in Nat
    BY <1>2, <2>2
  <2> HIDE DEF A
  <2>9. Cardinality(A \cup {g}) = Cardinality(A) + 1
    BY <2>6, <2>8, FS_AddElement
  <2>10. /\ IsFiniteSet(AncestorsIn(c, g)) /\ Cardinality(AncestorsIn(c, g)) \in Nat
         /\ Cardinality(A \cup {g}) <= Cardinality(AncestorsIn(c, g))
    BY <1>2, <1>3, <2>7, FS_Subset
  <2> QED
    BY <2>4, <2>8, <2>9, <2>10
<1> HIDE DEF T
<1>7. Nat \subseteq T
  BY <1>5, <1>6, SetInduction
<1> QED
  BY <1>7 DEF T

\* The rows of the groups that are done are the walks up the tree.
LEMMA RowsAreWalks ==
  ASSUME TreeTypeOK, NEW done \in SUBSET Groups, Flattens(closure, parent, done)
  PROVE  \A n \in 0..Cardinality(Groups), g \in done, a \in Groups :
           <<a, g, n>> \in closure <=> a = Above(g, n)
<1> DEFINE K == Cardinality(Groups)
           Walks(n) == \A g \in done, a \in Groups : <<a, g, n>> \in closure <=> a = Above(g, n)
           T == {n \in Nat : n <= K => Walks(n)}
<1>1. closure \in Tables /\ Root \notin Groups /\ K \in Nat
  BY TreeAssumption, GroupsAssumption, FS_CardinalityType DEF TreeTypeOK, Tables
<1>2. Parents(parent, done) /\ RowsOf(closure, parent, done)
  BY <1>1, FlattensRows
<1>3. \A g \in done : g \in Groups /\ g \in Ids
  BY DEF Ids
<1> HIDE DEF K
<1>4. 0 \in T
  <2> SUFFICES ASSUME NEW g \in done, NEW a \in Groups
               PROVE  <<a, g, 0>> \in closure <=> a = Above(g, 0)
    OBVIOUS
  <2>1. Above(g, 0) = g
    BY <1>3, AboveDefined
  <2> QED
    BY <1>2, <2>1 DEF RowsOf
<1>5. ASSUME NEW n \in Nat, n \in T
      PROVE  n + 1 \in T
  <2>1. n + 1 \in Nat /\ n + 1 # 0 /\ (n + 1) - 1 = n
    OBVIOUS
  <2> SUFFICES ASSUME n + 1 <= K, NEW g \in done, NEW a \in Groups
               PROVE  <<a, g, n + 1>> \in closure <=> a = Above(g, n + 1)
    BY <2>1, Zenon
  <2>2. n <= K
    BY <1>1
  <2>3. Walks(n)
    BY <1>5, <2>2
  <2>4. <<a, g, n + 1>> \in closure <=> parent[g] \in Groups /\ <<a, parent[g], n>> \in closure
    BY <1>2, <2>1 DEF RowsOf
  <2>5. Above(g, n + 1) = Above(parent[g], n) /\ Above(Root, n) = Root
    BY <1>3, AboveParent DEF K
  <2>6. parent[g] \in done \cup {Root}
    BY <1>2 DEF Parents
  <2>7. CASE parent[g] = Root
    BY <1>1, <2>4, <2>5, <2>7
  <2>8. CASE parent[g] \in done
    BY <1>3, <2>3, <2>4, <2>5, <2>8
  <2> QED
    BY <2>6, <2>7, <2>8
<1> HIDE DEF T, Walks
<1>6. Nat \subseteq T
  BY <1>4, <1>5, SetInduction
<1>7. ASSUME NEW n \in 0..K
      PROVE  Walks(n)
  <2>1. n \in Nat /\ n <= K
    BY <1>1
  <2> QED
    BY <1>6, <2>1 DEF T
<1> QED
  BY <1>7 DEF Walks, K

\* Outside a move the tree is flattened for all groups but the fresh ones.
LEMMA SettledTree ==
  ASSUME Sound, ~muddled, NoMoveUnderWay
  PROVE  Flattens(closure, parent, Exists \ Fresh)
<1>1. CASE ~MoveInFlight
  BY <1>1 DEF Sound, TreeInv
<1>2. CASE MoveInFlight
  <2>1. PICK r \in Requests : Moving(r)
    BY <1>2 DEF MoveInFlight
  <2>2. req[r].step \in {"check", "collect", "cut"}
    BY <2>1 DEF Moving, NoMoveUnderWay
  <2>3. Flattens(closure, [parent EXCEPT ![req[r].group] = parent[req[r].group]], Exists)
    BY <2>1, <2>2, MoverAlone DEF MoveInv
  <2>4. [parent EXCEPT ![req[r].group] = parent[req[r].group]] = parent
    BY DEF Sound, TreeTypeOK
  <2>5. Exists \ Fresh = Exists
    BY <2>1, MoverAlone
  <2> QED
    BY <2>3, <2>4, <2>5
<1> QED
  BY <1>1, <1>2

\* The invariant says of every state between two moves what its readers rely on.
LEMMA InvariantSuffices == Sound => ClosureFollowsParents
BY SettledTree DEF ClosureFollowsParents, Flattens

\* And so the table is the tree, but for the own rows of the groups being created.
LEMMA TableIsTree == Sound => ClosureMatchesTree
<1> SUFFICES ASSUME Sound, ~muddled, NoMoveUnderWay
             PROVE  LET done == {x \in ReferenceClosure : x[2] \notin Fresh} IN
                    /\ done \subseteq closure
                    /\ closure \subseteq done \cup {<<g, g, 0>> : g \in Fresh}
  BY DEF ClosureMatchesTree
<1> DEFINE K == Cardinality(Groups)
           D == Exists \ Fresh
           done == {x \in ReferenceClosure : x[2] \notin Fresh}
<1>1. Flattens(closure, parent, D)
  BY SettledTree
<1>2. /\ closure \in Tables /\ D \in SUBSET Groups /\ closure \subseteq Exists \X Exists \X Nat
      /\ Exists \in SUBSET Groups
  BY Tidy
<1>3. K \in Nat
  BY GroupsAssumption, FS_CardinalityType
<1>4. \A n \in 0..K, g \in D, a \in Groups : <<a, g, n>> \in closure <=> a = Above(g, n)
  BY <1>1, <1>2, RowsAreWalks DEF Sound
<1> HIDE DEF K
<1>5. ASSUME NEW x \in done
      PROVE  x \in closure
  <2>1. x \in {<<Above(g, n), g, n>> : g \in Exists, n \in 0..K} /\ x \in Exists \X Groups \X Nat
    BY DEF ReferenceClosure, K
  <2>2. PICK g \in Exists, n \in 0..K : x = <<Above(g, n), g, n>>
    BY <2>1
  <2>3. x[2] \notin Fresh
    OBVIOUS
  <2>4. g \in D /\ Above(g, n) \in Groups
    BY <1>2, <2>1, <2>2, <2>3
  <2> QED
    BY <1>4, <2>2, <2>4
<1>6. ASSUME NEW x \in closure
      PROVE  x \in done \cup {<<g, g, 0>> : g \in Fresh}
  <2> DEFINE a == x[1]
             g == x[2]
             n == x[3]
  <2>1. x = <<a, g, n>> /\ a \in Exists /\ g \in Exists /\ n \in Nat
    BY <1>2
  <2>2. CASE g \in Fresh
    <3>1. PICK r \in Requests : req[r].step \in {"self", "copy"} /\ req[r].group = g
      BY <2>2 DEF Fresh
    <3>2. {z \in closure : z[1] = g \/ z[2] = g} \subseteq {<<g, g, 0>>}
      BY <3>1 DEF Sound, TreeInv, CreateInv
    <3>3. x = <<g, g, 0>>
      BY <3>2
    <3> QED
      BY <2>2, <3>3
  <2>3. CASE g \notin Fresh
    <3>1. g \in D /\ a \in Groups
      BY <1>2, <2>1, <2>3
    <3> HIDE DEF a, g, n, D
    <3>2. n + 1 <= Cardinality(AncestorsIn(closure, g))
      BY <1>1, <1>2, <2>1, <3>1, DepthBound
    <3>3. AncestorsIn(closure, g) \in SUBSET Groups
      BY DEF AncestorsIn
    <3>4. /\ Cardinality(AncestorsIn(closure, g)) <= K
          /\ Cardinality(AncestorsIn(closure, g)) \in Nat
      BY <3>3, GroupsAssumption, FS_Subset, FS_CardinalityType DEF K
    <3>5. n \in 0..K
      BY <1>3, <2>1, <3>2, <3>4
    <3>6. a = Above(g, n)
      BY <1>4, <2>1, <3>1, <3>5
    <3>7. x \in {<<Above(h, i), h, i>> : h \in Exists, i \in 0..K}
      BY <2>1, <3>5, <3>6
    <3>8. x \in Exists \X Groups \X Nat
      BY <1>2, <2>1, <3>1
    <3>9. x[2] \notin Fresh
      BY <2>3 DEF g
    <3> QED
      BY <3>7, <3>8, <3>9 DEF ReferenceClosure, K
  <2> QED
    BY <2>2, <2>3
<1> QED
  BY <1>5, <1>6

-----------------------------------------------------------------------------
(***************************************************************************)
(* Any forest is a good start: the closure that its pointers define        *)
(* flattens it.                                                            *)
(***************************************************************************)
Acyclic(par) == \A S \in SUBSET Groups : S # {} => \E g \in S : par[g] \notin S

\* Above what is no group there is none.
LEMMA NothingAbove ==
  ASSUME TreeTypeOK
  PROVE  \A n \in 0..Cardinality(Groups), x \in Ids : x \notin Groups => Above(x, n) \notin Groups
<1> DEFINE K == Cardinality(Groups)
           None(n) == \A x \in Ids : x \notin Groups => Above(x, n) \notin Groups
           T == {n \in Nat : n <= K => None(n)}
<1>1. K \in Nat
  BY GroupsAssumption, FS_CardinalityType
<1> HIDE DEF K
<1>2. 0 \in T
  BY AboveDefined
<1>3. ASSUME NEW n \in Nat, n \in T
      PROVE  n + 1 \in T
  <2>1. n + 1 \in Nat /\ n + 1 # 0 /\ (n + 1) - 1 = n
    OBVIOUS
  <2> SUFFICES ASSUME n + 1 <= K, NEW x \in Ids, x \notin Groups
               PROVE  Above(x, n + 1) \notin Groups
    BY <2>1, Zenon
  <2>2. n <= K /\ n + 1 \in 0..K
    BY <1>1
  <2>3. Above(x, n) \notin Groups
    BY <1>3, <2>2
  <2>4. Above(x, n + 1) = Up(Above(x, n))
    BY <2>1, <2>2, AboveDefined DEF K
  <2> QED
    BY <2>3, <2>4, TreeAssumption DEF Up
<1> HIDE DEF T, None
<1>4. Nat \subseteq T
  BY <1>2, <1>3, SetInduction
<1>5. ASSUME NEW n \in 0..K
      PROVE  None(n)
  <2>1. n \in Nat /\ n <= K
    BY <1>1
  <2> QED
    BY <1>4, <2>1 DEF T
<1> QED
  BY <1>5 DEF None, K

\* No path is longer than there are groups: the groups with a path of a length are fewer
\* for every length, because one of them has a parent without such a path.
LEMMA WalksEnd ==
  ASSUME TreeTypeOK, Acyclic(parent)
  PROVE  \A g \in Groups : Above(g, Cardinality(Groups)) \notin Groups
<1> DEFINE K == Cardinality(Groups)
           Far(n) == {g \in Groups : Above(g, n) \in Groups}
           T == {n \in Nat : n <= K => Cardinality(Far(n)) <= K - n}
<1>1. K \in Nat
  BY GroupsAssumption, FS_CardinalityType
<1>2. ASSUME NEW n
      PROVE  Far(n) \in SUBSET Groups /\ IsFiniteSet(Far(n)) /\ Cardinality(Far(n)) \in Nat
  <2>1. Far(n) \in SUBSET Groups
    OBVIOUS
  <2> HIDE DEF Far
  <2> QED
    BY <2>1, GroupsAssumption, FS_Subset, FS_CardinalityType
<1>3. \A g \in Groups : g \in Ids /\ parent[g] \in Ids
  BY DEF TreeTypeOK, Ids
<1>4. 0 \in T
  <2>1. Cardinality(Far(0)) <= K
    <3> HIDE DEF Far
    <3> QED
      BY <1>2, GroupsAssumption, FS_Subset
  <2>2. K - 0 = K
    BY <1>1
  <2> QED
    BY <2>1, <2>2
<1>5. ASSUME NEW n \in Nat, n \in T
      PROVE  n + 1 \in T
  <2>1. n + 1 \in Nat
    OBVIOUS
  <2> SUFFICES ASSUME n + 1 <= K
               PROVE  Cardinality(Far(n + 1)) <= K - (n + 1)
    BY <2>1
  <2>2. n <= K /\ n \in 0..K /\ n + 1 \in 0..K /\ n + 1 # 0 /\ (n + 1) - 1 = n
    BY <1>1
  <2>3. Cardinality(Far(n)) <= K - n
    BY <1>5, <2>2
  <2>4. ASSUME NEW g \in Far(n + 1)
        PROVE  g \in Far(n)
    <3>1. Above(g, n + 1) = Up(Above(g, n))
      BY <1>3, <2>2, AboveDefined
    <3> QED
      BY <3>1, TreeAssumption DEF Up
  <2>5. CASE Far(n) = {}
    <3>1. Far(n + 1) = {}
      BY <2>4, <2>5
    <3> HIDE DEF Far
    <3>2. Cardinality(Far(n + 1)) = 0
      BY <3>1, FS_EmptySet
    <3> QED
      BY <1>1, <3>2
  <2>6. CASE Far(n) # {}
    <3>1. PICK g \in Far(n) : parent[g] \notin Far(n)
      BY <2>6 DEF Acyclic
    <3>2. Above(g, n + 1) = Above(parent[g], n)
      BY <2>2, AboveParent
    <3>3. Above(parent[g], n) \notin Groups
      <4>1. CASE parent[g] \in Groups
        BY <3>1, <4>1
      <4>2. CASE parent[g] \notin Groups
        BY <1>3, <2>2, <4>2, NothingAbove
      <4> QED
        BY <4>1, <4>2
    <3>4. Far(n + 1) \subseteq Far(n) \ {g}
      BY <2>4, <3>2, <3>3
    <3> DEFINE A == Far(n)
               B == Far(n + 1)
    <3>5. IsFiniteSet(A) /\ Cardinality(A) \in Nat /\ Cardinality(B) \in Nat /\ g \in A
      BY <1>2
    <3> HIDE DEF Far, A, B
    <3>6. IsFiniteSet(A \ {g}) /\ Cardinality(A \ {g}) = Cardinality(A) - 1
      BY <3>5, FS_RemoveElement
    <3>7. Cardinality(B) <= Cardinality(A \ {g})
      BY <3>4, <3>6, FS_Subset DEF A, B
    <3> QED
      BY <1>1, <2>3, <3>5, <3>6, <3>7 DEF A, B
  <2> QED
    BY <2>5, <2>6
<1> HIDE DEF T
<1>6. Nat \subseteq T
  BY <1>4, <1>5, SetInduction
<1>7. Cardinality(Far(K)) <= 0
  <2>1. K \in T /\ K <= K /\ K - K = 0
    BY <1>1, <1>6
  <2> QED
    BY <2>1 DEF T
<1>8. Far(K) = {}
  <2> HIDE DEF Far
  <2>1. Cardinality(Far(K)) = 0
    BY <1>2, <1>7
  <2> QED
    BY <1>2, <2>1, FS_EmptySet
<1> QED
  BY <1>8

\* Paths add up, two ancestors of a group are one above the other, and without a cycle
\* the rows know one depth per path and lead one way.
LEMMA PathsAdd ==
  ASSUME NEW c \in Tables, NEW done \in SUBSET Groups, NEW par, RowsOf(c, par, done),
         \A x \in c : x[1] \in done /\ x[2] \in done
  PROVE  \A a, b, h \in Groups, i, j \in Nat :
           <<a, b, i>> \in c /\ <<b, h, j>> \in c => <<a, h, i + j>> \in c
<1> DEFINE Adds(j) == \A a, b, h \in Groups, i \in Nat :
                        <<a, b, i>> \in c /\ <<b, h, j>> \in c => <<a, h, i + j>> \in c
           T == {j \in Nat : Adds(j)}
<1>1. ASSUME NEW a, NEW b, NEW i, <<a, b, i>> \in c
      PROVE  a \in done /\ b \in done
  BY <1>1
<1>2. 0 \in T
  <2> SUFFICES ASSUME NEW a \in Groups, NEW b \in Groups, NEW h \in Groups, NEW i \in Nat,
                      <<a, b, i>> \in c, <<b, h, 0>> \in c
               PROVE  <<a, h, i + 0>> \in c
    OBVIOUS
  <2>1. h \in done
    BY <1>1
  <2>2. b = h
    BY <2>1 DEF RowsOf
  <2>3. i + 0 = i
    OBVIOUS
  <2> QED
    BY <2>2, <2>3
<1>3. ASSUME NEW j \in Nat, j \in T
      PROVE  j + 1 \in T
  <2>1. j + 1 \in Nat /\ j + 1 # 0 /\ (j + 1) - 1 = j
    OBVIOUS
  <2> SUFFICES ASSUME NEW a \in Groups, NEW b \in Groups, NEW h \in Groups, NEW i \in Nat,
                      <<a, b, i>> \in c, <<b, h, j + 1>> \in c
               PROVE  <<a, h, i + (j + 1)>> \in c
    BY <2>1, Zenon
  <2>2. h \in done
    BY <1>1
  <2>3. par[h] \in Groups /\ <<b, par[h], j>> \in c
    BY <2>1, <2>2 DEF RowsOf
  <2>4. <<a, par[h], i + j>> \in c
    BY <1>3, <2>3
  <2>5. i + (j + 1) \in Nat /\ i + (j + 1) # 0 /\ (i + (j + 1)) - 1 = i + j
    OBVIOUS
  <2> QED
    BY <2>2, <2>3, <2>4, <2>5 DEF RowsOf
<1> HIDE DEF T, Adds
<1>4. Nat \subseteq T
  BY <1>2, <1>3, SetInduction
<1> QED
  BY <1>4 DEF T, Adds

\* Of two groups above a third one is above the other.
LEMMA OneLine ==
  ASSUME NEW c \in Tables, NEW done \in SUBSET Groups, NEW par, Parents(par, done),
         RowsOf(c, par, done)
  PROVE  \A a, b \in Groups, h \in done, i, j \in Nat :
           <<a, h, i>> \in c /\ <<b, h, j>> \in c => Linked(c, a, b) \/ Linked(c, b, a)
<1> DEFINE Meets(i) == \A a, b \in Groups, h \in done, j \in Nat :
                         <<a, h, i>> \in c /\ <<b, h, j>> \in c => Linked(c, a, b) \/ Linked(c, b, a)
           T == {i \in Nat : Meets(i)}
<1>1. ASSUME NEW a, NEW b, NEW i, <<a, b, i>> \in c
      PROVE  Linked(c, a, b)
  BY <1>1 DEF Linked
<1>2. 0 \in T
  <2> SUFFICES ASSUME NEW a \in Groups, NEW b \in Groups, NEW h \in done, NEW j \in Nat,
                      <<a, h, 0>> \in c, <<b, h, j>> \in c
               PROVE  Linked(c, a, b) \/ Linked(c, b, a)
    OBVIOUS
  <2>1. a = h
    BY DEF RowsOf
  <2> QED
    BY <1>1, <2>1
<1>3. ASSUME NEW i \in Nat, i \in T
      PROVE  i + 1 \in T
  <2>1. i + 1 \in Nat /\ i + 1 # 0 /\ (i + 1) - 1 = i
    OBVIOUS
  <2> SUFFICES ASSUME NEW a \in Groups, NEW b \in Groups, NEW h \in done, NEW j \in Nat,
                      <<a, h, i + 1>> \in c, <<b, h, j>> \in c
               PROVE  Linked(c, a, b) \/ Linked(c, b, a)
    BY <2>1, Zenon
  <2>2. par[h] \in Groups /\ <<a, par[h], i>> \in c
    BY <2>1 DEF RowsOf
  <2>3. par[h] \in done
    BY <2>2, TreeAssumption DEF Parents
  <2>4. CASE j = 0
    <3>1. b = h
      BY <2>4 DEF RowsOf
    <3> QED
      BY <1>1, <3>1
  <2>5. CASE j # 0
    <3>1. <<b, par[h], j - 1>> \in c /\ j - 1 \in Nat
      BY <2>5 DEF RowsOf
    <3> QED
      BY <1>3, <2>2, <2>3, <3>1
  <2> QED
    BY <2>4, <2>5
<1> HIDE DEF T, Meets
<1>4. Nat \subseteq T
  BY <1>2, <1>3, SetInduction
<1> QED
  BY <1>4 DEF T, Meets

\* Without a cycle among the parents the rows flatten the tree.
LEMMA ForestFlattens ==
  ASSUME NEW c \in Tables, NEW done \in SUBSET Groups, NEW par, Parents(par, done),
         RowsOf(c, par, done), Acyclic(par), \A x \in c : x[1] \in done /\ x[2] \in done
  PROVE  Flattens(c, par, done)
<1>1. ASSUME NEW a, NEW b, NEW i, <<a, b, i>> \in c
      PROVE  a \in done /\ b \in done
  BY <1>1
<1>2. \A a, b, h \in Groups, i, j \in Nat :
        <<a, b, i>> \in c /\ <<b, h, j>> \in c => <<a, h, i + j>> \in c
  BY PathsAdd
<1>3. Chained(c)
  <2> SUFFICES ASSUME NEW a \in Groups, NEW b \in Groups, NEW h \in Groups,
                      Linked(c, a, b), Linked(c, b, h)
               PROVE  Linked(c, a, h)
    BY DEF Chained
  <2>1. PICK i \in Nat : <<a, b, i>> \in c
    BY LinkedRow
  <2>2. PICK j \in Nat : <<b, h, j>> \in c
    BY LinkedRow
  <2>3. <<a, h, i + j>> \in c /\ i + j \in Nat
    BY <1>2, <2>1, <2>2
  <2> QED
    BY <2>3, LinkedRow
<1>4. ASSUME NEW a \in Groups, NEW n \in Nat, <<a, a, n>> \in c
      PROVE  n = 0
  <2> DEFINE S == {b \in Groups : \E i \in Nat : i # 0 /\ <<b, b, i>> \in c}
  <2>1. ASSUME NEW b \in S
        PROVE  par[b] \in S
    <3>1. PICK i \in Nat : i # 0 /\ <<b, b, i>> \in c
      OBVIOUS
    <3>2. b \in done /\ par[b] \in Groups /\ <<b, par[b], i - 1>> \in c /\ i - 1 \in Nat
      BY <1>1, <3>1 DEF RowsOf
    <3>3. par[b] \in done
      BY <1>1, <3>2
    <3>4. <<par[b], par[b], 0>> \in c
      BY <3>3 DEF RowsOf
    <3>5. 1 \in Nat /\ 1 # 0 /\ 1 - 1 = 0
      OBVIOUS
    <3>6. <<par[b], b, 1>> \in c
      BY <3>2, <3>4, <3>5 DEF RowsOf
    <3>7. <<par[b], par[b], 1 + (i - 1)>> \in c /\ 1 + (i - 1) = i
      BY <1>2, <3>2, <3>5, <3>6
    <3> QED
      BY <3>1, <3>2, <3>7
  <2>2. S = {}
    <3>1. S \in SUBSET Groups
      OBVIOUS
    <3> HIDE DEF S
    <3> QED
      BY <2>1, <3>1 DEF Acyclic
  <2> QED
    BY <1>4, <2>2
<1>5. OneWay(c)
  <2> SUFFICES ASSUME NEW a \in Groups, NEW b \in Groups, Linked(c, a, b), Linked(c, b, a)
               PROVE  a = b
    BY DEF OneWay
  <2>1. PICK i \in Nat : <<a, b, i>> \in c
    BY LinkedRow
  <2>2. PICK j \in Nat : <<b, a, j>> \in c
    BY LinkedRow
  <2>3. <<a, a, i + j>> \in c /\ i + j \in Nat
    BY <1>2, <2>1, <2>2
  <2>4. i + j = 0
    BY <1>4, <2>3
  <2>5. i = 0 /\ b \in done
    BY <1>1, <2>1, <2>4
  <2> QED
    BY <2>1, <2>5 DEF RowsOf
<1>6. OneDepth(c)
  <2> DEFINE Same(i) == \A a, h \in Groups, j \in Nat :
                          <<a, h, i>> \in c /\ <<a, h, j>> \in c => i = j
             T == {i \in Nat : Same(i)}
  <2>1. 0 \in T
    <3> SUFFICES ASSUME NEW a \in Groups, NEW h \in Groups, NEW j \in Nat,
                        <<a, h, 0>> \in c, <<a, h, j>> \in c
                 PROVE  0 = j
      OBVIOUS
    <3>1. a = h
      BY <1>1 DEF RowsOf
    <3> QED
      BY <1>4, <3>1
  <2>2. ASSUME NEW i \in Nat, i \in T
        PROVE  i + 1 \in T
    <3>1. i + 1 \in Nat /\ i + 1 # 0 /\ (i + 1) - 1 = i
      OBVIOUS
    <3> SUFFICES ASSUME NEW a \in Groups, NEW h \in Groups, NEW j \in Nat,
                        <<a, h, i + 1>> \in c, <<a, h, j>> \in c
                 PROVE  i + 1 = j
      BY <3>1, Zenon
    <3>2. h \in done /\ par[h] \in Groups /\ <<a, par[h], i>> \in c
      BY <1>1, <3>1 DEF RowsOf
    <3>3. j # 0
      <4> SUFFICES ASSUME j = 0
                   PROVE  FALSE
        OBVIOUS
      <4>1. a = h
        BY <3>2 DEF RowsOf
      <4> QED
        BY <1>4, <3>1, <4>1
    <3>4. <<a, par[h], j - 1>> \in c /\ j - 1 \in Nat
      BY <3>2, <3>3 DEF RowsOf
    <3>5. i = j - 1
      BY <2>2, <3>2, <3>4
    <3> QED
      BY <3>5
  <2> HIDE DEF T, Same
  <2>3. Nat \subseteq T
    BY <2>1, <2>2, SetInduction
  <2> QED
    BY <2>3 DEF T, Same, OneDepth
<1> QED
  BY <1>3, <1>5, <1>6, FlattensRows

\* A database with any forest of groups and the closure that its pointers define.
LEMMA ForestIsSound ==
  ASSUME parent \in Forests, closure = ReferenceClosure, req = [r \in Requests |-> Idle],
         crashes = 0, muddled = FALSE
  PROVE  Sound
<1> DEFINE K == Cardinality(Groups)
<1>1. K \in Nat
  BY GroupsAssumption, FS_CardinalityType
<1>2. /\ parent \in [Groups -> Groups \cup {Root, Unborn}]
      /\ Acyclic(parent) /\ \A g \in Groups : parent[g] \in Groups => parent[parent[g]] # Unborn
  BY DEF Forests, Acyclic
<1>3. Parents(parent, Exists) /\ Exists \in SUBSET Groups /\ Root \notin Groups
  BY <1>2, TreeAssumption DEF Parents, Exists
<1>4. closure \in Tables /\ closure \subseteq Exists \X Exists \X Nat
  <2>1. ASSUME NEW x \in closure
        PROVE  x \in Exists \X Exists \X Nat
    <3>1. x \in {<<Above(g, n), g, n>> : g \in Exists, n \in 0..K} /\ x \in Exists \X Groups \X Nat
      BY DEF ReferenceClosure
    <3>2. PICK g \in Exists, n \in 0..K : x = <<Above(g, n), g, n>>
      BY <3>1
    <3> QED
      BY <3>1, <3>2
  <2> QED
    BY <1>3, <2>1 DEF Tables
<1>5. TreeTypeOK
  <2>1. Idle \in [step : Steps, group : Groups \cup {Root},
                  to : Groups \cup {Root}, subtree : SUBSET Groups]
    BY DEF Idle, Steps
  <2> HIDE DEF Idle
  <2>2. req \in [Requests -> [step : Steps, group : Groups \cup {Root},
                              to : Groups \cup {Root}, subtree : SUBSET Groups]]
    BY <2>1
  <2>3. parent \in [Groups -> Groups \cup {Root, Unborn, Gone}]
    BY <1>2
  <2> QED
    BY <1>4, <2>2, <2>3 DEF TreeTypeOK, Tables
<1>6. ASSUME NEW a, NEW g, NEW n
      PROVE  <<a, g, n>> \in closure <=>
               g \in Exists /\ a \in Exists /\ n \in 0..K /\ a = Above(g, n)
  <2>1. ASSUME <<a, g, n>> \in closure
        PROVE  g \in Exists /\ a \in Exists /\ n \in 0..K /\ a = Above(g, n)
    <3>1. /\ <<a, g, n>> \in {<<Above(h, i), h, i>> : h \in Exists, i \in 0..K}
          /\ <<a, g, n>> \in Exists \X Groups \X Nat
      BY <2>1 DEF ReferenceClosure
    <3>2. PICK h \in Exists, i \in 0..K : <<a, g, n>> = <<Above(h, i), h, i>>
      BY <3>1
    <3> QED
      BY <3>1, <3>2
  <2>2. ASSUME g \in Exists, a \in Exists, n \in 0..K, a = Above(g, n)
        PROVE  <<a, g, n>> \in closure
    <3>1. <<a, g, n>> \in {<<Above(h, i), h, i>> : h \in Exists, i \in 0..K}
      BY <2>2
    <3>2. <<a, g, n>> \in Exists \X Groups \X Nat
      BY <1>1, <1>3, <2>2
    <3> QED
      BY <3>1, <3>2 DEF ReferenceClosure
  <2> QED
    BY <2>1, <2>2
<1>7. /\ \A g \in Exists : Above(g, 0) = g
      /\ \A n \in Nat : n + 1 <= K => /\ \A g \in Groups : Above(g, n + 1) = Above(parent[g], n)
                                      /\ Above(Root, n) = Root
      /\ \A g \in Groups : Above(g, K) \notin Groups
  <2>1. \A g \in Exists : g \in Ids
    BY <1>3 DEF Ids
  <2> QED
    BY <1>2, <1>5, <2>1, AboveDefined, AboveParent, WalksEnd
<1> HIDE DEF K
<1>8. RowsOf(closure, parent, Exists)
  <2> SUFFICES ASSUME NEW g \in Exists, NEW a \in Groups, NEW n \in Nat
               PROVE  <<a, g, n>> \in closure <=>
                        \/ a = g /\ n = 0
                        \/ parent[g] \in Groups /\ n # 0 /\ <<a, parent[g], n - 1>> \in closure
    BY DEF RowsOf
  <2>1. parent[g] \in Exists \cup {Root} /\ g \in Groups
    BY <1>3 DEF Parents
  <2>2. CASE n = 0
    <3>1. 0 \in 0..K /\ Above(g, 0) = g
      BY <1>1, <1>7
    <3> QED
      BY <1>6, <2>2, <3>1
  <2>3. CASE n # 0
    <3> DEFINE i == n - 1
    <3>1. i \in Nat /\ n = i + 1
      BY <2>3
    <3> HIDE DEF i
    <3>2. CASE n <= K
      <4>1. Above(g, n) = Above(parent[g], i) /\ Above(Root, i) = Root
        BY <1>7, <2>1, <3>1, <3>2
      <4>2. n \in 0..K /\ i \in 0..K
        BY <1>1, <3>1, <3>2
      <4>3. <<a, g, n>> \in closure <=> a \in Exists /\ a = Above(parent[g], i)
        BY <1>6, <4>1, <4>2
      <4>4. <<a, parent[g], i>> \in closure <=>
              parent[g] \in Exists /\ a \in Exists /\ a = Above(parent[g], i)
        BY <1>6, <4>2
      <4>5. parent[g] = Root => Above(parent[g], i) \notin Exists
        BY <1>3, <4>1
      <4> QED
        BY <1>3, <2>1, <2>3, <4>3, <4>4, <4>5 DEF i
    <3>3. CASE ~(n <= K)
      <4>1. <<a, g, n>> \notin closure
        BY <1>1, <1>6, <3>3
      <4>2. <<a, parent[g], i>> \notin closure
        <5> SUFFICES ASSUME <<a, parent[g], i>> \in closure
                     PROVE  FALSE
          OBVIOUS
        <5>1. parent[g] \in Exists /\ a \in Exists /\ i \in 0..K /\ a = Above(parent[g], i)
          BY <1>6
        <5>2. i = K
          BY <1>1, <3>1, <3>3, <5>1
        <5> QED
          BY <1>3, <1>7, <5>1, <5>2
      <4> QED
        BY <2>3, <4>1, <4>2 DEF i
    <3> QED
      BY <3>2, <3>3
  <2> QED
    BY <2>2, <2>3
<1>9. Flattens(closure, parent, Exists)
  <2>1. \A x \in closure : x[1] \in Exists /\ x[2] \in Exists
    BY <1>4
  <2> QED
    BY <1>2, <1>3, <1>4, <1>8, <2>1, ForestFlattens
<1>10. Fresh = {} /\ \A r \in Requests : req[r].step = "idle"
  <2>1. \A r \in Requests : req[r].step = "idle"
    BY DEF Idle
  <2> QED
    BY <2>1 DEF Fresh
<1>11. TreeInv
  <2>1. Exists \ Fresh = Exists
    BY <1>10
  <2> QED
    BY <1>9, <1>10, <2>1 DEF TreeInv, CreateInv, MoveInv, Moving
<1>12. KeysHold
  BY <1>3, <1>4 DEF KeysHold, Parents
<1> QED
  BY <1>5, <1>11, <1>12 DEF Sound

-----------------------------------------------------------------------------
(***************************************************************************)
(* The tree by itself, grown from nothing.                                 *)
(***************************************************************************)
\* One step keeps the types, the foreign keys and the invariant.
LEMMA SoundStep == Sound /\ [TreeNext]_treeVars => Sound'
BY TypeStep, KeysStep, TreeStepKeeps DEF Sound

\* From a database without groups, whatever the requests of GroupTree do to each other, no
\* row of the closure and no parent pointer names a group that does not exist, and the
\* table stands where the statements of create, move and delete have left it.
THEOREM TreeInvariant == TreeSpec => []Sound
<1>1. TreeInit => Sound
  <2> SUFFICES ASSUME TreeInit
               PROVE  Sound
    OBVIOUS
  <2>1. Exists = {} /\ closure = {}
    BY TreeAssumption DEF TreeInit, Exists
  <2>2. \A r \in Requests : req[r].step = "idle"
    BY DEF TreeInit, Idle
  <2>3. Flattens(closure, parent, Exists \ Fresh)
    BY <2>1 DEF Flattens, OneWay, Linked
  <2>4. TreeInv
    BY <2>2, <2>3 DEF TreeInv, CreateInv, MoveInv, Moving
  <2>5. KeysHold
    BY <2>1 DEF KeysHold
  <2> QED
    BY <2>4, <2>5, TreeInitTypes DEF Sound
<1> QED
  BY <1>1, SoundStep, PTL DEF TreeSpec

-----------------------------------------------------------------------------
(***************************************************************************)
(* The tree under everything that hangs on it.                             *)
(***************************************************************************)
\* Whatever is edited, the tree makes its own steps only.
LEMMA TreeUnderneath == [Next]_vars => [TreeNext]_treeVars
<1> SUFFICES ASSUME [Next]_vars
             PROVE  [TreeNext]_treeVars
  OBVIOUS
<1>1. ASSUME NEW r \in Requests, TreeRequest(r)
      PROVE  TreeNext
  BY <1>1 DEF TreeRequest, TreeNext
<1>2. ASSUME NEW g \in Groups, RemoveGroup(g)
      PROVE  TreeNext
  BY <1>2 DEF RemoveGroup, TreeNext
<1>3. CASE Edit
  BY <1>3 DEF Edit, Edited
<1>4. CASE Restart
  BY <1>4 DEF Restart, TreeNext
<1>5. CASE UNCHANGED vars
  BY <1>5 DEF vars
<1> QED
  BY <1>1, <1>2, <1>3, <1>4, <1>5 DEF Next

\* The groups that exist stay, unless they are deleted.
LEMMA GroupsStay ==
  ASSUME TreeTypeOK, KeysHold
  PROVE  /\ \A r \in Requests : TreeStep(r) => Exists \subseteq Exists'
         /\ CrashTree \/ UNCHANGED treeVars => Exists' = Exists
<1>1. ASSUME NEW r \in Requests, InsertRow(r)
      PROVE  Exists \subseteq Exists'
  <2>1. CASE UNCHANGED parent
    BY <2>1, ExistsAfter
  <2>2. ASSUME NEW g \in Groups, parent' = [parent EXCEPT ![g] = req[r].to],
               req[r].to \in Exists \cup {Root}
        PROVE  Exists \subseteq Exists'
    BY <2>2, ExistsAfter
  <2> QED
    BY <1>1, <2>1, <2>2 DEF InsertRow
<1>2. ASSUME NEW r \in Requests, TreeStep(r), ~InsertRow(r)
      PROVE  Exists' = Exists
  <2>1. CASE SetParent(r)
    BY <2>1, ExistsAfter
  <2>2. CASE ~SetParent(r)
    <3>1. parent' = parent
      BY <1>2, <2>2 DEF TreeStep, StartCreate, InsertSelf, CopyAncestors, StartMove, CheckMove,
         CollectSubtree, CutSubtree, LinkSubtree
    <3> QED
      BY <3>1, ExistsAfter
  <2> QED
    BY <2>1, <2>2
<1>3. CrashTree \/ UNCHANGED treeVars => Exists' = Exists
  BY ExistsAfter DEF CrashTree, treeVars
<1> QED
  BY <1>1, <1>2, <1>3

\* The tables keep their types, and what sits in a group or marks one goes with it.
LEMMA TablesStep ==
  ASSUME TreeTypeOK, KeysHold, TablesTypeOK, [Next]_vars
  PROVE  TablesTypeOK'
<1>1. ASSUME Exists \subseteq Exists', UNCHANGED <<aspect, tables>>
      PROVE  TablesTypeOK'
  BY <1>1 DEF TablesTypeOK, tables
<1>2. ASSUME NEW r \in Requests, TreeRequest(r)
      PROVE  TablesTypeOK'
  <2>1. UNCHANGED <<aspect, tables>>
    BY <1>2 DEF TreeRequest, TreeEdited
  <2>2. Exists \subseteq Exists'
    BY <1>2, GroupsStay DEF TreeRequest
  <2> QED
    BY <1>1, <2>1, <2>2
<1>3. ASSUME NEW g \in Groups, RemoveGroup(g)
      PROVE  TablesTypeOK'
  <2>1. Exists' = Exists \ Cascade(g)
    BY <1>3, ExistsAfter DEF RemoveGroup
  <2>2. groupOf' = [e \in Entities |-> IF groupOf[e] \in Cascade(g) THEN Root ELSE groupOf[e]]
    BY <1>3 DEF RemoveGroup
  <2>3. groupOf' \in [Entities -> Exists' \cup {Root}]
    BY <2>1, <2>2 DEF TablesTypeOK
  <2>4. general' \subseteq Exists' /\ flagged' \subseteq Exists'
    BY <1>3, <2>1 DEF RemoveGroup, TablesTypeOK
  <2> QED
    BY <1>3, <2>3, <2>4 DEF RemoveGroup, TreeEdited, TablesTypeOK
<1>4. CASE Edit
  <2>1. Exists' = Exists /\ aspect' = aspect
    BY <1>4, GroupsStay DEF Edit, Edited
  <2>2. Exists \subseteq Groups /\ Concerned[aspect] \subseteq Scopes /\ Concerned[aspect] \subseteq Entities
    BY ScopesAssumption DEF TablesTypeOK, Scopes, Exists
  <2>3. {Global} \cup Exists \cup Concerned[aspect] \subseteq Scopes
    BY <2>2 DEF Scopes
  <2>4. CASE EditSettings
    <3>1. overrides' \in [Scopes -> SUBSET {1, 2}]
      BY <2>4, <2>3 DEF EditSettings, SetSetting, RemoveSetting, TablesTypeOK
    <3> QED
      BY <2>1, <2>4, <3>1 DEF EditSettings, TablesTypeOK
  <2>5. ASSUME EditBindings \/ EditRemedies
        PROVE  TablesTypeOK'
    <3>1. ASSUME NEW s \in Scopes, NEW c \in Channels, NEW mode \in Modes,
                 AddBinding(c, s, mode) \/ AddRemedy(c, s, mode)
          PROVE  bindings' \in [Scopes -> SUBSET (Channels \X Modes)]
      <4>1. <<c, mode>> \in Channels \X Modes
        OBVIOUS
      <4>2. /\ bindings[s] \cup {<<c, mode>>} \in SUBSET (Channels \X Modes)
            /\ {b \in bindings[s] : b[1] # c} \cup {<<c, mode>>} \in SUBSET (Channels \X Modes)
        BY <4>1 DEF TablesTypeOK
      <4>3. \E X \in SUBSET (Channels \X Modes) : bindings' = [bindings EXCEPT ![s] = X]
        BY <3>1, <4>2 DEF AddBinding, AddRemedy
      <4> QED
        BY <4>3 DEF TablesTypeOK
    <3>2. ASSUME NEW s \in Scopes, NEW c \in Channels, RemoveBinding(c, s)
          PROVE  bindings' \in [Scopes -> SUBSET (Channels \X Modes)]
      BY <3>2 DEF RemoveBinding, TablesTypeOK
    <3>3. bindings' \in [Scopes -> SUBSET (Channels \X Modes)]
      BY <2>3, <2>5, <3>1, <3>2 DEF EditBindings, EditRemedies
    <3> QED
      BY <2>1, <2>5, <3>3 DEF EditBindings, EditRemedies, TablesTypeOK
  <2>6. CASE EditWindows
    <3>1. PICK w \in Windows :
            \/ /\ \E s \in {Global} \cup Exists \cup Concerned[aspect] :
                     windowAt' = [windowAt EXCEPT ![w] = s]
               /\ UNCHANGED disables
            \/ /\ \E s \in Exists \cup Concerned[aspect] : DisableWindow(w, s) \/ EnableWindow(w, s)
               /\ UNCHANGED windowAt
      BY <2>6 DEF EditWindows
    <3>2. windowAt' \in [Windows -> Scopes \cup {Unborn}]
      BY <2>3, <3>1 DEF TablesTypeOK
    <3>3. disables' \subseteq Windows \X Scopes
      BY <2>3, <3>1 DEF TablesTypeOK, DisableWindow, EnableWindow
    <3> QED
      BY <2>1, <2>6, <3>2, <3>3 DEF EditWindows, TablesTypeOK
  <2>7. CASE EditRights
    <3>1. grants' \in [Teams -> [Groups \cup Monitors -> Levels]]
      <4>1. ASSUME NEW t \in Teams, NEW s, NEW l \in Levels, grants' = [grants EXCEPT ![t][s] = l]
            PROVE  grants' \in [Teams -> [Groups \cup Monitors -> Levels]]
        <5>1. [grants[t] EXCEPT ![s] = l] \in [Groups \cup Monitors -> Levels]
          BY DEF TablesTypeOK
        <5>2. grants' = [grants EXCEPT ![t] = [grants[t] EXCEPT ![s] = l]]
          BY <4>1
        <5> HIDE DEF Levels
        <5> QED
          BY <5>1, <5>2 DEF TablesTypeOK
      <4>2. CASE UNCHANGED grants
        BY <4>2 DEF TablesTypeOK
      <4> QED
        BY <2>7, <4>1, <4>2 DEF EditRights
    <3>2. members' \subseteq Teams /\ general' \subseteq Exists
      BY <2>7 DEF EditRights, TablesTypeOK
    <3> QED
      BY <2>1, <2>7, <3>1, <3>2 DEF EditRights, TablesTypeOK
  <2>8. CASE EditTypes
    <3>1. agentTypes' \in [Scopes -> Answers] /\ agentTypes'[Global] # "null"
      <4>1. CASE UNCHANGED agentTypes
        BY <4>1 DEF TablesTypeOK
      <4>2. ASSUME NEW s \in Scopes, NEW a \in Answers,
                   agentTypes' = [agentTypes EXCEPT ![s] = IF s = Global /\ a = "null" THEN "on" ELSE a]
            PROVE  agentTypes' \in [Scopes -> Answers] /\ agentTypes'[Global] # "null"
        BY <4>2 DEF TablesTypeOK, Answers, Scopes
      <4> QED
        BY <2>3, <2>8, <4>1, <4>2 DEF EditTypes
    <3>2. flagged' \subseteq Exists
      BY <2>8 DEF EditTypes, TablesTypeOK
    <3> QED
      BY <2>1, <2>8, <3>1, <3>2 DEF EditTypes, TablesTypeOK
  <2>9. ASSUME NEW e \in Concerned[aspect], NEW g \in Groups \cup {Root}, Assign(e, g)
        PROVE  TablesTypeOK'
    <3>1. groupOf' \in [Entities -> Exists \cup {Root}]
      BY <2>9 DEF Assign, TablesTypeOK
    <3> QED
      BY <2>1, <2>9, <3>1 DEF Assign, TablesTypeOK
  <2> QED
    BY <1>4, <2>4, <2>5, <2>6, <2>7, <2>8, <2>9 DEF Edit
<1>5. CASE Restart
  BY <1>1, <1>5, GroupsStay DEF Restart
<1>6. CASE UNCHANGED vars
  BY <1>1, <1>6, GroupsStay DEF vars
<1> QED
  BY <1>2, <1>3, <1>4, <1>5, <1>6 DEF Next

\* The inductive invariant of everything below: whatever is edited and moved, the tree is
\* sound and the tables name groups that exist.
THEOREM Invariant == Spec => [](Sound /\ TablesTypeOK)
<1>1. Init => Sound
  BY ForestIsSound DEF Init
<1>2. Init => TablesTypeOK
  <2> SUFFICES ASSUME Init
               PROVE  TablesTypeOK
    OBVIOUS
  <2>1. /\ overrides \in [Scopes -> SUBSET {1, 2}]
        /\ bindings \in [Scopes -> SUBSET (Channels \X Modes)]
    BY DEF Init
  <2>2. windowAt \in [Windows -> Scopes \cup {Unborn}] /\ disables \subseteq Windows \X Scopes
    BY DEF Init
  <2>3. grants \in [Teams -> [Groups \cup Monitors -> Levels]]
    BY DEF Init, Levels
  <2>4. agentTypes \in [Scopes -> Answers] /\ agentTypes[Global] # "null"
    BY DEF Init, Answers, Scopes
  <2> QED
    BY <2>1, <2>2, <2>3, <2>4 DEF Init, TablesTypeOK
<1>3. Sound /\ TablesTypeOK /\ [Next]_vars => (Sound /\ TablesTypeOK)'
  BY SoundStep, TreeUnderneath, TablesStep DEF Sound
<1> QED
  BY <1>1, <1>2, <1>3, PTL DEF Spec

\* Every table keeps its type.
THEOREM TypeCorrect == Spec => []TypeOK
<1>1. Sound /\ TablesTypeOK => TypeOK
  BY DEF Sound, TablesTypeOK, TypeOK
<1> QED
  BY <1>1, Invariant, PTL

\* As long as no move was overlapped, cut short or refused half way, and none stands
\* between its statements, the closure table is the tree: every path of the parent
\* pointers is there with its length and nothing else, the rows of every group are its own
\* and its parent's one level deeper, and no group is its own ancestor (create, move and
\* delete of group.service.ts).
THEOREM TreeStaysSound == Spec => []TreeIsSound
<1>1. Sound => TreeIsSound
  BY InvariantSuffices, TableIsTree DEF TreeIsSound
<1> QED
  BY <1>1, Invariant, PTL

-----------------------------------------------------------------------------
(***************************************************************************)
(* The readers.                                                            *)
(***************************************************************************)
\* The path getTree nests around a group, and the rows of the group: one row per group of
\* the path, as deep as the path goes on below it, and no other.
LEMMA PathShape ==
  ASSUME Sound, Settled, NEW g \in Exists \ Fresh
  PROVE  \E n \in Nat \ {0} :
           /\ DOMAIN PathTo(g) = 1..n /\ PathTo(g) = [i \in 1..n |-> PathTo(g)[i]]
           /\ \A i \in 1..n : PathTo(g)[i] \in Groups
           /\ PathTo(g)[n] = g
           /\ \A i, j \in 1..n : PathTo(g)[i] = PathTo(g)[j] => i = j
           /\ {x \in closure : x[2] = g} = {<<PathTo(g)[i], g, n - i>> : i \in 1..n}
<1> DEFINE K == Cardinality(Groups)
           D == Exists \ Fresh
           Ends(n) == n \in Nat /\ n # 0 /\ n <= K /\ Above(g, n) = Root
           T == {n \in Nat : Ends(n)}
<1>1. /\ Flattens(closure, parent, D) /\ closure \in Tables /\ D \in SUBSET Groups /\ TreeTypeOK
      /\ Root \notin Groups /\ closure \subseteq Exists \X Exists \X Nat
  BY SettledTree, Tidy DEF Settled, Sound
<1>2. K \in Nat /\ Parents(parent, D) /\ RowsOf(closure, parent, D) /\ g \in Groups /\ g # Root
  BY <1>1, GroupsAssumption, FS_CardinalityType, FlattensRows
<1>3. ASSUME NEW n \in 0..K, NEW a \in Groups
      PROVE  <<a, g, n>> \in closure <=> a = Above(g, n)
  BY <1>1, <1>3, RowsAreWalks
<1>4. ASSUME NEW a \in Groups, NEW n \in Nat, <<a, g, n>> \in closure
      PROVE  n + 1 <= K
  <2>1. n + 1 <= Cardinality(AncestorsIn(closure, g))
    BY <1>1, <1>4, DepthBound
  <2>2. AncestorsIn(closure, g) \in SUBSET Groups
    BY DEF AncestorsIn
  <2>3. /\ Cardinality(AncestorsIn(closure, g)) <= K
        /\ Cardinality(AncestorsIn(closure, g)) \in Nat
    BY <2>2, GroupsAssumption, FS_Subset, FS_CardinalityType
  <2> HIDE DEF K
  <2> QED
    BY <1>2, <2>1, <2>3
<1>5. ASSUME NEW a
      PROVE  a \in AncestorsIn(closure, g) <=> a \in Groups /\ \E n \in 0..K : a = Above(g, n)
  <2>1. a \in AncestorsIn(closure, g) <=> a \in Groups /\ \E n \in Nat : <<a, g, n>> \in closure
    BY <1>1, <1>2, LinkedRow DEF AncestorsIn
  <2> HIDE DEF K
  <2>2. ASSUME NEW n \in Nat, a \in Groups, <<a, g, n>> \in closure
        PROVE  n \in 0..K /\ a = Above(g, n)
    <3>1. n \in 0..K
      BY <1>2, <1>4, <2>2
    <3> QED
      BY <1>3, <2>2, <3>1
  <2>3. ASSUME NEW n \in 0..K, a \in Groups, a = Above(g, n)
        PROVE  n \in Nat /\ <<a, g, n>> \in closure
    BY <1>2, <1>3, <2>3
  <2> QED
    BY <2>1, <2>2, <2>3
<1> HIDE DEF K
<1>6. /\ Above(g, 0) = g
      /\ \A n \in 0..K : n # 0 => Above(g, n) = Up(Above(g, n - 1))
  <2>1. g \in Ids
    BY <1>2 DEF Ids
  <2> QED
    BY <2>1, AboveDefined DEF K
<1>7. ASSUME NEW n \in 0..K, n # 0, Above(g, n - 1) \in D
      PROVE  Above(g, n) \in D \cup {Root}
  <2>1. Above(g, n) = parent[Above(g, n - 1)]
    BY <1>1, <1>6, <1>7 DEF Up
  <2> QED
    BY <1>2, <1>7, <2>1 DEF Parents
<1>8. T # {}
  <2> SUFFICES ASSUME \A n \in Nat : n # 0 /\ n <= K => Above(g, n) # Root
               PROVE  FALSE
    BY DEF Ends, T
  <2> DEFINE On(n) == n <= K => Above(g, n) \in D
             V == {n \in Nat : On(n)}
  <2>1. 0 \in V
    BY <1>6
  <2>2. ASSUME NEW n \in Nat, n \in V
        PROVE  n + 1 \in V
    <3>1. n + 1 \in Nat /\ n + 1 # 0 /\ (n + 1) - 1 = n
      OBVIOUS
    <3> SUFFICES ASSUME n + 1 <= K
                 PROVE  Above(g, n + 1) \in D
      BY <3>1, Zenon
    <3>2. n <= K /\ n + 1 \in 0..K
      BY <1>2
    <3>3. Above(g, n) \in D
      BY <2>2, <3>2
    <3>4. Above(g, n + 1) \in D \cup {Root}
      BY <1>7, <3>1, <3>2, <3>3
    <3> QED
      BY <3>1, <3>4
  <2> HIDE DEF V, On
  <2>3. Nat \subseteq V
    BY <2>1, <2>2, SetInduction
  <2>4. K \in 0..K /\ Above(g, K) \in D
    BY <1>2, <2>3 DEF V, On
  <2>5. Above(g, K) \in Groups
    BY <1>1, <2>4
  <2>6. <<Above(g, K), g, K>> \in closure
    BY <1>3, <2>4, <2>5
  <2> QED
    BY <1>2, <1>4, <2>5, <2>6
<1>9. T \in SUBSET Nat
  BY DEF T
<1>10. PICK n \in T : \A m \in T : n <= m
  <2> HIDE DEF T
  <2> QED
    BY <1>8, <1>9, Least
<1>11. n \in 1..K /\ Above(g, n) = Root /\ \A m \in 0..(n - 1) : Above(g, m) # Root
  <2>1. n \in Nat /\ n # 0 /\ n <= K /\ Above(g, n) = Root
    BY <1>10 DEF T, Ends
  <2>2. ASSUME NEW m \in 0..(n - 1), Above(g, m) = Root
        PROVE  FALSE
    <3>1. CASE m = 0
      BY <1>2, <1>6, <2>2, <3>1
    <3>2. CASE m # 0
      <4>1. m \in Nat /\ m <= K /\ ~(n <= m)
        BY <1>2, <2>1
      <4>2. m \in T
        BY <2>2, <3>2, <4>1 DEF T, Ends
      <4> QED
        BY <1>10, <4>1, <4>2
    <3> QED
      BY <3>1, <3>2
  <2> QED
    BY <1>2, <2>1, <2>2
<1> DEFINE First(k) == Above(g, k) = Root /\ \A j \in 0..(k - 1) : Above(g, j) # Root
           k0 == CHOOSE k \in 1..K : First(k)
<1>12. k0 \in 1..K /\ First(k0)
  <2>1. \E k \in 1..K : First(k)
    BY <1>11
  <2> HIDE DEF First
  <2> QED
    BY <2>1
<1>13. PathTo(g) = [i \in 1..k0 |-> Above(g, k0 - i)]
  BY <1>2 DEF PathTo, K
<1> HIDE DEF k0
<1>14. ASSUME NEW i \in 0..(k0 - 1)
       PROVE  Above(g, i) \in Groups /\ i \in 0..K
  <2> DEFINE On(m) == m <= k0 - 1 => Above(g, m) \in D
             V == {m \in Nat : On(m)}
  <2>1. 0 \in V
    BY <1>6
  <2>2. ASSUME NEW m \in Nat, m \in V
        PROVE  m + 1 \in V
    <3>1. m + 1 \in Nat /\ m + 1 # 0 /\ (m + 1) - 1 = m
      OBVIOUS
    <3> SUFFICES ASSUME m + 1 <= k0 - 1
                 PROVE  Above(g, m + 1) \in D
      BY <3>1, Zenon
    <3>2. m <= k0 - 1 /\ m + 1 \in 0..K /\ m + 1 \in 0..(k0 - 1)
      BY <1>2, <1>12
    <3>3. Above(g, m) \in D
      BY <2>2, <3>2
    <3>4. Above(g, m + 1) \in D \cup {Root}
      BY <1>7, <3>1, <3>2, <3>3
    <3> QED
      BY <1>12, <3>2, <3>4
  <2> HIDE DEF V, On
  <2>3. Nat \subseteq V
    BY <2>1, <2>2, SetInduction
  <2>4. i \in Nat /\ i <= k0 - 1 /\ i \in 0..K
    BY <1>2, <1>12
  <2> QED
    BY <1>1, <2>3, <2>4 DEF V, On
<1>15. ASSUME NEW m \in 0..K, m >= k0
       PROVE  Above(g, m) = Root
  <2> DEFINE Out(i) == k0 + i <= K => Above(g, k0 + i) = Root
             V == {i \in Nat : Out(i)}
  <2>1. 0 \in V
    <3>1. k0 + 0 = k0
      BY <1>12
    <3> QED
      BY <1>12, <3>1
  <2>2. ASSUME NEW i \in Nat, i \in V
        PROVE  i + 1 \in V
    <3>1. i + 1 \in Nat /\ k0 + (i + 1) # 0 /\ (k0 + (i + 1)) - 1 = k0 + i
      BY <1>12
    <3> SUFFICES ASSUME k0 + (i + 1) <= K
                 PROVE  Above(g, k0 + (i + 1)) = Root
      BY <3>1, Zenon
    <3>2. k0 + i <= K /\ k0 + (i + 1) \in 0..K
      BY <1>2, <1>12
    <3>3. Above(g, k0 + i) = Root
      BY <2>2, <3>2
    <3> QED
      BY <1>1, <1>6, <3>1, <3>2, <3>3 DEF Up
  <2> HIDE DEF V, Out
  <2>3. Nat \subseteq V
    BY <2>1, <2>2, SetInduction
  <2>4. m - k0 \in Nat /\ k0 + (m - k0) = m /\ m <= K
    BY <1>2, <1>12, <1>15
  <2> QED
    BY <2>3, <2>4 DEF V, Out
<1>16. k0 \in Nat \ {0} /\ k0 <= K
  BY <1>2, <1>12
<1>17. DOMAIN PathTo(g) = 1..k0 /\ \A i \in 1..k0 : PathTo(g)[i] = Above(g, k0 - i)
  BY <1>13
<1>18. ASSUME NEW i \in 1..k0
       PROVE  /\ k0 - i \in 0..(k0 - 1) /\ k0 - i \in 0..K
              /\ PathTo(g)[i] \in Groups /\ <<PathTo(g)[i], g, k0 - i>> \in closure
  <2>1. k0 - i \in 0..(k0 - 1) /\ k0 - i \in 0..K
    BY <1>2, <1>16
  <2>2. Above(g, k0 - i) \in Groups /\ PathTo(g)[i] = Above(g, k0 - i)
    BY <1>14, <1>17, <2>1
  <2> QED
    BY <1>3, <2>1, <2>2
<1>19. PathTo(g)[k0] = g
  <2>1. k0 \in 1..k0 /\ k0 - k0 = 0
    BY <1>16
  <2> QED
    BY <1>6, <1>17, <2>1
<1>20. ASSUME NEW i \in 1..k0, NEW j \in 1..k0, PathTo(g)[i] = PathTo(g)[j]
       PROVE  i = j
  <2>1. OneDepth(closure)
    BY <1>1, FlattensRows
  <2>2. k0 - i = k0 - j
    <3>1. k0 - i \in Nat /\ k0 - j \in Nat
      BY <1>16
    <3> QED
      BY <1>2, <1>18, <1>20, <2>1, <3>1 DEF OneDepth
  <2> QED
    BY <1>16, <2>2
<1>21. ASSUME NEW x \in closure, x[2] = g
       PROVE  \E i \in 1..k0 : x = <<PathTo(g)[i], g, k0 - i>>
  <2> DEFINE a == x[1]
             m == x[3]
  <2>1. x = <<a, g, m>> /\ a \in Groups /\ m \in Nat
    BY <1>1, <1>21, Triple
  <2>2. m + 1 <= K
    BY <1>4, <2>1
  <2>3. m \in 0..K
    BY <1>2, <2>1, <2>2
  <2>4. a = Above(g, m)
    BY <1>3, <2>1, <2>3
  <2>5. ~(m >= k0)
    BY <1>1, <1>15, <2>1, <2>3, <2>4
  <2>6. k0 - m \in 1..k0 /\ k0 - (k0 - m) = m
    BY <1>16, <2>1, <2>5
  <2>7. PathTo(g)[k0 - m] = a
    BY <1>17, <2>4, <2>6
  <2> QED
    BY <2>1, <2>6, <2>7
<1>22. {x \in closure : x[2] = g} = {<<PathTo(g)[i], g, k0 - i>> : i \in 1..k0}
  BY <1>18, <1>21
<1>23. PathTo(g) = [i \in 1..k0 |-> PathTo(g)[i]]
  BY <1>13
<1> QED
  BY <1>16, <1>17, <1>18, <1>19, <1>20, <1>22, <1>23

\* The groups that getTree nests around a group are those the closure puts above it, and
\* of two of them one is above the other.
LEMMA PathIsAncestors ==
  ASSUME Sound, Settled, NEW g \in Exists \ Fresh
  PROVE  /\ Range(PathTo(g)) = AncestorsIn(closure, g)
         /\ g \in AncestorsIn(closure, g)
         /\ \A a, b \in AncestorsIn(closure, g) : Linked(closure, a, b) \/ Linked(closure, b, a)
<1> DEFINE D == Exists \ Fresh
<1>1. PICK n \in Nat \ {0} :
        /\ DOMAIN PathTo(g) = 1..n /\ PathTo(g) = [i \in 1..n |-> PathTo(g)[i]]
        /\ \A i \in 1..n : PathTo(g)[i] \in Groups
        /\ PathTo(g)[n] = g
        /\ \A i, j \in 1..n : PathTo(g)[i] = PathTo(g)[j] => i = j
        /\ {x \in closure : x[2] = g} = {<<PathTo(g)[i], g, n - i>> : i \in 1..n}
  BY PathShape
<1>2. Flattens(closure, parent, D) /\ closure \in Tables /\ D \in SUBSET Groups
  BY SettledTree, Tidy DEF Settled, Sound
<1>3. Parents(parent, D) /\ RowsOf(closure, parent, D)
  BY <1>2, FlattensRows
<1>4. ASSUME NEW a \in Groups
      PROVE  Linked(closure, a, g) <=> \E i \in 1..n : a = PathTo(g)[i]
  <2>1. ASSUME Linked(closure, a, g)
        PROVE  \E i \in 1..n : a = PathTo(g)[i]
    <3>1. PICK x \in {y \in closure : y[2] = g} : x[1] = a
      BY <2>1 DEF Linked
    <3>2. PICK i \in 1..n : x = <<PathTo(g)[i], g, n - i>>
      BY <1>1
    <3> QED
      BY <3>1, <3>2
  <2>2. ASSUME NEW i \in 1..n, a = PathTo(g)[i]
        PROVE  Linked(closure, a, g)
    <3> DEFINE x == <<PathTo(g)[i], g, n - i>>
    <3>1. x \in {y \in closure : y[2] = g} /\ x[1] = a /\ x[2] = g
      BY <1>1, <2>2
    <3> HIDE DEF x
    <3> QED
      BY <3>1 DEF Linked
  <2> QED
    BY <2>1, <2>2
<1>5. Range(PathTo(g)) = AncestorsIn(closure, g)
  <2>1. Range(PathTo(g)) = {PathTo(g)[i] : i \in 1..n}
    BY <1>1 DEF Range
  <2> QED
    BY <1>1, <1>4, <2>1 DEF AncestorsIn
<1>6. g \in AncestorsIn(closure, g)
  <2>1. n \in 1..n
    OBVIOUS
  <2> QED
    BY <1>1, <1>5, <2>1 DEF Range
<1>7. ASSUME NEW a \in AncestorsIn(closure, g), NEW b \in AncestorsIn(closure, g)
      PROVE  Linked(closure, a, b) \/ Linked(closure, b, a)
  <2>1. a \in Groups /\ \E i \in Nat : <<a, g, i>> \in closure
    BY <1>2, LinkedRow DEF AncestorsIn
  <2>2. b \in Groups /\ \E i \in Nat : <<b, g, i>> \in closure
    BY <1>2, LinkedRow DEF AncestorsIn
  <2>3. g \in D
    OBVIOUS
  <2> QED
    BY <1>2, <1>3, <2>1, <2>2, <2>3, OneLine
<1> QED
  BY <1>5, <1>6, <1>7

\* The same for what sits in a group or in none.
LEMMA AboveEntity ==
  ASSUME Sound, TablesTypeOK, Settled, NEW e \in Entities, groupOf[e] \notin Fresh
  PROVE  /\ Range(PathTo(groupOf[e])) = AncestorSet(e)
         /\ groupOf[e] # Root => /\ groupOf[e] \in Exists \ Fresh /\ groupOf[e] \in AncestorSet(e)
                                 /\ AncestorSet(e) = AncestorsIn(closure, groupOf[e])
<1>1. CASE groupOf[e] = Root
  <2>1. PathTo(groupOf[e]) = <<>>
    BY <1>1 DEF PathTo
  <2>2. Range(PathTo(groupOf[e])) = {}
    BY <2>1 DEF Range
  <2> QED
    BY <1>1, <2>2 DEF AncestorSet
<1>2. CASE groupOf[e] # Root
  <2>1. groupOf[e] \in Exists \ Fresh
    BY <1>2 DEF TablesTypeOK
  <2> QED
    BY <1>2, <2>1, PathIsAncestors DEF AncestorSet
<1> QED
  BY <1>1, <1>2

\* Whether a window reaches an entity, asked of the tree.
Reaches(w, e) ==
  \/ windowAt[w] = e
  \/ /\ windowAt[w] \in AncestorSet(e) \cup {Global}
     /\ w \notin DisabledWindows(e)

\* The worker's question.
LEMMA QuestionReaches ==
  ASSUME NEW e
  PROVE  InMaintenance(e) <=> \E w \in Windows : Reaches(w, e)
BY DEF InMaintenance, Reaches

\* The question of the list pages.
LEMMA BatchReaches ==
  ASSUME TablesTypeOK, NEW kind \in {Monitors, Devices}, NEW e \in kind
  PROVE  e \in BatchInMaintenance(kind) <=> \E w \in Windows : Reaches(w, e)
<1> DEFINE ancestors == [g \in {groupOf[x] : x \in kind} \ {Root} |-> AncestorsIn(closure, g)]
           own == [x \in kind |-> {y[1] : y \in {z \in disables : z[2] = x}}]
           reached == UNION {ancestors[g] : g \in DOMAIN ancestors}
           ofGroup == [a \in reached |-> {y[1] : y \in {z \in disables : z[2] = a}}]
           above(x) == IF groupOf[x] = Root THEN {} ELSE ancestors[groupOf[x]]
           off(x) == own[x] \cup UNION {ofGroup[a] : a \in above(x)}
<1>1. BatchInMaintenance(kind) =
        {x \in kind : \E w \in Windows : \/ windowAt[w] = x
                                         \/ windowAt[w] \in above(x) /\ w \notin off(x)
                                         \/ windowAt[w] = Global /\ w \notin off(x)}
  BY DEF BatchInMaintenance
<1>2. above(e) = AncestorSet(e)
  BY DEF AncestorSet
<1>3. ASSUME NEW s, NEW w \in Windows
      PROVE  w \in {y[1] : y \in {z \in disables : z[2] = s}} <=> <<w, s>> \in disables
  <2>1. ASSUME NEW y \in disables, y[2] = s, y[1] = w
        PROVE  <<w, s>> \in disables
    <3>1. y = <<y[1], y[2]>>
      BY DEF TablesTypeOK
    <3> QED
      BY <2>1, <3>1
  <2>2. ASSUME <<w, s>> \in disables
        PROVE  \E y \in disables : y[2] = s /\ y[1] = w
    <3>1. <<w, s>>[2] = s /\ <<w, s>>[1] = w
      OBVIOUS
    <3> QED
      BY <2>2, <3>1
  <2> QED
    BY <2>1, <2>2
<1>4. ASSUME NEW a \in above(e)
      PROVE  a \in reached
  <2>1. groupOf[e] # Root /\ a \in ancestors[groupOf[e]]
    OBVIOUS
  <2>2. groupOf[e] \in DOMAIN ancestors
    BY <2>1
  <2> HIDE DEF ancestors
  <2> QED
    BY <2>1, <2>2
<1>5. ASSUME NEW w \in Windows
      PROVE  w \in off(e) <=> w \in DisabledWindows(e)
  <2>1. w \in own[e] <=> <<w, e>> \in disables
    BY <1>3
  <2>2. ASSUME NEW a \in above(e)
        PROVE  w \in ofGroup[a] <=> <<w, a>> \in disables
    <3> HIDE DEF reached, above
    <3> QED
      BY <1>3, <1>4
  <2> HIDE DEF own, ofGroup, above
  <2>3. w \in off(e) <=> <<w, e>> \in disables \/ \E a \in above(e) : <<w, a>> \in disables
    BY <2>1, <2>2
  <2> QED
    BY <1>2, <2>3 DEF DisabledWindows
<1> HIDE DEF above, off
<1>6. e \in BatchInMaintenance(kind) <=>
        \E w \in Windows : \/ windowAt[w] = e
                           \/ windowAt[w] \in above(e) /\ w \notin off(e)
                           \/ windowAt[w] = Global /\ w \notin off(e)
  BY <1>1
<1> QED
  BY <1>2, <1>5, <1>6 DEF Reaches

\* The page of the entity.
LEMMA PageReaches ==
  ASSUME NEW e
  PROVE  (\E x \in EffectiveWindows(e) : ~x[2]) <=> \E w \in Windows : Reaches(w, e)
<1> DEFINE on == {x \in Windows : windowAt[x] = e}
           above == {x \in Windows : windowAt[x] \in AncestorSet(e) \cup {Global}}
<1>1. EffectiveWindows(e) =
        {<<w, FALSE>> : w \in on} \cup {<<w, w \in DisabledWindows(e)>> : w \in above}
  BY DEF EffectiveWindows
<1>2. ASSUME NEW x \in EffectiveWindows(e), ~x[2]
      PROVE  \E w \in Windows : Reaches(w, e)
  <2>1. CASE x \in {<<w, FALSE>> : w \in on}
    <3>1. PICK w \in on : x = <<w, FALSE>>
      BY <2>1
    <3> QED
      BY <3>1 DEF Reaches
  <2>2. CASE x \in {<<w, w \in DisabledWindows(e)>> : w \in above}
    <3>1. PICK w \in above : x = <<w, w \in DisabledWindows(e)>>
      BY <2>2
    <3>2. x[2] = (w \in DisabledWindows(e))
      BY <3>1, Zenon
    <3>3. w \notin DisabledWindows(e)
      BY <1>2, <3>2, Zenon
    <3> QED
      BY <3>3 DEF Reaches
  <2> QED
    BY <1>1, <2>1, <2>2
<1>3. ASSUME NEW w \in Windows, Reaches(w, e)
      PROVE  \E x \in EffectiveWindows(e) : ~x[2]
  <2>1. CASE windowAt[w] = e
    <3>1. <<w, FALSE>> \in EffectiveWindows(e)
      BY <1>1, <2>1
    <3>2. <<w, FALSE>>[2] = FALSE
      BY Zenon
    <3> QED
      BY <3>1, <3>2, Zenon
  <2>2. CASE windowAt[w] \in AncestorSet(e) \cup {Global} /\ w \notin DisabledWindows(e)
    <3> DEFINE off == w \in DisabledWindows(e)
    <3>1. w \in above
      BY <2>2
    <3> HIDE DEF above
    <3>2. <<w, off>> \in EffectiveWindows(e)
      BY <1>1, <3>1, Zenon
    <3>3. <<w, off>>[2] = off /\ ~off
      BY <2>2, Zenon
    <3> QED
      BY <3>2, <3>3, Zenon
  <2> QED
    BY <1>3, <2>1, <2>2 DEF Reaches
<1> QED
  BY <1>2, <1>3

\* The worker, the list pages and the page of an entity give one answer about maintenance.
LEMMA MaintenanceHolds ==
  ASSUME Sound, TablesTypeOK
  PROVE  MaintenanceAgrees
<1> SUFFICES ASSUME Settled, NEW kind \in {Monitors, Devices}, NEW e \in kind, groupOf[e] \notin Fresh
             PROVE  LET above == Range(PathTo(groupOf[e]))
                        due == \E w \in Windows :
                                 \/ windowAt[w] = e
                                 \/ /\ windowAt[w] \in above \cup {Global}
                                    /\ \A s \in above \cup {e} : <<w, s>> \notin disables
                    IN /\ InMaintenance(e) <=> due
                       /\ e \in BatchInMaintenance(kind) <=> due
                       /\ (\E x \in EffectiveWindows(e) : ~x[2]) <=> due
  BY DEF MaintenanceAgrees, Placed
<1> DEFINE above == Range(PathTo(groupOf[e]))
           due == \E w \in Windows :
                    \/ windowAt[w] = e
                    \/ /\ windowAt[w] \in above \cup {Global}
                       /\ \A s \in above \cup {e} : <<w, s>> \notin disables
<1>1. above = AncestorSet(e)
  BY AboveEntity DEF Entities
<1> HIDE DEF above
<1>2. due <=> \E w \in Windows : Reaches(w, e)
  BY <1>1 DEF Reaches, DisabledWindows
<1> HIDE DEF due
<1>3. /\ InMaintenance(e) <=> due
      /\ e \in BatchInMaintenance(kind) <=> due
      /\ (\E x \in EffectiveWindows(e) : ~x[2]) <=> due
  BY <1>2, QuestionReaches, BatchReaches, PageReaches
<1> QED
  BY <1>3 DEF due, above

\* The best of several levels, and whether there is one at all.
LEMMA HighestLevel ==
  ASSUME NEW levels \in SUBSET Levels
  PROVE  /\ Highest(levels) \in Levels
         /\ Highest(levels) # "none" <=> \E l \in levels : l # "none"
         /\ Highest(levels) = "rw" <=> "rw" \in levels
BY DEF Highest, Levels

\* What a grant is worth.
LEMMA GrantLevels ==
  ASSUME TablesTypeOK, Sound
  PROVE  /\ \A s \in Groups \cup Monitors :
              /\ DirectLevel(s) \in Levels
              /\ DirectLevel(s) # "none" <=> \E t \in members : grants[t][s] # "none"
              /\ DirectLevel(s) = "rw" <=> \E t \in members : grants[t][s] = "rw"
         /\ \A g \in Groups :
              /\ LevelViaClosure(g) \in Levels
              /\ LevelViaClosure(g) # "none" <=>
                   \E t \in members, a \in AncestorsIn(closure, g) : grants[t][a] # "none"
              /\ LevelViaClosure(g) = "rw" <=>
                   \E t \in members, a \in AncestorsIn(closure, g) : grants[t][a] = "rw"
<1>1. ASSUME NEW s \in Groups \cup Monitors
      PROVE  /\ DirectLevel(s) \in Levels
             /\ DirectLevel(s) # "none" <=> \E t \in members : grants[t][s] # "none"
             /\ DirectLevel(s) = "rw" <=> \E t \in members : grants[t][s] = "rw"
  <2> DEFINE levels == {grants[t][s] : t \in members}
  <2>1. levels \in SUBSET Levels
    BY DEF TablesTypeOK
  <2>2. DirectLevel(s) = Highest(levels)
    BY DEF DirectLevel
  <2>3. \A l : l \in levels <=> \E t \in members : l = grants[t][s]
    OBVIOUS
  <2> HIDE DEF levels
  <2> QED
    BY <2>1, <2>2, <2>3, HighestLevel
<1>2. ASSUME NEW g \in Groups
      PROVE  /\ LevelViaClosure(g) \in Levels
             /\ LevelViaClosure(g) # "none" <=>
                  \E t \in members, a \in AncestorsIn(closure, g) : grants[t][a] # "none"
             /\ LevelViaClosure(g) = "rw" <=>
                  \E t \in members, a \in AncestorsIn(closure, g) : grants[t][a] = "rw"
  <2> DEFINE A == AncestorsIn(closure, g)
             levels == {grants[t][a] : t \in members, a \in A}
  <2>1. A \in SUBSET Groups
    BY DEF AncestorsIn
  <2> HIDE DEF A
  <2>2. levels \in SUBSET Levels
    BY <2>1 DEF TablesTypeOK
  <2>3. LevelViaClosure(g) = Highest(levels)
    BY DEF LevelViaClosure, A
  <2>4. \A l : l \in levels <=> \E t \in members, a \in A : l = grants[t][a]
    OBVIOUS
  <2> HIDE DEF levels
  <2>5. /\ LevelViaClosure(g) \in Levels
        /\ LevelViaClosure(g) # "none" <=> \E t \in members, a \in A : grants[t][a] # "none"
        /\ LevelViaClosure(g) = "rw" <=> \E t \in members, a \in A : grants[t][a] = "rw"
    BY <2>2, <2>3, <2>4, HighestLevel
  <2> QED
    BY <2>5 DEF A
<1> QED
  BY <1>1, <1>2

\* What the tree shows: what lies below a granted group, and the way down to it and to the
\* group of a granted monitor.
LEMMA WaysDown ==
  /\ \A g \in Granted(Groups) : /\ DescendantsIn(closure, g) \subseteq VisibleGroups
                                /\ AncestorsIn(closure, g) \subseteq VisibleGroups
  /\ \A m \in Granted(Monitors) :
       groupOf[m] # Root => AncestorsIn(closure, groupOf[m]) \subseteq VisibleGroups
  /\ general \subseteq VisibleGroups
<1> DEFINE holding == {groupOf[m] : m \in Granted(Monitors)} \ {Root}
           granted == Granted(Groups)
           below == UNION {DescendantsIn(closure, g) : g \in granted}
           above == UNION {AncestorsIn(closure, g) : g \in holding \cup granted}
<1>1. VisibleGroups = below \cup holding \cup above \cup general
  BY DEF VisibleGroups
<1>2. \A m \in Granted(Monitors) : groupOf[m] # Root => groupOf[m] \in holding
  OBVIOUS
<1> HIDE DEF holding, granted
<1>3. /\ \A g \in granted : DescendantsIn(closure, g) \subseteq below
      /\ \A g \in holding \cup granted : AncestorsIn(closure, g) \subseteq above
  OBVIOUS
<1> HIDE DEF below, above
<1> QED
  BY <1>1, <1>2, <1>3 DEF granted

\* Pages, lists, sockets and the tree agree on what a user may see.
LEMMA RightsHold ==
  ASSUME Sound, TablesTypeOK
  PROVE  RightsAgree
<1> SUFFICES ASSUME Settled
             PROVE  RightsAgree
  BY DEF RightsAgree
<1>1. Exists \in SUBSET Groups /\ Root \notin Groups /\ general \in SUBSET Exists
  BY Tidy DEF TablesTypeOK
<1>2. ASSUME NEW m \in Placed(Monitors)
      PROVE  LET visible == m \in VisibleMonitors IN
             /\ visible <=> MonitorPermission(m) # "none"
             /\ visible <=> UserReaches(m)
             /\ visible /\ groupOf[m] \in Groups \ general => groupOf[m] \in ShownTree
             /\ \A s \in Range(PathTo(groupOf[m])) \cup {m} :
                  (\E t \in members : grants[t][s] = "rw") => MonitorPermission(m) = "rw"
  <2> DEFINE g == groupOf[m]
             A == AncestorSet(m)
             Own == \E t \in members : grants[t][m] # "none"
             Inherits == \E t \in members, a \in A : grants[t][a] # "none"
  <2>1. m \in Monitors /\ m \in Entities /\ g \notin Fresh /\ g \in Exists \cup {Root}
    BY DEF Placed, Entities, TablesTypeOK
  <2>2. /\ Range(PathTo(g)) = A
        /\ g # Root => g \in Exists \ Fresh /\ g \in A /\ A = AncestorsIn(closure, g)
        /\ g = Root => A = {}
    BY <2>1, AboveEntity DEF AncestorSet
  <2>3. A \in SUBSET Groups
    BY DEF AncestorSet, AncestorsIn
  <2> HIDE DEF A
  <2>4. m \in VisibleMonitors <=> Inherits \/ Own \/ g \in general
    <3>1. \A s \in Groups \cup Monitors :
            DirectLevel(s) # "none" <=> \E t \in members : grants[t][s] # "none"
      BY GrantLevels
    <3>2. (g # Root /\ AncestorsIn(closure, g) \cap Granted(Groups) # {}) <=> Inherits
      BY <2>2, <2>3, <3>1 DEF Granted
    <3>3. m \in Granted(Monitors) <=> Own
      BY <2>1, <3>1 DEF Granted
    <3> QED
      BY <2>1, <3>2, <3>3 DEF VisibleMonitors
  <2> DEFINE inherited == IF g = Root THEN "none" ELSE LevelViaClosure(g)
             level == Highest({DirectLevel(m), inherited})
  <2>5. /\ DirectLevel(m) \in Levels
        /\ DirectLevel(m) # "none" <=> Own
        /\ DirectLevel(m) = "rw" <=> \E t \in members : grants[t][m] = "rw"
    BY <2>1, GrantLevels
  <2>6. /\ inherited \in Levels
        /\ inherited # "none" <=> Inherits
        /\ inherited = "rw" <=> \E t \in members, a \in A : grants[t][a] = "rw"
    <3>1. CASE g = Root
      BY <2>2, <3>1 DEF Levels
    <3>2. CASE g # Root
      BY <1>1, <2>2, <3>2, GrantLevels
    <3> QED
      BY <3>1, <3>2
  <2>7. MonitorPermission(m) = IF g \in general /\ level # "rw" THEN "ro" ELSE level
    BY DEF MonitorPermission
  <2> HIDE DEF inherited, Own, Inherits
  <2>8. /\ level # "none" <=> Own \/ Inherits
        /\ level = "rw" <=> DirectLevel(m) = "rw" \/ inherited = "rw"
    <3> DEFINE levels == {DirectLevel(m), inherited}
    <3>1. levels \in SUBSET Levels
      BY <2>5, <2>6
    <3>2. \A l : l \in levels <=> l = DirectLevel(m) \/ l = inherited
      OBVIOUS
    <3>3. level = Highest(levels)
      OBVIOUS
    <3> HIDE DEF levels, level
    <3> QED
      BY <2>5, <2>6, <3>1, <3>2, <3>3, HighestLevel
  <2> HIDE DEF level
  <2>9. m \in VisibleMonitors <=> MonitorPermission(m) # "none"
    BY <2>4, <2>7, <2>8
  <2>10. m \in VisibleMonitors <=> UserReaches(m)
    <3>1. UserReaches(m) <=> Own \/ (g # Root /\ (Inherits \/ g \in general))
      BY <2>2 DEF UserReaches, Own, Inherits
    <3>2. g = Root => ~Inherits /\ g \notin general
      BY <1>1, <2>2 DEF Inherits
    <3> QED
      BY <2>4, <3>1, <3>2
  <2>11. ASSUME m \in VisibleMonitors, g \in Groups \ general
         PROVE  g \in ShownTree
    <3>1. /\ g \in Exists /\ g \in A /\ A = AncestorsIn(closure, g)
          /\ \A a, b \in A : Linked(closure, a, b) \/ Linked(closure, b, a)
      <4>1. g \in Exists \ Fresh
        BY <1>1, <2>2, <2>11
      <4> QED
        BY <1>1, <2>2, <4>1, PathIsAncestors
    <3>2. CASE Own
      <4>1. m \in Granted(Monitors)
        BY <2>1, <2>5, <3>2 DEF Granted
      <4>2. A \subseteq VisibleGroups
        BY <1>1, <2>11, <3>1, <4>1, WaysDown
      <4> QED
        BY <2>2, <3>1, <4>2 DEF ShownTree
    <3>3. CASE Inherits
      <4>1. PICK a \in A : \E t \in members : grants[t][a] # "none"
        BY <3>3 DEF Inherits
      <4>2. a \in Granted(Groups)
        BY <2>3, <4>1, GrantLevels DEF Granted
      <4>3. /\ AncestorsIn(closure, a) \subseteq VisibleGroups
            /\ DescendantsIn(closure, a) \subseteq VisibleGroups
        BY <4>2, WaysDown
      <4>4. ASSUME NEW b \in A
            PROVE  b \in VisibleGroups
        <5>1. b \in Groups /\ (Linked(closure, a, b) \/ Linked(closure, b, a))
          BY <2>3, <3>1
        <5>2. b \in DescendantsIn(closure, a) \/ b \in AncestorsIn(closure, a)
          BY <5>1 DEF DescendantsIn, AncestorsIn
        <5> QED
          BY <4>3, <5>2
      <4> QED
        BY <2>2, <3>1, <4>4 DEF ShownTree
    <3> QED
      BY <2>4, <2>11, <3>2, <3>3
  <2>12. ASSUME NEW s \in A \cup {m}, \E t \in members : grants[t][s] = "rw"
         PROVE  MonitorPermission(m) = "rw"
    <3>1. CASE s = m
      <4>1. level = "rw"
        BY <2>5, <2>8, <2>12, <3>1
      <4> QED
        BY <2>7, <4>1
    <3>2. CASE s \in A
      <4>1. level = "rw"
        BY <2>6, <2>8, <2>12, <3>2
      <4> QED
        BY <2>7, <4>1
    <3> QED
      BY <2>12, <3>1, <3>2
  <2> QED
    BY <2>2, <2>9, <2>10, <2>11, <2>12
<1>3. ASSUME NEW g \in Exists \ Fresh, GroupPermission(g) # "none"
      PROVE  g \in VisibleGroups
  <2>1. CASE g \in general
    BY <2>1, WaysDown
  <2>2. CASE g \notin general
    <3>1. LevelViaClosure(g) # "none"
      BY <1>3, <2>2 DEF GroupPermission
    <3>2. PICK a \in AncestorsIn(closure, g) : \E t \in members : grants[t][a] # "none"
      BY <1>1, <3>1, GrantLevels
    <3>3. a \in Granted(Groups) /\ g \in DescendantsIn(closure, a)
      BY <1>1, <3>2, GrantLevels DEF Granted, AncestorsIn, DescendantsIn
    <3> QED
      BY <3>3, WaysDown
  <2> QED
    BY <2>1, <2>2
<1> QED
  BY <1>2, <1>3 DEF RightsAgree

\* While no move is half way and none was overlapped: the worker's question, the list pages
\* and the page of an entity give one answer about maintenance, that of the tree; what a
\* user may open, what the lists show and what the socket tells are the same monitors, with
\* a way down the tree to them, and a grant on a group is worth as much on everything below
\* it (maintenance.service.ts and permission.service.ts).
THEOREM ReadersAlwaysAgree == Spec => []ReadersAgree
<1>1. Sound /\ TablesTypeOK => ReadersAgree
  BY MaintenanceHolds, RightsHold DEF ReadersAgree
<1> QED
  BY <1>1, Invariant, PTL

-----------------------------------------------------------------------------
(***************************************************************************)
(* Folds.  FoldLeft goes over the sets of positions of a sequence, the     *)
(* largest position last; what a proof needs of it is the results of the   *)
(* first k positions, for every k.                                         *)
(***************************************************************************)
\* A set of positions that is not empty has a largest one.
LEMMA LargestPosition ==
  ASSUME NEW n \in Nat, NEW S \in SUBSET (1..n), S # {}
  PROVE  /\ Max(S) \in S /\ \A x \in S : x <= Max(S)
         /\ \A m \in S : (\A x \in S : x <= m) => m = Max(S)
<1> DEFINE T == {n - x : x \in S}
<1>1. T \in SUBSET Nat /\ T # {}
  <2>1. \A x \in S : n - x \in Nat
    OBVIOUS
  <2> QED
    BY <2>1
<1>2. PICK t \in T : \A m \in T : t <= m
  <2> HIDE DEF T
  <2> QED
    BY <1>1, Least
<1>3. PICK x \in S : t = n - x
  BY <1>2
<1>4. ASSUME NEW y \in S
      PROVE  x >= y
  <2>1. n - x <= n - y
    BY <1>2, <1>3
  <2>2. x \in Int /\ y \in Int
    OBVIOUS
  <2> QED
    BY <2>1, <2>2
<1>5. Max(S) \in S /\ \A y \in S : Max(S) >= y
  <2>1. \E z \in S : \A y \in S : z >= y
    BY <1>4
  <2> QED
    BY <2>1 DEF Max
<1>6. \A y \in S : y \in Int
  OBVIOUS
<1> HIDE DEF T
<1>7. ASSUME NEW y \in S
      PROVE  y <= Max(S)
  <2>1. Max(S) >= y /\ Max(S) \in Int /\ y \in Int
    BY <1>5, <1>6
  <2> QED
    BY <2>1
<1>8. ASSUME NEW m \in S, \A y \in S : y <= m
      PROVE  m = Max(S)
  <2>1. Max(S) <= m /\ m <= Max(S) /\ Max(S) \in Int /\ m \in Int
    BY <1>5, <1>6, <1>7, <1>8
  <2> QED
    BY <2>1
<1> QED
  BY <1>5, <1>7, <1>8

\* The sets of the first positions.
LEMMA FirstPositions ==
  ASSUME NEW n \in Nat, NEW k \in 0..n
  PROVE  /\ (1..k) \in SUBSET (1..n)
         /\ k = 0 => 1..k = {}
         /\ k # 0 => 1..k # {} /\ Max(1..k) = k /\ (1..k) \ {Max(1..k)} = 1..(k - 1)
<1>1. (1..k) \in SUBSET (1..n) /\ (k = 0 => 1..k = {})
  OBVIOUS
<1>2. CASE k # 0
  <2>1. k \in 1..k /\ \A x \in 1..k : x <= k
    BY <1>2
  <2>2. Max(1..k) = k
    BY <1>1, <2>1, LargestPosition
  <2>3. (1..k) \ {k} = 1..(k - 1)
    BY <1>2
  <2> QED
    BY <1>1, <1>2, <2>1, <2>2, <2>3
<1> QED
  BY <1>1, <1>2

\* The equation of a fold over k positions, for one step given as a function.
FoldEquation(h, k, V, base, step) ==
  /\ h \in [SUBSET (1..k) -> V]
  /\ \A S \in SUBSET (1..k) :
       h[S] = IF S = {} THEN base ELSE step[<<h[S \ {Max(S)}], Max(S)>>]

\* A fold is well defined: its equation has a solution.
LEMMA FoldDefined ==
  ASSUME NEW n \in Nat, NEW V, NEW base \in V, NEW step \in [V \X (1..n) -> V]
  PROVE  \E h : FoldEquation(h, n, V, base, step)
<1> USE DEF FoldEquation
<1> DEFINE Solves(h, k) == FoldEquation(h, k, V, base, step)
           T == {k \in Nat : k <= n => \E h : Solves(h, k)}
<1>1. 0 \in T
  <2> DEFINE h == [S \in SUBSET (1..0) |-> base]
  <2>1. \A S \in SUBSET (1..0) : S = {}
    OBVIOUS
  <2>2. h \in [SUBSET (1..0) -> V] /\ \A S \in SUBSET (1..0) : h[S] = base
    OBVIOUS
  <2> HIDE DEF h
  <2>3. Solves(h, 0)
    BY <2>1, <2>2
  <2> QED
    BY <2>3
<1>2. ASSUME NEW k \in Nat, k \in T
      PROVE  k + 1 \in T
  <2>1. k + 1 \in Nat
    OBVIOUS
  <2> SUFFICES ASSUME k + 1 <= n
               PROVE  \E h : Solves(h, k + 1)
    BY <2>1
  <2>2. PICK h : Solves(h, k)
    <3>1. k <= n
      OBVIOUS
    <3> QED
      BY <1>2, <3>1
  <2> DEFINE last(S) == S \ {k + 1}
             new == [S \in SUBSET (1..(k + 1)) |->
                       IF k + 1 \in S THEN step[<<h[last(S)], k + 1>>] ELSE h[S]]
  <2>3. ASSUME NEW S \in SUBSET (1..(k + 1))
        PROVE  last(S) \in SUBSET (1..k)
    OBVIOUS
  <2>4. ASSUME NEW S \in SUBSET (1..(k + 1))
        PROVE  /\ new[S] \in V
               /\ new[S] = IF S = {} THEN base ELSE step[<<new[S \ {Max(S)}], Max(S)>>]
    <3>1. CASE k + 1 \in S
      <4>1. Max(S) = k + 1
        <5>1. S # {} /\ \A x \in S : x <= k + 1
          BY <3>1
        <5>2. \A m \in S : (\A x \in S : x <= m) => m = Max(S)
          BY <2>1, <5>1, LargestPosition
        <5> QED
          BY <3>1, <5>1, <5>2
      <4>2. last(S) \in SUBSET (1..(k + 1)) /\ k + 1 \notin last(S) /\ last(S) \in SUBSET (1..k)
        BY <2>3
      <4>3. new[last(S)] = h[last(S)] /\ h[last(S)] \in V
        BY <2>2, <4>2
      <4>4. new[S] = step[<<h[last(S)], k + 1>>]
        BY <3>1
      <4>5. <<h[last(S)], k + 1>> \in V \X (1..n)
        BY <4>3
      <4>6. step[<<h[last(S)], k + 1>>] \in V
        BY <4>5
      <4>7. S # {} /\ S \ {Max(S)} = last(S)
        BY <3>1, <4>1
      <4> HIDE DEF new, last
      <4>8. new[S] = step[<<new[S \ {Max(S)}], Max(S)>>]
        BY <4>1, <4>3, <4>4, <4>7
      <4> QED
        BY <4>4, <4>6, <4>7, <4>8
    <3>2. CASE k + 1 \notin S
      <4>1. S \in SUBSET (1..k) /\ S \ {Max(S)} \in SUBSET (1..k)
        <5>1. \A x \in S : x \in 1..(k + 1) /\ x # k + 1
          BY <3>2
        <5>2. \A x \in S : x \in 1..k
          BY <5>1
        <5> QED
          BY <5>2
      <4>2. /\ S \ {Max(S)} \in SUBSET (1..(k + 1)) /\ k + 1 \notin S \ {Max(S)}
        BY <3>2
      <4>3. new[S] = h[S] /\ new[S \ {Max(S)}] = h[S \ {Max(S)}]
        BY <3>2, <4>2
      <4> HIDE DEF new
      <4> QED
        BY <2>2, <4>1, <4>3
    <3> QED
      BY <3>1, <3>2
  <2>5. new \in [SUBSET (1..(k + 1)) -> V]
    <3> HIDE DEF new
    <3>1. new = [S \in SUBSET (1..(k + 1)) |-> new[S]]
      BY DEF new
    <3> QED
      BY <2>4, <3>1
  <2>6. Solves(new, k + 1)
    <3> HIDE DEF new
    <3> QED
      BY <2>4, <2>5
  <2> HIDE DEF new, Solves
  <2> QED
    BY <2>6
<1> HIDE DEF T
<1>3. Nat \subseteq T
  BY <1>1, <1>2, SetInduction
<1>4. n <= n
  OBVIOUS
<1> QED
  BY <1>3, <1>4 DEF T

\* What a monitor resolves to along a path, for any table of rows.
SettingsOf(rows, path) ==
  FoldLeft(LAMBDA found, s : IF rows[s] = {} THEN found ELSE s, "default", path)

\* Settings are folded one scope after the other: a scope with rows of its own takes over.
LEMMA SettingsFold ==
  ASSUME NEW path \in Seq(Scopes), NEW rows
  PROVE  \E r : /\ r[0] = "default"
                /\ \A k \in 1..Len(path) : r[k] = IF rows[path[k]] = {} THEN r[k - 1] ELSE path[k]
                /\ SettingsOf(rows, path) = r[Len(path)]
<1> DEFINE n == Len(path)
           V == Scopes \cup {"default"}
           step == [x \in V \X (1..n) |-> IF rows[path[x[2]]] = {} THEN x[1] ELSE path[x[2]]]
           Folds(h) == h = [S \in SUBSET (DOMAIN path) |->
                              IF S = {} THEN "default"
                              ELSE IF rows[path[Max(S)]] = {} THEN h[S \ {Max(S)}]
                                   ELSE path[Max(S)]]
           fold == CHOOSE h : Folds(h)
           r == [k \in 0..n |-> fold[1..k]]
<1>1. SettingsOf(rows, path) = fold[DOMAIN path]
  BY DEF SettingsOf, FoldLeft, MapThenFoldSet
<1>2. DOMAIN path = 1..n /\ n \in Nat /\ \A k \in 1..n : path[k] \in V
  OBVIOUS
<1> HIDE DEF n
<1>3. step \in [V \X (1..n) -> V]
  BY <1>2
<1>4. "default" \in V
  OBVIOUS
<1> HIDE DEF V
<1>5. \E h : Folds(h)
  <2> HIDE DEF step
  <2>1. PICK h \in [SUBSET (1..n) -> V] : \A S \in SUBSET (1..n) :
          h[S] = IF S = {} THEN "default" ELSE step[<<h[S \ {Max(S)}], Max(S)>>]
    <3>1. n \in Nat
      BY <1>2
    <3>2. \E h : FoldEquation(h, n, V, "default", step)
      BY <1>3, <1>4, <3>1, FoldDefined
    <3> QED
      BY <3>2 DEF FoldEquation
  <2>2. ASSUME NEW S \in SUBSET (1..n), S # {}
        PROVE  step[<<h[S \ {Max(S)}], Max(S)>>] =
                 IF rows[path[Max(S)]] = {} THEN h[S \ {Max(S)}] ELSE path[Max(S)]
    <3>1. Max(S) \in 1..n /\ S \ {Max(S)} \in SUBSET (1..n)
      BY <1>2, <2>2, LargestPosition
    <3>2. <<h[S \ {Max(S)}], Max(S)>> \in V \X (1..n)
      BY <3>1
    <3> QED
      BY <3>2 DEF step
  <2>3. ASSUME NEW S \in SUBSET (1..n)
        PROVE  h[S] = IF S = {} THEN "default"
                      ELSE IF rows[path[Max(S)]] = {} THEN h[S \ {Max(S)}]
                           ELSE path[Max(S)]
    BY <2>1, <2>2
  <2>4. Folds(h)
    BY <1>2, <2>3
  <2> HIDE DEF Folds
  <2> QED
    BY <2>4
<1>6. Folds(fold)
  <2> HIDE DEF Folds
  <2> QED
    BY <1>5
<1> HIDE DEF fold
<1>7. ASSUME NEW k \in 1..n
      PROVE  r[k] = IF rows[path[k]] = {} THEN r[k - 1] ELSE path[k]
  <2>1. k \in 0..n /\ k - 1 \in 0..n /\ k # 0
    BY <1>2
  <2>2. /\ (1..k) \in SUBSET (1..n) /\ 1..k # {}
        /\ Max(1..k) = k /\ (1..k) \ {Max(1..k)} = 1..(k - 1)
    BY <1>2, <2>1, FirstPositions
  <2> QED
    BY <1>2, <1>6, <2>1, <2>2
<1>8. r[0] = "default"
  <2>1. 0 \in 0..n /\ (1..0) \in SUBSET (1..n) /\ 1..0 = {}
    BY <1>2
  <2> QED
    BY <1>2, <1>6, <2>1
<1>9. r[n] = fold[DOMAIN path]
  BY <1>2
<1> QED
  BY <1>1, <1>7, <1>8, <1>9 DEF n
\* Channels are folded one scope after the other.
LEMMA BindingsFold ==
  ASSUME TablesTypeOK, NEW path \in Seq(Scopes)
  PROVE  \E r : /\ r[0] = {}
                /\ \A k \in 1..Len(path) : r[k] = ApplyBindings(r[k - 1], bindings[path[k]])
                /\ ResolveChannels(path) = r[Len(path)]
<1> DEFINE n == Len(path)
           V == SUBSET Channels
           step == [x \in V \X (1..n) |-> ApplyBindings(x[1], bindings[path[x[2]]])]
           Folds(h) == h = [S \in SUBSET (DOMAIN path) |->
                              IF S = {} THEN {}
                              ELSE ApplyBindings(h[S \ {Max(S)}], bindings[path[Max(S)]])]
           fold == CHOOSE h : Folds(h)
           r == [k \in 0..n |-> fold[1..k]]
<1>1. ResolveChannels(path) = fold[DOMAIN path]
  BY DEF ResolveChannels, FoldLeft, MapThenFoldSet
<1>2. DOMAIN path = 1..n /\ n \in Nat /\ \A k \in 1..n : path[k] \in Scopes
  OBVIOUS
<1> HIDE DEF n
<1>3. step \in [V \X (1..n) -> V]
  <2>1. ASSUME NEW x \in V \X (1..n)
        PROVE  ApplyBindings(x[1], bindings[path[x[2]]]) \in V
    <3>1. bindings[path[x[2]]] \in SUBSET (Channels \X Modes)
      BY <1>2 DEF TablesTypeOK
    <3>2. \A mode : With(bindings[path[x[2]]], mode) \subseteq Channels
      BY <3>1 DEF With
    <3>3. x[1] \in V
      OBVIOUS
    <3> QED
      BY <3>2, <3>3 DEF ApplyBindings, Added
  <2> QED
    BY <2>1
<1>4. {} \in V
  OBVIOUS
<1> HIDE DEF V
<1>5. \E h : Folds(h)
  <2> HIDE DEF step
  <2>1. PICK h \in [SUBSET (1..n) -> V] : \A S \in SUBSET (1..n) :
          h[S] = IF S = {} THEN {} ELSE step[<<h[S \ {Max(S)}], Max(S)>>]
    <3>1. n \in Nat
      BY <1>2
    <3>2. \E h : FoldEquation(h, n, V, {}, step)
      BY <1>3, <1>4, <3>1, FoldDefined
    <3> QED
      BY <3>2 DEF FoldEquation
  <2>2. ASSUME NEW S \in SUBSET (1..n), S # {}
        PROVE  step[<<h[S \ {Max(S)}], Max(S)>>] =
                 ApplyBindings(h[S \ {Max(S)}], bindings[path[Max(S)]])
    <3>1. Max(S) \in 1..n /\ S \ {Max(S)} \in SUBSET (1..n)
      BY <1>2, <2>2, LargestPosition
    <3>2. <<h[S \ {Max(S)}], Max(S)>> \in V \X (1..n)
      BY <3>1
    <3> QED
      BY <3>2 DEF step
  <2>3. ASSUME NEW S \in SUBSET (1..n)
        PROVE  h[S] = IF S = {} THEN {}
                      ELSE ApplyBindings(h[S \ {Max(S)}], bindings[path[Max(S)]])
    BY <2>1, <2>2
  <2>4. Folds(h)
    BY <1>2, <2>3
  <2> HIDE DEF Folds
  <2> QED
    BY <2>4
<1>6. Folds(fold)
  <2> HIDE DEF Folds
  <2> QED
    BY <1>5
<1> HIDE DEF fold
<1>7. ASSUME NEW k \in 1..n
      PROVE  r[k] = ApplyBindings(r[k - 1], bindings[path[k]])
  <2>1. k \in 0..n /\ k - 1 \in 0..n /\ k # 0
    BY <1>2
  <2>2. /\ (1..k) \in SUBSET (1..n) /\ 1..k # {}
        /\ Max(1..k) = k /\ (1..k) \ {Max(1..k)} = 1..(k - 1)
    BY <1>2, <2>1, FirstPositions
  <2> QED
    BY <1>2, <1>6, <2>1, <2>2
<1>8. r[0] = {}
  <2>1. 0 \in 0..n /\ (1..0) \in SUBSET (1..n) /\ 1..0 = {}
    BY <1>2
  <2> QED
    BY <1>2, <1>6, <2>1
<1>9. r[n] = fold[DOMAIN path]
  BY <1>2
<1> QED
  BY <1>1, <1>7, <1>8, <1>9 DEF n

\* The channels a page shows as active.
ActiveIn(shown) == {x[1] : x \in {y \in shown : ~y[2]}}

\* One scope: what a page shows as active goes the way of what the senders use.
LEMMA ShownStep ==
  ASSUME NEW shown \in SUBSET (Channels \X BOOLEAN), NEW rows \in SUBSET (Channels \X Modes)
  PROVE  /\ ApplyWithSources(shown, rows) \in SUBSET (Channels \X BOOLEAN)
         /\ ActiveIn(ApplyWithSources(shown, rows)) = ApplyBindings(ActiveIn(shown), rows)
<1> DEFINE out == With(rows, "exclude")
           kept == IF With(rows, "replace") # {} THEN {} ELSE shown
           set == {x \in kept : x[1] \notin Added(rows)} \cup {<<c, FALSE>> : c \in Added(rows)}
           after == {<<x[1], x[2] \/ x[1] \in out>> : x \in set}
<1>1. ApplyWithSources(shown, rows) = after
  BY DEF ApplyWithSources
<1>2. Added(rows) \subseteq Channels
  <2>1. \A mode : With(rows, mode) \subseteq Channels
    BY DEF With
  <2> QED
    BY <2>1 DEF Added
<1>3. kept \subseteq Channels \X BOOLEAN
  OBVIOUS
<1> HIDE DEF kept
<1>4. set \subseteq Channels \X BOOLEAN
  <2>1. {x \in kept : x[1] \notin Added(rows)} \subseteq Channels \X BOOLEAN
    BY <1>3
  <2>2. \A c \in Added(rows) : <<c, FALSE>> \in Channels \X BOOLEAN
    BY <1>2
  <2> QED
    BY <2>1, <2>2
<1> HIDE DEF set, out
<1>5. after \in SUBSET (Channels \X BOOLEAN)
  <2>1. ASSUME NEW x \in set
        PROVE  <<x[1], x[2] \/ x[1] \in out>> \in Channels \X BOOLEAN
    <3>1. x[1] \in Channels /\ (x[2] \/ x[1] \in out) \in BOOLEAN
      BY <1>4
    <3> QED
      BY <3>1
  <2> QED
    BY <2>1
<1>6. ASSUME NEW c, NEW t \in SUBSET (Channels \X BOOLEAN)
      PROVE  c \in ActiveIn(t) <=> \E x \in t : x[1] = c /\ ~x[2]
  BY DEF ActiveIn
<1>7. ASSUME NEW c
      PROVE  c \in ActiveIn(after) <=> c \in ApplyBindings(ActiveIn(shown), rows)
  <2>1. c \in ActiveIn(after) <=> \E x \in set : x[1] = c /\ ~x[2] /\ c \notin out
    <3>1. ASSUME NEW x \in set
          PROVE  <<x[1], x[2] \/ x[1] \in out>>[1] = x[1] /\
                 (<<x[1], x[2] \/ x[1] \in out>>[2] <=> x[2] \/ x[1] \in out)
      OBVIOUS
    <3>2. (\E y \in after : y[1] = c /\ ~y[2]) <=>
            \E x \in set : <<x[1], x[2] \/ x[1] \in out>>[1] = c /\ ~<<x[1], x[2] \/ x[1] \in out>>[2]
      OBVIOUS
    <3> HIDE DEF after
    <3> QED
      BY <1>5, <1>6, <3>1, <3>2
  <2>2. (\E x \in set : x[1] = c /\ ~x[2]) <=>
          c \in Added(rows) \/ \E x \in kept : x[1] = c /\ ~x[2]
    <3>1. ASSUME c \in Added(rows)
          PROVE  \E x \in set : x[1] = c /\ ~x[2]
      <4>1. <<c, FALSE>> \in set
        BY <3>1 DEF set
      <4> QED
        BY <4>1
    <3>2. ASSUME c \notin Added(rows), NEW x \in kept, x[1] = c
          PROVE  x \in set
      BY <3>2 DEF set
    <3>3. ASSUME NEW x \in set
          PROVE  x \in kept \/ x[1] \in Added(rows)
      <4>1. x \in kept \/ \E a \in Added(rows) : x = <<a, FALSE>>
        BY DEF set
      <4>2. ASSUME NEW a \in Added(rows), x = <<a, FALSE>>
            PROVE  x[1] \in Added(rows)
        BY <4>2
      <4> QED
        BY <4>1, <4>2
    <3> QED
      BY <3>1, <3>2, <3>3
  <2>3. (\E x \in kept : x[1] = c /\ ~x[2]) <=>
          With(rows, "replace") = {} /\ c \in ActiveIn(shown)
    BY <1>6 DEF kept
  <2>4. c \in ApplyBindings(ActiveIn(shown), rows) <=>
          /\ c \in Added(rows) \/ (With(rows, "replace") = {} /\ c \in ActiveIn(shown))
          /\ c \notin out
    BY DEF ApplyBindings, out
  <2> QED
    BY <2>1, <2>2, <2>3, <2>4
<1> HIDE DEF after
<1> QED
  BY <1>1, <1>5, <1>7

\* And so are the bindings a page shows.
LEMMA ShownFold ==
  ASSUME TablesTypeOK, NEW path \in Seq(Scopes)
  PROVE  \E r : /\ r[0] = {}
                /\ \A k \in 1..Len(path) : r[k] = ApplyWithSources(r[k - 1], bindings[path[k]])
                /\ ShownBindings(path) = r[Len(path)]
<1> DEFINE n == Len(path)
           V == SUBSET (Channels \X BOOLEAN)
           step == [x \in V \X (1..n) |-> ApplyWithSources(x[1], bindings[path[x[2]]])]
           Folds(h) == h = [S \in SUBSET (DOMAIN path) |->
                              IF S = {} THEN {}
                              ELSE ApplyWithSources(h[S \ {Max(S)}], bindings[path[Max(S)]])]
           fold == CHOOSE h : Folds(h)
           r == [k \in 0..n |-> fold[1..k]]
<1>1. ShownBindings(path) = fold[DOMAIN path]
  BY DEF ShownBindings, FoldLeft, MapThenFoldSet
<1>2. DOMAIN path = 1..n /\ n \in Nat /\ \A k \in 1..n : path[k] \in Scopes
  OBVIOUS
<1> HIDE DEF n
<1>3. step \in [V \X (1..n) -> V]
  <2>1. ASSUME NEW x \in V \X (1..n)
        PROVE  ApplyWithSources(x[1], bindings[path[x[2]]]) \in V
    <3>1. bindings[path[x[2]]] \in SUBSET (Channels \X Modes)
      BY <1>2 DEF TablesTypeOK
    <3>2. x[1] \in SUBSET (Channels \X BOOLEAN)
      OBVIOUS
    <3>3. ApplyWithSources(x[1], bindings[path[x[2]]]) \in SUBSET (Channels \X BOOLEAN)
      BY <3>1, <3>2, ShownStep
    <3> QED
      BY <3>3
  <2> QED
    BY <2>1
<1>4. {} \in V
  OBVIOUS
<1> HIDE DEF V
<1>5. \E h : Folds(h)
  <2> HIDE DEF step
  <2>1. PICK h \in [SUBSET (1..n) -> V] : \A S \in SUBSET (1..n) :
          h[S] = IF S = {} THEN {} ELSE step[<<h[S \ {Max(S)}], Max(S)>>]
    <3>1. n \in Nat
      BY <1>2
    <3>2. \E h : FoldEquation(h, n, V, {}, step)
      BY <1>3, <1>4, <3>1, FoldDefined
    <3> QED
      BY <3>2 DEF FoldEquation
  <2>2. ASSUME NEW S \in SUBSET (1..n), S # {}
        PROVE  step[<<h[S \ {Max(S)}], Max(S)>>] =
                 ApplyWithSources(h[S \ {Max(S)}], bindings[path[Max(S)]])
    <3>1. Max(S) \in 1..n /\ S \ {Max(S)} \in SUBSET (1..n)
      BY <1>2, <2>2, LargestPosition
    <3>2. <<h[S \ {Max(S)}], Max(S)>> \in V \X (1..n)
      BY <3>1
    <3> QED
      BY <3>2 DEF step
  <2>3. ASSUME NEW S \in SUBSET (1..n)
        PROVE  h[S] = IF S = {} THEN {}
                      ELSE ApplyWithSources(h[S \ {Max(S)}], bindings[path[Max(S)]])
    BY <2>1, <2>2
  <2>4. Folds(h)
    BY <1>2, <2>3
  <2> HIDE DEF Folds
  <2> QED
    BY <2>4
<1>6. Folds(fold)
  <2> HIDE DEF Folds
  <2> QED
    BY <1>5
<1> HIDE DEF fold
<1>7. ASSUME NEW k \in 1..n
      PROVE  r[k] = ApplyWithSources(r[k - 1], bindings[path[k]])
  <2>1. k \in 0..n /\ k - 1 \in 0..n /\ k # 0
    BY <1>2
  <2>2. /\ (1..k) \in SUBSET (1..n) /\ 1..k # {}
        /\ Max(1..k) = k /\ (1..k) \ {Max(1..k)} = 1..(k - 1)
    BY <1>2, <2>1, FirstPositions
  <2> QED
    BY <1>2, <1>6, <2>1, <2>2
<1>8. r[0] = {}
  <2>1. 0 \in 0..n /\ (1..0) \in SUBSET (1..n) /\ 1..0 = {}
    BY <1>2
  <2> QED
    BY <1>2, <1>6, <2>1
<1>9. r[n] = fold[DOMAIN path]
  BY <1>2
<1> QED
  BY <1>1, <1>7, <1>8, <1>9 DEF n

\* And the remediation actions, each with the scope it comes from.
LEMMA RemediesFold ==
  ASSUME TablesTypeOK, NEW path \in Seq(Scopes)
  PROVE  \E r : /\ r[0] = {}
                /\ \A k \in 1..Len(path) : r[k] = ApplyRemedies(r[k - 1], path[k])
                /\ FoldLeft(ApplyRemedies, {}, path) = r[Len(path)]
<1> DEFINE n == Len(path)
           V == SUBSET (Channels \X Scopes)
           step == [x \in V \X (1..n) |-> ApplyRemedies(x[1], path[x[2]])]
           Folds(h) == h = [S \in SUBSET (DOMAIN path) |->
                              IF S = {} THEN {}
                              ELSE ApplyRemedies(h[S \ {Max(S)}], path[Max(S)])]
           fold == CHOOSE h : Folds(h)
           r == [k \in 0..n |-> fold[1..k]]
<1>1. FoldLeft(ApplyRemedies, {}, path) = fold[DOMAIN path]
  BY DEF FoldLeft, MapThenFoldSet
<1>2. DOMAIN path = 1..n /\ n \in Nat /\ \A k \in 1..n : path[k] \in Scopes
  OBVIOUS
<1> HIDE DEF n
<1>3. step \in [V \X (1..n) -> V]
  <2>1. ASSUME NEW x \in V \X (1..n)
        PROVE  ApplyRemedies(x[1], path[x[2]]) \in V
    <3>1. bindings[path[x[2]]] \in SUBSET (Channels \X Modes)
      BY <1>2 DEF TablesTypeOK
    <3>2. \A mode : With(bindings[path[x[2]]], mode) \subseteq Channels
      BY <3>1 DEF With
    <3>3. x[1] \in V /\ path[x[2]] \in Scopes
      BY <1>2
    <3> QED
      BY <3>2, <3>3 DEF ApplyRemedies, Added
  <2> QED
    BY <2>1
<1>4. {} \in V
  OBVIOUS
<1> HIDE DEF V
<1>5. \E h : Folds(h)
  <2> HIDE DEF step
  <2>1. PICK h \in [SUBSET (1..n) -> V] : \A S \in SUBSET (1..n) :
          h[S] = IF S = {} THEN {} ELSE step[<<h[S \ {Max(S)}], Max(S)>>]
    <3>1. n \in Nat
      BY <1>2
    <3>2. \E h : FoldEquation(h, n, V, {}, step)
      BY <1>3, <1>4, <3>1, FoldDefined
    <3> QED
      BY <3>2 DEF FoldEquation
  <2>2. ASSUME NEW S \in SUBSET (1..n), S # {}
        PROVE  step[<<h[S \ {Max(S)}], Max(S)>>] =
                 ApplyRemedies(h[S \ {Max(S)}], path[Max(S)])
    <3>1. Max(S) \in 1..n /\ S \ {Max(S)} \in SUBSET (1..n)
      BY <1>2, <2>2, LargestPosition
    <3>2. <<h[S \ {Max(S)}], Max(S)>> \in V \X (1..n)
      BY <3>1
    <3> QED
      BY <3>2 DEF step
  <2>3. ASSUME NEW S \in SUBSET (1..n)
        PROVE  h[S] = IF S = {} THEN {}
                      ELSE ApplyRemedies(h[S \ {Max(S)}], path[Max(S)])
    BY <2>1, <2>2
  <2>4. Folds(h)
    BY <1>2, <2>3
  <2> HIDE DEF Folds
  <2> QED
    BY <2>4
<1>6. Folds(fold)
  <2> HIDE DEF Folds
  <2> QED
    BY <1>5
<1> HIDE DEF fold
<1>7. ASSUME NEW k \in 1..n
      PROVE  r[k] = ApplyRemedies(r[k - 1], path[k])
  <2>1. k \in 0..n /\ k - 1 \in 0..n /\ k # 0
    BY <1>2
  <2>2. /\ (1..k) \in SUBSET (1..n) /\ 1..k # {}
        /\ Max(1..k) = k /\ (1..k) \ {Max(1..k)} = 1..(k - 1)
    BY <1>2, <2>1, FirstPositions
  <2> QED
    BY <1>2, <1>6, <2>1, <2>2
<1>8. r[0] = {}
  <2>1. 0 \in 0..n /\ (1..0) \in SUBSET (1..n) /\ 1..0 = {}
    BY <1>2
  <2> QED
    BY <1>2, <1>6, <2>1
<1>9. r[n] = fold[DOMAIN path]
  BY <1>2
<1> QED
  BY <1>1, <1>7, <1>8, <1>9 DEF n

\* Notification types are asked for until a scope has an answer.
LEMMA TypesFold ==
  ASSUME TablesTypeOK, NEW path \in Seq(Scopes)
  PROVE  \E r : /\ r[0] = "null"
                /\ \A k \in 1..Len(path) : r[k] = IF r[k - 1] = "null" THEN agentTypes[path[k]] ELSE r[k - 1]
                /\ FoldLeft(LAMBDA found, s : IF found = "null" THEN agentTypes[s] ELSE found, "null", path) = r[Len(path)]
<1> DEFINE n == Len(path)
           V == Answers
           step == [x \in V \X (1..n) |-> IF x[1] = "null" THEN agentTypes[path[x[2]]] ELSE x[1]]
           Folds(h) == h = [S \in SUBSET (DOMAIN path) |->
                              IF S = {} THEN "null"
                              ELSE IF h[S \ {Max(S)}] = "null" THEN agentTypes[path[Max(S)]] ELSE h[S \ {Max(S)}]]
           fold == CHOOSE h : Folds(h)
           r == [k \in 0..n |-> fold[1..k]]
<1>1. FoldLeft(LAMBDA found, s : IF found = "null" THEN agentTypes[s] ELSE found, "null", path) = fold[DOMAIN path]
  BY DEF FoldLeft, MapThenFoldSet
<1>2. DOMAIN path = 1..n /\ n \in Nat /\ \A k \in 1..n : path[k] \in Scopes
  OBVIOUS
<1> HIDE DEF n
<1>3. step \in [V \X (1..n) -> V]
  <2>1. ASSUME NEW x \in V \X (1..n)
        PROVE  (IF x[1] = "null" THEN agentTypes[path[x[2]]] ELSE x[1]) \in V
    BY <1>2 DEF TablesTypeOK
  <2> QED
    BY <2>1
<1>4. "null" \in V
  BY DEF Answers
<1> HIDE DEF V
<1>5. \E h : Folds(h)
  <2> HIDE DEF step
  <2>1. PICK h \in [SUBSET (1..n) -> V] : \A S \in SUBSET (1..n) :
          h[S] = IF S = {} THEN "null" ELSE step[<<h[S \ {Max(S)}], Max(S)>>]
    <3>1. n \in Nat
      BY <1>2
    <3>2. \E h : FoldEquation(h, n, V, "null", step)
      BY <1>3, <1>4, <3>1, FoldDefined
    <3> QED
      BY <3>2 DEF FoldEquation
  <2>2. ASSUME NEW S \in SUBSET (1..n), S # {}
        PROVE  step[<<h[S \ {Max(S)}], Max(S)>>] =
                 IF h[S \ {Max(S)}] = "null" THEN agentTypes[path[Max(S)]] ELSE h[S \ {Max(S)}]
    <3>1. Max(S) \in 1..n /\ S \ {Max(S)} \in SUBSET (1..n)
      BY <1>2, <2>2, LargestPosition
    <3>2. <<h[S \ {Max(S)}], Max(S)>> \in V \X (1..n)
      BY <3>1
    <3> QED
      BY <3>2 DEF step
  <2>3. ASSUME NEW S \in SUBSET (1..n)
        PROVE  h[S] = IF S = {} THEN "null"
                      ELSE IF h[S \ {Max(S)}] = "null" THEN agentTypes[path[Max(S)]] ELSE h[S \ {Max(S)}]
    BY <2>1, <2>2
  <2>4. Folds(h)
    BY <1>2, <2>3
  <2> HIDE DEF Folds
  <2> QED
    BY <2>4
<1>6. Folds(fold)
  <2> HIDE DEF Folds
  <2> QED
    BY <1>5
<1> HIDE DEF fold
<1>7. ASSUME NEW k \in 1..n
      PROVE  r[k] = IF r[k - 1] = "null" THEN agentTypes[path[k]] ELSE r[k - 1]
  <2>1. k \in 0..n /\ k - 1 \in 0..n /\ k # 0
    BY <1>2
  <2>2. /\ (1..k) \in SUBSET (1..n) /\ 1..k # {}
        /\ Max(1..k) = k /\ (1..k) \ {Max(1..k)} = 1..(k - 1)
    BY <1>2, <2>1, FirstPositions
  <2> QED
    BY <1>2, <1>6, <2>1, <2>2
<1>8. r[0] = "null"
  <2>1. 0 \in 0..n /\ (1..0) \in SUBSET (1..n) /\ 1..0 = {}
    BY <1>2
  <2> QED
    BY <1>2, <1>6, <2>1
<1>9. r[n] = fold[DOMAIN path]
  BY <1>2
<1> QED
  BY <1>1, <1>7, <1>8, <1>9 DEF n

\* Results that are taken over at the positions of a set, and kept at all others.
Takes(n, P, r, a) == \A k \in 1..n : r[k] = IF k \in P THEN a[k] ELSE r[k - 1]

\* Whoever takes over whenever a condition holds ends with the last position it holds at.
LEMMA TakesLast ==
  ASSUME NEW n \in Nat, NEW P \in SUBSET (1..n), NEW r, NEW a, Takes(n, P, r, a)
  PROVE  r[n] = IF P = {} THEN r[0] ELSE a[Max(P)]
<1> DEFINE Q(k) == P \cap (1..k)
           Taken(k) == r[k] = IF Q(k) = {} THEN r[0] ELSE a[Max(Q(k))]
           T == {k \in Nat : k <= n => Taken(k)}
<1>1. 0 \in T
  <2>1. Q(0) = {}
    OBVIOUS
  <2> QED
    BY <2>1
<1>2. ASSUME NEW k \in Nat, k \in T
      PROVE  k + 1 \in T
  <2>1. k + 1 \in Nat /\ (k + 1) - 1 = k
    OBVIOUS
  <2> SUFFICES ASSUME k + 1 <= n
               PROVE  Taken(k + 1)
    BY <2>1
  <2>2. k <= n /\ k + 1 \in 1..n
    OBVIOUS
  <2>3. Taken(k)
    BY <1>2, <2>2
  <2>4. r[k + 1] = IF k + 1 \in P THEN a[k + 1] ELSE r[k]
    BY <2>1, <2>2 DEF Takes
  <2>5. CASE k + 1 \in P
    <3>1. Q(k + 1) \in SUBSET (1..(k + 1)) /\ k + 1 \in Q(k + 1) /\ \A x \in Q(k + 1) : x <= k + 1
      BY <2>5
    <3>2. Q(k + 1) # {}
      BY <3>1
    <3> HIDE DEF Q
    <3>3. \A m \in Q(k + 1) : (\A x \in Q(k + 1) : x <= m) => m = Max(Q(k + 1))
      BY <2>1, <3>1, <3>2, LargestPosition
    <3>4. Max(Q(k + 1)) = k + 1
      BY <3>1, <3>3
    <3> QED
      BY <2>4, <2>5, <3>2, <3>4
  <2>6. CASE k + 1 \notin P
    <3>1. Q(k + 1) = Q(k)
      <4>1. \A x \in P : x \in 1..(k + 1) <=> x \in 1..k
        BY <2>6
      <4> QED
        BY <4>1
    <3> HIDE DEF Q
    <3> QED
      BY <2>3, <2>4, <2>6, <3>1
  <2> QED
    BY <2>5, <2>6
<1> HIDE DEF T
<1>3. Nat \subseteq T
  BY <1>1, <1>2, SetInduction
<1>4. n \in T
  BY <1>3
<1>5. n <= n
  OBVIOUS
<1>6. Q(n) = P
  OBVIOUS
<1>7. Taken(n)
  BY <1>4, <1>5 DEF T
<1> HIDE DEF Q
<1> QED
  BY <1>6, <1>7

\* The element of a path at the last position of a set.
LastAt(path, P, none) == IF P = {} THEN none ELSE path[Max(P)]

\* The last scope with rows of its own.
LEMMA LastRow ==
  ASSUME NEW n \in Nat, NEW path, DOMAIN path = 1..n, NEW none
  PROVE  LastOf(path, LAMBDA s : overrides[s] # {}, none)
           = LastAt(path, {k \in 1..n : overrides[path[k]] # {}}, none)
<1> DEFINE P == {k \in 1..n : overrides[path[k]] # {}}
<1>1. P \in SUBSET (1..n) /\ \A k \in DOMAIN path : k \in P <=> overrides[path[k]] # {}
  OBVIOUS
<1> HIDE DEF P
<1>2. ASSUME P = {}
      PROVE  LastOf(path, LAMBDA s : overrides[s] # {}, none) = LastAt(path, P, none)
  <2>1. \A k \in DOMAIN path : ~(overrides[path[k]] # {})
    BY <1>1, <1>2
  <2> QED
    BY <1>2, <2>1 DEF LastOf, LastAt
<1>3. ASSUME P # {}
      PROVE  LastOf(path, LAMBDA s : overrides[s] # {}, none) = LastAt(path, P, none)
  <2> DEFINE Final(i) == /\ overrides[path[i]] # {}
                         /\ \A j \in DOMAIN path : overrides[path[j]] # {} => j <= i
             final == CHOOSE i \in DOMAIN path : Final(i)
  <2>1. /\ Max(P) \in P /\ \A x \in P : x <= Max(P)
        /\ \A m \in P : (\A x \in P : x <= m) => m = Max(P)
    BY <1>1, <1>3, LargestPosition
  <2>2. \A x \in P : x \in DOMAIN path
    BY <1>1
  <2>3. Max(P) \in DOMAIN path /\ Final(Max(P))
    BY <1>1, <2>1, <2>2
  <2>4. LastOf(path, LAMBDA s : overrides[s] # {}, none) = path[final]
    BY <2>3 DEF LastOf
  <2>5. final \in DOMAIN path /\ Final(final)
    <3> HIDE DEF Final
    <3> QED
      BY <2>3
  <2> HIDE DEF final
  <2>6. final \in P /\ \A x \in P : x <= final
    BY <1>1, <2>2, <2>5
  <2>7. final = Max(P)
    BY <2>1, <2>6
  <2> QED
    BY <1>3, <2>4, <2>7 DEF LastAt
<1>4. LastOf(path, LAMBDA s : overrides[s] # {}, none) = LastAt(path, P, none)
  BY <1>2, <1>3
<1> QED
  BY <1>4 DEF P

\* The last scope of a path with rows that is not a given one, and the positions of such.
LastBut(path, g, none) == LastOf(path, LAMBDA s : s # g /\ overrides[s] # {}, none)
RowsBut(path, n, g) == {k \in 1..n : path[k] # g /\ overrides[path[k]] # {}}

\* The last scope with rows that is not the group itself.
LEMMA LastRowAbove ==
  ASSUME NEW n \in Nat, NEW path, DOMAIN path = 1..n, NEW g, NEW none
  PROVE  LastBut(path, g, none) = LastAt(path, RowsBut(path, n, g), none)
<1> DEFINE P == {k \in 1..n : path[k] # g /\ overrides[path[k]] # {}}
<1>1. P \in SUBSET (1..n) /\ \A k \in DOMAIN path : k \in P <=> (path[k] # g /\ overrides[path[k]] # {})
  OBVIOUS
<1> HIDE DEF P
<1>2. ASSUME P = {}
      PROVE  LastOf(path, LAMBDA s : s # g /\ overrides[s] # {}, none) = LastAt(path, P, none)
  <2>1. \A k \in DOMAIN path : ~(path[k] # g /\ overrides[path[k]] # {})
    BY <1>1, <1>2
  <2> QED
    BY <1>2, <2>1 DEF LastOf, LastAt
<1>3. ASSUME P # {}
      PROVE  LastOf(path, LAMBDA s : s # g /\ overrides[s] # {}, none) = LastAt(path, P, none)
  <2> DEFINE Final(i) == /\ (path[i] # g /\ overrides[path[i]] # {})
                         /\ \A j \in DOMAIN path : (path[j] # g /\ overrides[path[j]] # {}) => j <= i
             final == CHOOSE i \in DOMAIN path : Final(i)
  <2>1. /\ Max(P) \in P /\ \A x \in P : x <= Max(P)
        /\ \A m \in P : (\A x \in P : x <= m) => m = Max(P)
    BY <1>1, <1>3, LargestPosition
  <2>2. \A x \in P : x \in DOMAIN path
    BY <1>1
  <2>3. Max(P) \in DOMAIN path /\ Final(Max(P))
    BY <1>1, <2>1, <2>2
  <2>4. LastOf(path, LAMBDA s : s # g /\ overrides[s] # {}, none) = path[final]
    BY <2>3 DEF LastOf
  <2>5. final \in DOMAIN path /\ Final(final)
    <3> HIDE DEF Final
    <3> QED
      BY <2>3
  <2> HIDE DEF final
  <2>6. final \in P /\ \A x \in P : x <= final
    BY <1>1, <2>2, <2>5
  <2>7. final = Max(P)
    BY <2>1, <2>6
  <2> QED
    BY <1>3, <2>4, <2>7 DEF LastAt
<1>4. LastOf(path, LAMBDA s : s # g /\ overrides[s] # {}, none) = LastAt(path, P, none)
  BY <1>2, <1>3
<1>5. P = RowsBut(path, n, g)
  BY DEF P, RowsBut
<1> QED
  BY <1>4, <1>5 DEF LastBut

\* The last scope with an answer.
LEMMA LastAnswer ==
  ASSUME NEW n \in Nat, NEW path, DOMAIN path = 1..n, NEW none
  PROVE  LastOf(path, LAMBDA s : agentTypes[s] # "null", none)
           = LastAt(path, {k \in 1..n : agentTypes[path[k]] # "null"}, none)
<1> DEFINE P == {k \in 1..n : agentTypes[path[k]] # "null"}
<1>1. P \in SUBSET (1..n) /\ \A k \in DOMAIN path : k \in P <=> agentTypes[path[k]] # "null"
  OBVIOUS
<1> HIDE DEF P
<1>2. ASSUME P = {}
      PROVE  LastOf(path, LAMBDA s : agentTypes[s] # "null", none) = LastAt(path, P, none)
  <2>1. \A k \in DOMAIN path : ~(agentTypes[path[k]] # "null")
    BY <1>1, <1>2
  <2> QED
    BY <1>2, <2>1 DEF LastOf, LastAt
<1>3. ASSUME P # {}
      PROVE  LastOf(path, LAMBDA s : agentTypes[s] # "null", none) = LastAt(path, P, none)
  <2> DEFINE Final(i) == /\ agentTypes[path[i]] # "null"
                         /\ \A j \in DOMAIN path : agentTypes[path[j]] # "null" => j <= i
             final == CHOOSE i \in DOMAIN path : Final(i)
  <2>1. /\ Max(P) \in P /\ \A x \in P : x <= Max(P)
        /\ \A m \in P : (\A x \in P : x <= m) => m = Max(P)
    BY <1>1, <1>3, LargestPosition
  <2>2. \A x \in P : x \in DOMAIN path
    BY <1>1
  <2>3. Max(P) \in DOMAIN path /\ Final(Max(P))
    BY <1>1, <2>1, <2>2
  <2>4. LastOf(path, LAMBDA s : agentTypes[s] # "null", none) = path[final]
    BY <2>3 DEF LastOf
  <2>5. final \in DOMAIN path /\ Final(final)
    <3> HIDE DEF Final
    <3> QED
      BY <2>3
  <2> HIDE DEF final
  <2>6. final \in P /\ \A x \in P : x <= final
    BY <1>1, <2>2, <2>5
  <2>7. final = Max(P)
    BY <2>1, <2>6
  <2> QED
    BY <1>3, <2>4, <2>7 DEF LastAt
<1>4. LastOf(path, LAMBDA s : agentTypes[s] # "null", none) = LastAt(path, P, none)
  BY <1>2, <1>3
<1> QED
  BY <1>4 DEF P

\* The last group that groups its notifications.
LEMMA LastFlagged ==
  ASSUME NEW n \in Nat, NEW path, DOMAIN path = 1..n, NEW none
  PROVE  LastOf(path, LAMBDA s : s \in flagged, none)
           = LastAt(path, {k \in 1..n : path[k] \in flagged}, none)
<1> DEFINE P == {k \in 1..n : path[k] \in flagged}
<1>1. P \in SUBSET (1..n) /\ \A k \in DOMAIN path : k \in P <=> path[k] \in flagged
  OBVIOUS
<1> HIDE DEF P
<1>2. ASSUME P = {}
      PROVE  LastOf(path, LAMBDA s : s \in flagged, none) = LastAt(path, P, none)
  <2>1. \A k \in DOMAIN path : ~(path[k] \in flagged)
    BY <1>1, <1>2
  <2> QED
    BY <1>2, <2>1 DEF LastOf, LastAt
<1>3. ASSUME P # {}
      PROVE  LastOf(path, LAMBDA s : s \in flagged, none) = LastAt(path, P, none)
  <2> DEFINE Final(i) == /\ path[i] \in flagged
                         /\ \A j \in DOMAIN path : path[j] \in flagged => j <= i
             final == CHOOSE i \in DOMAIN path : Final(i)
  <2>1. /\ Max(P) \in P /\ \A x \in P : x <= Max(P)
        /\ \A m \in P : (\A x \in P : x <= m) => m = Max(P)
    BY <1>1, <1>3, LargestPosition
  <2>2. \A x \in P : x \in DOMAIN path
    BY <1>1
  <2>3. Max(P) \in DOMAIN path /\ Final(Max(P))
    BY <1>1, <2>1, <2>2
  <2>4. LastOf(path, LAMBDA s : s \in flagged, none) = path[final]
    BY <2>3 DEF LastOf
  <2>5. final \in DOMAIN path /\ Final(final)
    <3> HIDE DEF Final
    <3> QED
      BY <2>3
  <2> HIDE DEF final
  <2>6. final \in P /\ \A x \in P : x <= final
    BY <1>1, <2>2, <2>5
  <2>7. final = Max(P)
    BY <2>1, <2>6
  <2> QED
    BY <1>3, <2>4, <2>7 DEF LastAt
<1>4. LastOf(path, LAMBDA s : s \in flagged, none) = LastAt(path, P, none)
  BY <1>2, <1>3
<1> QED
  BY <1>4 DEF P

\* The rows of a scope name a channel, or replace what the scope inherits.
Names(rows, c) == With(rows, "replace") # {} \/ \E b \in rows : b[1] = c

\* The positions of a path that name it.
NamingAt(path, n, c) == {k \in 1..n : Names(bindings[path[k]], c)}

\* The last scope that names a channel or replaces what it inherits.
LEMMA LastNaming ==
  ASSUME NEW n \in Nat, NEW path, DOMAIN path = 1..n, NEW c
  PROVE  Decides(path, c) = LastAt(path, NamingAt(path, n, c), "none")
<1> DEFINE P == {k \in 1..n : With(bindings[path[k]], "replace") # {} \/ \E b \in bindings[path[k]] : b[1] = c}
<1>1. P \in SUBSET (1..n) /\ \A k \in DOMAIN path : k \in P <=> (With(bindings[path[k]], "replace") # {} \/ \E b \in bindings[path[k]] : b[1] = c)
  OBVIOUS
<1> HIDE DEF P
<1>2. ASSUME P = {}
      PROVE  LastOf(path, LAMBDA s : With(bindings[s], "replace") # {} \/ \E b \in bindings[s] : b[1] = c, "none") = LastAt(path, P, "none")
  <2>1. \A k \in DOMAIN path : ~(With(bindings[path[k]], "replace") # {} \/ \E b \in bindings[path[k]] : b[1] = c)
    BY <1>1, <1>2
  <2> QED
    BY <1>2, <2>1 DEF LastOf, LastAt
<1>3. ASSUME P # {}
      PROVE  LastOf(path, LAMBDA s : With(bindings[s], "replace") # {} \/ \E b \in bindings[s] : b[1] = c, "none") = LastAt(path, P, "none")
  <2> DEFINE Final(i) == /\ (With(bindings[path[i]], "replace") # {} \/ \E b \in bindings[path[i]] : b[1] = c)
                         /\ \A j \in DOMAIN path : (With(bindings[path[j]], "replace") # {} \/ \E b \in bindings[path[j]] : b[1] = c) => j <= i
             final == CHOOSE i \in DOMAIN path : Final(i)
  <2>1. /\ Max(P) \in P /\ \A x \in P : x <= Max(P)
        /\ \A m \in P : (\A x \in P : x <= m) => m = Max(P)
    BY <1>1, <1>3, LargestPosition
  <2>2. \A x \in P : x \in DOMAIN path
    BY <1>1
  <2>3. Max(P) \in DOMAIN path /\ Final(Max(P))
    BY <1>1, <2>1, <2>2
  <2>4. LastOf(path, LAMBDA s : With(bindings[s], "replace") # {} \/ \E b \in bindings[s] : b[1] = c, "none") = path[final]
    BY <2>3 DEF LastOf
  <2>5. final \in DOMAIN path /\ Final(final)
    <3> HIDE DEF Final
    <3> QED
      BY <2>3
  <2> HIDE DEF final
  <2>6. final \in P /\ \A x \in P : x <= final
    BY <1>1, <2>2, <2>5
  <2>7. final = Max(P)
    BY <2>1, <2>6
  <2> QED
    BY <1>3, <2>4, <2>7 DEF LastAt
<1>4. LastOf(path, LAMBDA s : With(bindings[s], "replace") # {} \/ \E b \in bindings[s] : b[1] = c, "none") = LastAt(path, P, "none")
  BY <1>2, <1>3
<1>5. P = NamingAt(path, n, c)
  BY DEF P, NamingAt, Names
<1> QED
  BY <1>4, <1>5 DEF Decides

\* The positions of a path that have rows.
RowsAlong(rows, path) == {k \in 1..Len(path) : rows[path[k]] # {}}

\* The fold of the settings ends with the last scope that has rows.
LEMMA LastOfTable ==
  ASSUME NEW path \in Seq(Scopes), NEW rows
  PROVE  /\ SettingsOf(rows, path) = LastAt(path, RowsAlong(rows, path), "default")
         /\ RowsAlong(rows, path) # {} => Max(RowsAlong(rows, path)) \in 1..Len(path)
<1> DEFINE n == Len(path)
           P == RowsAlong(rows, path)
<1>1. PICK r : /\ r[0] = "default"
               /\ \A k \in 1..n : r[k] = IF rows[path[k]] = {} THEN r[k - 1] ELSE path[k]
               /\ SettingsOf(rows, path) = r[n]
  BY SettingsFold
<1>2. n \in Nat /\ P \in SUBSET (1..n)
  BY DEF RowsAlong
<1>3. \A k \in 1..n : k \in P <=> rows[path[k]] # {}
  BY DEF RowsAlong
<1> HIDE DEF n, P
<1>4. Takes(n, P, r, path)
  BY <1>1, <1>3 DEF Takes
<1>5. r[n] = IF P = {} THEN r[0] ELSE path[Max(P)]
  BY <1>2, <1>4, TakesLast
<1>6. P # {} => Max(P) \in 1..n
  BY <1>2, LargestPosition
<1> QED
  BY <1>1, <1>5, <1>6 DEF LastAt, P, n

\* The settings in force are those of the last scope that has rows.
LEMMA LastSetting ==
  ASSUME NEW path \in Seq(Scopes)
  PROVE  SettingsOf(overrides, path) = LastOf(path, LAMBDA s : overrides[s] # {}, "default")
<1> DEFINE n == Len(path)
           P == {k \in 1..n : overrides[path[k]] # {}}
<1>1. n \in Nat /\ DOMAIN path = 1..n
  OBVIOUS
<1>2. LastOf(path, LAMBDA s : overrides[s] # {}, "default") = LastAt(path, P, "default")
  <2> HIDE DEF n
  <2> QED
    BY <1>1, LastRow
<1>3. SettingsOf(overrides, path) = LastAt(path, RowsAlong(overrides, path), "default")
  BY LastOfTable
<1> QED
  BY <1>2, <1>3 DEF RowsAlong

\* One scope: it decides on the channels it names, and on all when it replaces.
LEMMA BindingStep ==
  ASSUME NEW rows \in SUBSET (Channels \X Modes), NEW c
  PROVE  /\ ~Names(rows, c) => c \notin Added(rows) /\ c \notin With(rows, "exclude")
         /\ \A set : c \in ApplyBindings(set, rows) <=>
                       IF Names(rows, c) THEN c \in Added(rows) \ With(rows, "exclude") ELSE c \in set
<1>1. \A mode : c \in With(rows, mode) <=> <<c, mode>> \in rows
  <2>1. ASSUME NEW mode
        PROVE  c \in With(rows, mode) <=> \E x \in rows : x[2] = mode /\ x[1] = c
    BY DEF With
  <2>2. \A x \in rows : x = <<x[1], x[2]>>
    OBVIOUS
  <2> QED
    BY <2>1, <2>2
<1>2. (\E b \in rows : b[1] = c) <=> c \in Added(rows) \/ c \in With(rows, "exclude")
  <2>1. \A x \in rows : x = <<x[1], x[2]>> /\ x[2] \in {"merge", "replace", "exclude"}
    BY DEF Modes
  <2>2. ASSUME NEW b \in rows, b[1] = c
        PROVE  c \in Added(rows) \/ c \in With(rows, "exclude")
    BY <1>1, <2>1, <2>2 DEF Added
  <2>3. ASSUME NEW mode, <<c, mode>> \in rows
        PROVE  \E b \in rows : b[1] = c
    <3>1. <<c, mode>>[1] = c
      OBVIOUS
    <3> QED
      BY <2>3, <3>1
  <2> QED
    BY <1>1, <2>2, <2>3 DEF Added
<1>3. ~Names(rows, c) => c \notin Added(rows) /\ c \notin With(rows, "exclude")
  BY <1>2 DEF Names
<1>4. ASSUME NEW set
      PROVE  c \in ApplyBindings(set, rows) <=>
               IF Names(rows, c) THEN c \in Added(rows) \ With(rows, "exclude") ELSE c \in set
  <2>1. c \in ApplyBindings(set, rows) <=>
          /\ (c \in set /\ With(rows, "replace") = {}) \/ c \in Added(rows)
          /\ c \notin With(rows, "exclude")
    BY DEF ApplyBindings
  <2> QED
    BY <1>2, <1>3, <2>1 DEF Names
<1> QED
  BY <1>3, <1>4

\* The channels the senders use are those the deciding scope adds and does not exclude.
LEMMA ChannelsDecided ==
  ASSUME TablesTypeOK, NEW path \in Seq(Scopes)
  PROVE  ResolveChannels(path) = {c \in Channels : Decided(path, c)}
<1> DEFINE n == Len(path)
           Rows(k) == bindings[path[k]]
<1>1. PICK r : /\ r[0] = {}
               /\ \A k \in 1..n : r[k] = ApplyBindings(r[k - 1], Rows(k))
               /\ ResolveChannels(path) = r[n]
  BY BindingsFold
<1>2. n \in Nat /\ DOMAIN path = 1..n /\ \A k \in 1..n : path[k] \in Scopes
  OBVIOUS
<1>3. \A k \in 1..n : Rows(k) \in SUBSET (Channels \X Modes)
  BY <1>2 DEF TablesTypeOK
<1> HIDE DEF n
<1>4. ASSUME NEW c
      PROVE  c \in r[n] <=> Decided(path, c)
  <2> DEFINE P == NamingAt(path, n, c)
             mine == [k \in 0..n |-> r[k] \cap {c}]
             rule == [k \in 1..n |-> (Added(Rows(k)) \ With(Rows(k), "exclude")) \cap {c}]
  <2>1. P \in SUBSET (1..n) /\ \A k \in 1..n : k \in P <=> Names(Rows(k), c)
    BY DEF NamingAt
  <2>2. Decides(path, c) = LastAt(path, P, "none")
    BY <1>2, LastNaming
  <2> HIDE DEF P
  <2>3. ASSUME NEW k \in 1..n
        PROVE  mine[k] = IF k \in P THEN rule[k] ELSE mine[k - 1]
    <3>1. k \in 0..n /\ k - 1 \in 0..n
      BY <1>2
    <3>2. c \in r[k] <=> IF k \in P THEN c \in Added(Rows(k)) \ With(Rows(k), "exclude")
                         ELSE c \in r[k - 1]
      <4> HIDE DEF Rows
      <4>1. c \in ApplyBindings(r[k - 1], Rows(k)) <=>
              IF Names(Rows(k), c) THEN c \in Added(Rows(k)) \ With(Rows(k), "exclude")
              ELSE c \in r[k - 1]
        BY <1>3, BindingStep
      <4> QED
        BY <1>1, <2>1, <4>1
    <3> QED
      BY <3>1, <3>2
  <2>4. Takes(n, P, mine, rule)
    <3> HIDE DEF mine, rule
    <3> QED
      BY <2>3 DEF Takes
  <2>5. mine[n] = IF P = {} THEN mine[0] ELSE rule[Max(P)]
    <3> HIDE DEF mine, rule
    <3> QED
      BY <1>2, <2>1, <2>4, TakesLast
  <2>6. mine[0] = {} /\ mine[n] = r[n] \cap {c}
    BY <1>1, <1>2
  <2>7. CASE P = {}
    BY <2>2, <2>5, <2>6, <2>7 DEF Decided, LastAt
  <2>8. CASE P # {}
    <3>1. Max(P) \in 1..n
      BY <1>2, <2>1, <2>8, LargestPosition
    <3>2. Decides(path, c) = path[Max(P)] /\ path[Max(P)] # "none"
      BY <1>2, <2>2, <2>8, <3>1, ScopesAssumption DEF LastAt
    <3>3. rule[Max(P)] = (Added(bindings[path[Max(P)]]) \ With(bindings[path[Max(P)]], "exclude")) \cap {c}
      BY <3>1
    <3> HIDE DEF mine, rule
    <3> QED
      BY <2>5, <2>6, <2>8, <3>2, <3>3 DEF Decided
  <2> QED
    BY <2>7, <2>8
<1>5. ASSUME NEW c, Decided(path, c)
      PROVE  c \in Channels
  <2>1. \A k \in 1..n : \A mode : With(Rows(k), mode) \subseteq Channels
    BY <1>3 DEF With
  <2> DEFINE P == NamingAt(path, n, c)
  <2>2. Decides(path, c) = LastAt(path, P, "none")
    BY <1>2, LastNaming
  <2>3. P \in SUBSET (1..n)
    BY DEF NamingAt
  <2> HIDE DEF P
  <2>4. P # {}
    BY <1>5, <2>2 DEF Decided, LastAt
  <2>5. Max(P) \in 1..n /\ Decides(path, c) = path[Max(P)]
    BY <1>2, <2>2, <2>3, <2>4, LargestPosition DEF LastAt
  <2> QED
    BY <1>5, <2>1, <2>5 DEF Decided, Added
<1> QED
  BY <1>1, <1>4, <1>5

\* One scope: an action it decides on comes from it, any other from where it came.
LEMMA RemedyStep ==
  ASSUME TablesTypeOK, NEW s \in Scopes, NEW found \in SUBSET (Channels \X Scopes)
  PROVE  /\ ApplyRemedies(found, s) \in SUBSET (Channels \X Scopes)
         /\ \A c \in Channels, t \in Scopes : <<c, t>> \in ApplyRemedies(found, s) <=>
              IF Names(bindings[s], c)
              THEN c \in Added(bindings[s]) \ With(bindings[s], "exclude") /\ t = s
              ELSE <<c, t>> \in found
<1> DEFINE rows == bindings[s]
           kept == IF With(rows, "replace") # {} THEN {} ELSE found
           set == {x \in kept : x[1] \notin Added(rows)} \cup {<<a, s>> : a \in Added(rows)}
<1>1. ApplyRemedies(found, s) = {x \in set : x[1] \notin With(rows, "exclude")}
  BY DEF ApplyRemedies
<1>2. rows \in SUBSET (Channels \X Modes)
  BY DEF TablesTypeOK
<1> HIDE DEF rows
<1>3. Added(rows) \subseteq Channels
  <2>1. \A mode : With(rows, mode) \subseteq Channels
    BY <1>2 DEF With
  <2> QED
    BY <2>1 DEF Added
<1>4. kept \subseteq Channels \X Scopes
  OBVIOUS
<1> HIDE DEF kept
<1>5. set \subseteq Channels \X Scopes
  <2>1. {x \in kept : x[1] \notin Added(rows)} \subseteq Channels \X Scopes
    BY <1>4
  <2>2. \A a \in Added(rows) : <<a, s>> \in Channels \X Scopes
    BY <1>3
  <2> QED
    BY <2>1, <2>2
<1>6. ASSUME NEW c \in Channels, NEW t \in Scopes
      PROVE  <<c, t>> \in ApplyRemedies(found, s) <=>
               IF Names(rows, c) THEN c \in Added(rows) \ With(rows, "exclude") /\ t = s
               ELSE <<c, t>> \in found
  <2>1. <<c, t>>[1] = c /\ <<c, t>>[2] = t
    OBVIOUS
  <2>2. <<c, t>> \in {<<a, s>> : a \in Added(rows)} <=> c \in Added(rows) /\ t = s
    OBVIOUS
  <2>3. <<c, t>> \in set <=> \/ <<c, t>> \in kept /\ c \notin Added(rows)
                             \/ c \in Added(rows) /\ t = s
    <3>1. <<c, t>> \in {x \in kept : x[1] \notin Added(rows)} <=> <<c, t>> \in kept /\ c \notin Added(rows)
      BY <2>1
    <3> QED
      BY <2>2, <3>1
  <2>4. <<c, t>> \in kept <=> With(rows, "replace") = {} /\ <<c, t>> \in found
    BY DEF kept
  <2> HIDE DEF set
  <2>5. <<c, t>> \in ApplyRemedies(found, s) <=> <<c, t>> \in set /\ c \notin With(rows, "exclude")
    BY <1>1, <2>1
  <2>6. ~Names(rows, c) => c \notin Added(rows) /\ c \notin With(rows, "exclude")
    BY <1>2, BindingStep
  <2>7. Names(rows, c) => \/ With(rows, "replace") # {} \/ c \in Added(rows)
                          \/ c \in With(rows, "exclude")
    <3>1. c \in ApplyBindings({c}, rows) <=>
            IF Names(rows, c) THEN c \in Added(rows) \ With(rows, "exclude") ELSE c \in {c}
      BY <1>2, BindingStep
    <3> QED
      BY <3>1 DEF ApplyBindings
  <2>8. ~Names(rows, c) => With(rows, "replace") = {}
    BY DEF Names
  <2> QED
    BY <2>3, <2>4, <2>5, <2>6, <2>7, <2>8
<1>7. ApplyRemedies(found, s) \in SUBSET (Channels \X Scopes)
  BY <1>1, <1>5
<1> QED
  BY <1>6, <1>7 DEF rows

\* An action runs when the scope that decides adds it, once, with that scope's settings.
LEMMA RemediesDecided ==
  ASSUME TablesTypeOK, NEW path \in Seq(Scopes)
  PROVE  FoldLeft(ApplyRemedies, {}, path) =
           {<<c, Decides(path, c)>> : c \in {x \in Channels : Decided(path, x)}}
<1> DEFINE n == Len(path)
           Rows(k) == bindings[path[k]]
<1>1. PICK r : /\ r[0] = {}
               /\ \A k \in 1..n : r[k] = ApplyRemedies(r[k - 1], path[k])
               /\ FoldLeft(ApplyRemedies, {}, path) = r[n]
  BY RemediesFold
<1>2. n \in Nat /\ DOMAIN path = 1..n /\ \A k \in 1..n : path[k] \in Scopes
  OBVIOUS
<1> HIDE DEF n
<1>3. ASSUME NEW k \in 0..n
      PROVE  r[k] \in SUBSET (Channels \X Scopes)
  <2> DEFINE Typed(i) == i <= n => r[i] \in SUBSET (Channels \X Scopes)
             T == {i \in Nat : Typed(i)}
  <2>1. 0 \in T
    BY <1>1
  <2>2. ASSUME NEW i \in Nat, i \in T
        PROVE  i + 1 \in T
    <3>1. i + 1 \in Nat /\ (i + 1) - 1 = i
      OBVIOUS
    <3> SUFFICES ASSUME i + 1 <= n
                 PROVE  r[i + 1] \in SUBSET (Channels \X Scopes)
      BY <3>1
    <3>2. i <= n /\ i + 1 \in 1..n
      BY <1>2
    <3>3. r[i] \in SUBSET (Channels \X Scopes) /\ path[i + 1] \in Scopes
      BY <1>2, <2>2, <3>2
    <3>4. ApplyRemedies(r[i], path[i + 1]) \in SUBSET (Channels \X Scopes)
      BY <3>3, RemedyStep
    <3> QED
      BY <1>1, <3>1, <3>2, <3>4
  <2> HIDE DEF T
  <2>3. Nat \subseteq T
    BY <2>1, <2>2, SetInduction
  <2>4. k \in Nat /\ k <= n
    BY <1>2
  <2> QED
    BY <2>3, <2>4 DEF T
<1>4. ASSUME NEW c \in Channels, NEW t \in Scopes
      PROVE  <<c, t>> \in r[n] <=> Decided(path, c) /\ t = Decides(path, c)
  <2> DEFINE P == NamingAt(path, n, c)
             mine == [k \in 0..n |-> {x \in Scopes : <<c, x>> \in r[k]}]
             rule == [k \in 1..n |->
                        IF c \in Added(Rows(k)) \ With(Rows(k), "exclude") THEN {path[k]} ELSE {}]
  <2>1. P \in SUBSET (1..n) /\ \A k \in 1..n : k \in P <=> Names(Rows(k), c)
    BY DEF NamingAt
  <2>2. Decides(path, c) = LastAt(path, P, "none")
    BY <1>2, LastNaming
  <2> HIDE DEF P
  <2>3. ASSUME NEW k \in 1..n
        PROVE  mine[k] = IF k \in P THEN rule[k] ELSE mine[k - 1]
    <3>1. k \in 0..n /\ k - 1 \in 0..n /\ path[k] \in Scopes
      BY <1>2
    <3>2. r[k - 1] \in SUBSET (Channels \X Scopes)
      BY <1>3, <3>1
    <3>3. \A x \in Scopes : <<c, x>> \in ApplyRemedies(r[k - 1], path[k]) <=>
            IF Names(Rows(k), c) THEN c \in Added(Rows(k)) \ With(Rows(k), "exclude") /\ x = path[k]
            ELSE <<c, x>> \in r[k - 1]
      BY <3>1, <3>2, RemedyStep
    <3>4. \A x \in Scopes : <<c, x>> \in r[k] <=>
            IF k \in P THEN c \in Added(Rows(k)) \ With(Rows(k), "exclude") /\ x = path[k]
            ELSE <<c, x>> \in r[k - 1]
      <4> HIDE DEF Rows
      <4> QED
        BY <1>1, <2>1, <3>3
    <3>5. CASE k \in P
      <4>1. mine[k] = {x \in Scopes : <<c, x>> \in r[k]} /\
            rule[k] = IF c \in Added(Rows(k)) \ With(Rows(k), "exclude") THEN {path[k]} ELSE {}
        BY <3>1
      <4> HIDE DEF mine, rule, Rows
      <4> QED
        BY <3>1, <3>4, <3>5, <4>1
    <3>6. CASE k \notin P
      <4>1. mine[k] = {x \in Scopes : <<c, x>> \in r[k]} /\
            mine[k - 1] = {x \in Scopes : <<c, x>> \in r[k - 1]}
        BY <3>1
      <4> HIDE DEF mine, rule, Rows
      <4> QED
        BY <3>1, <3>4, <3>6, <4>1
    <3> QED
      BY <3>5, <3>6
  <2>4. Takes(n, P, mine, rule)
    <3> HIDE DEF mine, rule
    <3> QED
      BY <2>3 DEF Takes
  <2>5. mine[n] = IF P = {} THEN mine[0] ELSE rule[Max(P)]
    <3> HIDE DEF mine, rule
    <3> QED
      BY <1>2, <2>1, <2>4, TakesLast
  <2>6. mine[0] = {} /\ (t \in mine[n] <=> <<c, t>> \in r[n])
    BY <1>1, <1>2
  <2>7. CASE P = {}
    BY <2>2, <2>5, <2>6, <2>7 DEF Decided, LastAt
  <2>8. CASE P # {}
    <3>1. Max(P) \in 1..n
      BY <1>2, <2>1, <2>8, LargestPosition
    <3>2. Decides(path, c) = path[Max(P)] /\ path[Max(P)] # "none"
      BY <1>2, <2>2, <2>8, <3>1, ScopesAssumption DEF LastAt
    <3>3. rule[Max(P)] = IF c \in Added(bindings[path[Max(P)]]) \ With(bindings[path[Max(P)]], "exclude")
                         THEN {path[Max(P)]} ELSE {}
      BY <3>1
    <3> HIDE DEF mine, rule
    <3> QED
      BY <2>5, <2>6, <2>8, <3>2, <3>3 DEF Decided
  <2> QED
    BY <2>7, <2>8
<1>5. ASSUME NEW c \in Channels, Decided(path, c)
      PROVE  Decides(path, c) \in Scopes
  <2> DEFINE P == NamingAt(path, n, c)
  <2>1. Decides(path, c) = LastAt(path, P, "none") /\ P \in SUBSET (1..n)
    BY <1>2, LastNaming DEF NamingAt
  <2> HIDE DEF P
  <2>2. P # {}
    BY <1>5, <2>1 DEF Decided, LastAt
  <2>3. Max(P) \in 1..n /\ Decides(path, c) = path[Max(P)]
    BY <1>2, <2>1, <2>2, LargestPosition DEF LastAt
  <2> QED
    BY <1>2, <2>3
<1> DEFINE due == {<<c, Decides(path, c)>> : c \in {x \in Channels : Decided(path, x)}}
<1>6. due \subseteq Channels \X Scopes
  BY <1>5
<1>7. ASSUME NEW c \in Channels, NEW t \in Scopes
      PROVE  <<c, t>> \in due <=> Decided(path, c) /\ t = Decides(path, c)
  OBVIOUS
<1>8. n \in 0..n
  BY <1>2
<1> HIDE DEF due
<1>9. r[n] = due
  <2>1. r[n] \subseteq Channels \X Scopes
    BY <1>3, <1>8
  <2>2. ASSUME NEW x \in Channels \X Scopes
        PROVE  x \in r[n] <=> x \in due
    <3>1. x = <<x[1], x[2]>> /\ x[1] \in Channels /\ x[2] \in Scopes
      OBVIOUS
    <3> QED
      BY <1>4, <1>7, <3>1
  <2> QED
    BY <1>6, <2>1, <2>2
<1> QED
  BY <1>1, <1>9 DEF due

\* What a page shows as active is what the senders use along the same scopes.
LEMMA ShownIsUsed ==
  ASSUME TablesTypeOK, NEW path \in Seq(Scopes)
  PROVE  ActiveIn(ShownBindings(path)) = ResolveChannels(path)
<1> DEFINE n == Len(path)
           Rows(k) == bindings[path[k]]
           B == SUBSET (Channels \X BOOLEAN)
<1>1. PICK u : /\ u[0] = {}
               /\ \A k \in 1..n : u[k] = ApplyBindings(u[k - 1], Rows(k))
               /\ ResolveChannels(path) = u[n]
  BY BindingsFold
<1>2. PICK r : /\ r[0] = {}
               /\ \A k \in 1..n : r[k] = ApplyWithSources(r[k - 1], Rows(k))
               /\ ShownBindings(path) = r[n]
  BY ShownFold
<1>3. n \in Nat /\ \A k \in 1..n : Rows(k) \in SUBSET (Channels \X Modes)
  BY DEF TablesTypeOK
<1> HIDE DEF n, Rows
<1> DEFINE Same(k) == k <= n => r[k] \in B /\ ActiveIn(r[k]) = u[k]
           T == {k \in Nat : Same(k)}
<1>4. 0 \in T
  BY <1>1, <1>2 DEF ActiveIn
<1>5. ASSUME NEW k \in Nat, k \in T
      PROVE  k + 1 \in T
  <2>1. k + 1 \in Nat /\ (k + 1) - 1 = k
    OBVIOUS
  <2> SUFFICES ASSUME k + 1 <= n
               PROVE  r[k + 1] \in B /\ ActiveIn(r[k + 1]) = u[k + 1]
    BY <2>1
  <2>2. k <= n /\ k + 1 \in 1..n
    BY <1>3
  <2>3. r[k] \in B /\ ActiveIn(r[k]) = u[k] /\ Rows(k + 1) \in SUBSET (Channels \X Modes)
    BY <1>3, <1>5, <2>2
  <2>4. /\ ApplyWithSources(r[k], Rows(k + 1)) \in B
        /\ ActiveIn(ApplyWithSources(r[k], Rows(k + 1))) = ApplyBindings(ActiveIn(r[k]), Rows(k + 1))
    BY <2>3, ShownStep
  <2> QED
    BY <1>1, <1>2, <2>1, <2>2, <2>3, <2>4
<1> HIDE DEF T
<1>6. Nat \subseteq T
  BY <1>4, <1>5, SetInduction
<1>7. n <= n
  BY <1>3
<1> QED
  BY <1>1, <1>2, <1>3, <1>6, <1>7 DEF T

-----------------------------------------------------------------------------
(***************************************************************************)
(* The closure rows of a group, ordered by depth, are its path.            *)
(***************************************************************************)
\* Positions that go up strictly, and are as many as the places there are, fill them.
LEMMA StrictlyUp ==
  ASSUME NEW m \in Nat, NEW q \in [1..m -> 1..m],
         \A i, j \in 1..m : i < j => q[i] < q[j]
  PROVE  \A i \in 1..m : q[i] = i
<1> DEFINE T == {k \in Nat : k + 1 <= m => q[k + 1] >= k + 1}
           U == {k \in Nat : m - k >= 1 => q[m - k] <= m - k}
<1>1. 0 \in T
  <2>1. ASSUME 0 + 1 <= m
        PROVE  q[0 + 1] >= 0 + 1
    <3>1. 0 + 1 \in 1..m
      BY <2>1
    <3>2. q[0 + 1] \in 1..m
      BY <3>1
    <3> QED
      BY <3>2
  <2> QED
    BY <2>1
<1>2. ASSUME NEW k \in Nat, k \in T
      PROVE  k + 1 \in T
  <2>1. k + 1 \in Nat
    OBVIOUS
  <2> SUFFICES ASSUME (k + 1) + 1 <= m
               PROVE  q[(k + 1) + 1] >= (k + 1) + 1
    BY <2>1
  <2>2. k + 1 \in 1..m /\ (k + 1) + 1 \in 1..m /\ k + 1 < (k + 1) + 1 /\ k + 1 <= m
    OBVIOUS
  <2>3. q[k + 1] >= k + 1
    BY <1>2, <2>2
  <2>4. q[k + 1] < q[(k + 1) + 1]
    BY <2>2
  <2>5. q[k + 1] \in Nat /\ q[(k + 1) + 1] \in Nat
    BY <2>2
  <2> QED
    BY <2>3, <2>4, <2>5
<1> HIDE DEF T
<1>3. Nat \subseteq T
  BY <1>1, <1>2, SetInduction
<1>4. 0 \in U
  <2>1. ASSUME m - 0 >= 1
        PROVE  q[m - 0] <= m - 0
    <3>1. m - 0 = m /\ m \in 1..m
      BY <2>1
    <3>2. q[m] \in 1..m
      BY <3>1
    <3> QED
      BY <3>1, <3>2
  <2> QED
    BY <2>1
<1>5. ASSUME NEW k \in Nat, k \in U
      PROVE  k + 1 \in U
  <2>1. k + 1 \in Nat
    OBVIOUS
  <2> SUFFICES ASSUME m - (k + 1) >= 1
               PROVE  q[m - (k + 1)] <= m - (k + 1)
    BY <2>1
  <2>2. m - k \in 1..m /\ m - (k + 1) \in 1..m /\ m - (k + 1) < m - k /\ m - k >= 1
    OBVIOUS
  <2>3. q[m - k] <= m - k
    BY <1>5, <2>2
  <2>4. q[m - (k + 1)] < q[m - k]
    BY <2>2
  <2>5. q[m - (k + 1)] \in Nat /\ q[m - k] \in Nat
    BY <2>2
  <2> QED
    BY <2>3, <2>4, <2>5
<1> HIDE DEF U
<1>6. Nat \subseteq U
  BY <1>4, <1>5, SetInduction
<1>7. ASSUME NEW i \in 1..m
      PROVE  q[i] = i
  <2>1. i - 1 \in Nat /\ (i - 1) + 1 = i /\ i <= m
    OBVIOUS
  <2>2. m - i \in Nat /\ m - (m - i) = i /\ i >= 1
    OBVIOUS
  <2>3. q[i] >= i
    BY <1>3, <2>1 DEF T
  <2>4. q[i] <= i
    BY <1>6, <2>2 DEF U
  <2>5. q[i] \in Nat
    OBVIOUS
  <2> QED
    BY <2>3, <2>4, <2>5
<1> QED
  BY <1>7

\* Rows of which each is one less deep than the one before, down from a depth.
Stairs(f, m, d) == \A i \in 1..m : f[i][3] = d - i
RowsIn(f, m) == {f[i] : i \in 1..m}

\* Such rows have one order by depth.
LEMMA DownwardOrder ==
  ASSUME NEW m \in Nat, NEW d \in Nat, d >= m, NEW f, Stairs(f, m, d)
  PROVE  Downward(RowsIn(f, m)) = [i \in 1..m |-> f[i][1]]
<1> USE DEF Stairs
<1> DEFINE rows == {f[i] : i \in 1..m}
           F == [i \in 1..m |-> f[i]]
           Ordered(s) == \A i, j \in DOMAIN s : i < j => s[i][3] >= s[j][3]
           sorted == CHOOSE s \in SetToSeqs(rows) : Ordered(s)
<1>1. ASSUME NEW i \in 1..m, NEW j \in 1..m, f[i] = f[j]
      PROVE  i = j
  <2>1. d - i = d - j
    BY <1>1
  <2> QED
    BY <2>1
<1>2. F \in [1..m -> rows] /\ DOMAIN F = 1..m /\ \A i \in 1..m : F[i] = f[i]
  OBVIOUS
<1> HIDE DEF F
<1>3. Cardinality(rows) = m
  <2>1. \A x \in rows : \E i \in 1..m : F[i] = x
    BY <1>2
  <2> HIDE DEF rows
  <2>2. F \in Bijection(1..m, rows)
    BY <1>1, <1>2, <2>1 DEF Bijection, Injection, Surjection, IsInjective
  <2>3. ExistsBijection(1..m, rows)
    BY <2>2 DEF ExistsBijection
  <2> QED
    BY <2>3, FS_CountingElements
<1>4. SetToSeqs(rows) = {s \in [1..m -> rows] : \A i, j \in 1..m : i # j => s[i] # s[j]}
  <2> HIDE DEF rows
  <2> QED
    BY <1>3 DEF SetToSeqs
<1>5. F \in SetToSeqs(rows) /\ Ordered(F)
  <2>1. \A i, j \in 1..m : i # j => F[i] # F[j]
    BY <1>1, <1>2
  <2>2. ASSUME NEW i \in 1..m, NEW j \in 1..m, i < j
        PROVE  F[i][3] >= F[j][3]
    <3>1. F[i][3] = d - i /\ F[j][3] = d - j
      BY <1>2
    <3> QED
      BY <2>2, <3>1
  <2> HIDE DEF rows
  <2> QED
    BY <1>2, <1>4, <2>1, <2>2
<1>6. ASSUME NEW s \in SetToSeqs(rows), Ordered(s)
      PROVE  s = F
  <2>1. s \in [1..m -> rows] /\ \A i, j \in 1..m : i # j => s[i] # s[j]
    BY <1>4
  <2> DEFINE q == [i \in 1..m |-> CHOOSE j \in 1..m : s[i] = f[j]]
  <2>2. ASSUME NEW i \in 1..m
        PROVE  q[i] \in 1..m /\ s[i] = f[q[i]]
    <3>1. \E j \in 1..m : s[i] = f[j]
      BY <2>1
    <3> QED
      BY <3>1
  <2>3. q \in [1..m -> 1..m]
    <3>1. DOMAIN q = 1..m /\ q = [i \in 1..m |-> q[i]]
      OBVIOUS
    <3> HIDE DEF q
    <3> QED
      BY <2>2, <3>1
  <2> HIDE DEF q
  <2>4. ASSUME NEW i \in 1..m, NEW j \in 1..m, i < j
        PROVE  q[i] < q[j]
    <3>1. s[i][3] >= s[j][3] /\ s[i] # s[j]
      <4>1. DOMAIN s = 1..m /\ s[i] # s[j]
        <5> HIDE DEF rows
        <5> QED
          BY <2>1, <2>4
      <4> HIDE DEF rows
      <4> QED
        BY <1>6, <2>4, <4>1
    <3>2. s[i][3] = d - q[i] /\ s[j][3] = d - q[j] /\ q[i] \in 1..m /\ q[j] \in 1..m
      BY <2>2
    <3>3. q[i] # q[j]
      BY <2>2, <3>1
    <3> QED
      BY <3>1, <3>2, <3>3
  <2>5. \A i \in 1..m : q[i] = i
    BY <2>3, <2>4, StrictlyUp
  <2>6. \A i \in 1..m : s[i] = F[i]
    BY <1>2, <2>2, <2>5
  <2> HIDE DEF rows
  <2> QED
    BY <1>2, <2>1, <2>6
<1>7. sorted = F
  <2> HIDE DEF rows, Ordered
  <2>1. sorted \in SetToSeqs(rows) /\ Ordered(sorted)
    BY <1>5
  <2> QED
    BY <1>6, <2>1
<1>8. Downward(rows) = [i \in DOMAIN sorted |-> sorted[i][1]]
  BY DEF Downward
<1> HIDE DEF sorted, rows
<1>9. Downward(rows) = [i \in 1..m |-> f[i][1]]
  BY <1>2, <1>7, <1>8
<1> QED
  BY <1>9 DEF rows, RowsIn

\* The chain of a group is its path, and the chain above it is the path without its end.
LEMMA ChainIsPath ==
  ASSUME Sound, Settled, NEW g \in Exists \ Fresh
  PROVE  \E n \in Nat \ {0} :
           /\ PathTo(g) \in Seq(Groups) /\ Len(PathTo(g)) = n /\ PathTo(g)[n] = g
           /\ \A i \in 1..n : PathTo(g)[i] \in Groups /\ (i # n => PathTo(g)[i] # g)
           /\ {x \in closure : x[2] = g} = {<<PathTo(g)[i], g, n - i>> : i \in 1..n}
           /\ GroupChain(g) = PathTo(g)
           /\ AncestorChain(g) = [i \in 1..(n - 1) |-> PathTo(g)[i]]
<1>1. PICK n \in Nat \ {0} :
        /\ DOMAIN PathTo(g) = 1..n /\ PathTo(g) = [i \in 1..n |-> PathTo(g)[i]]
        /\ \A i \in 1..n : PathTo(g)[i] \in Groups
        /\ PathTo(g)[n] = g
        /\ \A i, j \in 1..n : PathTo(g)[i] = PathTo(g)[j] => i = j
        /\ {x \in closure : x[2] = g} = {<<PathTo(g)[i], g, n - i>> : i \in 1..n}
  BY PathShape
<1> DEFINE p == PathTo(g)
           f == [i \in 1..n |-> <<p[i], g, n - i>>]
<1> HIDE DEF p
<1>2. \A i \in 1..n : f[i][3] = n - i /\ f[i][1] = p[i] /\ f[i] = <<p[i], g, n - i>>
  OBVIOUS
<1> HIDE DEF f
<1>3. {x \in closure : x[2] = g} = RowsIn(f, n)
  <2>1. \A i \in 1..n : f[i] = <<PathTo(g)[i], g, n - i>>
    BY <1>2 DEF p
  <2>2. {<<PathTo(g)[i], g, n - i>> : i \in 1..n} = {f[i] : i \in 1..n}
    BY <2>1
  <2> QED
    BY <1>1, <2>2 DEF RowsIn
<1>4. GroupChain(g) = p
  <2>1. {x \in closure : x[2] = g} = RowsIn(f, n)
    BY <1>3
  <2>2. Downward(RowsIn(f, n)) = [i \in 1..n |-> f[i][1]]
    <3>1. n \in Nat /\ n >= n /\ Stairs(f, n, n)
      BY <1>2 DEF Stairs
    <3> QED
      BY <3>1, DownwardOrder
  <2>3. [i \in 1..n |-> f[i][1]] = [i \in 1..n |-> p[i]]
    BY <1>2
  <2>4. p = [i \in 1..n |-> p[i]]
    BY <1>1 DEF p
  <2> QED
    BY <2>1, <2>2, <2>3, <2>4 DEF GroupChain
<1>5. AncestorChain(g) = [i \in 1..(n - 1) |-> p[i]]
  <2>1. {x \in closure : x[2] = g /\ x[3] > 0} = RowsIn(f, n - 1)
    <3>1. {x \in closure : x[2] = g} = {f[i] : i \in 1..n}
      BY <1>3 DEF RowsIn
    <3>2. ASSUME NEW x \in closure, x[2] = g, x[3] > 0
          PROVE  x \in {f[i] : i \in 1..(n - 1)}
      <4>1. PICK i \in 1..n : x = f[i]
        BY <3>1, <3>2
      <4>2. n - i > 0
        BY <1>2, <3>2, <4>1
      <4>3. i \in 1..(n - 1)
        BY <4>2
      <4> QED
        BY <4>1, <4>3
    <3>3. ASSUME NEW i \in 1..(n - 1)
          PROVE  f[i] \in closure /\ f[i][2] = g /\ f[i][3] > 0
      <4>1. i \in 1..n /\ n - i > 0
        OBVIOUS
      <4>2. f[i] \in {x \in closure : x[2] = g}
        BY <3>1, <4>1
      <4> QED
        BY <1>2, <4>1, <4>2
    <3> QED
      BY <3>2, <3>3 DEF RowsIn
  <2>2. Downward(RowsIn(f, n - 1)) = [i \in 1..(n - 1) |-> f[i][1]]
    <3>1. n - 1 \in Nat /\ n \in Nat /\ n >= n - 1 /\ Stairs(f, n - 1, n)
      BY <1>2 DEF Stairs
    <3> QED
      BY <3>1, DownwardOrder
  <2>3. [i \in 1..(n - 1) |-> f[i][1]] = [i \in 1..(n - 1) |-> p[i]]
    BY <1>2
  <2> QED
    BY <2>1, <2>2, <2>3 DEF AncestorChain
<1>6. p \in Seq(Groups) /\ Len(p) = n
  BY <1>1 DEF p
<1>7. \A i \in 1..n : i # n => p[i] # g
  <2>1. n \in 1..n
    OBVIOUS
  <2> QED
    BY <1>1, <2>1 DEF p
<1> QED
  BY <1>1, <1>4, <1>5, <1>6, <1>7 DEF p

\* A path between the global scope and an entity.
LEMMA Between ==
  ASSUME NEW S, NEW a \in S, NEW e \in S, NEW s \in Seq(S)
  PROVE  /\ <<a>> \o s \o <<e>> \in Seq(S)
         /\ Len(<<a>> \o s \o <<e>>) = Len(s) + 2
         /\ (<<a>> \o s \o <<e>>)[1] = a /\ (<<a>> \o s \o <<e>>)[Len(s) + 2] = e
         /\ \A i \in 1..Len(s) : (<<a>> \o s \o <<e>>)[i + 1] = s[i]
         /\ <<a>> \o s \in Seq(S) /\ Len(<<a>> \o s) = Len(s) + 1
         /\ (<<a>> \o s)[1] = a
         /\ \A i \in 1..Len(s) : (<<a>> \o s)[i + 1] = s[i]
<1>1. <<a>> \in Seq(S) /\ <<e>> \in Seq(S) /\ Len(<<a>>) = 1 /\ Len(<<e>>) = 1
  OBVIOUS
<1>2. /\ <<a>> \o s \in Seq(S) /\ Len(<<a>> \o s) = Len(s) + 1
      /\ (<<a>> \o s)[1] = a
      /\ \A i \in 1..Len(s) : (<<a>> \o s)[i + 1] = s[i]
  OBVIOUS
<1> DEFINE t == <<a>> \o s
<1> HIDE DEF t
<1>3. t \in Seq(S) /\ Len(t) = Len(s) + 1 /\ Len(s) \in Nat
  BY <1>2 DEF t
<1>4. /\ t \o <<e>> \in Seq(S) /\ Len(t \o <<e>>) = Len(s) + 2
      /\ (t \o <<e>>)[Len(s) + 2] = e
      /\ \A i \in 1..(Len(s) + 1) : (t \o <<e>>)[i] = t[i]
  BY <1>3
<1>5. 1 \in 1..(Len(s) + 1) /\ \A i \in 1..Len(s) : i + 1 \in 1..(Len(s) + 1)
  BY <1>3
<1> QED
  BY <1>2, <1>4, <1>5 DEF t

\* What sits in a group or in none is asked for along its path.
LEMMA ChainOfEntity ==
  ASSUME Sound, TablesTypeOK, Settled, NEW e \in Entities, groupOf[e] \notin Fresh
  PROVE  /\ ChainOf(e) = PathTo(groupOf[e]) /\ PathTo(groupOf[e]) \in Seq(Groups)
         /\ Path(e) \in Seq(Scopes)
         /\ Path(e) = <<Global>> \o ChainOf(e) \o <<e>>
<1>1. CASE groupOf[e] = Root
  BY <1>1 DEF ChainOf, PathTo, Path, Scopes
<1>2. CASE groupOf[e] # Root
  <2>1. groupOf[e] \in Exists \ Fresh
    BY <1>2 DEF TablesTypeOK
  <2>2. GroupChain(groupOf[e]) = PathTo(groupOf[e]) /\ PathTo(groupOf[e]) \in Seq(Groups)
    BY <2>1, ChainIsPath
  <2>3. PathTo(groupOf[e]) \in Seq(Scopes) /\ e \in Scopes /\ Global \in Scopes
    BY <2>2 DEF Scopes
  <2>4. <<Global>> \o PathTo(groupOf[e]) \o <<e>> \in Seq(Scopes)
    BY <2>3, Between
  <2> QED
    BY <1>2, <2>2, <2>4 DEF ChainOf, Path
<1> QED
  BY <1>1, <1>2

-----------------------------------------------------------------------------
(***************************************************************************)
(* The nearest scope decides.                                              *)
(***************************************************************************)
\* A group inherits from the last scope above it that has rows.
LEMMA GroupSettings ==
  ASSUME Sound, Settled, NEW g \in Exists \ Fresh
  PROVE  ResolveForGroup(g) =
           LastOf(<<Global>> \o PathTo(g), LAMBDA s : s # g /\ overrides[s] # {}, "default")
<1>1. PICK n \in Nat \ {0} :
        /\ PathTo(g) \in Seq(Groups) /\ Len(PathTo(g)) = n /\ PathTo(g)[n] = g
        /\ \A i \in 1..n : PathTo(g)[i] \in Groups /\ (i # n => PathTo(g)[i] # g)
        /\ {x \in closure : x[2] = g} = {<<PathTo(g)[i], g, n - i>> : i \in 1..n}
        /\ GroupChain(g) = PathTo(g)
        /\ AncestorChain(g) = [i \in 1..(n - 1) |-> PathTo(g)[i]]
  BY ChainIsPath
<1> DEFINE above == AncestorChain(g)
           path == <<Global>> \o above
           full == <<Global>> \o PathTo(g)
<1>2. above \in Seq(Groups) /\ Len(above) = n - 1 /\ \A i \in 1..(n - 1) : above[i] = PathTo(g)[i]
  <2>1. n - 1 \in Nat /\ \A i \in 1..(n - 1) : PathTo(g)[i] \in Groups
    BY <1>1
  <2> QED
    BY <1>1, <2>1
<1> HIDE DEF above
<1>3. above \in Seq(Scopes) /\ PathTo(g) \in Seq(Scopes) /\ Global \in Scopes /\ Global # g
  <2>1. Groups \subseteq Scopes /\ Global \in Scopes /\ g \in Groups
    BY DEF Scopes, Exists
  <2> QED
    BY <1>1, <1>2, <2>1, ScopesAssumption
<1>4. /\ path \in Seq(Scopes) /\ Len(path) = n /\ path[1] = Global
      /\ \A i \in 1..(n - 1) : path[i + 1] = above[i]
  <2>1. Len(above) + 1 = n
    BY <1>2
  <2> QED
    BY <1>2, <1>3, <2>1, Between
<1>5. /\ full \in Seq(Scopes) /\ Len(full) = n + 1 /\ full[1] = Global
      /\ \A i \in 1..n : full[i + 1] = PathTo(g)[i]
  BY <1>1, <1>3, Between
<1>6. \A k \in 1..n : full[k] = path[k] /\ full[k] # g
  <2> SUFFICES ASSUME NEW k \in 1..n
               PROVE  full[k] = path[k] /\ full[k] # g
    OBVIOUS
  <2> HIDE DEF path, full
  <2>1. CASE k = 1
    BY <1>3, <1>4, <1>5, <2>1
  <2>2. CASE k # 1
    <3>1. k - 1 \in 1..(n - 1) /\ k - 1 \in 1..n /\ (k - 1) + 1 = k /\ k - 1 # n
      BY <2>2
    <3>2. full[k] = PathTo(g)[k - 1]
      BY <1>5, <3>1
    <3>3. path[k] = PathTo(g)[k - 1]
      BY <1>2, <1>4, <3>1
    <3> QED
      BY <1>1, <3>1, <3>2, <3>3
  <2> QED
    BY <2>1, <2>2
<1>7. full[n + 1] = g
  <2>1. n \in 1..n
    OBVIOUS
  <2> QED
    BY <1>1, <1>5, <2>1
<1>8. n \in Nat /\ n + 1 \in Nat /\ DOMAIN path = 1..n /\ DOMAIN full = 1..(n + 1)
  <2> HIDE DEF path, full
  <2> QED
    BY <1>4, <1>5
<1>9. ResolveForGroup(g) = LastOf(path, LAMBDA s : overrides[s] # {}, "default")
  <2>1. ResolveForGroup(g) = SettingsOf(overrides, path)
    BY DEF ResolveForGroup, SettingsOf, above
  <2> HIDE DEF path
  <2> QED
    BY <1>4, <2>1, LastSetting
<1> DEFINE P == {k \in 1..n : overrides[path[k]] # {}}
           Q == RowsBut(full, n + 1, g)
<1> HIDE DEF path, full
<1>10. LastOf(path, LAMBDA s : overrides[s] # {}, "default") = LastAt(path, P, "default")
  BY <1>8, LastRow
<1>11. LastBut(full, g, "default") = LastAt(full, Q, "default")
  BY <1>8, LastRowAbove
<1>12. P = Q
  <2>1. \A k \in 1..(n + 1) : k \in 1..n \/ k = n + 1
    OBVIOUS
  <2>2. 1..n \subseteq 1..(n + 1)
    OBVIOUS
  <2> QED
    BY <1>6, <1>7, <2>1, <2>2 DEF RowsBut
<1>13. LastAt(path, P, "default") = LastAt(full, Q, "default")
  <2>1. P \in SUBSET (1..n)
    OBVIOUS
  <2> HIDE DEF P, Q
  <2>2. P # {} => Max(P) \in 1..n
    BY <1>8, <2>1, LargestPosition
  <2> QED
    BY <1>6, <1>12, <2>2 DEF LastAt
<1>14. full = <<Global>> \o PathTo(g)
  BY DEF full
<1> QED
  BY <1>9, <1>10, <1>11, <1>13, <1>14 DEF LastBut

\* The group that speaks for a group's monitors is the last of its path that is flagged.
LEMMA GroupThatSpeaks ==
  ASSUME Sound, Settled, NEW g \in Exists \ Fresh
  PROVE  NearestFlagged(g) = LastOf(PathTo(g), LAMBDA s : s \in flagged, Root)
<1>1. PICK n \in Nat \ {0} :
        /\ PathTo(g) \in Seq(Groups) /\ Len(PathTo(g)) = n /\ PathTo(g)[n] = g
        /\ \A i \in 1..n : PathTo(g)[i] \in Groups /\ (i # n => PathTo(g)[i] # g)
        /\ {x \in closure : x[2] = g} = {<<PathTo(g)[i], g, n - i>> : i \in 1..n}
        /\ GroupChain(g) = PathTo(g)
        /\ AncestorChain(g) = [i \in 1..(n - 1) |-> PathTo(g)[i]]
  BY ChainIsPath
<1> DEFINE path == PathTo(g)
           P == {k \in 1..n : path[k] \in flagged}
           rows == {x \in closure : x[2] = g /\ x[1] \in flagged}
           Nearest(x) == \A y \in rows : x[3] <= y[3]
           near == CHOOSE x \in rows : Nearest(x)
<1>2. DOMAIN path = 1..n /\ n \in Nat
  BY <1>1
<1> HIDE DEF path
<1>3. LastOf(path, LAMBDA s : s \in flagged, Root) = LastAt(path, P, Root)
  BY <1>2, LastFlagged
<1>4. ASSUME NEW i \in P
      PROVE  <<path[i], g, n - i>> \in rows
  <2> DEFINE x == <<path[i], g, n - i>>
  <2>1. x \in {<<path[j], g, n - j>> : j \in 1..n} /\ x[1] = path[i] /\ x[2] = g
    OBVIOUS
  <2>2. x \in closure
    BY <1>1, <2>1 DEF path
  <2> QED
    BY <2>1, <2>2
<1>5. ASSUME NEW x \in rows
      PROVE  \E i \in P : x = <<path[i], g, n - i>>
  <2>1. x \in {y \in closure : y[2] = g} /\ x[1] \in flagged
    OBVIOUS
  <2>2. PICK i \in 1..n : x = <<path[i], g, n - i>>
    BY <1>1, <2>1 DEF path
  <2>3. i \in P
    BY <2>1, <2>2
  <2> QED
    BY <2>2, <2>3
<1>6. P \in SUBSET (1..n)
  OBVIOUS
<1> HIDE DEF P, rows
<1>7. NearestFlagged(g) = IF rows = {} THEN Root ELSE near[1]
  BY DEF NearestFlagged, rows
<1>8. CASE P = {}
  <2>1. rows = {}
    BY <1>5, <1>8
  <2> QED
    BY <1>3, <1>7, <1>8, <2>1 DEF LastAt, path
<1>9. CASE P # {}
  <2>1. Max(P) \in P /\ \A i \in P : i <= Max(P)
    BY <1>2, <1>6, <1>9, LargestPosition
  <2>2. Max(P) \in 1..n
    BY <1>6, <2>1
  <2> DEFINE top == <<path[Max(P)], g, n - Max(P)>>
  <2>3. top \in rows /\ top[3] = n - Max(P)
    BY <1>4, <2>1
  <2>4. ASSUME NEW x \in rows
        PROVE  \E i \in P : x = <<path[i], g, n - i>> /\ x[3] = n - i /\ top[3] <= x[3]
    <3>1. PICK i \in P : x = <<path[i], g, n - i>>
      BY <1>5
    <3>2. x[3] = n - i /\ i <= Max(P) /\ i \in 1..n
      BY <1>6, <2>1, <3>1
    <3>3. n - Max(P) <= n - i
      BY <1>2, <2>2, <3>2
    <3> QED
      BY <2>3, <3>1, <3>2, <3>3
  <2> HIDE DEF top
  <2>5. near \in rows /\ Nearest(near)
    <3>1. Nearest(top)
      BY <2>4
    <3> HIDE DEF Nearest
    <3> QED
      BY <2>3, <3>1
  <2> HIDE DEF near
  <2>6. PICK i \in P : near = <<path[i], g, n - i>> /\ near[3] = n - i
    BY <2>4, <2>5
  <2>7. n - i <= n - Max(P)
    BY <2>3, <2>5, <2>6
  <2>8. i = Max(P)
    <3>1. i <= Max(P) /\ i \in 1..n
      BY <1>6, <2>1
    <3> QED
      BY <1>2, <2>2, <2>7, <3>1
  <2>9. near[1] = path[Max(P)] /\ rows # {}
    BY <2>3, <2>6, <2>8
  <2> QED
    BY <1>3, <1>7, <1>9, <2>9 DEF LastAt, path
<1> QED
  BY <1>8, <1>9

\* The first answer from the device up is the last one of the path from the root.
LEMMA TypesDecided ==
  ASSUME Sound, TablesTypeOK, Settled, NEW d \in Devices, groupOf[d] \notin Fresh
  PROVE  ResolveType(d) = agentTypes[LastOf(Path(d), LAMBDA s : agentTypes[s] # "null", Global)]
<1> DEFINE chain == ChainOf(d)
           up == Reverse(chain)
           asked == <<d>> \o up \o <<Global>>
           path == <<Global>> \o chain \o <<d>>
           n == Len(chain) + 2
<1>1. d \in Entities /\ d \in Scopes /\ Global \in Scopes
  BY DEF Entities, Scopes
<1>2. chain \in Seq(Scopes) /\ Path(d) = path
  <2>1. /\ chain = PathTo(groupOf[d]) /\ PathTo(groupOf[d]) \in Seq(Groups)
        /\ Path(d) = path
    BY <1>1, ChainOfEntity
  <2>2. Groups \subseteq Scopes
    BY DEF Scopes
  <2> QED
    BY <2>1, <2>2
<1>3. ResolveType(d) =
        FoldLeft(LAMBDA found, s : IF found = "null" THEN agentTypes[s] ELSE found, "null", asked)
  BY DEF ResolveType
<1> HIDE DEF chain
<1>4. /\ up \in Seq(Scopes) /\ Len(up) = Len(chain)
      /\ \A i \in 1..Len(chain) : up[i] = chain[Len(chain) - i + 1]
  <2>1. Len(chain) \in Nat /\ \A i \in 1..Len(chain) : Len(chain) - i + 1 \in 1..Len(chain)
    BY <1>2
  <2>2. up = [i \in 1..Len(chain) |-> chain[(Len(chain) - i) + 1]]
    BY DEF Reverse
  <2> QED
    BY <1>2, <2>1, <2>2
<1> HIDE DEF up
<1>5. /\ asked \in Seq(Scopes) /\ Len(asked) = n /\ asked[1] = d /\ asked[n] = Global
      /\ \A i \in 1..Len(chain) : asked[i + 1] = up[i]
  <2>1. up \in Seq(Scopes) /\ Len(up) + 2 = n
    BY <1>4
  <2>2. /\ asked \in Seq(Scopes) /\ Len(asked) = Len(up) + 2
        /\ asked[1] = d /\ asked[Len(up) + 2] = Global
        /\ \A i \in 1..Len(up) : asked[i + 1] = up[i]
    BY <1>1, <2>1, Between
  <2> HIDE DEF asked, n
  <2>3. \A i \in 1..Len(chain) : asked[i + 1] = up[i]
    BY <1>4, <2>2
  <2> QED
    BY <2>1, <2>2, <2>3
<1>6. /\ path \in Seq(Scopes) /\ Len(path) = n /\ path[1] = Global /\ path[n] = d
      /\ \A i \in 1..Len(chain) : path[i + 1] = chain[i]
  BY <1>1, <1>2, Between
<1>7. n \in Nat /\ n >= 2 /\ Len(chain) \in Nat /\ n = Len(chain) + 2
  BY <1>2
<1> HIDE DEF asked, path, n
<1>8. ASSUME NEW k \in 1..n
      PROVE  n + 1 - k \in 1..n /\ asked[k] = path[n + 1 - k]
  <2>1. n + 1 - k \in 1..n
    BY <1>7
  <2>2. CASE k = 1
    BY <1>5, <1>6, <1>7, <2>2
  <2>3. CASE k = n
    BY <1>5, <1>6, <1>7, <2>3
  <2>4. CASE k # 1 /\ k # n
    <3>1. /\ k - 1 \in 1..Len(chain) /\ (k - 1) + 1 = k
          /\ Len(chain) - (k - 1) + 1 \in 1..Len(chain)
          /\ (Len(chain) - (k - 1) + 1) + 1 = n + 1 - k
      BY <1>7, <2>4
    <3>2. asked[k] = chain[Len(chain) - (k - 1) + 1]
      BY <1>4, <1>5, <3>1
    <3>3. path[n + 1 - k] = chain[Len(chain) - (k - 1) + 1]
      BY <1>6, <3>1
    <3> QED
      BY <2>1, <3>2, <3>3
  <2> QED
    BY <2>1, <2>2, <2>3, <2>4
<1> DEFINE P == {k \in 1..n : agentTypes[path[k]] # "null"}
           top == Max(P)
<1>9. 1 \in P /\ P \in SUBSET (1..n)
  BY <1>6, <1>7 DEF TablesTypeOK
<1>10. LastOf(path, LAMBDA s : agentTypes[s] # "null", Global) = path[top]
  <2>1. n \in Nat /\ DOMAIN path = 1..n
    BY <1>6, <1>7
  <2>2. LastOf(path, LAMBDA s : agentTypes[s] # "null", Global) = LastAt(path, P, Global)
    BY <2>1, LastAnswer
  <2> HIDE DEF P
  <2> QED
    BY <1>9, <2>2 DEF LastAt
<1>11. top \in P /\ \A x \in P : x <= top
  <2> HIDE DEF P
  <2> QED
    BY <1>7, <1>9, LargestPosition
<1> HIDE DEF top
<1>12. PICK r :
         /\ r[0] = "null"
         /\ \A k \in 1..Len(asked) :
              r[k] = IF r[k - 1] = "null" THEN agentTypes[asked[k]] ELSE r[k - 1]
         /\ FoldLeft(LAMBDA found, s : IF found = "null" THEN agentTypes[s] ELSE found,
                     "null", asked) = r[Len(asked)]
  BY <1>5, TypesFold
<1>13. \A k \in 1..n : r[k] = IF r[k - 1] = "null" THEN agentTypes[path[n + 1 - k]] ELSE r[k - 1]
  <2>1. \A k \in 1..n : r[k] = IF r[k - 1] = "null" THEN agentTypes[asked[k]] ELSE r[k - 1]
    BY <1>5, <1>12
  <2> QED
    BY <1>8, <2>1
<1> DEFINE Known(k) == k \in 0..n => r[k] = IF k + top <= n THEN "null" ELSE agentTypes[path[top]]
           T == {k \in Nat : Known(k)}
<1>14. 0 \in T
  <2>1. top \in 1..n
    BY <1>11
  <2>2. 0 + top <= n
    BY <1>7, <2>1
  <2>3. r[0] = "null"
    BY <1>12
  <2> QED
    BY <2>2, <2>3
<1>15. ASSUME NEW k \in Nat, k \in T
       PROVE  k + 1 \in T
  <2> SUFFICES ASSUME k + 1 \in 0..n
               PROVE  r[k + 1] = IF (k + 1) + top <= n THEN "null" ELSE agentTypes[path[top]]
    OBVIOUS
  <2>1. k + 1 \in 1..n /\ k \in 0..n /\ (k + 1) - 1 = k /\ n + 1 - (k + 1) = n - k /\ n - k \in 0..n
    BY <1>7
  <2>2. r[k + 1] = IF r[k] = "null" THEN agentTypes[path[n - k]] ELSE r[k]
    BY <1>13, <2>1
  <2>3. r[k] = IF k + top <= n THEN "null" ELSE agentTypes[path[top]]
    BY <1>15, <2>1
  <2>4. top \in 1..n /\ agentTypes[path[top]] # "null"
    BY <1>11
  <2>5. CASE k + top > n
    BY <1>7, <2>2, <2>3, <2>4, <2>5
  <2>6. CASE k + top = n
    <3>1. n - k = top
      BY <1>7, <2>4, <2>6
    <3>2. k + top <= n /\ ~((k + 1) + top <= n)
      BY <1>7, <2>4, <2>6
    <3> QED
      BY <2>2, <2>3, <3>1, <3>2
  <2>7. CASE k + top < n
    <3>1. n - k > top /\ (k + 1) + top <= n /\ k + top <= n /\ n - k \in 1..n
      BY <1>7, <2>4, <2>7
    <3>2. n - k \notin P
      BY <1>7, <1>11, <2>4, <3>1
    <3>3. agentTypes[path[n - k]] = "null"
      BY <3>1, <3>2
    <3> QED
      BY <2>2, <2>3, <3>1, <3>3
  <2>8. k + top \in Int
    BY <2>4
  <2> QED
    BY <1>7, <2>5, <2>6, <2>7, <2>8
<1>16. n \in T
  <2> HIDE DEF T
  <2>1. Nat \subseteq T
    BY <1>14, <1>15, SetInduction
  <2> QED
    BY <1>7, <2>1
<1>17. r[n] = agentTypes[path[top]]
  <2>1. top \in 1..n /\ ~(n + top <= n) /\ n \in 0..n
    BY <1>7, <1>11
  <2> QED
    BY <1>16, <2>1
<1>18. ResolveType(d) = agentTypes[path[top]]
  BY <1>3, <1>5, <1>12, <1>17
<1> QED
  BY <1>2, <1>10, <1>18

\* What a monitor resolves to is the last scope of its path that has rows.
LEMMA MonitorSettings ==
  ASSUME Sound, TablesTypeOK, Settled, NEW m \in Monitors, groupOf[m] \notin Fresh
  PROVE  ResolveForMonitor(m) = LastOf(Path(m), LAMBDA s : overrides[s] # {}, "default")
<1> DEFINE path == Path(m)
<1>1. m \in Entities
  BY DEF Entities
<1>2. path \in Seq(Scopes) /\ path = <<Global>> \o ChainOf(m) \o <<m>>
  BY <1>1, ChainOfEntity
<1>3. ResolveForMonitor(m) = SettingsOf(overrides, path)
  BY <1>2 DEF ResolveForMonitor, SettingsOf
<1> HIDE DEF path
<1>4. ResolveForMonitor(m) = LastOf(path, LAMBDA s : overrides[s] # {}, "default")
  BY <1>2, <1>3, LastSetting
<1> QED
  BY <1>4 DEF path

\* Settings, notification types and grouping: the nearest scope that answers decides.
LEMMA NearestSettingHolds == Sound /\ TablesTypeOK => NearestSettingWins
<1> SUFFICES ASSUME Sound, TablesTypeOK, Settled
             PROVE  NearestSettingWins
  BY DEF NearestSettingWins
<1>1. \A m \in Placed(Monitors) :
        ResolveForMonitor(m) = LastOf(Path(m), LAMBDA s : overrides[s] # {}, "default")
  <2> SUFFICES ASSUME NEW m \in Placed(Monitors)
               PROVE  ResolveForMonitor(m) = LastOf(Path(m), LAMBDA s : overrides[s] # {}, "default")
    OBVIOUS
  <2>1. m \in Monitors /\ groupOf[m] \notin Fresh
    BY DEF Placed
  <2> QED
    BY <2>1, MonitorSettings
<1>2. \A d \in Placed(Devices) :
        ResolveType(d) = agentTypes[LastOf(Path(d), LAMBDA s : agentTypes[s] # "null", Global)]
  <2> SUFFICES ASSUME NEW d \in Placed(Devices)
               PROVE  ResolveType(d) =
                        agentTypes[LastOf(Path(d), LAMBDA s : agentTypes[s] # "null", Global)]
    OBVIOUS
  <2>1. d \in Devices /\ groupOf[d] \notin Fresh
    BY DEF Placed
  <2> QED
    BY <2>1, TypesDecided
<1>3. \A g \in Exists \ Fresh :
        /\ ResolveForGroup(g) =
             LastOf(<<Global>> \o PathTo(g), LAMBDA s : s # g /\ overrides[s] # {}, "default")
        /\ NearestFlagged(g) = LastOf(PathTo(g), LAMBDA s : s \in flagged, Root)
  <2> SUFFICES ASSUME NEW g \in Exists \ Fresh
               PROVE  /\ ResolveForGroup(g) =
                           LastOf(<<Global>> \o PathTo(g), LAMBDA s : s # g /\ overrides[s] # {}, "default")
                      /\ NearestFlagged(g) = LastOf(PathTo(g), LAMBDA s : s \in flagged, Root)
    OBVIOUS
  <2>1. ResolveForGroup(g) =
          LastOf(<<Global>> \o PathTo(g), LAMBDA s : s # g /\ overrides[s] # {}, "default")
    BY GroupSettings
  <2>2. NearestFlagged(g) = LastOf(PathTo(g), LAMBDA s : s \in flagged, Root)
    BY GroupThatSpeaks
  <2> QED
    BY <2>1, <2>2
<1> QED
  BY <1>1, <1>2, <1>3 DEF NearestSettingWins

\* A scope that binds nothing changes nothing.
LEMMA NothingBound ==
  ASSUME TablesTypeOK, NEW path \in Seq(Scopes), NEW s \in Scopes, bindings[s] = {}
  PROVE  ResolveChannels(path \o <<s>>) = ResolveChannels(path)
<1> DEFINE long == path \o <<s>>
           n == Len(path)
<1>1. /\ long \in Seq(Scopes) /\ Len(long) = n + 1 /\ long[n + 1] = s /\ n \in Nat
      /\ \A k \in 1..n : long[k] = path[k]
  OBVIOUS
<1> HIDE DEF long, n
<1>2. DOMAIN path = 1..n /\ DOMAIN long = 1..(n + 1) /\ n + 1 \in Nat
  BY <1>1 DEF n
<1>3. ASSUME NEW c \in Channels
      PROVE  Decides(long, c) = Decides(path, c)
  <2> DEFINE P == NamingAt(path, n, c)
             L == NamingAt(long, n + 1, c)
  <2>1. Decides(path, c) = LastAt(path, P, "none") /\ Decides(long, c) = LastAt(long, L, "none")
    BY <1>1, <1>2, LastNaming
  <2>2. ~Names(bindings[s], c)
    BY DEF Names, With
  <2>3. P = L
    <3>1. \A k \in 1..(n + 1) : k \in 1..n \/ k = n + 1
      BY <1>1
    <3>2. 1..n \subseteq 1..(n + 1)
      BY <1>1
    <3> QED
      BY <1>1, <2>2, <3>1, <3>2 DEF NamingAt
  <2>4. P \in SUBSET (1..n)
    BY DEF NamingAt
  <2> HIDE DEF P, L
  <2>5. P # {} => Max(P) \in 1..n
    BY <1>1, <2>4, LargestPosition
  <2> QED
    BY <1>1, <2>1, <2>3, <2>5 DEF LastAt
<1>4. \A c \in Channels : Decided(long, c) <=> Decided(path, c)
  BY <1>3 DEF Decided
<1>5. ResolveChannels(long) = {c \in Channels : Decided(long, c)}
  BY <1>1, ChannelsDecided
<1>6. ResolveChannels(path) = {c \in Channels : Decided(path, c)}
  BY ChannelsDecided
<1> QED
  BY <1>4, <1>5, <1>6 DEF long

\* A group's page asks along the same path as its senders.
LEMMA GroupsPath ==
  ASSUME Sound, Settled, NEW g \in Exists \ Fresh
  PROVE  /\ <<Global>> \o GroupChain(g) \in Seq(Scopes)
         /\ <<Global>> \o AncestorChain(g) \o <<g>> = <<Global>> \o GroupChain(g)
<1>1. PICK n \in Nat \ {0} :
        /\ PathTo(g) \in Seq(Groups) /\ Len(PathTo(g)) = n /\ PathTo(g)[n] = g
        /\ \A i \in 1..n : PathTo(g)[i] \in Groups /\ (i # n => PathTo(g)[i] # g)
        /\ {x \in closure : x[2] = g} = {<<PathTo(g)[i], g, n - i>> : i \in 1..n}
        /\ GroupChain(g) = PathTo(g)
        /\ AncestorChain(g) = [i \in 1..(n - 1) |-> PathTo(g)[i]]
  BY ChainIsPath
<1> DEFINE chain == GroupChain(g)
           above == AncestorChain(g)
           long == <<Global>> \o chain
           short == <<Global>> \o above \o <<g>>
<1>2. Groups \subseteq Scopes /\ Global \in Scopes /\ g \in Scopes
  BY DEF Scopes, Exists
<1>3. chain \in Seq(Scopes) /\ Len(chain) = n /\ chain[n] = g
  BY <1>1, <1>2
<1>4. above \in Seq(Scopes) /\ Len(above) = n - 1 /\ \A i \in 1..(n - 1) : above[i] = chain[i]
  <2>1. n - 1 \in Nat /\ \A i \in 1..(n - 1) : PathTo(g)[i] \in Scopes
    BY <1>1, <1>2
  <2> QED
    BY <1>1, <2>1
<1> HIDE DEF chain, above
<1>5. /\ long \in Seq(Scopes) /\ Len(long) = n + 1 /\ long[1] = Global
      /\ \A i \in 1..n : long[i + 1] = chain[i]
  BY <1>2, <1>3, Between
<1>6. /\ short \in Seq(Scopes) /\ Len(short) = n + 1 /\ short[1] = Global /\ short[n + 1] = g
      /\ \A i \in 1..(n - 1) : short[i + 1] = above[i]
  <2>1. Len(above) + 2 = n + 1 /\ above \in Seq(Scopes)
    BY <1>4
  <2>2. /\ short \in Seq(Scopes) /\ Len(short) = Len(above) + 2
        /\ short[1] = Global /\ short[Len(above) + 2] = g
        /\ \A i \in 1..Len(above) : short[i + 1] = above[i]
    BY <1>2, <2>1, Between
  <2> HIDE DEF short
  <2> QED
    BY <1>4, <2>1, <2>2
<1> HIDE DEF long, short
<1>7. ASSUME NEW k \in 1..(n + 1)
      PROVE  short[k] = long[k]
  <2>1. CASE k = 1
    BY <1>5, <1>6, <2>1
  <2>2. CASE k = n + 1
    <3>1. n \in 1..n
      OBVIOUS
    <3> QED
      BY <1>3, <1>5, <1>6, <2>2, <3>1
  <2>3. CASE k # 1 /\ k # n + 1
    <3>1. k - 1 \in 1..(n - 1) /\ k - 1 \in 1..n /\ (k - 1) + 1 = k
      BY <2>3
    <3>2. short[k] = above[k - 1]
      BY <1>6, <3>1
    <3>3. long[k] = chain[k - 1]
      BY <1>5, <3>1
    <3> QED
      BY <1>4, <3>1, <3>2, <3>3
  <2> QED
    BY <2>1, <2>2, <2>3
<1>8. short = long
  <2>1. short \in [1..(n + 1) -> Scopes] /\ long \in [1..(n + 1) -> Scopes]
    BY <1>5, <1>6
  <2> QED
    BY <1>7, <2>1
<1> QED
  BY <1>5, <1>8 DEF long, short, chain, above

\* The device a monitor is backed by, and what the channels of a monitor are asked for.
BackedBy(m) == IF m \in DOMAIN DeviceOf THEN <<DeviceOf[m]>> ELSE <<>>
IsPlain(m) == m \notin DOMAIN DeviceOf \/ bindings[DeviceOf[m]] = {}

\* The channels and the remedies of a monitor, and what its page shows.
LEMMA MonitorBindings ==
  ASSUME Sound, TablesTypeOK, Settled, NEW m \in Monitors, groupOf[m] \notin Fresh
  PROVE  /\ ResolveChannelsForMonitor(m) = {c \in Channels : Decided(Path(m) \o BackedBy(m), c)}
         /\ IsPlain(m) => ActiveIn(ShownForMonitor(m)) = ResolveChannelsForMonitor(m)
         /\ ResolveRemedies(m) =
              {<<c, Decides(Path(m), c)>> : c \in {x \in Channels : Decided(Path(m), x)}}
<1> DEFINE path == Path(m)
           long == path \o BackedBy(m)
<1>1. m \in Entities
  BY DEF Entities
<1>2. path \in Seq(Scopes) /\ path = <<Global>> \o ChainOf(m) \o <<m>>
  BY <1>1, ChainOfEntity
<1>3. ResolveChannelsForMonitor(m) = ResolveChannels(long)
  BY <1>2 DEF ResolveChannelsForMonitor, BackedBy
<1>4. ResolveRemedies(m) = FoldLeft(ApplyRemedies, {}, path)
  BY <1>2 DEF ResolveRemedies
<1>5. ShownForMonitor(m) = ShownBindings(path)
  BY <1>2 DEF ShownForMonitor
<1>6. m \in DOMAIN DeviceOf => DeviceOf[m] \in Scopes
  BY ScopesAssumption DEF Scopes, Entities
<1> HIDE DEF path
<1>7. m \notin DOMAIN DeviceOf => long = path
  BY <1>2 DEF BackedBy
<1>8. m \in DOMAIN DeviceOf => long = path \o <<DeviceOf[m]>>
  BY DEF BackedBy
<1> HIDE DEF long
<1>9. long \in Seq(Scopes)
  <2>1. CASE m \notin DOMAIN DeviceOf
    BY <1>2, <1>7, <2>1
  <2>2. CASE m \in DOMAIN DeviceOf
    <3> DEFINE by == <<DeviceOf[m]>>
    <3>1. by \in Seq(Scopes)
      BY <1>6, <2>2
    <3>2. long = path \o by
      BY <1>8, <2>2
    <3>3. path \in Seq(Scopes)
      BY <1>2
    <3> HIDE DEF by
    <3> QED
      BY <3>1, <3>2, <3>3
  <2> QED
    BY <2>1, <2>2
<1>10. ResolveChannels(long) = {c \in Channels : Decided(long, c)}
  BY <1>9, ChannelsDecided
<1>11. ASSUME IsPlain(m)
       PROVE  ActiveIn(ShownForMonitor(m)) = ResolveChannelsForMonitor(m)
  <2>1. ActiveIn(ShownBindings(path)) = ResolveChannels(path)
    BY <1>2, ShownIsUsed
  <2>2. CASE m \notin DOMAIN DeviceOf
    BY <1>3, <1>5, <1>7, <2>1, <2>2
  <2>3. CASE m \in DOMAIN DeviceOf
    <3>1. bindings[DeviceOf[m]] = {}
      BY <1>11, <2>3 DEF IsPlain
    <3>2. ResolveChannels(path \o <<DeviceOf[m]>>) = ResolveChannels(path)
      BY <1>2, <1>6, <2>3, <3>1, NothingBound
    <3> QED
      BY <1>3, <1>5, <1>8, <2>1, <2>3, <3>2
  <2> QED
    BY <2>2, <2>3
<1>12. FoldLeft(ApplyRemedies, {}, path) =
         {<<c, Decides(path, c)>> : c \in {x \in Channels : Decided(path, x)}}
  BY <1>2, RemediesDecided
<1> QED
  BY <1>3, <1>4, <1>10, <1>11, <1>12 DEF path, long

\* The channels of a device, and what its page shows.
LEMMA DeviceBindings ==
  ASSUME Sound, TablesTypeOK, Settled, NEW d \in Devices, groupOf[d] \notin Fresh
  PROVE  /\ ResolveChannelsForAgent(d) = {c \in Channels : Decided(Path(d), c)}
         /\ ActiveIn(ShownForAgent(d)) = ResolveChannelsForAgent(d)
<1> DEFINE path == Path(d)
<1>1. d \in Entities
  BY DEF Entities
<1>2. path \in Seq(Scopes) /\ path = <<Global>> \o ChainOf(d) \o <<d>>
  BY <1>1, ChainOfEntity
<1>3. ResolveChannelsForAgent(d) = ResolveChannels(path) /\ ShownForAgent(d) = ShownBindings(path)
  BY <1>2 DEF ResolveChannelsForAgent, ShownForAgent
<1> HIDE DEF path
<1>4. ResolveChannels(path) = {c \in Channels : Decided(path, c)}
  BY <1>2, ChannelsDecided
<1>5. ActiveIn(ShownBindings(path)) = ResolveChannels(path)
  BY <1>2, ShownIsUsed
<1> QED
  BY <1>3, <1>4, <1>5 DEF path

\* The page of a group shows what a notification of the group is sent to.
LEMMA GroupBindings ==
  ASSUME Sound, TablesTypeOK, Settled, NEW g \in Exists \ Fresh
  PROVE  ActiveIn(ShownForGroup(g)) = ResolveChannelsForGroup(g)
<1> DEFINE path == <<Global>> \o GroupChain(g)
<1>1. path \in Seq(Scopes) /\ <<Global>> \o AncestorChain(g) \o <<g>> = path
  BY GroupsPath
<1>2. ShownForGroup(g) = ShownBindings(path) /\ ResolveChannelsForGroup(g) = ResolveChannels(path)
  BY <1>1 DEF ShownForGroup, ResolveChannelsForGroup
<1> HIDE DEF path
<1>3. ActiveIn(ShownBindings(path)) = ResolveChannels(path)
  BY <1>1, ShownIsUsed
<1> QED
  BY <1>2, <1>3

\* Channels and remedies: the nearest scope that names them decides, and the pages show it.
LEMMA NearestBindingHolds == Sound /\ TablesTypeOK => NearestBindingDecides
<1> SUFFICES ASSUME Sound, TablesTypeOK, Settled
             PROVE  NearestBindingDecides
  BY DEF NearestBindingDecides
<1>1. ASSUME NEW m \in Placed(Monitors)
      PROVE  /\ ResolveChannelsForMonitor(m) = {c \in Channels : Decided(Path(m) \o BackedBy(m), c)}
             /\ IsPlain(m) => ActiveIn(ShownForMonitor(m)) = ResolveChannelsForMonitor(m)
             /\ ResolveRemedies(m) =
                  {<<c, Decides(Path(m), c)>> : c \in {x \in Channels : Decided(Path(m), x)}}
  <2>1. m \in Monitors /\ groupOf[m] \notin Fresh
    BY DEF Placed
  <2> QED
    BY <2>1, MonitorBindings
<1>2. ASSUME NEW d \in Placed(Devices)
      PROVE  /\ ResolveChannelsForAgent(d) = {c \in Channels : Decided(Path(d), c)}
             /\ ActiveIn(ShownForAgent(d)) = ResolveChannelsForAgent(d)
  <2>1. d \in Devices /\ groupOf[d] \notin Fresh
    BY DEF Placed
  <2> QED
    BY <2>1, DeviceBindings
<1>3. ASSUME NEW g \in Exists \ Fresh
      PROVE  ActiveIn(ShownForGroup(g)) = ResolveChannelsForGroup(g)
  BY GroupBindings
<1> QED
  BY <1>1, <1>2, <1>3 DEF NearestBindingDecides, ActiveIn, BackedBy, IsPlain

\* While no move is half way and none was overlapped, the nearest scope that says anything
\* decides, whatever the tree and the rows kept on it: the settings a worker runs with, what
\* a group inherits, the types an agent announces, the group that speaks, the channels used
\* and shown and the remedies run (settings.service.ts, notification.service.ts,
\* remediation.service.ts, agent.service.ts).
THEOREM NearestScopeAlwaysDecides == Spec => []NearestScopeDecides
<1>1. Sound /\ TablesTypeOK => NearestScopeDecides
  BY NearestSettingHolds, NearestBindingHolds DEF NearestScopeDecides
<1> QED
  BY <1>1, Invariant, PTL

\* An edit that changes rows is one of the settings page, at one scope, and moves nothing.
LEMMA OneScopeEdited ==
  ASSUME TablesTypeOK, [Next]_vars, NEW s \in Scopes, overrides'[s] # overrides[s]
  PROVE  /\ UNCHANGED <<treeVars, groupOf>>
         /\ \A t \in Scopes : t # s => overrides'[t] = overrides[t]
<1>1. overrides' # overrides
  OBVIOUS
<1>2. EditSettings /\ UNCHANGED treeVars
  <2>1. ~UNCHANGED vars
    BY <1>1 DEF vars, tables
  <2>2. ASSUME NEW r \in Requests, TreeRequest(r)
        PROVE  FALSE
    BY <1>1, <2>2 DEF TreeRequest, tables
  <2>3. ASSUME NEW g \in Groups, RemoveGroup(g)
        PROVE  FALSE
    BY <1>1, <2>3 DEF RemoveGroup
  <2>4. CASE Edit
    <3>1. UNCHANGED treeVars
      BY <2>4 DEF Edit, Edited
    <3>2. ASSUME NEW e \in Concerned[aspect], NEW g \in Groups \cup {Root}, Assign(e, g)
          PROVE  FALSE
      BY <1>1, <3>2 DEF Assign
    <3>3. ~EditBindings /\ ~EditRemedies /\ ~EditWindows
      BY <1>1 DEF EditBindings, EditRemedies, EditWindows
    <3>4. ~EditRights /\ ~EditTypes
      BY <1>1 DEF EditRights, EditTypes
    <3> QED
      BY <2>4, <3>1, <3>2, <3>3, <3>4 DEF Edit
  <2>5. ~Restart
    BY <1>1 DEF Restart, tables
  <2> QED
    BY <2>1, <2>2, <2>3, <2>4, <2>5 DEF Next
<1>3. UNCHANGED groupOf
  BY <1>2 DEF EditSettings
<1>4. PICK t : (\E v \in {1, 2} : SetSetting(t, v)) \/ RemoveSetting(t)
  BY <1>2 DEF EditSettings
<1>5. \E rows : overrides' = [overrides EXCEPT ![t] = rows]
  <2>1. ASSUME NEW v \in {1, 2}, SetSetting(t, v)
        PROVE  overrides' = [overrides EXCEPT ![t] = IF t = Global THEN overrides[t] \cup {v} ELSE {v}]
    BY <2>1 DEF SetSetting
  <2>2. ASSUME RemoveSetting(t)
        PROVE  overrides' = [overrides EXCEPT ![t] = {}]
    BY <2>2 DEF RemoveSetting
  <2> QED
    BY <1>4, <2>1, <2>2
<1>6. DOMAIN overrides = Scopes
  BY DEF TablesTypeOK
<1>7. \A u \in Scopes : u # t => overrides'[u] = overrides[u]
  BY <1>5, <1>6
<1>8. t = s
  BY <1>7
<1> QED
  BY <1>2, <1>3, <1>7, <1>8

\* A path passes by a scope, and two tables have the same rows along it.
PassesBy(path, s, old, new) == \A k \in 1..Len(path) : path[k] # s /\ new[path[k]] = old[path[k]]

\* A scope that a path does not pass is not its answer, and does not change it.
LEMMA OffThePath ==
  ASSUME NEW path \in Seq(Scopes), NEW old, NEW new, NEW s \in Scopes, PassesBy(path, s, old, new)
  PROVE  SettingsOf(new, path) = SettingsOf(old, path) /\ SettingsOf(new, path) # s
<1>1. RowsAlong(new, path) = RowsAlong(old, path)
  BY DEF RowsAlong, PassesBy
<1>2. SettingsOf(old, path) = LastAt(path, RowsAlong(old, path), "default")
  BY LastOfTable
<1>3. /\ SettingsOf(new, path) = LastAt(path, RowsAlong(new, path), "default")
      /\ RowsAlong(new, path) # {} => Max(RowsAlong(new, path)) \in 1..Len(path)
  BY LastOfTable
<1>4. s # "default"
  BY ScopesAssumption
<1> QED
  BY <1>1, <1>2, <1>3, <1>4 DEF LastAt, PassesBy

\* A scope on the path of a monitor restarts it.
LEMMA PathRestarts ==
  ASSUME Sound, TablesTypeOK, Settled, NEW m \in Monitors, groupOf[m] \notin Fresh,
         NEW k \in 1..Len(Path(m))
  PROVE  m \in RestartedBy(Path(m)[k])
<1> DEFINE g == groupOf[m]
           chain == PathTo(g)
           s == Path(m)[k]
<1>1. m \in Entities /\ m \in Scopes /\ Global \in Scopes /\ Groups \subseteq Scopes
  BY DEF Entities, Scopes
<1>2. chain \in Seq(Groups) /\ Path(m) = <<Global>> \o chain \o <<m>>
  BY <1>1, ChainOfEntity DEF Path
<1>3. /\ Len(Path(m)) = Len(chain) + 2 /\ Path(m)[1] = Global /\ Path(m)[Len(chain) + 2] = m
      /\ \A i \in 1..Len(chain) : Path(m)[i + 1] = chain[i]
  <2> HIDE DEF chain
  <2>1. chain \in Seq(Scopes)
    BY <1>1, <1>2
  <2> QED
    BY <1>1, <1>2, <2>1, Between
<1>4. CASE k = 1
  <2>1. s = Global /\ Global \notin Monitors /\ Global \notin Groups
    BY <1>3, <1>4, ScopesAssumption DEF Entities
  <2> QED
    BY <2>1 DEF RestartedBy
<1>5. CASE k = Len(chain) + 2
  BY <1>3, <1>5 DEF RestartedBy
<1>6. CASE k # 1 /\ k # Len(chain) + 2
  <2>1. Len(chain) \in Nat
    BY <1>2
  <2>2. k - 1 \in 1..Len(chain) /\ (k - 1) + 1 = k
    <3> HIDE DEF chain
    <3> QED
      BY <1>3, <1>6, <2>1
  <2>3. g # Root
    <3>1. g = Root => chain = <<>>
      BY DEF PathTo
    <3>2. chain # <<>>
      BY <2>2
    <3> QED
      BY <3>1, <3>2
  <2>4. g \in Exists \ Fresh
    BY <1>1, <2>3 DEF TablesTypeOK
  <2>5. PICK n \in Nat \ {0} :
          /\ chain \in Seq(Groups) /\ Len(chain) = n
          /\ \A i \in 1..n : chain[i] \in Groups
          /\ {x \in closure : x[2] = g} = {<<chain[i], g, n - i>> : i \in 1..n}
    BY <2>4, ChainIsPath
  <2>6. s = chain[k - 1] /\ k - 1 \in 1..n /\ s \in Groups
    BY <1>3, <2>2, <2>5
  <2>7. <<s, g, n - (k - 1)>> \in {x \in closure : x[2] = g}
    BY <2>5, <2>6
  <2> DEFINE x == <<s, g, n - (k - 1)>>
  <2>8. x \in closure /\ x[1] = s /\ x[2] = g
    BY <2>7
  <2> HIDE DEF x, s
  <2>9. g \in Groups
    BY <2>4 DEF Exists
  <2>10. g \in DescendantsIn(closure, s)
    BY <2>8, <2>9 DEF DescendantsIn, Linked
  <2>11. s \notin Monitors
    BY <2>6, ScopesAssumption DEF Entities
  <2>12. m \in RestartedBy(s)
    BY <2>6, <2>10, <2>11 DEF RestartedBy
  <2> QED
    BY <2>12 DEF s
<1> QED
  BY <1>4, <1>5, <1>6

\* What a monitor resolves to, before and after a step.
LEMMA ResolvedAlong ==
  ASSUME NEW m
  PROVE  /\ ResolveForMonitor(m) = SettingsOf(overrides, <<Global>> \o ChainOf(m) \o <<m>>)
         /\ ResolveForMonitor(m)' = SettingsOf(overrides', <<Global>> \o ChainOf(m)' \o <<m>>)
<1>1. ResolveForMonitor(m) = SettingsOf(overrides, <<Global>> \o ChainOf(m) \o <<m>>)
  BY DEF ResolveForMonitor, SettingsOf
<1>2. ResolveForMonitor(m)' = SettingsOf(overrides', <<Global>> \o ChainOf(m)' \o <<m>>)
  BY DEF ResolveForMonitor, SettingsOf, FoldLeft, MapThenFoldSet
<1> QED
  BY <1>1, <1>2

\* One step: the workers whose value an edit changes are restarted.
LEMMA EditStep ==
  ASSUME Sound, TablesTypeOK, [Next]_vars, NEW s \in Scopes,
         overrides'[s] # overrides[s], Settled, NEW m \in Placed(Monitors),
         ResolveForMonitor(m)' # ResolveForMonitor(m) \/ ResolveForMonitor(m)' = s
  PROVE  m \in RestartedBy(s)
<1> DEFINE path == Path(m)
<1>1. m \in Monitors /\ m \in Entities /\ groupOf[m] \notin Fresh
  BY DEF Placed, Entities
<1>2. /\ UNCHANGED <<treeVars, groupOf>>
      /\ \A t \in Scopes : t # s => overrides'[t] = overrides[t]
  BY OneScopeEdited
<1>3. path \in Seq(Scopes) /\ path = <<Global>> \o ChainOf(m) \o <<m>>
  BY <1>1, ChainOfEntity
<1>4. ChainOf(m)' = ChainOf(m)
  <2>1. closure' = closure /\ groupOf' = groupOf
    BY <1>2 DEF treeVars
  <2>2. GroupChain(groupOf[m])' = GroupChain(groupOf[m])
    BY <2>1 DEF GroupChain
  <2> QED
    BY <2>1, <2>2 DEF ChainOf
<1>5. ResolveForMonitor(m) = SettingsOf(overrides, path)
  BY <1>3, ResolvedAlong
<1>6. ResolveForMonitor(m)' = SettingsOf(overrides', path)
  BY <1>3, <1>4, ResolvedAlong
<1>7. PICK k \in 1..Len(path) : path[k] = s
  <2> SUFFICES ASSUME \A k \in 1..Len(path) : path[k] # s
               PROVE  FALSE
    OBVIOUS
  <2> HIDE DEF path
  <2>1. PassesBy(path, s, overrides, overrides')
    <3>1. \A k \in 1..Len(path) : path[k] \in Scopes
      BY <1>3
    <3> QED
      BY <1>2, <3>1 DEF PassesBy
  <2>2. SettingsOf(overrides', path) = SettingsOf(overrides, path) /\ SettingsOf(overrides', path) # s
    BY <1>3, <2>1, OffThePath
  <2> QED
    BY <1>5, <1>6, <2>2
<1> QED
  BY <1>1, <1>7, PathRestarts

\* An edit of the settings restarts the worker of every monitor whose value it changes, in
\* whatever tree that is settled and whatever rows there are (settings.controller.ts,
\* MonitorWorkerManager.ts restartAffectedBySettings).
THEOREM SettingsEditsReachWorkers == Spec => SettingsEditReachesWorkers
<1> DEFINE Reaching ==
             \A s \in Scopes : overrides'[s] # overrides[s] /\ Settled =>
               \A m \in Placed(Monitors) :
                 LET before == ResolveForMonitor(m)
                     after == ResolveForMonitor(m)'
                 IN after # before \/ after = s => m \in RestartedBy(s)
<1>1. Sound /\ TablesTypeOK /\ [Next]_vars => [Reaching]_vars
  BY EditStep
<1> QED
  BY <1>1, Invariant, PTL DEF Spec, SettingsEditReachesWorkers
=============================================================================

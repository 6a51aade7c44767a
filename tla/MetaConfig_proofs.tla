-------------------------- MODULE MetaConfig_proofs --------------------------
(***************************************************************************)
(* Proofs about MetaConfig: a file that is accepted gives every column of  *)
(* a customary section with a key one place, for files, tables and keys of *)
(* any length.                                                             *)
(***************************************************************************)
EXTENDS MetaConfig, FoldLemmas

-----------------------------------------------------------------------------
(* Tables                                                                   *)

\* A column, whatever its name and type
IsColumn(c) ==
  c = [name |-> c.name, type |-> c.type, m_iKeyIndex |-> c.m_iKeyIndex, m_iValueIndex |-> c.m_iValueIndex]

\* A table with columns
IsTable(t) ==
  /\ t = [m_name |-> t.m_name, m_columns |-> t.m_columns, m_keys |-> t.m_keys, m_values |-> t.m_values,
          hasPath |-> t.hasPath]
  /\ Len(t.m_columns) \in Nat
  /\ t.m_columns = [c \in 1..Len(t.m_columns) |-> t.m_columns[c]]
  /\ \A c \in 1..Len(t.m_columns) : IsColumn(t.m_columns[c])

\* No column of a table has a place yet.
NoPlaces(t) ==
  /\ t.m_keys = <<>> /\ t.m_values = <<>>
  /\ \A c \in 1..Len(t.m_columns) : t.m_columns[c].m_iKeyIndex = -1 /\ t.m_columns[c].m_iValueIndex = -1

\* Its columns have different names.
DifferentNames(t) ==
  \A c, d \in 1..Len(t.m_columns) : t.m_columns[c].name = t.m_columns[d].name => c = d

\* Every column has one place: the names of a key have those of the key, the other
\* columns share the value positions.
PlacesRight(columns, names) ==
  LET values == {c \in DOMAIN columns : columns[c].name \notin Range(names)}
  IN  /\ \A j \in DOMAIN names, c \in DOMAIN columns : columns[c].name = names[j] =>
           columns[c].m_iKeyIndex = j - 1 /\ columns[c].m_iValueIndex = -1
      /\ {columns[c].m_iValueIndex : c \in values} = 0..(Cardinality(values) - 1)

\* Appending to a function on 1..n
LEMMA AppendColumn ==
  ASSUME NEW s, Len(s) \in Nat, s = [k \in 1..Len(s) |-> s[k]], NEW e
  PROVE  /\ Len(Append(s, e)) = Len(s) + 1
         /\ Append(s, e) = [k \in 1..(Len(s) + 1) |-> Append(s, e)[k]]
         /\ \A k \in 1..Len(s) : Append(s, e)[k] = s[k]
         /\ Append(s, e)[Len(s) + 1] = e
<1>. DEFINE S == {s[k] : k \in 1..Len(s)} \cup {e}
            n == Len(s)
<1>1. s \in Seq(S) /\ e \in S
  <2>1. e \in S /\ \A k \in 1..n : s[k] \in S
    OBVIOUS
  <2>2. s \in [1..n -> S]
    <3>. HIDE DEF S
    <3>. QED  BY <2>1
  <2>. HIDE DEF S
  <2>3. \A m \in Nat : \A f \in [1..m -> S] : f \in Seq(S)
    OBVIOUS
  <2>. QED  BY <2>1, <2>2, <2>3
<1>. HIDE DEF S
<1>2. Append(s, e) \in Seq(S) /\ Len(Append(s, e)) = n + 1
  BY <1>1
<1>3. \A u \in Seq(S) : u = [k \in 1..Len(u) |-> u[k]]
  OBVIOUS
<1>4. (\A k \in 1..n : Append(s, e)[k] = s[k]) /\ Append(s, e)[n + 1] = e
  BY <1>1
<1>. QED  BY <1>2, <1>3, <1>4

\* A new table has no columns.
LEMMA NewTableShape == IsTable(NewTable) /\ NoPlaces(NewTable) /\ Len(NewTable.m_columns) = 0
<1>1. Len(<<>>) = 0 /\ <<>> = [c \in 1..0 |-> <<>>[c]]
  OBVIOUS
<1>. QED  BY <1>1 DEF NewTable, IsTable, NoPlaces

\* addColumn appends a column without a place.
LEMMA AddColumnShape ==
  ASSUME NEW t, IsTable(t), NEW name, NEW type
  PROVE  LET u == AddColumn(t, name, type)
             n == Len(t.m_columns)
         IN  /\ IsTable(u) /\ Len(u.m_columns) = n + 1
             /\ \A c \in 1..n : u.m_columns[c] = t.m_columns[c]
             /\ u.m_columns[n + 1].name = name /\ u.m_columns[n + 1].type = type
             /\ NoPlaces(t) => NoPlaces(u)
<1>. DEFINE u   == AddColumn(t, name, type)
            n   == Len(t.m_columns)
            new == [name |-> name, type |-> type, m_iKeyIndex |-> -1, m_iValueIndex |-> -1]
<1>1. u = [m_name |-> t.m_name, m_columns |-> Append(t.m_columns, new), m_keys |-> t.m_keys, m_values |-> t.m_values,
           hasPath |-> t.hasPath]
  <2>. DEFINE s == Append(t.m_columns, new)
              r == [m_name |-> t.m_name, m_columns |-> t.m_columns, m_keys |-> t.m_keys, m_values |-> t.m_values,
                    hasPath |-> t.hasPath]
  <2>1. u = [t EXCEPT !.m_columns = s]
    BY DEF AddColumn
  <2>. HIDE DEF s, u
  <2>2. [r EXCEPT !.m_columns = s] = [m_name |-> t.m_name, m_columns |-> s, m_keys |-> t.m_keys, m_values |-> t.m_values,
                                      hasPath |-> t.hasPath]
    OBVIOUS
  <2>3. t = r
    BY DEF IsTable
  <2>. HIDE DEF r
  <2>. QED  BY <2>1, <2>2, <2>3 DEF s
<1>2. /\ u.m_columns = Append(t.m_columns, new) /\ u.m_keys = t.m_keys /\ u.m_values = t.m_values
      /\ u = [m_name |-> u.m_name, m_columns |-> u.m_columns, m_keys |-> u.m_keys, m_values |-> u.m_values,
              hasPath |-> u.hasPath]
  <2>. HIDE DEF u, new
  <2>. QED  BY <1>1
<1>. HIDE DEF u
<1>3. IsColumn(new) /\ new.name = name /\ new.type = type /\ new.m_iKeyIndex = -1 /\ new.m_iValueIndex = -1
  BY DEF IsColumn
<1>. HIDE DEF new
<1>4. /\ Len(u.m_columns) = n + 1 /\ u.m_columns = [k \in 1..(n + 1) |-> u.m_columns[k]]
      /\ \A k \in 1..n : u.m_columns[k] = t.m_columns[k]
      /\ u.m_columns[n + 1] = new /\ n \in Nat
  BY <1>2, AppendColumn DEF IsTable
<1>5. \A k \in 1..(n + 1) : k \in 1..n \/ k = n + 1
  BY <1>4
<1>6. IsTable(u)
  BY <1>2, <1>3, <1>4, <1>5 DEF IsTable
<1>7. NoPlaces(t) => NoPlaces(u)
  BY <1>2, <1>3, <1>4, <1>5 DEF NoPlaces
<1>. QED  BY <1>3, <1>4, <1>6, <1>7 DEF u

-----------------------------------------------------------------------------
(* The key                                                                  *)

\* What addKeyColumn does with a column that it finds
LEMMA AddKeyColumnShape ==
  ASSUME NEW t, IsTable(t), NEW name, Max(ColumnsNamed(t, name)) \in 1..Len(t.m_columns)
  PROVE  LET i == Max(ColumnsNamed(t, name))
             d == t.m_columns[i]
         IN  AddKeyColumn(t, name) =
               [m_name    |-> t.m_name,
                m_columns |-> [c \in 1..Len(t.m_columns) |->
                                 IF c = i THEN [name |-> d.name, type |-> d.type, m_iKeyIndex |-> Len(t.m_keys),
                                                m_iValueIndex |-> d.m_iValueIndex]
                                 ELSE t.m_columns[c]],
                m_keys    |-> Append(t.m_keys, i),
                m_values  |-> t.m_values,
                hasPath   |-> t.hasPath]
<1>. DEFINE i == Max(ColumnsNamed(t, name))
            d == t.m_columns[i]
            n == Len(t.m_columns)
            e == [name |-> d.name, type |-> d.type, m_iKeyIndex |-> Len(t.m_keys), m_iValueIndex |-> d.m_iValueIndex]
            s == [c \in 1..n |-> IF c = i THEN e ELSE t.m_columns[c]]
            k == Append(t.m_keys, i)
            r == [m_name |-> t.m_name, m_columns |-> t.m_columns, m_keys |-> t.m_keys, m_values |-> t.m_values,
                  hasPath |-> t.hasPath]
<1>1. AddKeyColumn(t, name) = [t EXCEPT !.m_columns[i].m_iKeyIndex = Len(t.m_keys), !.m_keys = Append(@, i)]
  BY DEF AddKeyColumn
<1>2. t = r /\ i \in 1..n
  BY DEF IsTable
<1>3. [t.m_columns EXCEPT ![i].m_iKeyIndex = Len(t.m_keys)] = s
  <2>1. d = [name |-> d.name, type |-> d.type, m_iKeyIndex |-> d.m_iKeyIndex, m_iValueIndex |-> d.m_iValueIndex]
    <3>1. IsColumn(d)
      BY DEF IsTable
    <3>. HIDE DEF d
    <3>. QED  BY <3>1 DEF IsColumn
  <2>2. t.m_columns = [c \in 1..n |-> t.m_columns[c]]
    BY DEF IsTable
  <2>. DEFINE l == Len(t.m_keys)
  <2>3. [d EXCEPT !.m_iKeyIndex = l] = e
    <3>. DEFINE q == [name |-> d.name, type |-> d.type, m_iKeyIndex |-> d.m_iKeyIndex, m_iValueIndex |-> d.m_iValueIndex]
    <3>1. [q EXCEPT !.m_iKeyIndex = l] = e
      OBVIOUS
    <3>. HIDE DEF q
    <3>. QED  BY <2>1, <3>1 DEF q
  <2>4. [t.m_columns EXCEPT ![i].m_iKeyIndex = l] = [t.m_columns EXCEPT ![i] = [d EXCEPT !.m_iKeyIndex = l]]
    OBVIOUS
  <2>. HIDE DEF e, d, l, n
  <2>5. [t.m_columns EXCEPT ![i] = e] = s
    BY <1>2, <2>2
  <2>. QED  BY <2>3, <2>4, <2>5 DEF l
<1>4. [t EXCEPT !.m_columns[i].m_iKeyIndex = Len(t.m_keys), !.m_keys = Append(@, i)] = [t EXCEPT !.m_columns = s, !.m_keys = k]
  BY <1>3
<1>5. [r EXCEPT !.m_columns = s, !.m_keys = k] =
        [m_name |-> t.m_name, m_columns |-> s, m_keys |-> k, m_values |-> t.m_values, hasPath |-> t.hasPath]
  <2>. HIDE DEF s, k, i, d, e
  <2>1. [r EXCEPT !.m_columns = s] =
          [m_name |-> t.m_name, m_columns |-> s, m_keys |-> t.m_keys, m_values |-> t.m_values, hasPath |-> t.hasPath]
    OBVIOUS
  <2>2. [[m_name |-> t.m_name, m_columns |-> s, m_keys |-> t.m_keys, m_values |-> t.m_values, hasPath |-> t.hasPath]
           EXCEPT !.m_keys = k] =
          [m_name |-> t.m_name, m_columns |-> s, m_keys |-> k, m_values |-> t.m_values, hasPath |-> t.hasPath]
    OBVIOUS
  <2>3. [r EXCEPT !.m_columns = s, !.m_keys = k] = [[r EXCEPT !.m_columns = s] EXCEPT !.m_keys = k]
    OBVIOUS
  <2>. QED  BY <2>1, <2>2, <2>3
<1>. QED  BY <1>1, <1>2, <1>4, <1>5

\* A name of a table is found.
LEMMA NamedColumn ==
  ASSUME NEW t, IsTable(t), NEW name, \E c \in 1..Len(t.m_columns) : t.m_columns[c].name = name
  PROVE  /\ Max(ColumnsNamed(t, name)) \in 1..Len(t.m_columns)
         /\ t.m_columns[Max(ColumnsNamed(t, name))].name = name
<1>. DEFINE n == Len(t.m_columns)
<1>1. n \in Nat /\ DOMAIN t.m_columns = 1..n
  BY DEF IsTable
<1>2. ColumnsNamed(t, name) \in SUBSET (1..n) /\ ColumnsNamed(t, name) # {}
  BY <1>1 DEF ColumnsNamed
<1>. HIDE DEF n
<1>3. Max(ColumnsNamed(t, name)) \in ColumnsNamed(t, name)
  BY <1>1, <1>2, LargestIndex
<1>. QED  BY <1>1, <1>2, <1>3 DEF ColumnsNamed, n

\* Tables that differ from t in the places of their columns
Placed(t) ==
  LET n     == Len(t.m_columns)
      Names == {t.m_columns[c].name : c \in 1..n}
      Types == {t.m_columns[c].type : c \in 1..n}
  IN  {u \in [m_name : {t.m_name},
              m_columns : [1..n -> [name : Names, type : Types, m_iKeyIndex : Int, m_iValueIndex : {-1}]],
              m_keys : Seq(1..n), m_values : {t.m_values}, hasPath : {t.hasPath}] :
         \A c \in 1..n : u.m_columns[c].name = t.m_columns[c].name /\ u.m_columns[c].type = t.m_columns[c].type}

\* They are tables.
LEMMA PlacedTables ==
  ASSUME NEW t, IsTable(t), NEW u \in Placed(t)
  PROVE  /\ IsTable(u) /\ Len(u.m_columns) = Len(t.m_columns)
         /\ u.m_values = t.m_values /\ u.m_keys \in Seq(1..Len(t.m_columns))
         /\ \A c \in 1..Len(t.m_columns) :
              /\ u.m_columns[c].name = t.m_columns[c].name /\ u.m_columns[c].type = t.m_columns[c].type
              /\ u.m_columns[c].m_iValueIndex = -1
<1>. DEFINE n       == Len(t.m_columns)
            Names   == {t.m_columns[c].name : c \in 1..n}
            Types   == {t.m_columns[c].type : c \in 1..n}
            Columns == [name : Names, type : Types, m_iKeyIndex : Int, m_iValueIndex : {-1}]
<1>1. /\ u \in [m_name : {t.m_name}, m_columns : [1..n -> Columns], m_keys : Seq(1..n), m_values : {t.m_values},
                hasPath : {t.hasPath}]
      /\ \A c \in 1..n : u.m_columns[c].name = t.m_columns[c].name /\ u.m_columns[c].type = t.m_columns[c].type
  BY DEF Placed
<1>2. n \in Nat
  BY DEF IsTable
<1>. HIDE DEF n
<1>3. \A d \in Columns : IsColumn(d) /\ d.m_iValueIndex = -1
  <2>. HIDE DEF Names, Types
  <2>. QED  BY DEF IsColumn
<1>. HIDE DEF Columns
<1>4. /\ u = [m_name |-> u.m_name, m_columns |-> u.m_columns, m_keys |-> u.m_keys, m_values |-> u.m_values,
              hasPath |-> u.hasPath]
      /\ u.m_columns \in [1..n -> Columns] /\ u.m_keys \in Seq(1..n) /\ u.m_values = t.m_values
  BY <1>1
<1>5. u.m_columns \in Seq(Columns) /\ Len(u.m_columns) = n
  BY <1>2, <1>4
<1>6. u.m_columns = [c \in 1..n |-> u.m_columns[c]] /\ \A c \in 1..n : u.m_columns[c] \in Columns
  BY <1>4
<1>. QED  BY <1>1, <1>2, <1>3, <1>4, <1>5, <1>6 DEF IsTable, n

\* A table whose columns have no place is one of them.
LEMMA PlacedSelf ==
  ASSUME NEW t, IsTable(t), NoPlaces(t)
  PROVE  t \in Placed(t)
<1>. DEFINE n       == Len(t.m_columns)
            Names   == {t.m_columns[c].name : c \in 1..n}
            Types   == {t.m_columns[c].type : c \in 1..n}
            Columns == [name : Names, type : Types, m_iKeyIndex : Int, m_iValueIndex : {-1}]
<1>1. ASSUME NEW c \in 1..n PROVE t.m_columns[c] \in Columns
  <2>. DEFINE d == t.m_columns[c]
  <2>1. d = [name |-> d.name, type |-> d.type, m_iKeyIndex |-> d.m_iKeyIndex, m_iValueIndex |-> d.m_iValueIndex]
    <3>1. IsColumn(d)
      BY DEF IsTable
    <3>. HIDE DEF d
    <3>. QED  BY <3>1 DEF IsColumn
  <2>2. d.name \in Names /\ d.type \in Types /\ d.m_iKeyIndex = -1 /\ d.m_iValueIndex = -1
    BY DEF NoPlaces
  <2>. HIDE DEF d, Names, Types
  <2>3. d \in Columns
    BY <2>1, <2>2
  <2>. QED  BY <2>3 DEF d
<1>2. t.m_columns \in [1..n -> Columns]
  <2>1. t.m_columns = [c \in 1..n |-> t.m_columns[c]]
    BY DEF IsTable
  <2>. HIDE DEF Columns
  <2>. QED  BY <1>1, <2>1
<1>3. t.m_keys \in Seq(1..n)
  <2>1. <<>> \in Seq(1..n)
    OBVIOUS
  <2>. QED  BY <2>1 DEF NoPlaces
<1>4. t = [m_name |-> t.m_name, m_columns |-> t.m_columns, m_keys |-> t.m_keys, m_values |-> t.m_values,
           hasPath |-> t.hasPath]
  BY DEF IsTable
<1>5. t \in [m_name : {t.m_name}, m_columns : [1..n -> Columns], m_keys : Seq(1..n), m_values : {t.m_values},
             hasPath : {t.hasPath}]
  <2>. HIDE DEF Columns, n
  <2>. QED  BY <1>2, <1>3, <1>4
<1>. QED  BY <1>5 DEF Placed

\* addKeyColumn leads from one of them to another.
LEMMA PlacedNext ==
  ASSUME NEW t, IsTable(t), NEW u \in Placed(t), NEW name,
         \E c \in 1..Len(t.m_columns) : t.m_columns[c].name = name
  PROVE  AddKeyColumn(u, name) \in Placed(t)
<1>. DEFINE n       == Len(t.m_columns)
            Names   == {t.m_columns[c].name : c \in 1..n}
            Types   == {t.m_columns[c].type : c \in 1..n}
            Columns == [name : Names, type : Types, m_iKeyIndex : Int, m_iValueIndex : {-1}]
            i       == Max(ColumnsNamed(u, name))
            d       == u.m_columns[i]
            e       == [name |-> d.name, type |-> d.type, m_iKeyIndex |-> Len(u.m_keys), m_iValueIndex |-> d.m_iValueIndex]
            s       == [c \in 1..n |-> IF c = i THEN e ELSE u.m_columns[c]]
            k       == Append(u.m_keys, i)
<1>1. /\ IsTable(u) /\ Len(u.m_columns) = n /\ u.m_keys \in Seq(1..n) /\ u.m_values = t.m_values
      /\ \A c \in 1..n : u.m_columns[c].name = t.m_columns[c].name /\ u.m_columns[c].type = t.m_columns[c].type
  BY PlacedTables
<1>2. /\ u \in [m_name : {t.m_name}, m_columns : [1..n -> Columns], m_keys : Seq(1..n), m_values : {t.m_values},
                hasPath : {t.hasPath}]
  BY DEF Placed
<1>3. \E c \in 1..n : u.m_columns[c].name = name
  BY <1>1
<1>4. i \in 1..n
  BY <1>1, <1>3, NamedColumn
<1>5. AddKeyColumn(u, name) = [m_name |-> u.m_name, m_columns |-> s, m_keys |-> k, m_values |-> u.m_values, hasPath |-> u.hasPath]
  BY <1>1, <1>4, AddKeyColumnShape
<1>. HIDE DEF n, i
<1>6. \A c \in 1..n : u.m_columns[c] \in Columns
  <2>. HIDE DEF Columns
  <2>. QED  BY <1>2
<1>7. e \in Columns /\ e.name = d.name /\ e.type = d.type
  <2>1. d \in Columns
    BY <1>4, <1>6
  <2>2. Len(u.m_keys) \in Int
    BY <1>1
  <2>. HIDE DEF d, Names, Types
  <2>. QED  BY <2>1, <2>2
<1>8. s \in [1..n -> Columns] /\ \A c \in 1..n : s[c].name = t.m_columns[c].name /\ s[c].type = t.m_columns[c].type
  <2>. HIDE DEF e, Columns
  <2>. QED  BY <1>1, <1>4, <1>6, <1>7 DEF d
<1>9. k \in Seq(1..n)
  BY <1>1, <1>4
<1>10. u.m_name \in {t.m_name} /\ u.m_values \in {t.m_values} /\ u.hasPath \in {t.hasPath}
  <2>. HIDE DEF Columns
  <2>. QED  BY <1>2
<1>. HIDE DEF s, k, Columns
<1>. DEFINE r == [m_name |-> u.m_name, m_columns |-> s, m_keys |-> k, m_values |-> u.m_values, hasPath |-> u.hasPath]
<1>11. r \in [m_name : {t.m_name}, m_columns : [1..n -> Columns], m_keys : Seq(1..n), m_values : {t.m_values},
              hasPath : {t.hasPath}]
  BY <1>8, <1>9, <1>10
<1>12. r.m_columns = s
  OBVIOUS
<1>. HIDE DEF r
<1>13. r \in Placed(t)
  BY <1>8, <1>11, <1>12 DEF Placed, n, Columns
<1>. QED  BY <1>5, <1>13 DEF r

-----------------------------------------------------------------------------
(* addKeyColumn for every name of a key                                     *)

\* The table before the key and after each of its names
IsKeying(t, names, f) ==
  /\ f[0] = t /\ f[Len(names)] = FoldLeft(AddKeyColumn, t, names)
  /\ \A m \in 0..Len(names) : f[m] \in Placed(t)
  /\ \A m \in 0..(Len(names) - 1) : f[m + 1] = AddKeyColumn(f[m], names[m + 1])

\* A loop over the names leads through such tables.
LEMMA KeyFold ==
  ASSUME NEW t, IsTable(t), NoPlaces(t), NEW N, NEW names \in Seq(N),
         \A j \in 1..Len(names) : \E c \in 1..Len(t.m_columns) : t.m_columns[c].name = names[j]
  PROVE  \E f : IsKeying(t, names, f)
<1>. DEFINE n    == Len(names)
            A    == Placed(t)
            step == [x \in A \X (1..n) |-> AddKeyColumn(x[1], names[x[2]])]
            fold == CHOOSE iter : iter = [s \in SUBSET (1..n) |->
                                            IF s = {} THEN t ELSE AddKeyColumn(iter[s \ {Max(s)}], names[Max(s)])]
<1>1. n \in Nat /\ DOMAIN names = 1..n
  OBVIOUS
<1>2. \A u \in A, i \in 1..n : AddKeyColumn(u, names[i]) \in A
  BY PlacedNext
<1>. HIDE DEF n, A
<1>3. step \in [A \X (1..n) -> A]
  BY <1>2
<1>4. PICK iter : Folds(step, t, iter, SUBSET (1..n)) /\ \A s \in SUBSET (1..n) : iter[s] \in A
  <2>1. t \in A
    BY PlacedSelf DEF A
  <2>. HIDE DEF step
  <2>. QED  BY <1>1, <1>3, <2>1, FoldExists
<1>5. \A s \in SUBSET (1..n) : s # {} => Max(s) \in 1..n /\ s \ {Max(s)} \in SUBSET (1..n)
  BY <1>1, LargestIndex
<1>6. iter = [s \in SUBSET (1..n) |-> IF s = {} THEN t ELSE AddKeyColumn(iter[s \ {Max(s)}], names[Max(s)])]
  <2>1. \A s \in SUBSET (1..n) : s # {} =>
          step[<<iter[s \ {Max(s)}], Max(s)>>] = AddKeyColumn(iter[s \ {Max(s)}], names[Max(s)])
    BY <1>4, <1>5
  <2>. HIDE DEF step
  <2>. QED  BY <1>4, <2>1 DEF Folds
<1>7. fold = [s \in SUBSET (1..n) |-> IF s = {} THEN t ELSE AddKeyColumn(fold[s \ {Max(s)}], names[Max(s)])]
  BY <1>6
<1>8. FoldLeft(AddKeyColumn, t, names) = fold[1..n]
  BY <1>1 DEF FoldLeft, MapThenFoldSet
<1>. HIDE DEF fold, step
<1>. DEFINE f == [m \in 0..n |-> fold[1..m]]
<1>9. f[0] = t
  <2>1. 1..0 = {} /\ 0 \in 0..n
    BY <1>1
  <2>. QED  BY <1>7, <2>1
<1>10. ASSUME NEW m \in 0..(n - 1) PROVE f[m + 1] = AddKeyColumn(f[m], names[m + 1])
  <2>1. 1..(m + 1) \in SUBSET (1..n) /\ m \in Nat /\ m \in 0..n /\ m + 1 \in 0..n
    BY <1>1
  <2>2. Max(1..(m + 1)) = m + 1 /\ (1..(m + 1)) \ {m + 1} = 1..m /\ 1..(m + 1) # {}
    BY <2>1, LastIndex
  <2>3. fold[1..(m + 1)] = AddKeyColumn(fold[(1..(m + 1)) \ {Max(1..(m + 1))}], names[Max(1..(m + 1))])
    BY <1>7, <2>1, <2>2
  <2>. QED  BY <2>1, <2>2, <2>3
<1>11. f[n] = fold[1..n]
  BY <1>1
<1>. HIDE DEF f
<1>12. \A m \in 0..n : f[m] \in A
  <2>1. f[0] \in A
    BY <1>9, PlacedSelf DEF A
  <2>2. \A m \in 0..(n - 1) : f[m] \in A => f[m + 1] \in A
    <3>1. \A m \in 0..(n - 1) : m + 1 \in 1..n
      BY <1>1
    <3>. QED  BY <1>2, <1>10, <3>1
  <2>. QED  BY <1>1, <2>1, <2>2, StaysIn
<1>13. IsKeying(t, names, f)
  BY <1>8, <1>9, <1>10, <1>11, <1>12 DEF n, A, IsKeying
<1>. QED  BY <1>13

\* After m names of a key the columns named by them have their key positions, and
\* the others none.
KeyedUpTo(t, names, m, u) ==
  /\ Len(u.m_keys) = m
  /\ \A c \in 1..Len(t.m_columns) :
       /\ \A j \in 1..m : t.m_columns[c].name = names[j] => u.m_columns[c].m_iKeyIndex = j - 1
       /\ (\A j \in 1..m : t.m_columns[c].name # names[j]) => u.m_columns[c].m_iKeyIndex = -1

\* addKeyColumn for one more name
LEMMA KeyedNext ==
  ASSUME NEW t, IsTable(t), DifferentNames(t), NEW u \in Placed(t), NEW N, NEW names \in Seq(N), IsInjective(names),
         NEW m \in 0..(Len(names) - 1), \E c \in 1..Len(t.m_columns) : t.m_columns[c].name = names[m + 1],
         KeyedUpTo(t, names, m, u)
  PROVE  KeyedUpTo(t, names, m + 1, AddKeyColumn(u, names[m + 1]))
<1>. DEFINE n    == Len(t.m_columns)
            name == names[m + 1]
            v    == AddKeyColumn(u, name)
            i    == Max(ColumnsNamed(u, name))
<1>1. /\ IsTable(u) /\ Len(u.m_columns) = n /\ u.m_keys \in Seq(1..n)
      /\ \A c \in 1..n : u.m_columns[c].name = t.m_columns[c].name
  BY PlacedTables
<1>2. \E c \in 1..n : u.m_columns[c].name = name
  BY <1>1
<1>3. i \in 1..n /\ u.m_columns[i].name = name
  BY <1>1, <1>2, NamedColumn
<1>4. /\ v.m_keys = Append(u.m_keys, i)
      /\ \A c \in 1..n : c # i => v.m_columns[c] = u.m_columns[c]
      /\ v.m_columns[i].m_iKeyIndex = Len(u.m_keys)
  <2>. HIDE DEF n, i
  <2>1. AddKeyColumn(u, name) =
               [m_name    |-> u.m_name,
                m_columns |-> [c \in 1..n |->
                                 IF c = i THEN [name |-> u.m_columns[i].name, type |-> u.m_columns[i].type,
                                                m_iKeyIndex |-> Len(u.m_keys),
                                                m_iValueIndex |-> u.m_columns[i].m_iValueIndex]
                                 ELSE u.m_columns[c]],
                m_keys    |-> Append(u.m_keys, i),
                m_values  |-> u.m_values,
                hasPath   |-> u.hasPath]
    BY <1>1, <1>3, AddKeyColumnShape DEF i
  <2>. QED  BY <1>3, <2>1
<1>. HIDE DEF v, i
<1>5. Len(v.m_keys) = m + 1 /\ Len(u.m_keys) = m
  <2>. HIDE DEF n
  <2>. QED  BY <1>1, <1>3, <1>4 DEF KeyedUpTo
<1>6. /\ m \in Nat /\ \A j \in 1..(m + 1) : j \in 1..m \/ j = m + 1
      /\ \A j \in 1..m : j \in 1..(m + 1) /\ names[j] # name
  <2>1. m \in Nat /\ DOMAIN names = 1..Len(names) /\ \A j \in 1..(m + 1) : j \in 1..Len(names)
    OBVIOUS
  <2>2. \A j \in 1..m : j \in 1..(m + 1) /\ j # m + 1
    BY <2>1
  <2>3. m + 1 \in 1..(m + 1) /\ \A j \in 1..(m + 1) : j \in 1..m \/ j = m + 1
    BY <2>1
  <2>4. \A a, b \in DOMAIN names : names[a] = names[b] => a = b
    BY DEF IsInjective
  <2>. QED  BY <2>1, <2>2, <2>3, <2>4
<1>7. \A c \in 1..n : t.m_columns[c].name = name => c = i
  BY <1>1, <1>3 DEF DifferentNames
<1>8. ASSUME NEW c \in 1..n
      PROVE  /\ \A j \in 1..(m + 1) : t.m_columns[c].name = names[j] => v.m_columns[c].m_iKeyIndex = j - 1
             /\ (\A j \in 1..(m + 1) : t.m_columns[c].name # names[j]) => v.m_columns[c].m_iKeyIndex = -1
  <2>1. CASE c = i
    <3>1. v.m_columns[c].m_iKeyIndex = m /\ t.m_columns[c].name = name
      BY <1>1, <1>3, <1>4, <1>5, <2>1
    <3>2. m + 1 \in 1..(m + 1) /\ (m + 1) - 1 = m
      BY <1>6
    <3>. QED  BY <1>6, <3>1, <3>2
  <2>2. CASE c # i
    <3>1. v.m_columns[c] = u.m_columns[c] /\ t.m_columns[c].name # name
      BY <1>4, <1>7, <2>2
    <3>. QED  BY <1>6, <3>1 DEF KeyedUpTo
  <2>. QED  BY <2>1, <2>2
<1>9. KeyedUpTo(t, names, m + 1, v)
  BY <1>5, <1>8 DEF KeyedUpTo
<1>. QED  BY <1>9 DEF v

\* After all names of a key
LEMMA Keyed ==
  ASSUME NEW t, IsTable(t), NoPlaces(t), DifferentNames(t), NEW N, NEW names \in Seq(N), IsInjective(names),
         \A j \in 1..Len(names) : \E c \in 1..Len(t.m_columns) : t.m_columns[c].name = names[j]
  PROVE  LET u == FoldLeft(AddKeyColumn, t, names)
         IN  u \in Placed(t) /\ KeyedUpTo(t, names, Len(names), u)
<1>. DEFINE n == Len(names)
<1>0. n \in Nat
  OBVIOUS
<1>1. PICK f : IsKeying(t, names, f)
  BY KeyFold
<1>. HIDE DEF n
<1>. DEFINE T == {m \in Nat : m <= n => KeyedUpTo(t, names, m, f[m])}
<1>2. 0 \in T
  <2>1. f[0] = t /\ 1..0 = {} /\ Len(<<>>) = 0
    BY <1>1 DEF IsKeying
  <2>2. KeyedUpTo(t, names, 0, t)
    BY <2>1 DEF KeyedUpTo, NoPlaces
  <2>. QED  BY <2>1, <2>2
<1>3. ASSUME NEW m \in Nat, m \in T PROVE m + 1 \in T
  <2>. SUFFICES ASSUME m + 1 <= n PROVE KeyedUpTo(t, names, m + 1, f[m + 1])
    OBVIOUS
  <2>1. m \in 0..(n - 1) /\ m \in 0..n /\ m + 1 \in 1..n /\ KeyedUpTo(t, names, m, f[m])
    BY <1>0, <1>3
  <2>2. f[m + 1] = AddKeyColumn(f[m], names[m + 1]) /\ f[m] \in Placed(t)
    BY <1>1, <2>1 DEF IsKeying, n
  <2>3. \E c \in 1..Len(t.m_columns) : t.m_columns[c].name = names[m + 1]
    BY <2>1 DEF n
  <2>4. KeyedUpTo(t, names, m + 1, AddKeyColumn(f[m], names[m + 1]))
    BY <2>1, <2>2, <2>3, KeyedNext DEF n
  <2>. QED  BY <2>2, <2>4
<1>. HIDE DEF T
<1>4. n \in T
  BY <1>0, <1>2, <1>3, Induction
<1>5. KeyedUpTo(t, names, n, f[n])
  BY <1>0, <1>4 DEF T
<1>. QED  BY <1>0, <1>1, <1>5 DEF IsKeying, n

-----------------------------------------------------------------------------
(* evaluate                                                                 *)

\* The length of a function on 1..n
LEMMA LengthOf ==
  ASSUME NEW n \in Nat, NEW s, s = [k \in 1..n |-> s[k]]
  PROVE  Len(s) = n
<1>. DEFINE S == {s[k] : k \in 1..n}
<1>1. \A k \in 1..n : s[k] \in S
  OBVIOUS
<1>. HIDE DEF S
<1>2. s \in [1..n -> S]
  BY <1>1
<1>3. s \in Seq(S) /\ Len(s) = n
  BY <1>2
<1>. QED  BY <1>3

\* What evaluate does with the columns
LEMMA EvaluateShape ==
  ASSUME NEW u, IsTable(u), u.m_values = <<>>
  PROVE  LET v == Evaluate(u)
             d(c) == u.m_columns[c]
         IN  /\ IsTable(v) /\ Len(v.m_columns) = Len(u.m_columns)
             /\ \A c \in 1..Len(u.m_columns) :
                  v.m_columns[c] =
                    IF d(c).m_iKeyIndex >= 0 THEN d(c)
                    ELSE [name |-> d(c).name, type |-> d(c).type, m_iKeyIndex |-> d(c).m_iKeyIndex,
                          m_iValueIndex |-> Cardinality({j \in ValueColumns(u) : j < c})]
<1>. DEFINE n       == Len(u.m_columns)
            Rank(c) == Cardinality({j \in ValueColumns(u) : j < c})
            d(c)    == u.m_columns[c]
            e(c)    == [name |-> d(c).name, type |-> d(c).type, m_iKeyIndex |-> d(c).m_iKeyIndex, m_iValueIndex |-> Rank(c)]
            s       == [c \in 1..n |-> IF d(c).m_iKeyIndex >= 0 THEN d(c) ELSE e(c)]
            w       == u.m_values \o InTableOrder(ValueColumns(u))
            r       == [m_name |-> u.m_name, m_columns |-> u.m_columns, m_keys |-> u.m_keys, m_values |-> u.m_values,
                        hasPath |-> u.hasPath]
            v       == [m_name |-> u.m_name, m_columns |-> s, m_keys |-> u.m_keys, m_values |-> w, hasPath |-> u.hasPath]
<1>1. n \in Nat /\ u = r /\ DOMAIN u.m_columns = 1..n /\ \A c \in 1..n : IsColumn(d(c))
  BY DEF IsTable
<1>2. \A c \in 1..n : d(c) = [name |-> d(c).name, type |-> d(c).type, m_iKeyIndex |-> d(c).m_iKeyIndex, m_iValueIndex |-> d(c).m_iValueIndex]
  BY <1>1 DEF IsColumn
<1>3. Len(u.m_values) = 0
  <2>1. Len(<<>>) = 0
    OBVIOUS
  <2>. QED  BY <2>1
<1>4. ASSUME NEW c \in 1..n
      PROVE  [d(c) EXCEPT !.m_iValueIndex = Len(u.m_values) + Cardinality({j \in ValueColumns(u) : j < c})] = e(c)
  <2>1. Rank(c) \in Nat
    <3>1. 1..n \in SUBSET Int /\ 1 \in Int /\ n \in Int
      BY <1>1
    <3>2. IsFiniteSet(1..n)
      BY <3>1, FS_Interval
    <3>3. {j \in ValueColumns(u) : j < c} \subseteq 1..n
      BY <1>1 DEF ValueColumns
    <3>. HIDE DEF n
    <3>4. IsFiniteSet({j \in ValueColumns(u) : j < c})
      BY <3>2, <3>3, FS_Subset
    <3>. QED  BY <3>4, FS_CardinalityType
  <2>2. Len(u.m_values) + Cardinality({j \in ValueColumns(u) : j < c}) = Rank(c)
    BY <1>3, <2>1
  <2>. DEFINE q == [name |-> d(c).name, type |-> d(c).type, m_iKeyIndex |-> d(c).m_iKeyIndex, m_iValueIndex |-> d(c).m_iValueIndex]
  <2>. HIDE DEF Rank
  <2>3. [q EXCEPT !.m_iValueIndex = Rank(c)] = e(c)
    OBVIOUS
  <2>4. d(c) = q
    BY <1>2
  <2>. HIDE DEF q, d, e
  <2>. QED  BY <2>2, <2>3, <2>4
<1>. HIDE DEF n, r
<1>5. Evaluate(u) = [u EXCEPT !.m_values = w, !.m_columns = s]
  <2>. DEFINE a(c) == [d(c) EXCEPT !.m_iValueIndex = Len(u.m_values) + Cardinality({j \in ValueColumns(u) : j < c})]
              g    == [c \in 1..n |-> IF d(c).m_iKeyIndex >= 0 THEN d(c) ELSE a(c)]
  <2>1. Evaluate(u) = [u EXCEPT !.m_values = w, !.m_columns = g]
    BY <1>1 DEF Evaluate
  <2>2. \A c \in 1..n : a(c) = e(c)
    BY <1>4
  <2>. HIDE DEF a, e
  <2>3. g = s
    BY <2>2
  <2>. QED  BY <2>1, <2>3
<1>. HIDE DEF w, s
<1>6. [r EXCEPT !.m_values = w, !.m_columns = s] = v
  <2>1. [r EXCEPT !.m_values = w] =
          [m_name |-> u.m_name, m_columns |-> u.m_columns, m_keys |-> u.m_keys, m_values |-> w, hasPath |-> u.hasPath]
    BY DEF r
  <2>2. [[m_name |-> u.m_name, m_columns |-> u.m_columns, m_keys |-> u.m_keys, m_values |-> w, hasPath |-> u.hasPath]
           EXCEPT !.m_columns = s] = v
    OBVIOUS
  <2>3. [r EXCEPT !.m_values = w, !.m_columns = s] = [[r EXCEPT !.m_values = w] EXCEPT !.m_columns = s]
    OBVIOUS
  <2>. QED  BY <2>1, <2>2, <2>3
<1>7. Evaluate(u) = v
  BY <1>1, <1>5, <1>6
<1>8. /\ v.m_columns = s
      /\ v = [m_name |-> v.m_name, m_columns |-> v.m_columns, m_keys |-> v.m_keys, m_values |-> v.m_values,
              hasPath |-> v.hasPath]
  OBVIOUS
<1>. HIDE DEF v
<1>9. /\ \A c \in 1..n : s[c] = IF d(c).m_iKeyIndex >= 0 THEN d(c) ELSE e(c)
      /\ s = [c \in 1..n |-> s[c]]
  BY DEF s
<1>10. Len(s) = n
  BY <1>1, <1>9, LengthOf
<1>11. \A c \in 1..n : IsColumn(e(c))
  BY DEF IsColumn
<1>12. \A c \in 1..n : IsColumn(s[c])
  BY <1>1, <1>9, <1>11
<1>13. IsTable(v)
  BY <1>1, <1>8, <1>9, <1>10, <1>12 DEF IsTable
<1>. QED  BY <1>7, <1>8, <1>9, <1>10, <1>13 DEF n

\* The key and evaluate() give every column its place.
LEMMA EvaluatePlaces ==
  ASSUME NEW t, IsTable(t), NoPlaces(t), DifferentNames(t), NEW N, NEW names \in Seq(N), IsInjective(names),
         \A j \in 1..Len(names) : \E c \in 1..Len(t.m_columns) : t.m_columns[c].name = names[j]
  PROVE  LET v == Evaluate(FoldLeft(AddKeyColumn, t, names))
         IN  /\ IsTable(v) /\ Len(v.m_columns) = Len(t.m_columns)
             /\ \A c \in 1..Len(t.m_columns) :
                  v.m_columns[c].name = t.m_columns[c].name /\ v.m_columns[c].type = t.m_columns[c].type
             /\ PlacesRight(v.m_columns, names)
<1>. DEFINE n == Len(t.m_columns)
            u == FoldLeft(AddKeyColumn, t, names)
            v == Evaluate(u)
            V == ValueColumns(u)
            R == {x \in (1..n) \X (1..n) : x[1] < x[2]}
<1>1. u \in Placed(t) /\ KeyedUpTo(t, names, Len(names), u)
  BY Keyed
<1>. HIDE DEF u
<1>2. /\ IsTable(u) /\ Len(u.m_columns) = n /\ u.m_values = <<>>
      /\ \A c \in 1..n : /\ u.m_columns[c].name = t.m_columns[c].name /\ u.m_columns[c].type = t.m_columns[c].type
                         /\ u.m_columns[c].m_iValueIndex = -1
  BY <1>1, PlacedTables DEF NoPlaces
<1>3. /\ IsTable(v) /\ Len(v.m_columns) = n
      /\ \A c \in 1..n :
           v.m_columns[c] =
             IF u.m_columns[c].m_iKeyIndex >= 0 THEN u.m_columns[c]
             ELSE [name |-> u.m_columns[c].name, type |-> u.m_columns[c].type, m_iKeyIndex |-> u.m_columns[c].m_iKeyIndex,
                   m_iValueIndex |-> Cardinality({j \in V : j < c})]
  <2>. DEFINE l == Len(u.m_columns)
  <2>1. /\ IsTable(v) /\ Len(v.m_columns) = l
        /\ \A c \in 1..l :
             v.m_columns[c] =
               IF u.m_columns[c].m_iKeyIndex >= 0 THEN u.m_columns[c]
               ELSE [name |-> u.m_columns[c].name, type |-> u.m_columns[c].type,
                     m_iKeyIndex |-> u.m_columns[c].m_iKeyIndex,
                     m_iValueIndex |-> Cardinality({j \in V : j < c})]
    <3>1. IsTable(u) /\ u.m_values = <<>>
      BY <1>2
    <3>. QED  BY <3>1, EvaluateShape
  <2>2. l = n
    BY <1>2
  <2>. HIDE DEF l, n, v, V
  <2>. QED  BY <2>1, <2>2
<1>4. DOMAIN names = 1..Len(names) /\ Len(names) \in Nat /\ Range(names) = {names[j] : j \in 1..Len(names)}
  BY DEF Range
<1>5. n \in Nat /\ DOMAIN u.m_columns = 1..n /\ DOMAIN v.m_columns = 1..n
  BY <1>2, <1>3 DEF IsTable
<1>. HIDE DEF v, n
<1>6. ASSUME NEW c \in 1..n
      PROVE  /\ v.m_columns[c].name = t.m_columns[c].name /\ v.m_columns[c].type = t.m_columns[c].type
             /\ \A j \in 1..Len(names) : t.m_columns[c].name = names[j] =>
                  v.m_columns[c].m_iKeyIndex = j - 1 /\ v.m_columns[c].m_iValueIndex = -1 /\ c \notin V
             /\ t.m_columns[c].name \notin Range(names) =>
                  v.m_columns[c].m_iValueIndex = Cardinality({j \in V : j < c}) /\ c \in V
  <2>. DEFINE k == u.m_columns[c].m_iKeyIndex
  <2>1. c \in V <=> k < 0
    BY <1>5 DEF ValueColumns
  <2>. DEFINE z == Cardinality({j \in V : j < c})
  <2>. HIDE DEF V, z
  <2>2. v.m_columns[c] = IF k >= 0 THEN u.m_columns[c]
                         ELSE [name |-> u.m_columns[c].name, type |-> u.m_columns[c].type, m_iKeyIndex |-> k, m_iValueIndex |-> z]
    BY <1>3 DEF z
  <2>3. v.m_columns[c].name = t.m_columns[c].name /\ v.m_columns[c].type = t.m_columns[c].type
    BY <1>2, <2>2
  <2>4. ASSUME NEW j \in 1..Len(names), t.m_columns[c].name = names[j]
        PROVE  v.m_columns[c].m_iKeyIndex = j - 1 /\ v.m_columns[c].m_iValueIndex = -1 /\ c \notin V
    <3>1. k = j - 1
      BY <1>1, <2>4 DEF KeyedUpTo, n
    <3>2. k >= 0 /\ ~(k < 0)
      BY <3>1
    <3>. HIDE DEF k
    <3>3. v.m_columns[c] = u.m_columns[c]
      BY <2>2, <3>2
    <3>. QED  BY <1>2, <2>1, <3>1, <3>2, <3>3 DEF k
  <2>5. ASSUME t.m_columns[c].name \notin Range(names)
        PROVE  v.m_columns[c].m_iValueIndex = z /\ c \in V
    <3>1. k = -1
      BY <1>1, <1>4, <2>5 DEF KeyedUpTo, n
    <3>2. ~(k >= 0) /\ k < 0
      BY <3>1
    <3>. HIDE DEF k
    <3>. QED  BY <2>1, <2>2, <3>2
  <2>. QED  BY <2>3, <2>4, <2>5 DEF z
<1>. DEFINE values == {c \in 1..n : v.m_columns[c].name \notin Range(names)}
<1>7. values = V
  <2>1. V \subseteq 1..n
    BY <1>5 DEF ValueColumns
  <2>2. ASSUME NEW c \in 1..n PROVE c \in V <=> v.m_columns[c].name \notin Range(names)
    <3>. HIDE DEF V
    <3>. QED  BY <1>4, <1>6
  <2>. HIDE DEF V
  <2>. QED  BY <2>1, <2>2
<1>8. V \subseteq 1..n /\ IsFiniteSet(V)
  <2>1. IsFiniteSet(1..n)
    BY <1>5, FS_Interval
  <2>2. V \subseteq 1..n
    BY <1>5 DEF ValueColumns
  <2>. QED  BY <2>1, <2>2, FS_Subset
<1>. HIDE DEF V
<1>9. /\ Cardinality(V) \in Nat
      /\ \A c \in V : RankIn(V, R, c) \in 0..(Cardinality(V) - 1)
      /\ \A m \in 1..Cardinality(V) : \E c \in V : RankIn(V, R, c) = m - 1
  <2>1. \A x \in V : <<x, x>> \notin R
    OBVIOUS
  <2>2. \A x, y, z \in V : <<x, y>> \in R /\ <<y, z>> \in R => <<x, z>> \in R
    BY <1>5
  <2>3. \A x, y \in V : x # y => <<x, y>> \in R \/ <<y, x>> \in R
    BY <1>5, <1>8
  <2>. HIDE DEF R
  <2>. QED  BY <1>8, <2>1, <2>2, <2>3, RanksIn
<1>10. ASSUME NEW c \in V PROVE v.m_columns[c].m_iValueIndex = RankIn(V, R, c)
  <2>1. {j \in V : j < c} = {x \in V : <<x, c>> \in R}
    BY <1>8
  <2>2. c \in 1..n /\ v.m_columns[c].name \notin Range(names)
    BY <1>7
  <2>3. t.m_columns[c].name \notin Range(names)
    BY <1>6, <2>2
  <2>4. v.m_columns[c].m_iValueIndex = Cardinality({j \in V : j < c})
    BY <1>6, <2>2, <2>3
  <2>. QED  BY <2>1, <2>4 DEF RankIn
<1>. HIDE DEF R
<1>11. {v.m_columns[c].m_iValueIndex : c \in V} = 0..(Cardinality(V) - 1)
  <2>1. ASSUME NEW k \in 0..(Cardinality(V) - 1)
        PROVE  \E c \in V : RankIn(V, R, c) = k
    <3>1. k + 1 \in 1..Cardinality(V) /\ (k + 1) - 1 = k
      BY <1>9
    <3>. QED  BY <1>9, <3>1
  <2>2. \A c \in V : v.m_columns[c].m_iValueIndex \in 0..(Cardinality(V) - 1)
    BY <1>9, <1>10
  <2>3. \A k \in 0..(Cardinality(V) - 1) : \E c \in V : v.m_columns[c].m_iValueIndex = k
    BY <1>10, <2>1
  <2>. QED  BY <2>2, <2>3, Zenon
<1>12. \A j \in DOMAIN names, c \in DOMAIN v.m_columns : v.m_columns[c].name = names[j] =>
           v.m_columns[c].m_iKeyIndex = j - 1 /\ v.m_columns[c].m_iValueIndex = -1
  BY <1>4, <1>5, <1>6
<1>13. PlacesRight(v.m_columns, names)
  BY <1>5, <1>7, <1>11, <1>12 DEF PlacesRight
<1>. QED  BY <1>3, <1>6, <1>13 DEF v, u, n

-----------------------------------------------------------------------------
(* The lines of a file                                                      *)

\* TableOf and LinesOf in any file f
TableIn(f, i) == Cardinality({j \in 1..i : f[j].kind = "[table]"})

LinesIn(f, n, kind) == {i \in 1..Len(f) : TableIn(f, i) = n /\ f[i].kind = kind}

\* The numbers of tables are natural.
LEMMA TableNumbers ==
  ASSUME NEW f, NEW i \in Nat
  PROVE  TableIn(f, i) \in Nat
<1>. DEFINE S == {j \in 1..i : f[j].kind = "[table]"}
<1>1. IsFiniteSet(1..i)
  BY FS_Interval
<1>2. IsFiniteSet(S)
  BY <1>1, FS_Subset
<1>. HIDE DEF S
<1>3. Cardinality(S) \in Nat
  BY <1>2, FS_CardinalityType
<1>. QED  BY <1>3 DEF TableIn, S

\* One more line leaves the lines before it in their tables.
LEMMA AppendLine ==
  ASSUME NEW f \in Seq(Lines), NEW line \in Lines
  PROVE  LET g    == Append(f, line)
             l    == Len(f)
             last == IF line.kind = "[table]" THEN TableIn(f, l) + 1 ELSE TableIn(f, l)
         IN  /\ l \in Nat /\ g \in Seq(Lines) /\ Len(g) = l + 1
             /\ \A i \in 1..l : g[i] = f[i] /\ TableIn(g, i) = TableIn(f, i)
             /\ g[l + 1] = line /\ TableIn(g, l + 1) = last
             /\ \A n, kind : LinesIn(g, n, kind) =
                  LinesIn(f, n, kind) \cup (IF last = n /\ line.kind = kind THEN {l + 1} ELSE {})
<1>. DEFINE g    == Append(f, line)
            l    == Len(f)
            last == IF line.kind = "[table]" THEN TableIn(f, l) + 1 ELSE TableIn(f, l)
            S(i) == {j \in 1..i : f[j].kind = "[table]"}
            T(i) == {j \in 1..i : g[j].kind = "[table]"}
<1>1. l \in Nat /\ g \in Seq(Lines) /\ Len(g) = l + 1 /\ g[l + 1] = line /\ \A i \in 1..l : g[i] = f[i]
  OBVIOUS
<1>. HIDE DEF g, l
<1>2. ASSUME NEW i \in 1..l PROVE TableIn(g, i) = TableIn(f, i)
  <2>1. \A j \in 1..i : g[j] = f[j]
    BY <1>1
  <2>2. T(i) = S(i)
    BY <2>1
  <2>. QED  BY <2>2 DEF TableIn
<1>3. TableIn(g, l + 1) = last
  <2>1. T(l + 1) = IF line.kind = "[table]" THEN S(l) \cup {l + 1} ELSE S(l)
    <3>1. l + 1 \in 1..(l + 1) /\ \A j \in 1..(l + 1) : j \in 1..l \/ j = l + 1
      BY <1>1
    <3>2. \A j \in 1..l : j \in 1..(l + 1)
      BY <1>1
    <3>. QED  BY <1>1, <3>1, <3>2
  <2>2. IsFiniteSet(S(l)) /\ l + 1 \notin S(l)
    <3>1. IsFiniteSet(1..l)
      BY <1>1, FS_Interval
    <3>2. S(l) \subseteq 1..l
      OBVIOUS
    <3>3. l + 1 \notin 1..l
      BY <1>1
    <3>. HIDE DEF S
    <3>. QED  BY <3>1, <3>2, <3>3, FS_Subset
  <2>3. Cardinality(S(l)) = TableIn(f, l) /\ Cardinality(T(l + 1)) = TableIn(g, l + 1)
    BY DEF TableIn
  <2>. HIDE DEF S, T
  <2>4. Cardinality(S(l) \cup {l + 1}) = Cardinality(S(l)) + 1
    BY <2>2, FS_AddElement
  <2>. QED  BY <2>1, <2>3, <2>4
<1>. HIDE DEF last
<1>4. ASSUME NEW n, NEW kind
      PROVE  LinesIn(g, n, kind) = LinesIn(f, n, kind) \cup (IF last = n /\ line.kind = kind THEN {l + 1} ELSE {})
  <2>1. \A i \in 1..l : i \in 1..(l + 1)
    BY <1>1
  <2>2. l + 1 \in 1..(l + 1) /\ \A i \in 1..(l + 1) : i \in 1..l \/ i = l + 1
    BY <1>1
  <2>3. l + 1 \notin 1..l
    BY <1>1
  <2>4. LinesIn(f, n, kind) = {i \in 1..l : TableIn(f, i) = n /\ f[i].kind = kind}
    BY DEF LinesIn, l
  <2>5. LinesIn(g, n, kind) = {i \in 1..(l + 1) : TableIn(g, i) = n /\ g[i].kind = kind}
    BY <1>1 DEF LinesIn
  <2>. QED  BY <1>1, <1>2, <1>3, <2>1, <2>2, <2>3, <2>4, <2>5
<1>. QED  BY <1>1, <1>2, <1>3, <1>4 DEF g, l, last

-----------------------------------------------------------------------------
(* Tables and their lines                                                   *)

\* The number of a column line among those of its table
NumberIn(f, n, i) == Cardinality({j \in LinesIn(f, n, "column") : j <= i})

\* A table tells what its lines in the file say.
TableRight(f, t, n) ==
  /\ IsTable(t) /\ DifferentNames(t)
  /\ Len(t.m_columns) = Cardinality(LinesIn(f, n, "column"))
  /\ \A i \in LinesIn(f, n, "column") :
       /\ NumberIn(f, n, i) \in 1..Len(t.m_columns)
       /\ t.m_columns[NumberIn(f, n, i)].name = f[i].name /\ t.m_columns[NumberIn(f, n, i)].type = f[i].type
  /\ \A c \in 1..Len(t.m_columns) : \E i \in LinesIn(f, n, "column") : f[i].name = t.m_columns[c].name
  /\ LinesIn(f, n, "key") = {} => NoPlaces(t)
  /\ \A k \in LinesIn(f, n, "key") : PlacesRight(t.m_columns, f[k].names)

\* Only the column and key lines of the table matter, and of the table only its
\* columns and places.
LEMMA SameLines ==
  ASSUME NEW f, NEW g, NEW t, NEW u, NEW n, TableRight(f, t, n),
         LinesIn(g, n, "column") = LinesIn(f, n, "column"), LinesIn(g, n, "key") = LinesIn(f, n, "key"),
         \A i \in LinesIn(f, n, "column") \cup LinesIn(f, n, "key") : g[i] = f[i],
         IsTable(u), u.m_columns = t.m_columns, u.m_keys = t.m_keys, u.m_values = t.m_values
  PROVE  TableRight(g, u, n)
<1>1. \A i : NumberIn(g, n, i) = NumberIn(f, n, i)
  BY DEF NumberIn
<1>2. DifferentNames(u) /\ (NoPlaces(t) => NoPlaces(u))
  BY DEF TableRight, DifferentNames, NoPlaces
<1>3. \A i \in LinesIn(f, n, "column") : g[i] = f[i]
  OBVIOUS
<1>4. \A i \in LinesIn(f, n, "key") : g[i] = f[i]
  OBVIOUS
<1>5. Len(u.m_columns) = Cardinality(LinesIn(g, n, "column"))
  BY DEF TableRight
<1>6. \A i \in LinesIn(g, n, "column") :
       /\ NumberIn(g, n, i) \in 1..Len(u.m_columns)
       /\ u.m_columns[NumberIn(g, n, i)].name = g[i].name /\ u.m_columns[NumberIn(g, n, i)].type = g[i].type
  BY <1>1, <1>3 DEF TableRight
<1>7. \A c \in 1..Len(u.m_columns) : \E i \in LinesIn(g, n, "column") : g[i].name = u.m_columns[c].name
  BY <1>3 DEF TableRight
<1>8. \A k \in LinesIn(g, n, "key") : PlacesRight(u.m_columns, g[k].names)
  BY <1>4 DEF TableRight
<1>9. LinesIn(g, n, "key") = {} => NoPlaces(u)
  BY <1>2 DEF TableRight
<1>. QED  BY <1>2, <1>5, <1>6, <1>7, <1>8, <1>9 DEF TableRight

\* A new table has no lines yet.
LEMMA NewTableRight ==
  ASSUME NEW f, NEW n, LinesIn(f, n, "column") = {}, LinesIn(f, n, "key") = {}
  PROVE  TableRight(f, NewTable, n)
<1>1. Cardinality({}) = 0
  BY FS_EmptySet
<1>2. DifferentNames(NewTable)
  BY NewTableShape DEF DifferentNames
<1>3. IsTable(NewTable) /\ NoPlaces(NewTable) /\ Len(NewTable.m_columns) = 0 /\ 1..0 = {}
  BY NewTableShape
<1>4. \A c \in 1..Len(NewTable.m_columns) : FALSE
  BY <1>3
<1>. QED  BY <1>1, <1>2, <1>3, <1>4, Zenon DEF TableRight

\* A column line with a new name, before the key
LEMMA ColumnRight ==
  ASSUME NEW f \in Seq(Lines), NEW line \in Lines, NEW t, NEW n, TableRight(f, t, n), n = TableIn(f, Len(f)),
         line.kind = "column", LinesIn(f, n, "key") = {}, \A i \in LinesIn(f, n, "column") : f[i].name # line.name
  PROVE  TableRight(Append(f, line), AddColumn(t, line.name, line.type), n)
<1>. DEFINE g == Append(f, line)
            l == Len(f)
            u == AddColumn(t, line.name, line.type)
            c == Len(t.m_columns)
            C == LinesIn(f, n, "column")
            D == LinesIn(g, n, "column")
<1>1. /\ l \in Nat /\ (\A i \in 1..l : g[i] = f[i]) /\ g[l + 1] = line
      /\ D = C \cup {l + 1} /\ LinesIn(g, n, "key") = {}
  BY AppendLine
<1>2. C \subseteq 1..l /\ IsFiniteSet(C) /\ l + 1 \notin C
  <2>1. C \subseteq 1..l
    BY DEF LinesIn
  <2>2. IsFiniteSet(1..l) /\ l + 1 \notin 1..l
    BY <1>1, FS_Interval
  <2>. HIDE DEF C, l
  <2>. QED  BY <2>1, <2>2, FS_Subset
<1>3. /\ IsTable(u) /\ Len(u.m_columns) = c + 1
      /\ \A k \in 1..c : u.m_columns[k] = t.m_columns[k]
      /\ u.m_columns[c + 1].name = line.name /\ u.m_columns[c + 1].type = line.type
      /\ NoPlaces(t) => NoPlaces(u)
  BY AddColumnShape DEF TableRight
<1>4. c \in Nat /\ c = Cardinality(C) /\ NoPlaces(t) /\ DifferentNames(t)
  BY DEF TableRight, IsTable
<1>5. /\ \A i \in C : /\ NumberIn(f, n, i) \in 1..c
                      /\ t.m_columns[NumberIn(f, n, i)].name = f[i].name /\ t.m_columns[NumberIn(f, n, i)].type = f[i].type
      /\ \A k \in 1..c : \E i \in C : f[i].name = t.m_columns[k].name
  BY DEF TableRight
<1>6. \A i \in C : NumberIn(g, n, i) = NumberIn(f, n, i)
  <2>. SUFFICES ASSUME NEW i \in C PROVE NumberIn(g, n, i) = NumberIn(f, n, i)
    OBVIOUS
  <2>1. i \in 1..l
    BY <1>2
  <2>. HIDE DEF C, D, l, g
  <2>2. {j \in D : j <= i} = {j \in C : j <= i}
    BY <1>1, <2>1
  <2>. QED  BY <2>2 DEF NumberIn, C, D
<1>7. NumberIn(g, n, l + 1) = c + 1 /\ Cardinality(D) = c + 1
  <2>. HIDE DEF C, D, l, g, c
  <2>1. {j \in D : j <= l + 1} = D
    BY <1>1, <1>2
  <2>2. Cardinality(D) = c + 1
    BY <1>1, <1>2, <1>4, FS_AddElement
  <2>. QED  BY <2>1, <2>2 DEF NumberIn, D
<1>8. \A i \in D : i \in C \/ i = l + 1
  BY <1>1
<1>9. \A k \in 1..(c + 1) : k \in 1..c \/ k = c + 1
  BY <1>4
<1>. HIDE DEF u, g, c, l, C, D
<1>10. \A k \in 1..c : k \in 1..(c + 1) /\ t.m_columns[k].name # line.name
  <2>. SUFFICES ASSUME NEW k \in 1..c PROVE k \in 1..(c + 1) /\ t.m_columns[k].name # line.name
    OBVIOUS
  <2>1. PICK i \in C : f[i].name = t.m_columns[k].name
    BY <1>5
  <2>2. f[i].name # line.name
    BY DEF C
  <2>. QED  BY <1>4, <2>1, <2>2
<1>11. DifferentNames(u)
  <2>1. \A a, b \in 1..c : t.m_columns[a].name = t.m_columns[b].name => a = b
    BY <1>4 DEF DifferentNames, c
  <2>2. \A a, b \in 1..(c + 1) : u.m_columns[a].name = u.m_columns[b].name => a = b
    <3>. SUFFICES ASSUME NEW a \in 1..(c + 1), NEW b \in 1..(c + 1), u.m_columns[a].name = u.m_columns[b].name
                  PROVE  a = b
      OBVIOUS
    <3>1. CASE a \in 1..c /\ b \in 1..c
      BY <1>3, <2>1, <3>1
    <3>2. CASE a \in 1..c /\ b = c + 1
      BY <1>3, <1>10, <3>2
    <3>3. CASE a = c + 1 /\ b \in 1..c
      BY <1>3, <1>10, <3>3
    <3>. QED  BY <1>9, <3>1, <3>2, <3>3
  <2>. QED  BY <1>3, <2>2 DEF DifferentNames
<1>12. ASSUME NEW i \in D
       PROVE  /\ NumberIn(g, n, i) \in 1..(c + 1)
              /\ u.m_columns[NumberIn(g, n, i)].name = g[i].name /\ u.m_columns[NumberIn(g, n, i)].type = g[i].type
  <2>1. CASE i \in C
    <3>. DEFINE k == NumberIn(f, n, i)
    <3>1. NumberIn(g, n, i) = k /\ k \in 1..c /\ g[i] = f[i] /\ t.m_columns[k].name = f[i].name /\ t.m_columns[k].type = f[i].type
      BY <1>1, <1>2, <1>5, <1>6, <2>1
    <3>. HIDE DEF k
    <3>2. u.m_columns[k] = t.m_columns[k] /\ k \in 1..(c + 1)
      BY <1>3, <1>10, <3>1
    <3>. QED  BY <3>1, <3>2
  <2>2. CASE i = l + 1
    <3>1. c + 1 \in 1..(c + 1)
      BY <1>4
    <3>. QED  BY <1>1, <1>3, <1>7, <2>2, <3>1
  <2>. QED  BY <1>8, <2>1, <2>2
<1>13. ASSUME NEW k \in 1..(c + 1)
       PROVE  \E i \in D : g[i].name = u.m_columns[k].name
  <2>1. CASE k \in 1..c
    <3>1. PICK i \in C : f[i].name = t.m_columns[k].name
      BY <1>5, <2>1
    <3>2. i \in D /\ g[i] = f[i] /\ u.m_columns[k] = t.m_columns[k]
      BY <1>1, <1>2, <1>3, <2>1
    <3>. QED  BY <3>1, <3>2
  <2>2. CASE k = c + 1
    <3>1. l + 1 \in D /\ g[l + 1] = line
      BY <1>1
    <3>. QED  BY <1>3, <2>2, <3>1
  <2>. QED  BY <1>9, <2>1, <2>2
<1>14. TableRight(g, u, n)
  BY <1>1, <1>3, <1>4, <1>7, <1>11, <1>12, <1>13 DEF TableRight, D
<1>. QED  BY <1>14 DEF g, u

\* A key line that names columns of the table, each once
LEMMA KeyRight ==
  ASSUME NEW f \in Seq(Lines), NEW line \in Lines, NEW t, NEW n, TableRight(f, t, n), n = TableIn(f, Len(f)),
         line.kind = "key", LinesIn(f, n, "key") = {}, IsInjective(line.names),
         \A j \in DOMAIN line.names : ColumnsNamed(t, line.names[j]) # {}
  PROVE  TableRight(Append(f, line), Evaluate(FoldLeft(AddKeyColumn, t, line.names)), n)
<1>. DEFINE g     == Append(f, line)
            l     == Len(f)
            names == line.names
            v     == Evaluate(FoldLeft(AddKeyColumn, t, names))
            C     == LinesIn(f, n, "column")
            c     == Len(t.m_columns)
<1>1. /\ l \in Nat /\ (\A i \in 1..l : g[i] = f[i]) /\ g[l + 1] = line
      /\ LinesIn(g, n, "column") = C /\ LinesIn(g, n, "key") = {l + 1}
  <2>1. /\ l \in Nat /\ (\A i \in 1..l : g[i] = f[i]) /\ g[l + 1] = line
        /\ \A kind : LinesIn(g, n, kind) = LinesIn(f, n, kind) \cup (IF line.kind = kind THEN {l + 1} ELSE {})
    BY AppendLine
  <2>. HIDE DEF g, l
  <2>2. LinesIn(g, n, "column") = C
    <3>1. line.kind # "column"
      OBVIOUS
    <3>2. LinesIn(g, n, "column") = LinesIn(f, n, "column") \cup {}
      BY <2>1, <3>1, Zenon
    <3>. QED  BY <3>2
  <2>3. LinesIn(g, n, "key") = {l + 1}
    BY <2>1
  <2>. QED  BY <2>1, <2>2, <2>3
<1>2. C \subseteq 1..l
  BY DEF LinesIn
<1>3. IsTable(t) /\ NoPlaces(t) /\ DifferentNames(t) /\ c \in Nat /\ DOMAIN t.m_columns = 1..c
  BY DEF TableRight, IsTable
<1>4. names \in Seq(STRING)
  BY ConfigAssumption
<1>5. \A j \in 1..Len(names) : \E k \in 1..c : t.m_columns[k].name = names[j]
  <2>. SUFFICES ASSUME NEW j \in 1..Len(names) PROVE \E k \in 1..c : t.m_columns[k].name = names[j]
    OBVIOUS
  <2>1. j \in DOMAIN names
    BY <1>4
  <2>2. ColumnsNamed(t, names[j]) # {}
    BY <2>1
  <2>. QED  BY <1>3, <2>2 DEF ColumnsNamed
<1>6. /\ IsTable(v) /\ Len(v.m_columns) = c
      /\ \A k \in 1..c : v.m_columns[k].name = t.m_columns[k].name /\ v.m_columns[k].type = t.m_columns[k].type
      /\ PlacesRight(v.m_columns, names)
  BY <1>3, <1>4, <1>5, EvaluatePlaces
<1>. HIDE DEF v, g, l, c, C
<1>7. DifferentNames(v)
  BY <1>3, <1>6 DEF DifferentNames, c
<1>8. \A i : NumberIn(g, n, i) = NumberIn(f, n, i)
  BY <1>1 DEF NumberIn, C
<1>9. /\ c = Cardinality(C)
      /\ \A i \in C : /\ NumberIn(f, n, i) \in 1..c
                      /\ t.m_columns[NumberIn(f, n, i)].name = f[i].name /\ t.m_columns[NumberIn(f, n, i)].type = f[i].type
      /\ \A k \in 1..c : \E i \in C : f[i].name = t.m_columns[k].name
  BY DEF TableRight, c, C
<1>10. \A i \in C : g[i] = f[i]
  BY <1>1, <1>2
<1>11. \A i \in C : /\ NumberIn(g, n, i) \in 1..c
                    /\ v.m_columns[NumberIn(g, n, i)].name = g[i].name /\ v.m_columns[NumberIn(g, n, i)].type = g[i].type
  <2>. SUFFICES ASSUME NEW i \in C
                PROVE  /\ NumberIn(g, n, i) \in 1..c
                       /\ v.m_columns[NumberIn(g, n, i)].name = g[i].name /\ v.m_columns[NumberIn(g, n, i)].type = g[i].type
    OBVIOUS
  <2>. DEFINE k == NumberIn(f, n, i)
  <2>1. /\ NumberIn(g, n, i) = k /\ k \in 1..c /\ g[i] = f[i]
        /\ t.m_columns[k].name = f[i].name /\ t.m_columns[k].type = f[i].type
    BY <1>8, <1>9, <1>10
  <2>. HIDE DEF k
  <2>. QED  BY <1>6, <2>1
<1>12. \A k \in 1..c : \E i \in C : g[i].name = v.m_columns[k].name
  BY <1>6, <1>9, <1>10
<1>13. TableRight(g, v, n)
  BY <1>1, <1>6, <1>7, <1>9, <1>11, <1>12 DEF TableRight
<1>. QED  BY <1>13 DEF g, v

-----------------------------------------------------------------------------
(* The tables of a file                                                     *)

\* Customary, in any file f
CustomaryIn(f, n) ==
  /\ \A i, j \in LinesIn(f, n, "column") : f[i].name = f[j].name => i = j
  /\ \A k \in LinesIn(f, n, "key") :
       /\ LinesIn(f, n, "key") = {k} /\ IsInjective(f[k].names)
       /\ \A i \in LinesIn(f, n, "column") : i < k

\* It was so before the last line.
LEMMA CustomaryPrefix ==
  ASSUME NEW f \in Seq(Lines), NEW line \in Lines, NEW n, CustomaryIn(Append(f, line), n)
  PROVE  CustomaryIn(f, n)
<1>. DEFINE g == Append(f, line)
            l == Len(f)
<1>1. /\ l \in Nat /\ (\A i \in 1..l : g[i] = f[i])
      /\ \A kind : LinesIn(f, n, kind) \subseteq LinesIn(g, n, kind)
  BY AppendLine
<1>2. \A kind : \A i \in LinesIn(f, n, kind) : i \in 1..l
  BY DEF LinesIn
<1>3. CustomaryIn(g, n)
  OBVIOUS
<1>. HIDE DEF g, l
<1>4. \A kind : \A i \in LinesIn(f, n, kind) : g[i] = f[i] /\ i \in LinesIn(g, n, kind)
  BY <1>1, <1>2
<1>5. \A i, j \in LinesIn(f, n, "column") : f[i].name = f[j].name => i = j
  <2>. SUFFICES ASSUME NEW i \in LinesIn(f, n, "column"), NEW j \in LinesIn(f, n, "column"), f[i].name = f[j].name
                PROVE  i = j
    OBVIOUS
  <2>1. g[i].name = g[j].name /\ i \in LinesIn(g, n, "column") /\ j \in LinesIn(g, n, "column")
    BY <1>4
  <2>. QED  BY <1>3, <2>1 DEF CustomaryIn
<1>6. ASSUME NEW k \in LinesIn(f, n, "key")
      PROVE  /\ LinesIn(f, n, "key") = {k} /\ IsInjective(f[k].names)
             /\ \A i \in LinesIn(f, n, "column") : i < k
  <2>1. g[k] = f[k] /\ k \in LinesIn(g, n, "key")
    BY <1>4
  <2>2. /\ LinesIn(g, n, "key") = {k} /\ IsInjective(g[k].names)
        /\ \A i \in LinesIn(g, n, "column") : i < k
    BY <1>3, <2>1 DEF CustomaryIn
  <2>3. LinesIn(f, n, "key") \subseteq {k}
    BY <1>1, <2>2
  <2>. QED  BY <1>4, <2>1, <2>2, <2>3
<1>. QED  BY <1>5, <1>6 DEF CustomaryIn

\* A column line that leaves its section customary has a new name and stands in
\* front of the key.
LEMMA CustomaryColumn ==
  ASSUME NEW f \in Seq(Lines), NEW line \in Lines, line.kind = "column",
         CustomaryIn(Append(f, line), TableIn(f, Len(f)))
  PROVE  /\ LinesIn(f, TableIn(f, Len(f)), "key") = {}
         /\ \A i \in LinesIn(f, TableIn(f, Len(f)), "column") : f[i].name # line.name
<1>. DEFINE g == Append(f, line)
            l == Len(f)
            n == TableIn(f, l)
<1>1. /\ l \in Nat /\ (\A i \in 1..l : g[i] = f[i]) /\ g[l + 1] = line
      /\ \A kind : LinesIn(g, n, kind) = LinesIn(f, n, kind) \cup (IF line.kind = kind THEN {l + 1} ELSE {})
  BY AppendLine
<1>2. \A kind : \A i \in LinesIn(f, n, kind) : i \in 1..l
  BY DEF LinesIn
<1>3. CustomaryIn(g, n)
  OBVIOUS
<1>. HIDE DEF g, l, n
<1>4. l + 1 \in LinesIn(g, n, "column")
  BY <1>1
<1>5. ASSUME NEW k \in LinesIn(f, n, "key") PROVE FALSE
  <2>1. k \in LinesIn(g, n, "key") /\ k \in 1..l
    BY <1>1, <1>2
  <2>2. l + 1 < k
    BY <1>3, <1>4, <2>1 DEF CustomaryIn
  <2>. QED  BY <1>1, <2>1, <2>2
<1>6. ASSUME NEW i \in LinesIn(f, n, "column"), f[i].name = line.name PROVE FALSE
  <2>1. i \in LinesIn(g, n, "column") /\ i \in 1..l
    BY <1>1, <1>2
  <2>2. g[i].name = g[l + 1].name
    BY <1>1, <1>6, <2>1
  <2>3. i = l + 1
    BY <1>3, <1>4, <2>1, <2>2 DEF CustomaryIn
  <2>. QED  BY <1>1, <2>1, <2>3
<1>. QED  BY <1>5, <1>6 DEF n, l

\* A key line that leaves its section customary is its only one and repeats no name.
LEMMA CustomaryKey ==
  ASSUME NEW f \in Seq(Lines), NEW line \in Lines, line.kind = "key",
         CustomaryIn(Append(f, line), TableIn(f, Len(f)))
  PROVE  LinesIn(f, TableIn(f, Len(f)), "key") = {} /\ IsInjective(line.names)
<1>. DEFINE g == Append(f, line)
            l == Len(f)
            n == TableIn(f, l)
<1>1. /\ l \in Nat /\ g[l + 1] = line
      /\ \A kind : LinesIn(g, n, kind) = LinesIn(f, n, kind) \cup (IF line.kind = kind THEN {l + 1} ELSE {})
  BY AppendLine
<1>2. \A i \in LinesIn(f, n, "key") : i \in 1..l
  BY DEF LinesIn
<1>3. CustomaryIn(g, n)
  OBVIOUS
<1>. HIDE DEF g, l, n
<1>4. l + 1 \in LinesIn(g, n, "key")
  BY <1>1
<1>5. LinesIn(g, n, "key") = {l + 1} /\ IsInjective(g[l + 1].names)
  BY <1>3, <1>4 DEF CustomaryIn
<1>6. ASSUME NEW i \in LinesIn(f, n, "key") PROVE FALSE
  <2>1. i \in 1..l /\ i \in LinesIn(g, n, "key")
    BY <1>1, <1>2
  <2>2. i = l + 1
    BY <1>5, <2>1
  <2>. QED  BY <1>1, <2>1, <2>2
<1>. QED  BY <1>1, <1>5, <1>6 DEF n, l

\* The tables read from a file; the last one is the current one.
TablesRight(f, ts, current) ==
  /\ f \in Seq(Lines)
  /\ Len(ts) \in Nat /\ ts = [n \in 1..Len(ts) |-> ts[n]]
  /\ current = Len(ts) /\ TableIn(f, Len(f)) = current
  /\ \A i \in 1..Len(f) : TableIn(f, i) \in 0..Len(ts)
  /\ \A n \in 1..Len(ts) : CustomaryIn(f, n) => TableRight(f, ts[n], n)

\* The name lines of tables
NamesIn(f) == {i \in 1..Len(f) : f[i].kind = "name" /\ TableIn(f, i) # 0}

\* The names lead to their tables.
NamesRight(f, map) ==
  /\ map = {<<f[i].name, TableIn(f, i)>> : i \in NamesIn(f)}
  /\ \A i, j \in NamesIn(f) : f[i].name = f[j].name => i = j

\* A line that starts no table adds nothing to the lines of other tables.
LEMMA OtherTables ==
  ASSUME NEW f, NEW ts, NEW current, TablesRight(f, ts, current), NEW line \in Lines, line.kind # "[table]",
         NEW n \in 1..Len(ts), n # current \/ line.kind \notin {"column", "key"}, CustomaryIn(Append(f, line), n)
  PROVE  TableRight(Append(f, line), ts[n], n)
<1>. DEFINE g == Append(f, line)
            l == Len(f)
<1>1. /\ l \in Nat /\ (\A i \in 1..l : g[i] = f[i])
      /\ \A m, kind : LinesIn(g, m, kind) =
           LinesIn(f, m, kind) \cup (IF TableIn(f, l) = m /\ line.kind = kind THEN {l + 1} ELSE {})
  BY AppendLine DEF TablesRight
<1>2. TableRight(f, ts[n], n) /\ TableIn(f, l) = current
  <2>1. CustomaryIn(f, n)
    BY CustomaryPrefix DEF TablesRight
  <2>. QED  BY <2>1 DEF TablesRight
<1>3. IsTable(ts[n])
  BY <1>2 DEF TableRight
<1>4. ASSUME NEW kind \in {"column", "key"} PROVE LinesIn(g, n, kind) = LinesIn(f, n, kind)
  <2>1. ~(TableIn(f, l) = n /\ line.kind = kind)
    BY <1>2
  <2>. HIDE DEF g, l
  <2>2. LinesIn(g, n, kind) = LinesIn(f, n, kind) \cup {}
    BY <1>1, <2>1, Zenon
  <2>. QED  BY <2>2
<1>5. \A i \in LinesIn(f, n, "column") \cup LinesIn(f, n, "key") : g[i] = f[i]
  BY <1>1 DEF LinesIn
<1>6. LinesIn(g, n, "column") = LinesIn(f, n, "column") /\ LinesIn(g, n, "key") = LinesIn(f, n, "key")
  BY <1>4
<1>. HIDE DEF g
<1>7. TableRight(g, ts[n], n)
  BY <1>2, <1>3, <1>5, <1>6, SameLines
<1>. QED  BY <1>7 DEF g

\* A line of another kind, or before the first table
LEMMA SkippedLine ==
  ASSUME NEW f, NEW ts, NEW current, TablesRight(f, ts, current), NEW line \in Lines, line.kind # "[table]",
         current = 0 \/ line.kind \notin {"column", "key"}
  PROVE  TablesRight(Append(f, line), ts, current)
<1>. DEFINE g == Append(f, line)
            l == Len(f)
<1>1. /\ l \in Nat /\ g \in Seq(Lines) /\ Len(g) = l + 1
      /\ \A i \in 1..l : TableIn(g, i) = TableIn(f, i)
      /\ TableIn(g, l + 1) = TableIn(f, l)
  BY AppendLine DEF TablesRight
<1>2. /\ Len(ts) \in Nat /\ ts = [n \in 1..Len(ts) |-> ts[n]]
      /\ current = Len(ts) /\ TableIn(f, l) = current
      /\ \A i \in 1..l : TableIn(f, i) \in 0..Len(ts)
  BY DEF TablesRight
<1>3. \A n \in 1..Len(ts) : CustomaryIn(g, n) => TableRight(g, ts[n], n)
  <2>1. \A n \in 1..Len(ts) : n # current \/ line.kind \notin {"column", "key"}
    BY <1>2
  <2>. QED  BY <2>1, OtherTables
<1>. HIDE DEF g, l
<1>4. \A i \in 1..(l + 1) : TableIn(g, i) \in 0..Len(ts)
  <2>1. \A i \in 1..(l + 1) : i \in 1..l \/ i = l + 1
    BY <1>1
  <2>. QED  BY <1>1, <1>2, <2>1
<1>5. TablesRight(g, ts, current)
  BY <1>1, <1>2, <1>3, <1>4 DEF TablesRight
<1>. QED  BY <1>5 DEF g

\* A line that changes the current table
LEMMA AcceptedLine ==
  ASSUME NEW f, NEW ts, NEW current, TablesRight(f, ts, current), NEW line \in Lines, line.kind # "[table]",
         current # 0, NEW t, CustomaryIn(Append(f, line), current) => TableRight(Append(f, line), t, current)
  PROVE  TablesRight(Append(f, line), [ts EXCEPT ![current] = t], current)
<1>. DEFINE g  == Append(f, line)
            l  == Len(f)
            us == [ts EXCEPT ![current] = t]
<1>1. /\ l \in Nat /\ g \in Seq(Lines) /\ Len(g) = l + 1
      /\ \A i \in 1..l : TableIn(g, i) = TableIn(f, i)
      /\ TableIn(g, l + 1) = TableIn(f, l)
  BY AppendLine DEF TablesRight
<1>2. /\ Len(ts) \in Nat /\ ts = [n \in 1..Len(ts) |-> ts[n]]
      /\ current = Len(ts) /\ TableIn(f, l) = current
      /\ \A i \in 1..l : TableIn(f, i) \in 0..Len(ts)
  BY DEF TablesRight
<1>3. us = [n \in 1..Len(ts) |-> us[n]] /\ \A n \in 1..Len(ts) : us[n] = IF n = current THEN t ELSE ts[n]
  BY <1>2
<1>4. Len(us) = Len(ts)
  <2>. HIDE DEF us
  <2>. QED  BY <1>2, <1>3, LengthOf
<1>5. \A n \in 1..Len(ts) : n # current /\ CustomaryIn(g, n) => TableRight(g, ts[n], n)
  BY OtherTables
<1>. HIDE DEF g, l, us
<1>6. \A n \in 1..Len(ts) : CustomaryIn(g, n) => TableRight(g, us[n], n)
  BY <1>3, <1>5 DEF g
<1>7. \A i \in 1..(l + 1) : TableIn(g, i) \in 0..Len(ts)
  <2>1. \A i \in 1..(l + 1) : i \in 1..l \/ i = l + 1
    BY <1>1
  <2>. QED  BY <1>1, <1>2, <2>1
<1>8. TablesRight(g, us, current)
  BY <1>1, <1>2, <1>3, <1>4, <1>6, <1>7 DEF TablesRight
<1>. QED  BY <1>8 DEF g, us

\* A line that starts a table
LEMMA TableLine ==
  ASSUME NEW f, NEW ts, NEW current, TablesRight(f, ts, current), NEW line \in Lines, line.kind = "[table]"
  PROVE  TablesRight(Append(f, line), Append(ts, NewTable), Len(ts) + 1)
<1>. DEFINE g  == Append(f, line)
            l  == Len(f)
            k  == Len(ts)
            us == Append(ts, NewTable)
<1>1. /\ l \in Nat /\ g \in Seq(Lines) /\ Len(g) = l + 1
      /\ \A i \in 1..l : g[i] = f[i] /\ TableIn(g, i) = TableIn(f, i)
      /\ TableIn(g, l + 1) = TableIn(f, l) + 1
      /\ \A m, kind : LinesIn(g, m, kind) =
           LinesIn(f, m, kind) \cup (IF TableIn(f, l) + 1 = m /\ line.kind = kind THEN {l + 1} ELSE {})
  BY AppendLine DEF TablesRight
<1>2. /\ k \in Nat /\ ts = [n \in 1..k |-> ts[n]] /\ TableIn(f, l) = k
      /\ \A i \in 1..l : TableIn(f, i) \in 0..k
      /\ \A n \in 1..k : CustomaryIn(f, n) => TableRight(f, ts[n], n)
  BY DEF TablesRight
<1>3. /\ Len(us) = k + 1 /\ us = [n \in 1..(k + 1) |-> us[n]]
      /\ \A n \in 1..k : us[n] = ts[n]
      /\ us[k + 1] = NewTable
  BY <1>2, AppendColumn
<1>. HIDE DEF g, us
<1>4. ASSUME NEW m, NEW kind \in {"column", "key"} PROVE LinesIn(g, m, kind) = LinesIn(f, m, kind)
  <2>1. line.kind # kind
    OBVIOUS
  <2>. HIDE DEF l
  <2>2. LinesIn(g, m, kind) = LinesIn(f, m, kind) \cup {}
    BY <1>1, <2>1, Zenon
  <2>. QED  BY <2>2
<1>5. ASSUME NEW n \in 1..k, CustomaryIn(g, n) PROVE TableRight(g, us[n], n)
  <2>0. CustomaryIn(f, n)
    BY <1>5, CustomaryPrefix DEF TablesRight, g
  <2>1. us[n] = ts[n] /\ TableRight(f, ts[n], n) /\ IsTable(ts[n])
    BY <1>2, <1>3, <2>0 DEF TableRight
  <2>2. LinesIn(g, n, "column") = LinesIn(f, n, "column") /\ LinesIn(g, n, "key") = LinesIn(f, n, "key")
    BY <1>4
  <2>3. \A i \in LinesIn(f, n, "column") \cup LinesIn(f, n, "key") : g[i] = f[i]
    BY <1>1 DEF LinesIn
  <2>. QED  BY <2>1, <2>2, <2>3, SameLines
<1>6. TableRight(g, us[k + 1], k + 1)
  <2>1. ASSUME NEW kind PROVE LinesIn(f, k + 1, kind) = {}
    <3>1. \A i \in 1..l : TableIn(f, i) # k + 1
      BY <1>2
    <3>. QED  BY <3>1 DEF LinesIn
  <2>2. LinesIn(g, k + 1, "column") = {} /\ LinesIn(g, k + 1, "key") = {}
    BY <1>4, <2>1
  <2>. QED  BY <1>3, <2>2, NewTableRight
<1>. HIDE DEF k, l
<1>7. \A n \in 1..(k + 1) : CustomaryIn(g, n) => TableRight(g, us[n], n)
  <2>1. \A n \in 1..(k + 1) : n \in 1..k \/ n = k + 1
    BY <1>2
  <2>. QED  BY <1>5, <1>6, <2>1
<1>8. \A i \in 1..(l + 1) : TableIn(g, i) \in 0..(k + 1)
  <2>1. \A i \in 1..(l + 1) : i \in 1..l \/ i = l + 1
    BY <1>1
  <2>. QED  BY <1>1, <1>2, <2>1
<1>9. TablesRight(g, us, k + 1)
  BY <1>1, <1>2, <1>3, <1>7, <1>8 DEF TablesRight
<1>. QED  BY <1>9 DEF g, us, k

\* A line that names no table leaves the names as they are.
LEMMA OtherName ==
  ASSUME NEW f \in Seq(Lines), NEW map, NamesRight(f, map), NEW line \in Lines,
         line.kind # "name" \/ (line.kind = "name" /\ TableIn(f, Len(f)) = 0)
  PROVE  NamesRight(Append(f, line), map)
<1>. DEFINE g == Append(f, line)
            l == Len(f)
<1>1. /\ l \in Nat /\ Len(g) = l + 1 /\ g[l + 1] = line
      /\ \A i \in 1..l : g[i] = f[i] /\ TableIn(g, i) = TableIn(f, i)
      /\ line.kind = "name" => TableIn(g, l + 1) = TableIn(f, l)
  BY AppendLine
<1>. HIDE DEF g, l
<1>2. NamesIn(g) = NamesIn(f)
  <2>1. \A i \in 1..(l + 1) : i \in 1..l \/ i = l + 1
    BY <1>1
  <2>2. \A i \in 1..l : i \in 1..(l + 1)
    BY <1>1
  <2>3. ~(g[l + 1].kind = "name" /\ TableIn(g, l + 1) # 0)
    BY <1>1 DEF l
  <2>4. NamesIn(f) = {i \in 1..l : f[i].kind = "name" /\ TableIn(f, i) # 0}
    BY DEF NamesIn, l
  <2>5. NamesIn(g) = {i \in 1..(l + 1) : g[i].kind = "name" /\ TableIn(g, i) # 0}
    BY <1>1 DEF NamesIn
  <2>. QED  BY <1>1, <2>1, <2>2, <2>3, <2>4, <2>5
<1>3. \A i \in NamesIn(f) : g[i] = f[i] /\ TableIn(g, i) = TableIn(f, i)
  BY <1>1 DEF NamesIn, l
<1>4. {<<g[i].name, TableIn(g, i)>> : i \in NamesIn(g)} = {<<f[i].name, TableIn(f, i)>> : i \in NamesIn(f)}
  BY <1>2, <1>3
<1>5. \A i, j \in NamesIn(g) : g[i].name = g[j].name => i = j
  BY <1>2, <1>3 DEF NamesRight
<1>6. NamesRight(g, map)
  BY <1>4, <1>5 DEF NamesRight
<1>. QED  BY <1>6 DEF g

\* A name that no table has
LEMMA NewName ==
  ASSUME NEW f \in Seq(Lines), NEW map, NamesRight(f, map), NEW line \in Lines, line.kind = "name",
         NEW current, current = TableIn(f, Len(f)), current # 0, ~ \E entry \in map : entry[1] = line.name
  PROVE  NamesRight(Append(f, line), map \cup {<<line.name, current>>})
<1>. DEFINE g == Append(f, line)
            l == Len(f)
<1>1. /\ l \in Nat /\ Len(g) = l + 1 /\ g[l + 1] = line
      /\ \A i \in 1..l : g[i] = f[i] /\ TableIn(g, i) = TableIn(f, i)
      /\ TableIn(g, l + 1) = current
  BY AppendLine
<1>. HIDE DEF g, l
<1>2. NamesIn(g) = NamesIn(f) \cup {l + 1}
  <2>1. \A i \in 1..(l + 1) : i \in 1..l \/ i = l + 1
    BY <1>1
  <2>2. l + 1 \in 1..(l + 1) /\ \A i \in 1..l : i \in 1..(l + 1)
    BY <1>1
  <2>3. g[l + 1].kind = "name" /\ TableIn(g, l + 1) # 0
    BY <1>1
  <2>4. NamesIn(f) = {i \in 1..l : f[i].kind = "name" /\ TableIn(f, i) # 0}
    BY DEF NamesIn, l
  <2>5. NamesIn(g) = {i \in 1..(l + 1) : g[i].kind = "name" /\ TableIn(g, i) # 0}
    BY <1>1 DEF NamesIn
  <2>. QED  BY <1>1, <2>1, <2>2, <2>3, <2>4, <2>5
<1>3. \A i \in NamesIn(f) : g[i] = f[i] /\ TableIn(g, i) = TableIn(f, i)
  BY <1>1 DEF NamesIn, l
<1>4. {<<g[i].name, TableIn(g, i)>> : i \in NamesIn(g)} =
        {<<f[i].name, TableIn(f, i)>> : i \in NamesIn(f)} \cup {<<line.name, current>>}
  <2>. DEFINE New == {<<g[i].name, TableIn(g, i)>> : i \in NamesIn(g)}
              Old == {<<f[i].name, TableIn(f, i)>> : i \in NamesIn(f)}
  <2>1. \A x \in New : x \in Old \/ x = <<line.name, current>>
    BY <1>1, <1>2, <1>3
  <2>2. \A x \in Old : x \in New
    BY <1>2, <1>3
  <2>3. <<line.name, current>> \in New
    <3>1. l + 1 \in NamesIn(g) /\ g[l + 1].name = line.name /\ TableIn(g, l + 1) = current
      BY <1>1, <1>2
    <3>. QED  BY <3>1
  <2>. HIDE DEF New, Old
  <2>4. New = Old \cup {<<line.name, current>>}
    BY <2>1, <2>2, <2>3
  <2>. QED  BY <2>4 DEF New, Old
<1>5. \A i \in NamesIn(f) : f[i].name # line.name
  <2>. SUFFICES ASSUME NEW i \in NamesIn(f), f[i].name = line.name PROVE FALSE
    OBVIOUS
  <2>. DEFINE entry == <<f[i].name, TableIn(f, i)>>
  <2>1. entry \in map
    BY DEF NamesRight
  <2>2. entry[1] = line.name
    OBVIOUS
  <2>. HIDE DEF entry
  <2>. QED  BY <2>1, <2>2
<1>6. \A i, j \in NamesIn(f) : f[i].name = f[j].name => i = j
  BY DEF NamesRight
<1>7. \A i, j \in NamesIn(g) : g[i].name = g[j].name => i = j
  BY <1>1, <1>2, <1>3, <1>5, <1>6
<1>8. NamesRight(g, map \cup {<<line.name, current>>})
  BY <1>4, <1>7 DEF NamesRight
<1>. QED  BY <1>8 DEF g

\* setName and setPath change nothing that the columns depend on.
LEMMA OtherAttributes ==
  ASSUME NEW t, IsTable(t), NEW value
  PROVE  /\ LET u == [t EXCEPT !.m_name = value]
            IN  IsTable(u) /\ u.m_columns = t.m_columns /\ u.m_keys = t.m_keys /\ u.m_values = t.m_values
         /\ LET u == [t EXCEPT !.hasPath = value]
            IN  IsTable(u) /\ u.m_columns = t.m_columns /\ u.m_keys = t.m_keys /\ u.m_values = t.m_values
<1>. DEFINE r == [m_name |-> t.m_name, m_columns |-> t.m_columns, m_keys |-> t.m_keys, m_values |-> t.m_values,
                  hasPath |-> t.hasPath]
            a == [m_name |-> value, m_columns |-> t.m_columns, m_keys |-> t.m_keys, m_values |-> t.m_values,
                  hasPath |-> t.hasPath]
            b == [m_name |-> t.m_name, m_columns |-> t.m_columns, m_keys |-> t.m_keys, m_values |-> t.m_values,
                  hasPath |-> value]
<1>1. t = r
  BY DEF IsTable
<1>2. [r EXCEPT !.m_name = value] = a /\ [r EXCEPT !.hasPath = value] = b
  OBVIOUS
<1>3. /\ a.m_columns = t.m_columns /\ a.m_keys = t.m_keys /\ a.m_values = t.m_values
      /\ b.m_columns = t.m_columns /\ b.m_keys = t.m_keys /\ b.m_values = t.m_values
      /\ a = [m_name |-> a.m_name, m_columns |-> a.m_columns, m_keys |-> a.m_keys, m_values |-> a.m_values,
              hasPath |-> a.hasPath]
      /\ b = [m_name |-> b.m_name, m_columns |-> b.m_columns, m_keys |-> b.m_keys, m_values |-> b.m_values,
              hasPath |-> b.hasPath]
  OBVIOUS
<1>. HIDE DEF r, a, b
<1>4. [t EXCEPT !.m_name = value] = a /\ [t EXCEPT !.hasPath = value] = b
  BY <1>1, <1>2
<1>5. IsTable(a) /\ IsTable(b)
  BY <1>3 DEF IsTable
<1>. QED  BY <1>3, <1>4, <1>5

-----------------------------------------------------------------------------
(* The invariant                                                            *)

\* Until a line is refused, the tables and their names are those of the file.
Loaded ==
  status # "failed" => TablesRight(file, tables, pCurrentTable) /\ NamesRight(file, m_tableMap)

\* What the guard of a line that changes the current table says
LEMMA CurrentTable ==
  ASSUME Loaded, NEW line \in Lines, ReadLine(line), pCurrentTable # 0
  PROVE  /\ TablesRight(file, tables, pCurrentTable) /\ NamesRight(file, m_tableMap)
         /\ file \in Seq(Lines) /\ pCurrentTable \in 1..Len(tables) /\ pCurrentTable = Len(tables)
         /\ pCurrentTable = TableIn(file, Len(file))
         /\ CustomaryIn(Append(file, line), pCurrentTable) => TableRight(file, Current, pCurrentTable) /\ IsTable(Current)
<1>1. TablesRight(file, tables, pCurrentTable) /\ NamesRight(file, m_tableMap)
  BY DEF Loaded, ReadLine
<1>2. /\ file \in Seq(Lines) /\ pCurrentTable \in 1..Len(tables) /\ pCurrentTable = Len(tables)
      /\ pCurrentTable = TableIn(file, Len(file))
  BY <1>1 DEF TablesRight
<1>3. ASSUME CustomaryIn(Append(file, line), pCurrentTable) PROVE TableRight(file, Current, pCurrentTable)
  <2>1. CustomaryIn(file, pCurrentTable)
    BY <1>2, <1>3, CustomaryPrefix
  <2>. QED  BY <1>1, <1>2, <2>1 DEF TablesRight, Current
<1>. QED  BY <1>1, <1>2, <1>3 DEF TableRight

\* An accepted line of the current table
LEMMA AcceptedLoaded ==
  ASSUME Loaded, NEW line \in Lines, ReadLine(line), pCurrentTable # 0, line.kind # "[table]", NEW t,
         CustomaryIn(Append(file, line), pCurrentTable) => TableRight(Append(file, line), t, pCurrentTable), Accepted(t),
         NamesRight(Append(file, line), m_tableMap')
  PROVE  Loaded'
<1>1. TablesRight(file, tables, pCurrentTable)
  BY CurrentTable
<1>2. TablesRight(Append(file, line), [tables EXCEPT ![pCurrentTable] = t], pCurrentTable)
  BY <1>1, AcceptedLine
<1>3. file' = Append(file, line) /\ tables' = [tables EXCEPT ![pCurrentTable] = t] /\ pCurrentTable' = pCurrentTable
  BY DEF ReadLine, Accepted
<1>. QED  BY <1>2, <1>3 DEF Loaded

\* Every step keeps them right.
LEMMA LoadedInductive == Loaded /\ [Next]_vars => Loaded'
<1>. SUFFICES ASSUME Loaded, [Next]_vars PROVE Loaded'
  OBVIOUS
<1>1. ASSUME NEW line \in Lines, LoadTable(line) PROVE Loaded'
  <2>1. TablesRight(file, tables, pCurrentTable) /\ NamesRight(file, m_tableMap)
    BY <1>1 DEF Loaded, LoadTable, ReadLine
  <2>2. line.kind = "[table]" /\ file \in Seq(Lines)
    BY <1>1, <2>1 DEF LoadTable, TablesRight
  <2>3. TablesRight(Append(file, line), Append(tables, NewTable), Len(tables) + 1)
    BY <2>1, <2>2, TableLine
  <2>4. NamesRight(Append(file, line), m_tableMap)
    BY <2>1, <2>2, OtherName
  <2>5. /\ file' = Append(file, line) /\ tables' = Append(tables, NewTable) /\ pCurrentTable' = Len(tables) + 1
        /\ m_tableMap' = m_tableMap
    BY <1>1 DEF LoadTable, ReadLine
  <2>. QED  BY <2>3, <2>4, <2>5 DEF Loaded
<1>2. ASSUME NEW line \in Lines, LoadOther(line) PROVE Loaded'
  <2>1. TablesRight(file, tables, pCurrentTable) /\ NamesRight(file, m_tableMap)
    BY <1>2 DEF Loaded, LoadOther, ReadLine
  <2>2. line.kind = "other" \/ (pCurrentTable = 0 /\ line.kind # "[table]")
    BY <1>2 DEF LoadOther
  <2>3. line.kind # "[table]" /\ (pCurrentTable = 0 \/ line.kind \notin {"column", "key"})
    BY <2>2
  <2>4. file \in Seq(Lines) /\ TableIn(file, Len(file)) = pCurrentTable
    BY <2>1 DEF TablesRight
  <2>5. line.kind # "name" \/ (line.kind = "name" /\ TableIn(file, Len(file)) = 0)
    BY <2>2, <2>4
  <2>6. TablesRight(Append(file, line), tables, pCurrentTable)
    BY <2>1, <2>3, SkippedLine
  <2>7. NamesRight(Append(file, line), m_tableMap)
    BY <2>1, <2>4, <2>5, OtherName
  <2>8. /\ file' = Append(file, line) /\ tables' = tables /\ pCurrentTable' = pCurrentTable
        /\ m_tableMap' = m_tableMap
    BY <1>2 DEF LoadOther, ReadLine
  <2>. QED  BY <2>6, <2>7, <2>8 DEF Loaded
<1>3. ASSUME Refused PROVE Loaded'
  BY <1>3 DEF Refused, Loaded
<1>4. ASSUME NEW line \in Lines, LoadName(line) PROVE Loaded'
  <2>1. CASE \E entry \in m_tableMap : entry[1] = line.name
    BY <1>3, <1>4, <2>1 DEF LoadName
  <2>2. CASE ~ \E entry \in m_tableMap : entry[1] = line.name
    <3>. DEFINE t == [Current EXCEPT !.m_name = line.name]
    <3>1. ReadLine(line) /\ pCurrentTable # 0 /\ line.kind = "name"
      BY <1>4 DEF LoadName, IsOf
    <3>2. Accepted(t) /\ m_tableMap' = m_tableMap \cup {<<line.name, pCurrentTable>>}
      BY <1>4, <2>2 DEF LoadName
    <3>3. /\ TablesRight(file, tables, pCurrentTable) /\ NamesRight(file, m_tableMap)
          /\ file \in Seq(Lines) /\ pCurrentTable \in 1..Len(tables) /\ pCurrentTable = Len(tables)
          /\ pCurrentTable = TableIn(file, Len(file))
          /\ CustomaryIn(Append(file, line), pCurrentTable) => IsTable(Current)
      BY <3>1, CurrentTable
    <3>6. ASSUME CustomaryIn(Append(file, line), pCurrentTable)
          PROVE  TableRight(Append(file, line), t, pCurrentTable)
      <4>1. line.kind # "[table]" /\ line.kind \notin {"column", "key"}
        BY <3>1
      <4>2. TableRight(Append(file, line), Current, pCurrentTable)
        BY <3>3, <3>6, <4>1, OtherTables DEF Current
      <4>3. IsTable(t) /\ t.m_columns = Current.m_columns /\ t.m_keys = Current.m_keys /\ t.m_values = Current.m_values
        BY <3>3, <3>6, OtherAttributes
      <4>. HIDE DEF t
      <4>. QED  BY <4>2, <4>3, SameLines
    <3>. HIDE DEF t
    <3>7. NamesRight(Append(file, line), m_tableMap')
      BY <2>2, <3>1, <3>2, <3>3, NewName
    <3>8. line.kind # "[table]"
      BY <3>1
    <3>. QED  BY <3>1, <3>2, <3>6, <3>7, <3>8, AcceptedLoaded
  <2>. QED  BY <2>1, <2>2
<1>5. ASSUME NEW line \in Lines, LoadColumn(line) PROVE Loaded'
  <2>1. CASE line.type \notin KnownTypes
    BY <1>3, <1>5, <2>1 DEF LoadColumn
  <2>2. CASE line.type \in KnownTypes
    <3>. DEFINE t == AddColumn(Current, line.name, line.type)
    <3>1. ReadLine(line) /\ pCurrentTable # 0 /\ line.kind = "column"
      BY <1>5 DEF LoadColumn, IsOf
    <3>2. Accepted(t) /\ m_tableMap' = m_tableMap
      BY <1>5, <2>2 DEF LoadColumn
    <3>3. /\ NamesRight(file, m_tableMap) /\ file \in Seq(Lines) /\ pCurrentTable = TableIn(file, Len(file))
          /\ CustomaryIn(Append(file, line), pCurrentTable) => TableRight(file, Current, pCurrentTable)
      BY <3>1, CurrentTable
    <3>6. ASSUME CustomaryIn(Append(file, line), pCurrentTable)
          PROVE  TableRight(Append(file, line), t, pCurrentTable)
      <4>1. /\ LinesIn(file, pCurrentTable, "key") = {}
            /\ \A i \in LinesIn(file, pCurrentTable, "column") : file[i].name # line.name
        BY <3>1, <3>3, <3>6, CustomaryColumn
      <4>. QED  BY <3>1, <3>3, <3>6, <4>1, ColumnRight
    <3>7. NamesRight(Append(file, line), m_tableMap')
      <4>1. line.kind # "name"
        BY <3>1
      <4>. QED  BY <3>2, <3>3, <4>1, OtherName
    <3>8. line.kind # "[table]"
      BY <3>1
    <3>. HIDE DEF t
    <3>. QED  BY <3>1, <3>2, <3>6, <3>7, <3>8, AcceptedLoaded
  <2>. QED  BY <2>1, <2>2
<1>6. ASSUME NEW line \in Lines, LoadKey(line) PROVE Loaded'
  <2>. DEFINE Missing == (\E i \in DOMAIN line.names : ColumnsNamed(Current, line.names[i]) = {}) \/ ~Current.hasPath
  <2>1. CASE Missing
    BY <1>3, <1>6, <2>1 DEF LoadKey
  <2>2. CASE ~Missing
    <3>. DEFINE t == Evaluate(FoldLeft(AddKeyColumn, Current, line.names))
    <3>1. ReadLine(line) /\ pCurrentTable # 0 /\ line.kind = "key"
      BY <1>6 DEF LoadKey, IsOf
    <3>2. Accepted(t) /\ m_tableMap' = m_tableMap
      BY <1>6, <2>2 DEF LoadKey
    <3>3. /\ NamesRight(file, m_tableMap) /\ file \in Seq(Lines) /\ pCurrentTable = TableIn(file, Len(file))
          /\ CustomaryIn(Append(file, line), pCurrentTable) => TableRight(file, Current, pCurrentTable)
      BY <3>1, CurrentTable
    <3>6. ASSUME CustomaryIn(Append(file, line), pCurrentTable)
          PROVE  TableRight(Append(file, line), t, pCurrentTable)
      <4>1. LinesIn(file, pCurrentTable, "key") = {} /\ IsInjective(line.names)
        BY <3>1, <3>3, <3>6, CustomaryKey
      <4>2. \A j \in DOMAIN line.names : ColumnsNamed(Current, line.names[j]) # {}
        BY <2>2
      <4>. QED  BY <3>1, <3>3, <3>6, <4>1, <4>2, KeyRight
    <3>7. NamesRight(Append(file, line), m_tableMap')
      <4>1. line.kind # "name"
        BY <3>1
      <4>. QED  BY <3>2, <3>3, <4>1, OtherName
    <3>8. line.kind # "[table]"
      BY <3>1
    <3>. HIDE DEF t
    <3>. QED  BY <3>1, <3>2, <3>6, <3>7, <3>8, AcceptedLoaded
  <2>. QED  BY <2>1, <2>2
<1>7. ASSUME NEW line \in Lines, LoadPath(line) PROVE Loaded'
  <2>. DEFINE t == [Current EXCEPT !.hasPath = TRUE]
  <2>1. ReadLine(line) /\ pCurrentTable # 0 /\ line.kind = "path" /\ Accepted(t) /\ m_tableMap' = m_tableMap
    BY <1>7 DEF LoadPath, IsOf
  <2>2. /\ TablesRight(file, tables, pCurrentTable) /\ NamesRight(file, m_tableMap)
        /\ file \in Seq(Lines) /\ pCurrentTable \in 1..Len(tables)
        /\ CustomaryIn(Append(file, line), pCurrentTable) => IsTable(Current)
    BY <2>1, CurrentTable
  <2>3. line.kind # "[table]" /\ line.kind \notin {"column", "key"} /\ line.kind # "name"
    BY <2>1
  <2>6. ASSUME CustomaryIn(Append(file, line), pCurrentTable)
        PROVE  TableRight(Append(file, line), t, pCurrentTable)
    <3>1. TableRight(Append(file, line), Current, pCurrentTable)
      BY <2>2, <2>3, <2>6, OtherTables DEF Current
    <3>2. IsTable(t) /\ t.m_columns = Current.m_columns /\ t.m_keys = Current.m_keys /\ t.m_values = Current.m_values
      BY <2>2, <2>6, OtherAttributes
    <3>. HIDE DEF t
    <3>. QED  BY <3>1, <3>2, SameLines
  <2>. HIDE DEF t
  <2>7. NamesRight(Append(file, line), m_tableMap')
    BY <2>1, <2>2, <2>3, OtherName
  <2>. QED  BY <2>1, <2>3, <2>6, <2>7, AcceptedLoaded
<1>8. ASSUME EndOfFile PROVE Loaded'
  BY <1>8 DEF EndOfFile, Loaded
<1>9. ASSUME UNCHANGED vars PROVE Loaded'
  BY <1>9 DEF vars, Loaded
<1>. QED  BY <1>1, <1>2, <1>4, <1>5, <1>6, <1>7, <1>8, <1>9 DEF Next, Done

\* The tables of the empty file
LEMMA LoadedInit == Init => Loaded
<1>. SUFFICES ASSUME Init PROVE Loaded
  OBVIOUS
<1>1. file = <<>> /\ tables = <<>> /\ pCurrentTable = 0 /\ m_tableMap = {}
  BY DEF Init
<1>2. <<>> \in Seq(Lines) /\ Len(<<>>) = 0 /\ <<>> = [n \in 1..0 |-> <<>>[n]] /\ 1..0 = {}
  OBVIOUS
<1>3. TableIn(<<>>, 0) = 0
  <2>1. {j \in 1..0 : <<>>[j].kind = "[table]"} = {}
    BY <1>2
  <2>2. Cardinality({}) = 0
    BY FS_EmptySet
  <2>. QED  BY <2>1, <2>2 DEF TableIn
<1>4. TablesRight(<<>>, <<>>, 0)
  BY <1>2, <1>3 DEF TablesRight
<1>5. NamesIn(<<>>) = {}
  BY <1>2 DEF NamesIn
<1>6. NamesRight(<<>>, {})
  BY <1>5 DEF NamesRight
<1>. QED  BY <1>1, <1>4, <1>6 DEF Loaded

\* The layout follows.
LEMMA LoadedLayout == Loaded => LayoutRight
<1>. SUFFICES ASSUME Loaded, status = "loaded", NEW n \in DOMAIN tables
              PROVE  LET columns   == tables[n].m_columns
                         lines     == LinesOf(n, "column")
                         number(i) == Cardinality({j \in lines : j <= i})
                     IN  /\ \A i \in LinesOf(n, "name") :
                              {entry \in m_tableMap : entry[1] = file[i].name} = {<<file[i].name, n>>}
                         /\ Customary(n) =>
                              /\ Len(columns) = Cardinality(lines)
                              /\ \A i \in lines : columns[number(i)].name = file[i].name /\ columns[number(i)].type = file[i].type
                              /\ \A k \in LinesOf(n, "key") : PlacesRight(columns, file[k].names)
  BY DEF LayoutRight, PlacesRight
<1>1. TablesRight(file, tables, pCurrentTable) /\ NamesRight(file, m_tableMap)
  BY DEF Loaded
<1>2. /\ n \in 1..Len(tables) /\ n # 0 /\ file \in Seq(Lines)
      /\ CustomaryIn(file, n) => TableRight(file, tables[n], n)
  BY <1>1 DEF TablesRight
<1>3. ASSUME NEW kind PROVE LinesOf(n, kind) = LinesIn(file, n, kind)
  <2>1. DOMAIN file = 1..Len(file)
    BY <1>2
  <2>2. \A i : TableOf(i) = TableIn(file, i)
    BY DEF TableOf, TableIn
  <2>. QED  BY <2>1, <2>2 DEF LinesOf, LinesIn
<1>4. ASSUME NEW i \in LinesOf(n, "name")
      PROVE  {entry \in m_tableMap : entry[1] = file[i].name} = {<<file[i].name, n>>}
  <2>1. i \in NamesIn(file) /\ TableIn(file, i) = n
    BY <1>2, <1>3 DEF LinesIn, NamesIn
  <2>2. /\ m_tableMap = {<<file[j].name, TableIn(file, j)>> : j \in NamesIn(file)}
        /\ \A j \in NamesIn(file) : file[j].name = file[i].name => j = i
    BY <1>1, <2>1 DEF NamesRight
  <2>3. <<file[i].name, n>> \in m_tableMap
    BY <2>1, <2>2
  <2>4. ASSUME NEW entry \in m_tableMap, entry[1] = file[i].name PROVE entry = <<file[i].name, n>>
    <3>1. PICK j \in NamesIn(file) : entry = <<file[j].name, TableIn(file, j)>>
      BY <2>2
    <3>2. entry[1] = file[j].name
      BY <3>1
    <3>3. j = i
      BY <2>2, <2>4, <3>2
    <3>. QED  BY <2>1, <3>1, <3>3
  <2>. QED  BY <2>3, <2>4
<1>5. Customary(n) => CustomaryIn(file, n)
  BY <1>3 DEF Customary, CustomaryIn
<1>. QED  BY <1>2, <1>3, <1>4, <1>5 DEF TableRight, NumberIn

\* When a file of any length, with its lines in any order, has been loaded, its names
\* lead to its tables, and in each section that is customary (different columns, then
\* at most one key) every column has its one place if there is a key, whatever the
\* other sections are like (MetaConfig::load, addColumn, addKeyColumn,
\* TableInfo::evaluate).  Of the columns of other sections nothing is claimed.
THEOREM LayoutTheorem == Spec => []LayoutRight
<1>1. Init => Loaded
  BY LoadedInit
<1>2. Loaded /\ [Next]_vars => Loaded'
  BY LoadedInductive
<1>3. Loaded => LayoutRight
  BY LoadedLayout
<1>. QED  BY <1>1, <1>2, <1>3, PTL DEF Spec
=============================================================================

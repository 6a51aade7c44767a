----------------------------- MODULE MetaConfig ------------------------------
(***************************************************************************)
(* The configuration file (common/MetaConfig, TableInfo of                 *)
(* common/ConfigInfo): load() reads it line by line into tables, before    *)
(* the server starts.  A line is a record with a kind: "[table]", "name",  *)
(* "column" (a name and a type), "key" (a list of names), "path" or        *)
(* "other", for everything that load() only stores, warns about or skips.  *)
(***************************************************************************)
EXTENDS Integers, Sequences, SequencesExt, FiniteSets

CONSTANTS
  Lines,      \* the lines that may be in a file
  MaxLines,   \* the length of a file
  KnownTypes  \* the types that addDataType has made known

ASSUME ConfigAssumption ==
  /\ MaxLines \in Nat
  /\ \A line \in Lines : line.kind = "key" => line.names \in Seq(STRING)

VARIABLES
  file,          \* the lines read so far
  tables,        \* the TableInfo objects in the order of their creation
  pCurrentTable, \* the index of the table being read, 0 for none
  m_tableMap,    \* pairs of a name and the index of its table
  status         \* "loading", "loaded" or "failed"

vars == <<file, tables, pCurrentTable, m_tableMap, status>>

-----------------------------------------------------------------------------
(* TableInfo.  Indexes count from 0 and are -1 when not assigned.           *)

NewTable == [m_name |-> "", m_columns |-> <<>>, m_keys |-> <<>>, m_values |-> <<>>, hasPath |-> FALSE]

AddColumn(t, name, type) ==
  [t EXCEPT !.m_columns = Append(@, [name |-> name, type |-> type, m_iKeyIndex |-> -1, m_iValueIndex |-> -1])]

\* m_columnMap: the column added last under a name
ColumnsNamed(t, name) == {i \in DOMAIN t.m_columns : t.m_columns[i].name = name}

\* Mutant of AddKeyColumn: m_keys is left as it is.
AddKeyColumnUncounted(t, name) ==
  LET i == Max(ColumnsNamed(t, name))
  IN  [t EXCEPT !.m_columns[i].m_iKeyIndex = Len(t.m_keys)]

AddKeyColumn(t, name) ==
  LET i == Max(ColumnsNamed(t, name))
  IN  [t EXCEPT !.m_columns[i].m_iKeyIndex = Len(t.m_keys), !.m_keys = Append(@, i)]

ValueColumns(t) == {i \in DOMAIN t.m_columns : t.m_columns[i].m_iKeyIndex < 0}

\* Columns in the order of the table
InTableOrder(columns) == SetToSortSeq(columns, <)

\* Mutant of Evaluate: the key columns are counted as well.
EvaluateAll(t) ==
  [t EXCEPT !.m_values = @ \o InTableOrder(ValueColumns(t)),
            !.m_columns = [i \in DOMAIN @ |->
               IF @[i].m_iKeyIndex >= 0 THEN @[i] ELSE [@[i] EXCEPT !.m_iValueIndex = i - 1]]]

\* evaluate: the columns that are not in the key get the next value positions.
Evaluate(t) ==
  [t EXCEPT !.m_values = @ \o InTableOrder(ValueColumns(t)),
            !.m_columns = [i \in DOMAIN @ |->
               IF @[i].m_iKeyIndex >= 0 THEN @[i]
               ELSE [@[i] EXCEPT !.m_iValueIndex = Len(t.m_values) + Cardinality({j \in ValueColumns(t) : j < i})]]]

-----------------------------------------------------------------------------

Init ==
  /\ file = <<>> /\ tables = <<>> /\ pCurrentTable = 0 /\ m_tableMap = {}
  /\ status = "loading"

\* The number of the table whose section a line is in, 0 before the first one
TableOf(i) == Cardinality({j \in 1..i : file[j].kind = "[table]"})

\* The lines of one kind in the section of a table
LinesOf(n, kind) == {i \in DOMAIN file : TableOf(i) = n /\ file[i].kind = kind}

\* The next line, whatever it is, unless an exception has ended load()
ReadLine(line) ==
  /\ status = "loading"
  /\ Len(file) < MaxLines
  /\ file' = Append(file, line)

LoadTable(line) ==
  /\ ReadLine(line) /\ line.kind = "[table]"
  /\ tables' = Append(tables, NewTable)
  /\ pCurrentTable' = Len(tables) + 1
  /\ UNCHANGED <<m_tableMap, status>>

\* A line without "=", a comment, a global or an unknown attribute
LoadOther(line) ==
  /\ ReadLine(line)
  /\ line.kind = "other" \/ (pCurrentTable = 0 /\ line.kind # "[table]")
  /\ UNCHANGED <<tables, pCurrentTable, m_tableMap, status>>

Current == tables[pCurrentTable]

IsOf(line, kind) == ReadLine(line) /\ pCurrentTable # 0 /\ line.kind = kind

\* The line is accepted, and the current table is changed to t.
Accepted(t) ==
  /\ tables' = [tables EXCEPT ![pCurrentTable] = t]
  /\ UNCHANGED <<pCurrentTable, status>>

\* CONFIG_ERROR; main() ends.
Refused == status' = "failed" /\ UNCHANGED <<tables, pCurrentTable, m_tableMap>>

\* setName and addTable
LoadName(line) ==
  /\ IsOf(line, "name")
  /\ IF \E entry \in m_tableMap : entry[1] = line.name
     THEN Refused
     ELSE /\ Accepted([Current EXCEPT !.m_name = line.name])
          /\ m_tableMap' = m_tableMap \cup {<<line.name, pCurrentTable>>}

LoadColumn(line) ==
  /\ IsOf(line, "column")
  /\ IF line.type \notin KnownTypes
     THEN Refused
     ELSE Accepted(AddColumn(Current, line.name, line.type)) /\ UNCHANGED m_tableMap

\* Every name of the list, then evaluate(), which asks for the path
LoadKey(line) ==
  /\ IsOf(line, "key")
  /\ IF (\E i \in DOMAIN line.names : ColumnsNamed(Current, line.names[i]) = {}) \/ ~Current.hasPath
     THEN Refused
     ELSE Accepted(Evaluate(FoldLeft(AddKeyColumn, Current, line.names))) /\ UNCHANGED m_tableMap

LoadPath(line) ==
  /\ IsOf(line, "path")
  /\ Accepted([Current EXCEPT !.hasPath = TRUE]) /\ UNCHANGED m_tableMap

EndOfFile ==
  /\ status = "loading"
  /\ status' = "loaded"
  /\ UNCHANGED <<file, tables, pCurrentTable, m_tableMap>>

\* The server runs with what has been loaded, or does not start.
Done == status # "loading" /\ UNCHANGED vars

Next ==
  \/ \E line \in Lines :
       LoadTable(line) \/ LoadOther(line) \/ LoadName(line) \/ LoadColumn(line) \/ LoadKey(line) \/ LoadPath(line)
  \/ EndOfFile
  \/ Done

Spec == Init /\ [][Next]_vars

-----------------------------------------------------------------------------

\* The section of a table has columns with different names and at most one key,
\* without repetition and behind the columns.  Nothing in load() asks for it: a
\* column behind the key gets no place, and a second key assigns places again.
Customary(n) ==
  /\ \A i, j \in LinesOf(n, "column") : file[i].name = file[j].name => i = j
  /\ \A k \in LinesOf(n, "key") :
       /\ LinesOf(n, "key") = {k} /\ IsInjective(file[k].names)
       /\ \A i \in LinesOf(n, "column") : i < k

\* When a file has been loaded, a name leads to the columns of its own section.
\* If the section is customary and has a key, each column has one place, which
\* every plan relies on (LevelDBInsertPlan.cpp: "assert(pColumn->m_iValueIndex
\* >= 0)"): the i-th name of the key is key position i, and the other columns
\* share the value positions among them.  That holds for it whatever the other
\* sections of the file are like.
LayoutRight ==
  status = "loaded" => \A n \in DOMAIN tables :
    LET columns   == tables[n].m_columns
        lines     == LinesOf(n, "column")
        number(i) == Cardinality({j \in lines : j <= i})
    IN  /\ \A i \in LinesOf(n, "name") : {entry \in m_tableMap : entry[1] = file[i].name} = {<<file[i].name, n>>}
        /\ Customary(n) =>
             /\ Len(columns) = Cardinality(lines)
             /\ \A i \in lines : columns[number(i)].name = file[i].name /\ columns[number(i)].type = file[i].type
             /\ \A k \in LinesOf(n, "key") :
                  LET names  == file[k].names
                      values == {c \in DOMAIN columns : columns[c].name \notin Range(names)}
                  IN  /\ \A j \in DOMAIN names, c \in DOMAIN columns : columns[c].name = names[j] =>
                           columns[c].m_iKeyIndex = j - 1 /\ columns[c].m_iValueIndex = -1
                      /\ {columns[c].m_iValueIndex : c \in values} = 0..(Cardinality(values) - 1)

\* In whatever order the lines come, no two columns of a table have the same
\* place in its keys or in its values, and only a table with a path has places
\* (TableInfo::addKeyColumn, evaluate).
PlacesDiffer ==
  status = "loaded" => \A n \in DOMAIN tables :
    LET columns == tables[n].m_columns
        place   == [c \in DOMAIN columns |-> <<columns[c].m_iKeyIndex,
                      IF columns[c].m_iKeyIndex >= 0 THEN -1 ELSE columns[c].m_iValueIndex>>]
    IN  \A c, d \in DOMAIN columns :
          place[c] # <<-1, -1>> => (place[c] = place[d] => c = d) /\ tables[n].hasPath
=============================================================================

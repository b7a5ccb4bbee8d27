------------------------------ MODULE Exports ------------------------------
(***************************************************************************)
(* The export pipeline: rows of one or several sources are loaded within a *)
(* window of dates, joined, filtered, grouped, sorted, cut and projected.  *)
(* What a cell shows, and the layout of the page, are left out.            *)
(***************************************************************************)
EXTENDS Integers, FiniteSets, SequencesExt, Functions, Lists

CONSTANTS
  Sources,  \* the data sources
  Dated,    \* those with a row per date: DATE_SOURCES
  Names,    \* the names the form gives to totals
  Rows,     \* the rows a source may have: [employee, date, cell]
  Blank,    \* an empty cell; NoDate in a row of no date is Blank too
  Reports,  \* the reports: [multi, columns, from, to, filters,
            \* groups, totals, sorts, limit], a column being <<source, field>>
  MostRows, \* bound on the rows of a source
  MostData  \* and of all of them

VARIABLES data, report

reportVars == <<data, report>>

Fields == {"employee", "date", "cell"}
Columns == Sources \X Fields
Aggregates == {"count", "count_distinct", "first", "min", "max", "sum"}
CellValue == Int \cup {Blank}

\* A total is written under its output_key, else under its label or its column.
\* Nothing keeps two totals, or a total and a group, from having the same name.
ReportOK(r) ==
  /\ r.columns \in Seq(Columns) /\ r.columns # <<>>
  /\ r.groups \in Seq(Columns)
  /\ r.totals \in Seq([func : Aggregates, column : Columns, key : Columns \cup Names])
  /\ r.sorts \in Seq([column : Columns \cup Names, desc : BOOLEAN])

ASSUME ExportAssumption ==
  /\ Blank \notin Int
  /\ Rows \subseteq [employee : Int, date : CellValue, cell : CellValue]
  /\ \A r \in Reports : ReportOK(r)

ExportTypeOK ==
  /\ data \in [Sources -> Seq(Rows)]
  /\ report \in Reports

-----------------------------------------------------------------------------
(* Loading: _apply_date_range and _load_multi_rows.                        *)

Within(row, source) ==
  IF row.date = Blank THEN source \notin Dated
  ELSE report.from <= row.date /\ row.date <= report.to

Loaded(source) == Kept(data[source], {i \in DOMAIN data[source] : Within(data[source][i], source)})

\* The sources of the columns, as the columns first name them.
Used ==
  LET named == [k \in DOMAIN report.columns |-> report.columns[k][1]]
  IN Kept(named, {k \in DOMAIN named : \A l \in 1 .. k - 1 : named[l] # named[k]})

Longest(keys) ==
  keys[Min({i \in DOMAIN keys : \A j \in DOMAIN keys : Len(Loaded(keys[j])) <= Len(Loaded(keys[i]))})]

Primary ==
  LET dated == Kept(Used, {i \in DOMAIN Used : Used[i] \in Dated})
  IN IF dated # <<>> THEN Longest(dated)
     ELSE IF "employees" \in Range(Used) THEN "employees"
     ELSE Longest(Used)

Secondaries == Kept(Used, {i \in DOMAIN Used : Used[i] # Primary})

\* Same employee, and the same day if both have one.
Fits(row, source, other) ==
  row.employee = other.employee /\ (source \in Dated /\ Primary \in Dated => row.date = other.date)

Matches(source, main) ==
  LET rows == Loaded(source) IN Kept(rows, {i \in DOMAIN rows : Fits(rows[i], source, main)})

\* A report of one source sees its whole rows, one of several the columns it selects.
Seen == IF report.multi THEN Range(report.columns) ELSE {<<Used[1], f>> : f \in Fields}
Of(parts) == [c \in Seen |-> IF parts[c[1]] = <<>> THEN Blank ELSE Head(parts[c[1]])[c[2]]]

\* A slip: only the first of several rows is looked at.
FannedNever(main) == <<Of([s \in Range(Used) |-> IF s = Primary THEN <<main>> ELSE Matches(s, main)])>>

\* At most one secondary source gives several rows to a row of the primary.
Fanned(main) ==
  LET several == {i \in DOMAIN Secondaries : Len(Matches(Secondaries[i], main)) > 1}
      parts == [s \in Range(Used) |-> IF s = Primary THEN <<main>> ELSE Matches(s, main)]
  IN IF several = {} THEN <<Of(parts)>>
     ELSE LET fan == Secondaries[Min(several)]
          IN [k \in DOMAIN Matches(fan, main) |-> Of([parts EXCEPT ![fan] = <<Matches(fan, main)[k]>>])]

Merged == FlattenSeq([i \in DOMAIN Loaded(Primary) |-> Fanned(Loaded(Primary)[i])])

-----------------------------------------------------------------------------
(* Filters, groups, sorting, the limit and the projection.                 *)

\* A field that was not selected is as good as blank.
Cell(row, column) == IF column \in DOMAIN row THEN row[column] ELSE Blank

\* match_filter: blanks compare as the empty text, which is before all else.
Passes(cell, op, value) ==
  CASE op = "eq" -> cell = value
    [] op = "neq" -> cell # value
    [] op = "is_empty" -> cell = Blank
    [] op = "gt" -> cell # Blank /\ cell > value
    [] op = "lt" -> cell = Blank \/ cell < value

Lets(row) ==
  \A i \in DOMAIN report.filters : LET f == report.filters[i] IN Passes(Cell(row, f.column), f.op, f.value)

Passed(rows) == Kept(rows, {i \in DOMAIN rows : Lets(rows[i])})

Filtered == Passed(Merged)

Key(row) == [i \in DOMAIN report.groups |-> Cell(row, report.groups[i])]

Numbers(rows, column) ==
  LET cells == [i \in DOMAIN rows |-> Cell(rows[i], column)] IN Kept(cells, {i \in DOMAIN cells : cells[i] # Blank})

Aggregate(rows, total) ==
  LET numbers == Numbers(rows, total.column)
  IN CASE total.func = "count" -> Len(rows)
       [] total.func = "count_distinct" -> Cardinality(Range(numbers))
       [] total.func = "first" -> (IF numbers = <<>> THEN Blank ELSE Head(numbers))
       [] total.func = "min" -> (IF numbers = <<>> THEN Blank ELSE Min(Range(numbers)))
       [] total.func = "max" -> (IF numbers = <<>> THEN Blank ELSE Max(Range(numbers)))
       [] OTHER -> SumFunction(numbers)

\* In the order in which they are first met.
GroupKeys(rows) ==
  LET first == Kept(rows, {i \in DOMAIN rows : \A j \in 1 .. i - 1 : Key(rows[j]) # Key(rows[i])})
  IN [k \in DOMAIN first |-> Key(first[k])]

\* A total is written over the group, or the total before it, that has its name.
GroupOf(key, rows) ==
  LET members == Kept(rows, {i \in DOMAIN rows : Key(rows[i]) = key})
      named(c) == {i \in DOMAIN report.totals : report.totals[i].key = c}
  IN [c \in {t.key : t \in Range(report.totals)} \cup Range(report.groups) |->
        IF named(c) # {} THEN Aggregate(members, report.totals[Max(named(c))])
        ELSE key[CHOOSE i \in DOMAIN report.groups : report.groups[i] = c]]

Grouped(rows) ==
  LET keys == GroupKeys(rows)
  IN IF report.groups = <<>> THEN rows ELSE [k \in DOMAIN keys |-> GroupOf(keys[k], rows)]

\* Blanks are behind everything, and in front when the order is turned round.
Before(a, b) == a # Blank /\ (b = Blank \/ a < b)
Precedes(sort, r, s) ==
  LET a == Cell(r, sort.column) b == Cell(s, sort.column) IN IF sort.desc THEN Before(b, a) ELSE Before(a, b)

\* Python's sort keeps the order of what is alike.
StablySorted(rows, sort) ==
  LET places == DOMAIN rows
      order == {ij \in places \X places : \/ Precedes(sort, rows[ij[1]], rows[ij[2]])
                                          \/ ij[1] < ij[2] /\ ~Precedes(sort, rows[ij[2]], rows[ij[1]])}
      inOrder == InOrder(places, order)
  IN [k \in places |-> rows[inOrder[k]]]

\* By the last key first.
Sorted(rows) ==
  LET n == Len(report.sorts)
      sorted[k \in 0 .. n] == IF k = 0 THEN rows ELSE StablySorted(sorted[k - 1], report.sorts[n - k + 1])
  IN sorted[n]

Limited(rows) == IF report.limit = 0 THEN rows ELSE SubSeq(rows, 1, Min({report.limit, Len(rows)}))

Output ==
  IF report.groups = <<>> THEN report.columns
  ELSE report.groups \o [i \in DOMAIN report.totals |-> report.totals[i].key]

Projected(rows) == [i \in DOMAIN rows |-> [k \in DOMAIN Output |-> Cell(rows[i], Output[k])]]

RunExport == Projected(Limited(Sorted(Grouped(Filtered))))

-----------------------------------------------------------------------------
ExportInit ==
  /\ data = [s \in Sources |-> <<>>]
  /\ report \in Reports

TotalRows == SumFunction([s \in Sources |-> Len(data[s])])

Record(source, row) ==
  /\ Len(data[source]) < MostRows /\ TotalRows < MostData
  /\ data' = [data EXCEPT ![source] = Append(@, row)]
  /\ UNCHANGED report

ExportNext == \E s \in Sources, row \in Rows : Record(s, row)

ExportSpec == ExportInit /\ [][ExportNext]_reportVars

-----------------------------------------------------------------------------
(* "multiple same-day records ... are not silently dropped": a joined      *)
(* report shows each row of its primary source, and one of two sources     *)
(* each row of the other that fits one of them.                            *)
JoiningDropsNothing ==
  \A main \in Range(Loaded(Primary)), s \in Range(Secondaries) : Len(Secondaries) = 1 =>
    \A other \in Range(Matches(s, main)) : \E row \in Range(Merged) :
      \A c \in Seen : row[c] = IF c[1] = s THEN other[c[2]] ELSE main[c[2]]

(* Each row is counted in one group: there is a group for each combination *)
(* of what the rows have in the columns of the groups, no two look alike   *)
(* unless a total took the name of such a column, and the counts and sums  *)
(* of the groups add up to those of the rows the filters let through. A    *)
(* total whose name a later one has too is lost: nothing is said of it.    *)
Lost(n) == \E l \in DOMAIN report.totals : l > n /\ report.totals[l].key = report.totals[n].key

TheyAddUp(groups, rows) ==
  report.groups # <<>> =>
    /\ Len(groups) = Cardinality({Key(rows[i]) : i \in DOMAIN rows})
    /\ (\A t \in Range(report.totals) : t.key \notin Range(report.groups)) =>
         \A i, j \in DOMAIN groups : Key(groups[i]) = Key(groups[j]) => i = j
    /\ \A n \in DOMAIN report.totals :
         LET t == report.totals[n]
         IN t.func \in {"count", "sum"} /\ ~Lost(n) =>
              SumFunction([k \in DOMAIN groups |-> groups[k][t.key]]) = Aggregate(rows, t)

GroupsAddUp == TheyAddUp(Grouped(Filtered), Filtered)

(* "By department, then by name within it": the rows come in the order of  *)
(* the first key that tells them apart, and as they were if none does.     *)
Told(r, q) ==
  \E k \in DOMAIN report.sorts : /\ Precedes(report.sorts[k], r, q)
                                 /\ \A l \in 1 .. k - 1 : ~Precedes(report.sorts[l], q, r)

SortedByKeys(rows) ==
  LET places == DOMAIN rows
      inOrder == InOrder(places, {ij \in places \X places : \/ Told(rows[ij[1]], rows[ij[2]])
                                                            \/ ij[1] < ij[2] /\ ~Told(rows[ij[2]], rows[ij[1]])})
  IN Sorted(rows) = [k \in places |-> rows[inOrder[k]]]

SortedByEveryKey == SortedByKeys(Grouped(Filtered))

(* A report has every row that belongs in it, once, in order: at first and *)
(* after everything that is recorded.                                      *)
ReportIsWhole == ExportTypeOK /\ JoiningDropsNothing /\ GroupsAddUp /\ SortedByEveryKey

ReportsAreWhole == ReportIsWhole /\ [](TotalRows > 0 => ReportIsWhole)
=============================================================================

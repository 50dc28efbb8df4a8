------------------------------ MODULE Reports ------------------------------
(***************************************************************************)
(* src/openstack-usage/reports.py beside the collectors and the            *)
(* administrator of module Usage: two pages about the days From to To - 1, *)
(* one by day and one by hours of the day.  Each page is put together from *)
(* several queries, each with a connection of its own, so that the table   *)
(* may change between two of them.                                         *)
(***************************************************************************)
EXTENDS Usage

CONSTANTS
  From, To,          \* start_date and end_date
  Hidden,            \* admin, services, CCI-Monitor-...
  RecordHosts, RecordProjects

ASSUME ReportsAssumption == From \in Nat /\ To \in Nat /\ Hidden \subseteq Project

VARIABLES
  page,      \* the page in work: "daily", "hourly", "none"; or "failed"
  answers,   \* what its queries have given so far
  written,   \* the answers that the pages written were made of
  moved,     \* History: rows have come or gone since the first query of the page
  steady     \* in work; pages written without that

pages == <<page, answers, written>>
reportVars == <<vars, pages, moved, steady>>

Day(x) == date[x[2]] \div 48
Hour(x) == (date[x[2]] % 48) \div 2
HostOf(x) == Host[x[2]]

MutSelect(w) == {x \in db.rows : /\ From <= Day(x) /\ Day(x) < To
                                 /\ w[1] < Hour(x)}

\* _aggregate_data: the hours strictly between two hours.  Rows are all active.
Select(w) == {x \in db.rows : /\ From <= Day(x) /\ Day(x) < To
                              /\ w[1] < Hour(x) /\ Hour(x) < w[2]}

AllDay == <<-1, 24>>

\* The queries of a page: days, totals, and the cells.
Queries(p) ==
  IF p = "daily" THEN <<AllDay, AllDay, <<0, 24>>>>
                 ELSE <<AllDay, AllDay, <<9, 14>>, <<14, 18>>, <<18, 21>>>>

ReportsInit ==
  /\ Init
  /\ page = IF "report" \in tools THEN "daily" ELSE "none"
  /\ answers = <<>>
  /\ written = [p \in {"daily", "hourly"} |-> <<>>]
  /\ moved = FALSE /\ steady = {}

Query ==
  /\ page \in DOMAIN written
  /\ Len(answers) < Len(Queries(page))
  /\ db.there
  /\ answers' = Append(answers, Select(Queries(page)[Len(answers) + 1]))
  /\ moved' = (moved /\ answers # <<>>)
  /\ UNCHANGED <<vars, page, written, steady>>

\* no such table
QueryFails ==
  /\ page \in DOMAIN written
  /\ Len(answers) < Len(Queries(page))
  /\ ~ db.there
  /\ page' = "failed"
  /\ UNCHANGED <<vars, answers, written, moved, steady>>

Days(R) == {Day(x) : x \in R}

\* Lines of a page: a project of a host.
Line(x) == <<x[1], HostOf(x)>>
Shown(p, l) ==
  IF p = "daily" THEN l[1] \notin Hidden
                 ELSE l[2] \in RecordHosts /\ l[1] \in RecordProjects
Lines(p, a) == {l \in {Line(x) : x \in a[2]} : Shown(p, l)}
Of(l, R) == {x \in R : Line(x) = l}

\* x_dates[0] of no date; details.get(host) of a host without a row in a window,
\* which the daily page takes for a reason to go on with the next line.
Fails(p, a) ==
  \/ a[1] = {}
  \/ p = "hourly" /\ \E l \in Lines(p, a), k \in 3 .. 5 : l[2] \notin {HostOf(x) : x \in a[k]}

WritePage ==
  /\ page \in DOMAIN written
  /\ Len(answers) = Len(Queries(page))
  /\ IF Fails(page, answers)
       THEN page' = "failed" /\ UNCHANGED <<answers, written, steady>>
       ELSE /\ written' = [written EXCEPT ![page] = answers]
            /\ page' = IF page = "daily" THEN "hourly" ELSE "none"
            /\ answers' = <<>>
            /\ steady' = IF moved THEN steady ELSE steady \cup {page}
  /\ UNCHANGED <<vars, moved>>

\* The rows of one cell.
Cell(a, k, l, d) == {x \in Of(l, a[k]) : Day(x) = d}

\* What the columns are headed: a day; "Morning9:00-14:00", "Afternoon14:00-18:00",
\* "Evening 18:00-21:00".  The rows of R that belong under the heading of query k.
Headings(p) == IF p = "daily" THEN <<0, 24>> ELSE <<9, 14, 18, 21>>
Headed(p, k, R) == {x \in R : Headings(p)[k - 2] <= Hour(x) /\ Hour(x) < Headings(p)[k - 1]}

\* usage_rate, as the numbers of samples with connections and with instances.
Valid(R, what) == Cardinality({x \in R : result[x[2]][x[1]][what]})
Rate(R) == <<Valid(R, "connection"), Max({Valid(R, "instance"), 1})>>

-----------------------------------------------------------------------------
Report == Query \/ QueryFails \/ WritePage

Beside ==
  /\ Collect
  /\ moved' = (moved \/ (answers # <<>> /\ db'.rows # db.rows))
  /\ UNCHANGED <<pages, steady>>

Ended == (\A r \in DOMAIN date : ~ Live(r) \/ Hangs(r)) /\ UNCHANGED reportVars

Next == Beside \/ Report \/ Ended

Fairness == \A r \in Run : WF_vars(Parent(r))

Spec == ReportsInit /\ [][Next]_reportVars /\ Fairness

-----------------------------------------------------------------------------
(* Properties *)

\* reports.py:171-223: of a page that was written while the table did not change, a
\* column has only samples of the hours that its heading names, so that no sample is
\* in two columns, and has all of them past the first hour, each in the cell of its
\* day: those samples of the total are not lost.
CellsAddUp == \A p \in steady : LET a == written[p] IN
  \A l \in Lines(p, a), k \in 3 .. Len(a) :
    LET shown == UNION {Cell(a, k, l, d) : d \in Days(a[1])} IN
    /\ Of(l, a[k]) = shown /\ shown \subseteq Headed(p, k, Of(l, a[2]))
    /\ \A x \in Headed(p, k, Of(l, a[2])) : Hour(x) # Headings(p)[k - 2] => x \in shown

\* reports.py:115-117, nova_compute.py:143-160: no rate is above 100%, unless
\* nova list has failed.
RatesBounded == \A p \in DOMAIN written : LET a == written[p] IN
  a # <<>> /\ "nova" \notin tools => \A l \in Lines(p, a) :
    LET rates == {Rate(Of(l, a[2]))} \cup
                   {Rate(Cell(a, k, l, d)) : k \in 3 .. Len(a), d \in Days(a[1])}
    IN  \A rate \in rates : rate[1] <= rate[2]

\* reports.py:100-228: what is on the pages is right in both ways.
PagesTrue == CellsAddUp /\ RatesBounded

\* reports.py:122-124, 183, 200, 214: of such a page, a column is made of just the
\* samples of the total that are of the hours its heading names.
PagesAsHeaded == \A p \in steady : LET a == written[p] IN
  \A l \in Lines(p, a), k \in 3 .. Len(a) : Of(l, a[k]) = Headed(p, k, Of(l, a[2]))
=============================================================================

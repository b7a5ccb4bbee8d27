----------------------------- MODULE MCOffice -----------------------------
(***************************************************************************)
(* Accounts, reports and jobs: the sessions of an account, its password    *)
(* and second factor, who may do what behind which door, the reports and   *)
(* the formulas of their columns, and the jobs that send what is scheduled. *)
(* They share no variable, so a behaviour is about one of them, `subject`, *)
(* and the others stay as they began.                                      *)
(***************************************************************************)
EXTENDS Sessions, Credentials, Staff, Exports, Formulas, BackgroundJobs

(* The boxes of the matrix that are ticked and cleared; nobody heads a     *)
(* unit.                                                                   *)
MCBoxes ==
  {<<"tenant_admin", "schedules">>, <<"tenant_admin", "finances">>, <<"hr", "finances">>,
   <<"employee", "schedules">>}
MCTeam == [p \in Staff |-> {}]

Entry(employee, date, cell) == [employee |-> employee, date |-> date, cell |-> cell]
MCRows ==
  {Entry(1, 1, 1), Entry(1, 1, 2), Entry(2, 1, 1), Entry(2, 2, Blank), Entry(1, Blank, 1),
   Entry(1, 3, 1)}

Who(s) == <<s, "employee">>
On(s) == <<s, "date">>
Much(s) == <<s, "cell">>
Only(column, op, value) == [column |-> column, op |-> op, value |-> value]
Named(name) == <<"totals", name>>
MCNames == {Named("agg_0"), Named("agg_1")}
Total(func, column, key) == [func |-> func, column |-> column, key |-> key]
By(column, desc) == [column |-> column, desc |-> desc]
Report(multi, columns, filters, groups, totals, sorts) ==
  [multi |-> multi, columns |-> columns, from |-> 1, to |-> 2, filters |-> filters,
   groups |-> groups, totals |-> totals, sorts |-> sorts, limit |-> 2]

(* A joined list; one source in groups, with two figures of one name, as   *)
(* when one was removed before the last was added; and a joined report in  *)
(* groups, with a figure of the name of the group's column.                *)
MCReports ==
  {Report(TRUE, <<Who("shifts"), On("shifts"), Much("overtime")>>,
          <<Only(Much("overtime"), "neq", 1)>>, <<>>, <<>>,
          <<By(On("shifts"), TRUE), By(Much("overtime"), FALSE)>>),
   Report(FALSE, <<Who("overtime")>>, <<Only(Much("overtime"), "lt", 2)>>,
          <<Who("overtime"), On("overtime")>>,
          <<Total("sum", Much("overtime"), Named("agg_0")), Total("count", Who("overtime"), Named("agg_1")),
            Total("max", Much("overtime"), Named("agg_1"))>>,
          <<By(Named("agg_0"), TRUE), By(Who("overtime"), FALSE)>>),
   Report(TRUE, <<Much("employees"), Much("overtime"), Who("shifts")>>,
          <<Only(Who("shifts"), "gt", 0)>>, <<Much("employees")>>,
          <<Total("first", Much("overtime"), Named("agg_0")),
            Total("count_distinct", Who("shifts"), Named("agg_1")),
            Total("count", Who("shifts"), Much("employees"))>>,
          <<By(Much("employees"), FALSE)>>)}

MCWorth ==
  [x |-> [is |-> "number", of |-> 2], late |-> [is |-> "text", of |-> <<"late">>]]

VARIABLE subject

OfficeInit ==
  /\ subject \in {"sessions", "credentials", "staff", "reports", "formulas", "jobs"}
  /\ SessionInit /\ CredentialInit /\ StaffInit /\ ExportInit /\ FormulaInit
  /\ JobInit
  /\ subject # "credentials" => links = <<>>
  /\ subject # "reports" => report = CHOOSE r \in Reports : TRUE

accountVars == <<sessionVars, credentialVars, staffVars>>
reportingVars == <<reportVars, formula, jobVars>>

OfficeNext ==
  /\ UNCHANGED subject
  /\ \/ subject = "sessions" /\ SessionNext
        /\ UNCHANGED <<credentialVars, staffVars, reportingVars>>
     \/ subject = "credentials" /\ CredentialNext
        /\ UNCHANGED <<sessionVars, staffVars, reportingVars>>
     \/ subject = "staff" /\ StaffNext
        /\ UNCHANGED <<sessionVars, credentialVars, reportingVars>>
     \/ subject = "reports" /\ ExportNext /\ UNCHANGED <<accountVars, formula, jobVars>>
     \/ subject = "formulas" /\ FormulaNext /\ UNCHANGED <<accountVars, reportVars, jobVars>>
     \/ subject = "jobs" /\ JobNext /\ UNCHANGED <<accountVars, reportVars, formula>>

OfficeSpec == OfficeInit /\ [][OfficeNext]_<<accountVars, reportingVars, subject>>

(* The server processes are alike.                                         *)
Alike == Permutations(JobWorkers)

-----------------------------------------------------------------------------
(* The parser reads every formula as it is meant, and whatever parses has  *)
(* a value on every row.                                                   *)
FormulasAreRead ==
  subject = "formulas" => FormulaTypeOK /\ FormulasMeanWhatTheySay /\ FormulasHaveValues
=============================================================================

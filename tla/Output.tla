------------------------------- MODULE Output -------------------------------
(***************************************************************************)
(* internal/output: what each format shows of the reports.  A document is a  *)
(* sequence of rows, one per report; a row holds the data the format prints  *)
(* and leaves out what it drops (widths, colours, escaping and indentation   *)
(* are not modelled).                                                       *)
(***************************************************************************)
EXTENDS Scan

\* Fault: the cells of two columns in the other order than their headers.
valuesSwapped(r) == [k \in CheckKey |-> r.checks[CASE k = "pie" -> "pic" [] k = "pic" -> "pie"
                                                    [] OTHER -> k].value]

\* Values and statuses of the columns, in CheckOrder.
valuesOf(r) == [k \in CheckKey |-> r.checks[k].value]

statusesOf(r) == [k \in CheckKey |-> r.checks[k].status]

\* Table: one cell per check; an error report is a single cell spanning the
\* row.  The Name column is there for several reports only.
tableRow(r, several) ==
    LET name == IF several THEN r.name ELSE ""
    IN  IF r.error # "" THEN [name |-> name, error |-> r.error]
                        ELSE [name |-> name, values |-> valuesOf(r)]

\* CSV and XML have no place for Error.
csvRow(r) == [name |-> r.name, values |-> valuesOf(r)]
xmlRow(r) == [name |-> r.name, values |-> valuesOf(r), statuses |-> statusesOf(r)]

verdictsOf(r) == [id \in RuleId |-> ruleVerdict(id, r.checks)]

counted(r, status) == Cardinality({id \in RuleId : verdictsOf(r)[id] = status})

\* Compliance: PASS, FAIL or n/a under each rule, and of the three counts the one
\* the exit code is about; an error report is its message.
complianceRow(r) ==
    IF r.error # "" THEN [name |-> r.name, error |-> r.error]
    ELSE [name |-> r.name, verdicts |-> verdictsOf(r), fail |-> counted(r, "bad")]

\* The summaries as they are; ComplianceSummary has no Error.
complianceJSONRow(r) ==
    [name |-> r.name, verdicts |-> verdictsOf(r), fail |-> counted(r, "bad")]

printedRow(fmt, r, several) ==
    CASE fmt = "table"           -> tableRow(r, several)
      [] fmt = "json"            -> r
      [] fmt = "csv"             -> csvRow(r)
      [] fmt = "xml"             -> xmlRow(r)
      [] fmt = "compliance"      -> complianceRow(r)
      [] fmt = "compliance-json" -> complianceJSONRow(r)

printed(fmt, rs) == [i \in DOMAIN rs |-> printedRow(fmt, rs[i], Len(rs) > 1)]

-----------------------------------------------------------------------------
(***************************************************************************)
(* What a reader with nothing but the document concludes about one target.   *)
(***************************************************************************)
\* README.md:84-86, by the strings of the columns.
badCell == [relro |-> "No RELRO", nx |-> "NX disabled", pie |-> "PIE disabled",
            pic |-> "Text relocations (not PIC)", bind_now |-> "Lazy binding",
            rpath |-> "RPATH (prohibited)"]

coveredCell == {"Canary found", "Retguard enabled", "PAC CFI enabled"}
                   \cup {CoveredBy(k) : k \in StackKey}

failsByValues(values) ==
    \/ \E k \in DOMAIN badCell : values[k] \in {badCell[k], Err.value}
    \/ \A k \in StackKey : values[k] \notin coveredCell

failsByStatuses(statuses) ==
    \/ \E k \in DOMAIN badCell : statuses[k] = "bad"
    \/ \A k \in StackKey : statuses[k] # "good"

rowFails(fmt, row) ==
    CASE fmt = "table"      -> "error" \in DOMAIN row \/ failsByValues(row.values)
      [] fmt = "json"       -> row.error # "" \/ failsByStatuses(statusesOf(row))
      [] fmt = "csv"        -> failsByValues(row.values)
      [] fmt = "xml"        -> failsByStatuses(row.statuses)
      [] fmt = "compliance" -> "error" \in DOMAIN row \/ row.fail > 0
      [] fmt = "compliance-json" -> row.fail > 0

(***************************************************************************)
(* Whatever the format, row i of the document alone says whether target i is *)
(* one that makes the exit code 2: CSV, XML and the compliance summaries     *)
(* drop the error of a report, the table drops every status, and still the   *)
(* gates (hasFailures, Compliance) and the reader agree.                     *)
(***************************************************************************)
PrintedVerdict ==
    phase = "gate" =>
        \A fmt \in Format : \A i \in DOMAIN reports :
            rowFails(fmt, printed(fmt, reports)[i]) <=> gateFails(fmt, <<reports[i]>>)
=============================================================================

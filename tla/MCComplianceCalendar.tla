----------------------- MODULE MCComplianceCalendar -------------------------
(* A small instance of ComplianceCalendar.                                    *)
EXTENDS ComplianceCalendar

Plain == [form |-> "ab", vat |-> "none", large |-> FALSE, eu |-> FALSE, list |-> "none", employer |-> FALSE,
          ftax |-> FALSE, fyMonth |-> 6, fyDay |-> 30,
          kinds |-> {"vat", "ec_sales_list", "employer", "f_tax", "income_tax", "agm", "annual_report"}]

MCProfiles == {
    Plain,
    [Plain EXCEPT !.vat = "month", !.large = TRUE, !.kinds = {"vat"}],
    [Plain EXCEPT !.form = "ef", !.vat = "year", !.fyMonth = 12, !.fyDay = 31, !.eu = TRUE, !.list = "quarter"],
    [Plain EXCEPT !.form = "hb", !.vat = "year", !.fyMonth = 2, !.fyDay = 29]}

MCRules == {
    [id |-> 1, type |-> "fixed", month |-> 12, day |-> 31, mode |-> "next"],
    [id |-> 2, type |-> "relative", amount |-> 6, unit |-> "weeks", direction |-> "before", mode |-> "previous"]}

MCAnchorDates == {Day(2027, 1, 31), Day(2027, 5, 8)}
\* The days around New Year.
MCEditedDays == Day(2026, 12, 24)..Day(2027, 1, 16)
=============================================================================

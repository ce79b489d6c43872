--------------------------- MODULE DeadlineRules ----------------------------
(***************************************************************************)
(* The statutory dates of l10n_se_compliance_calendar/rules.py, for every  *)
(* company profile and year.  A day is its number, as date.toordinal()     *)
(* counts it: day 1 is 1 January of year 1, a Monday.  A key of the source *)
(* such as vat:2026-11 is the tuple <<"vat", 2026, 11>>.                   *)
(*                                                                         *)
(* A profile has the fields form, vat, large (a VAT base over 40 million), *)
(* eu, list (EC sales list), employer, ftax, fyMonth, fyDay and kinds.     *)
(***************************************************************************)
EXTENDS Integers, FiniteSets

-----------------------------------------------------------------------------
(* Python's dates, external *)

IsLeap(y) == y % 4 = 0 /\ (y % 100 # 0 \/ y % 400 = 0)

MonthLength(y, m) ==
    IF m = 2 THEN IF IsLeap(y) THEN 29 ELSE 28
    ELSE IF m \in {4, 6, 9, 11} THEN 30 ELSE 31

Day(y, m, d) ==
    365 * (y - 1) + (y - 1) \div 4 - (y - 1) \div 100 + (y - 1) \div 400
    + <<0, 31, 59, 90, 120, 151, 181, 212, 243, 273, 304, 334>>[m]
    + (IF m > 2 /\ IsLeap(y) THEN 1 ELSE 0) + d

Weekday(day) == (day + 6) % 7      \* Monday is 0

YearOf(day) ==
    CHOOSE y \in ((day - 1) \div 366 + 1)..((day - 1) \div 365 + 1) :
        Day(y, 1, 1) <= day /\ day < Day(y + 1, 1, 1)

MonthOf(day) ==
    CHOOSE m \in 1..12 :
        LET first == Day(YearOf(day), m, 1)
        IN  first <= day /\ day < first + MonthLength(YearOf(day), m)

DayOfMonth(day) == day - Day(YearOf(day), MonthOf(day), 1) + 1

-----------------------------------------------------------------------------
(* Holidays and weekdays *)

\* easter_sunday
EasterSunday(y) ==
    LET a == y % 19
        b == y \div 100
        c == y % 100
        d == b \div 4
        e == b % 4
        f == (b + 8) \div 25
        g == (b - f + 1) \div 3
        h == (19 * a + b - d - g + 15) % 30
        i == c \div 4
        k == c % 4
        m == (32 + 2 * e + 2 * i - h - k) % 7
        n == (a + 11 * h + 22 * m) \div 451
        s == h + m - 7 * n + 114
    IN  Day(y, s \div 31, (s % 31) + 1)

\* _saturday_between
SaturdayFrom(y, m, d) == Day(y, m, d) + ((5 - Weekday(Day(y, m, d))) % 7)

\* swedish_holidays: holidays and the eves on which a deadline also moves.
Holidays(y) ==
    LET easter == EasterSunday(y)
        midsummer == SaturdayFrom(y, 6, 20)
    IN  {Day(y, f[1], f[2]) : f \in {<<1, 1>>, <<1, 6>>, <<5, 1>>, <<6, 6>>, <<12, 24>>, <<12, 25>>,
                                     <<12, 26>>, <<12, 31>>}}
        \cup {easter + n : n \in {-2, 0, 1, 39, 49}}
        \cup {midsummer - 1, midsummer, SaturdayFrom(y, 10, 31)}

IsBusinessDay(day) == Weekday(day) < 5 /\ day \notin Holidays(YearOf(day))

\* Mutant: holidays are not looked at.
NextWeekday(day) == IF Weekday(day) < 5 THEN day ELSE day + 7 - Weekday(day)

NextBusinessDay(day) ==
    LET next[d \in Int] == IF IsBusinessDay(d) THEN d ELSE next[d + 1] IN next[day]

PreviousBusinessDay(day) ==
    LET prev[d \in Int] == IF IsBusinessDay(d) THEN d ELSE prev[d - 1] IN prev[day]

\* adjust_non_business_day
Adjusted(day, mode) ==
    CASE mode = "next" -> NextBusinessDay(day)
      [] mode = "previous" -> PreviousBusinessDay(day)
      [] mode = "keep" -> day

-----------------------------------------------------------------------------
(* Date arithmetic *)

\* The day d of the month m + months of year y (_month_shift).
Shifted(y, m, months, d) ==
    LET index == y * 12 + (m - 1) + months IN Day(index \div 12, (index % 12) + 1, d)

\* clamped_date
Clamped(y, m, d) == Day(y, m, IF d > MonthLength(y, m) THEN MonthLength(y, m) ELSE d)

\* add_months: the last day of a month maps to the last day of the other.
AddMonths(day, months) ==
    LET first == Shifted(YearOf(day), MonthOf(day), months, 1)
        last == DayOfMonth(day) = MonthLength(YearOf(day), MonthOf(day))
    IN  Clamped(YearOf(first), MonthOf(first), IF last THEN 31 ELSE DayOfMonth(day))

FiscalYearEnd(p, y) == Clamped(y, p.fyMonth, p.fyDay)

\* offset_date
OffsetDate(day, amount, unit, direction) ==
    LET n == IF direction = "before" THEN -amount ELSE amount
    IN  CASE unit = "days" -> day + n
          [] unit = "weeks" -> day + 7 * n
          [] unit = "months" -> AddMonths(day, n)

-----------------------------------------------------------------------------
(* Profiles *)

DeadlineKinds == {"vat", "ec_sales_list", "employer", "f_tax", "income_tax", "agm", "annual_report"}

\* Profile.__post_init__
IsProfile(p) ==
    /\ p.form \in {"ab", "ef", "hb", "ek_forening", "ideell_forening", "samfallighet"}
    /\ p.vat \in {"none", "month", "quarter", "year"}
    /\ p.list \in {"none", "month", "quarter"}
    /\ p.eu \in BOOLEAN
    /\ p.fyMonth \in 1..12 /\ p.fyDay \in 1..31
    /\ p.kinds \subseteq DeadlineKinds

-----------------------------------------------------------------------------
(* The rules: what is due for the periods of a year *)

Moving(key, nominal) == [key |-> key, nominal |-> nominal, move |-> TRUE]
Fixed(key, nominal) == [key |-> key, nominal |-> nominal, move |-> FALSE]

\* A day that is one later in December: the 26th and 27 December.
Late(day) == IF MonthOf(day) = 12 THEN day + 1 ELSE day

\* A day that is five later in some months: the 12th and the 17th.
Early(day, ms) == IF MonthOf(day) \in ms THEN day + 5 ELSE day

\* _annual_vat_date
AnnualVatDate(p, end) ==
    LET y == YearOf(end)
        m == MonthOf(end)
    IN  IF p.eu \/ p.form \in {"hb", "ideell_forening", "samfallighet"} THEN Late(Shifted(y, m, 2, 26))
        ELSE IF p.form = "ef" THEN Day(y + 1, 5, 12)
        ELSE IF m <= 4 THEN Day(y, 12, 12)
        ELSE IF m <= 6 THEN Day(y + 1, 1, 17)
        ELSE IF m <= 8 THEN Day(y + 1, 4, 12)
        ELSE Day(y + 1, 8, 17)

\* _vat_deadlines
Vat(p, y) ==
    CASE p.vat = "none" -> {}
      [] p.vat = "month" ->
            {Moving(<<"vat", y, m>>, IF p.large THEN Late(Shifted(y, m, 1, 26))
                                     ELSE Early(Shifted(y, m, 2, 12), {1, 8})) : m \in 1..12}
      [] p.vat = "quarter" ->
            {Moving(<<"vat q", y, q>>, Early(Shifted(y, 3 * q, 2, 12), {8})) : q \in 1..4}
      [] p.vat = "year" ->
            {Moving(<<"vat fy", FiscalYearEnd(p, y), 0>>, AnnualVatDate(p, FiscalYearEnd(p, y)))}

\* _ec_sales_list_deadlines
EcSalesList(p, y) ==
    CASE ~p.eu \/ p.list = "none" -> {}
      [] p.eu /\ p.list = "month" -> {Fixed(<<"list", y, m>>, Shifted(y, m, 1, 25)) : m \in 1..12}
      [] p.eu /\ p.list = "quarter" -> {Fixed(<<"list q", y, q>>, Shifted(y, 3 * q, 1, 25)) : q \in 1..4}

\* _payment_day
Payment(p, day) == Early(day, IF p.large THEN {1} ELSE {1, 8})

\* _employer_deadlines
Employer(p, y) ==
    IF ~p.employer THEN {}
    ELSE UNION {
        IF p.large
        THEN {Moving(<<"employer", y, m>>, Late(Shifted(y, m, 1, 26))),
              Moving(<<"payment", y, m>>, Payment(p, Shifted(y, m, 1, 12)))}
        ELSE {Moving(<<"employer", y, m>>, Payment(p, Shifted(y, m, 1, 12)))} : m \in 1..12}

\* _f_tax_deadlines
FTax(p, y) ==
    IF p.ftax THEN {Moving(<<"f_tax", y, m>>, Payment(p, Day(y, m, 12))) : m \in 1..12} ELSE {}

\* _income_tax_deadlines
IncomeTax(p, y) ==
    LET end == FiscalYearEnd(p, y)
        m == MonthOf(end)
        nominal == IF p.form = "ef" THEN Day(y + 1, 5, 2)
                   ELSE IF m <= 4 THEN Day(y, 12, 1)
                   ELSE IF m <= 6 THEN Day(y + 1, 1, 15)
                   ELSE IF m <= 8 THEN Day(y + 1, 4, 1)
                   ELSE Day(y + 1, 8, 1)
    IN  IF p.form \in {"ab", "ek_forening", "hb", "ef"} THEN {Moving(<<"income_tax", end, 0>>, nominal)}
        ELSE {}

\* _company_law_deadlines
CompanyLaw(p, y) ==
    LET end == FiscalYearEnd(p, y)
    IN  IF p.form # "ab" THEN {}
        ELSE {Fixed(<<kind, end, 0>>, AddMonths(end, IF kind = "agm" THEN 6 ELSE 7)) :
                kind \in p.kinds \cap {"agm", "annual_report"}}

\* The kinds that are switched on (compute_deadlines).
DueFor(p, y) ==
    (UNION {CASE kind = "vat" -> Vat(p, y)
              [] kind = "ec_sales_list" -> EcSalesList(p, y)
              [] kind = "employer" -> Employer(p, y)
              [] kind = "f_tax" -> FTax(p, y)
              [] kind = "income_tax" -> IncomeTax(p, y)
              [] kind \in {"agm", "annual_report"} -> {} : kind \in p.kinds})
    \cup CompanyLaw(p, y)

\* The day a deadline is shown at (_Collector.add).
Actual(d) == IF d.move THEN NextBusinessDay(d.nominal) ELSE d.nominal

\* Mutant: the periods of the years shown.
YearsShown(start, end) == YearOf(start)..YearOf(end)

\* _years: a period may have its deadline in a later year.
Years(start, end) == (YearOf(start) - 2)..YearOf(end)

\* compute_deadlines
ComputeDeadlines(p, start, end) ==
    {[key |-> d.key, date |-> Actual(d)] :
        d \in {e \in UNION {DueFor(p, y) : y \in Years(start, end)} :
                start <= Actual(e) /\ Actual(e) <= end}}
=============================================================================

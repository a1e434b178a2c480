-------------------------------- MODULE Edtf ---------------------------------
(***************************************************************************)
(* The date of an Article (domain/edtf.py): an EDTF token or an interval   *)
(* of two, the days it spans and the decades it is listed under.           *)
(*                                                                         *)
(* A token is what its text gives once it is matched; the qualifiers ? ~ % *)
(* change nothing and are left out.  A day is <<year, month, day>>.        *)
(***************************************************************************)
EXTENDS Integers

(* 1975-03-28, 1975-24 (a season), 1975-03, 1975, 197X and 19XX.           *)
Token(form, year, month, day) == [form |-> form, year |-> year, month |-> month, day |-> day]
OpenEnd == Token("open", 0, 0, 0)

Digits == 0..9999
Tokens ==
    [form : {"day"}, year : Digits, month : 0..99, day : 0..99]
    \union [form : {"season"}, year : Digits, month : 21..24, day : {0}]
    \union [form : {"month"}, year : Digits, month : 0..99, day : {0}]
    \union [form : {"year"}, year : Digits, month : {0}, day : {0}]
    \union [form : {"decade"}, year : {y \in Digits : y % 10 = 0}, month : {0}, day : {0}]
    \union [form : {"century"}, year : {y \in Digits : y % 100 = 0}, month : {0}, day : {0}]

-----------------------------------------------------------------------------
(* The calendar (datetime.date).                                           *)
Leap(y) == y % 4 = 0 /\ (y % 100 # 0 \/ y % 400 = 0)

LastDay(y, m) ==
    IF m = 2 THEN IF Leap(y) THEN 29 ELSE 28
    ELSE IF m \in {4, 6, 9, 11} THEN 30 ELSE 31

IsDay(x) == x[1] \in 1..9999 /\ x[2] \in 1..12 /\ x[3] \in 1..LastDay(x[1], x[2])

NotAfter(x, y) ==
    \/ x[1] < y[1]
    \/ x[1] = y[1] /\ x[2] < y[2]
    \/ x[1] = y[1] /\ x[2] = y[2] /\ x[3] <= y[3]

-----------------------------------------------------------------------------
(* _parse_single: the first and the last day; a winter ends in the year    *)
(* after.                                                                  *)
SeasonMonth(code) == 3 * (code - 20)

First(t) ==
    CASE t.form = "day" -> <<t.year, t.month, t.day>>
      [] t.form = "season" -> <<t.year, SeasonMonth(t.month), 1>>
      [] t.form = "month" -> <<t.year, t.month, 1>>
      [] OTHER -> <<t.year, 1, 1>>

EndOfMonth(y, m) == <<y, m, LastDay(y, m)>>

Final(t) ==
    CASE t.form = "day" -> <<t.year, t.month, t.day>>
      [] t.form = "season" ->
            IF t.month = 24 THEN EndOfMonth(t.year + 1, 2)
            ELSE EndOfMonth(t.year, SeasonMonth(t.month) + 2)
      [] t.form = "month" -> EndOfMonth(t.year, t.month)
      [] t.form = "year" -> <<t.year, 12, 31>>
      [] t.form = "decade" -> <<t.year + 9, 12, 31>>
      [] t.form = "century" -> <<t.year + 99, 12, 31>>

Parses(t) == t \in Tokens /\ IsDay(First(t)) /\ IsDay(Final(t))

(***************************************************************************)
(* _bounds.  A single token is the interval from itself to itself; an open *)
(* lower end begins where the upper one does.                              *)
(***************************************************************************)
Earliest(v) == First(IF v.from = OpenEnd THEN v.to ELSE v.from)
Latest(v) == IF v.to = OpenEnd THEN OpenEnd ELSE Final(v.to)

Accepted(v) ==
    /\ v.from # OpenEnd \/ v.to # OpenEnd
    /\ v.from # OpenEnd => Parses(v.from)
    /\ v.to # OpenEnd => Parses(v.to)
    /\ v.from # OpenEnd /\ v.to # OpenEnd => NotAfter(Earliest(v), Latest(v))

(***************************************************************************)
(* decades: an open upper end is taken as the year before capYear.         *)
(***************************************************************************)
DecadeOf(y) == (y \div 10) * 10

LastYear(v, capYear) == IF v.to = OpenEnd THEN capYear - 1 ELSE Latest(v)[1]

Decades(v, capYear) ==
    LET first == DecadeOf(Earliest(v)[1])
        last == DecadeOf(LastYear(v, capYear)) IN
    {d \in first..last : (d - first) % 10 = 0}
=============================================================================

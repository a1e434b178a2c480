-------------------------- MODULE Workbench_proofs --------------------------
(***************************************************************************)
(* Proofs about the list of Articles and what it stands on: who may see a  *)
(* row (Access), which days a date spans (Edtf), what a viewer sees of the *)
(* list (Search), the links that remove its filters, and what every link   *)
(* promises of the list it opens.                                          *)
(***************************************************************************)
EXTENDS Workbench, FiniteSetTheorems, WellFoundedInduction, SequenceTheorems, TLAPS

(***************************************************************************)
(* Who may see an Article                                                  *)
(***************************************************************************)
(* An Audience is none of the marks that stand beside the ladder.          *)
LEMMA AudiencesAreRungs ==
    ASSUME NEW a \in Audiences
    PROVE  /\ a \notin {Silent, ArchivistOnly, Misresolved}
           /\ a.tier \in {"PUBLIC", "MEMBERS", "GROUPS"}
           /\ a.tier # "GROUPS" => a.groups = {}
           /\ a.groups \in SUBSET Groups
BY DEF Audiences, Public, Members, Rung, Silent, ArchivistOnly, Misresolved

(* Of the Collections of a chain that say an audience one is the nearest.  *)
LEMMA NearestSpeaks ==
    ASSUME NEW chain \in Chains, Speaking(chain) # {}
    PROVE  Nearest(chain) \in Speaking(chain)
<1>1. Speaking(chain) \in SUBSET Nat BY DEF Speaking, Chains
<1>2. \E i \in Speaking(chain) : \A j \in Speaking(chain) : i <= j
  <2>1. PICK i \in Speaking(chain) :
            \A j \in Speaking(chain) : ~ (<<j, i>> \in OpToRel(<, Nat))
        BY <1>1, NatLessThanWellFounded, WFMin
  <2>2. \A j \in Speaking(chain) : ~ (j < i) BY <1>1, <2>1 DEF OpToRel
  <2>. QED BY <1>1, <2>2
<1>. QED BY <1>2 DEF Nearest

(* What effective_audience comes to when the chain fits: a rung of the     *)
(* ladder, or the mark of what only archivists see.                        *)
LEMMA EffectiveType ==
    ASSUME NEW article \in Placed, NEW chain \in Chains, Fits(article, chain)
    PROVE  EffectiveAudience(article, chain) \in Audiences \union {ArchivistOnly}
<1>1. CASE ~article.published \/ article.deleted
      BY <1>1 DEF EffectiveAudience
<1>2. CASE article.published /\ ~article.deleted /\ article.audience # Silent
      BY <1>2 DEF EffectiveAudience, Placed
<1>3. CASE article.published /\ ~article.deleted /\ article.audience = Silent
  <2>1. CASE Speaking(chain) = {}
        BY <1>3, <2>1 DEF EffectiveAudience, Audiences
  <2>2. CASE Speaking(chain) # {}
    <3>1. EffectiveAudience(article, chain) = chain[Nearest(chain)].audience
          BY <1>3, <2>2 DEF EffectiveAudience
    <3>2. Nearest(chain) \in Speaking(chain) BY <2>2, NearestSpeaks
    <3>3. PICK i \in DOMAIN chain : i = Nearest(chain) /\ chain[i].audience # Silent
          BY <3>2 DEF Speaking
    <3>4. chain[i] \in [ulid : Collections, audience : Audiences \union {Silent}]
          BY <3>3, LenProperties, ElementOfSeq DEF Chains
    <3>5. chain[i].audience \in Audiences BY <3>3, <3>4
    <3>. QED BY <3>1, <3>3, <3>5
  <2>. QED BY <2>1, <2>2
<1>. QED BY <1>1, <1>2, <1>3

(* can_view read off the effective audience.                               *)
LEMMA CanViewWhen ==
    ASSUME NEW who, NEW article, NEW chain, NEW effective,
           effective = EffectiveAudience(article, chain)
    PROVE  /\ effective = Misresolved => (CanView(who, article, chain) <=> FALSE)
           /\ effective = ArchivistOnly =>
                 (CanView(who, article, chain) <=> who.role = "archivist")
           /\ effective \notin {Misresolved, ArchivistOnly} =>
                 (CanView(who, article, chain) <=> ClearsRung(who, effective))
<1>1. Misresolved # ArchivistOnly BY DEF ArchivistOnly, Misresolved, Rung
<1>. QED BY <1>1 DEF CanView

(***************************************************************************)
(* Scope seam (index/scope.py:1-3): the query over the scope columns of a  *)
(* row lets exactly those viewers find the row whom can_view lets see its  *)
(* Article; a row whose chain does not fit is found by archivists alone.   *)
(***************************************************************************)
THEOREM ScopeMatchesCanView ==
    ASSUME NEW who \in Viewers, NEW article \in Placed, NEW chain \in Chains
    PROVE  LET row == ScopeColumns(EffectiveAudience(article, chain)) IN
           IF Fits(article, chain)
           THEN ViewerScope(who, row) <=> CanView(who, article, chain)
           ELSE ViewerScope(who, row) <=> who.role = "archivist"
<1>. DEFINE effective == EffectiveAudience(article, chain)
<1>0. who.role \in {"archivist", "public", "member"} BY DEF Viewers
<1>1. CASE ~Fits(article, chain)
  <2>1. effective = Misresolved BY <1>1 DEF EffectiveAudience
  <2>2. ScopeColumns(effective).archivist_only BY <2>1 DEF ScopeColumns
  <2>. QED BY <1>0, <1>1, <2>2 DEF ViewerScope
<1>2. CASE Fits(article, chain) /\ effective = ArchivistOnly
  <2>1. ScopeColumns(effective).archivist_only BY <1>2 DEF ScopeColumns
  <2>2. CanView(who, article, chain) <=> who.role = "archivist"
        BY <1>2, CanViewWhen
  <2>. QED BY <1>0, <1>2, <2>1, <2>2 DEF ViewerScope
<1>3. CASE Fits(article, chain) /\ effective \in Audiences
  <2>1. /\ effective \notin {ArchivistOnly, Misresolved}
        /\ effective.tier \in {"PUBLIC", "MEMBERS", "GROUPS"}
        BY <1>3, AudiencesAreRungs
  <2>2. /\ ~ScopeColumns(effective).archivist_only
        /\ ScopeColumns(effective).tier = effective.tier
        /\ ScopeColumns(effective).groups = effective.groups
        BY <2>1 DEF ScopeColumns
  <2>3. CanView(who, article, chain) <=> ClearsRung(who, effective)
        BY <2>1, CanViewWhen
  <2>. QED BY <1>0, <1>3, <2>1, <2>2, <2>3 DEF ViewerScope, ClearsRung
<1>. QED BY <1>1, <1>2, <1>3, EffectiveType

(***************************************************************************)
(* The publish statement (ADR 0001): what preview says of an Article is    *)
(* what comes true when it is published with this chain, for every viewer: *)
(* the public sees it if it says so, a member if it says so or names one   *)
(* of the member's groups.                                                 *)
(***************************************************************************)
THEOREM PreviewTellsTheTruth ==
    ASSUME NEW who \in Viewers, NEW article \in Placed, NEW chain \in Chains
    PROVE  LET said == Preview(article, chain)
               sees == CanView(who, AsPublished(article), chain) IN
           /\ who.role = "public" => (sees <=> said.public)
           /\ who.role = "member" =>
                 (sees <=> said.members \/ who.groups \intersect said.groups # {})
<1>. DEFINE said == Preview(article, chain)
<1>1. PICK effective : effective = EffectiveAudience(AsPublished(article), chain) OBVIOUS
<1>2. AsPublished(article) \in Placed BY DEF AsPublished, Placed
<1>3. /\ said.public = CanView(Visitor, AsPublished(article), chain)
      /\ said.members = CanView(PlainMember, AsPublished(article), chain)
      /\ said.groups = IF effective.tier = "GROUPS" THEN effective.groups ELSE {}
      BY <1>1 DEF Preview
<1>4. /\ Visitor.role = "public" /\ PlainMember.role = "member" /\ PlainMember.groups = {}
      BY DEF Visitor, PlainMember
<1>5. effective \in Audiences \union {ArchivistOnly, Misresolved}
      BY <1>1, <1>2, EffectiveType DEF EffectiveAudience
<1>6. CASE effective \in {ArchivistOnly, Misresolved}
  <2>1. effective.tier # "GROUPS" BY <1>6 DEF ArchivistOnly, Misresolved, Rung
  <2>2. \A v : CanView(v, AsPublished(article), chain) => v.role = "archivist"
        BY <1>1, <1>6, CanViewWhen
  <2>. QED BY <1>3, <1>4, <2>1, <2>2
<1>7. CASE effective \in Audiences
  <2>1. /\ effective \notin {ArchivistOnly, Misresolved}
        /\ effective.tier \in {"PUBLIC", "MEMBERS", "GROUPS"}
        BY <1>7, AudiencesAreRungs
  <2>2. \A v : CanView(v, AsPublished(article), chain) <=> ClearsRung(v, effective)
        BY <1>1, <2>1, CanViewWhen
  <2>3. said.public <=> effective.tier = "PUBLIC"
        BY <1>3, <1>4, <2>2 DEF ClearsRung
  <2>4. said.members <=> effective.tier \in {"PUBLIC", "MEMBERS"}
        BY <1>3, <1>4, <2>2 DEF ClearsRung
  <2>. QED BY <1>3, <2>1, <2>2, <2>3, <2>4 DEF ClearsRung
<1>. QED BY <1>5, <1>6, <1>7

-----------------------------------------------------------------------------
(***************************************************************************)
(* The days of a date                                                      *)
(***************************************************************************)
(* The days a token speaks of, without a calendar.                         *)
Covers(t, x) ==
    CASE t.form = "day" -> x = <<t.year, t.month, t.day>>
      [] t.form = "season" ->
            IF t.month = 24
            THEN \/ x[1] = t.year /\ x[2] = 12
                 \/ x[1] = t.year + 1 /\ x[2] \in {1, 2}
            ELSE x[1] = t.year /\ x[2] \in SeasonMonth(t.month)..(SeasonMonth(t.month) + 2)
      [] t.form = "month" -> x[1] = t.year /\ x[2] = t.month
      [] t.form = "year" -> x[1] = t.year
      [] t.form = "decade" -> DecadeOf(x[1]) = t.year
      [] t.form = "century" -> (x[1] \div 100) * 100 = t.year

Triples == Int \X Int \X Int

LEMMA MonthsEnd ==
    ASSUME NEW y \in Int, NEW m \in 1..12
    PROVE  LastDay(y, m) \in 28..31 /\ (m \in {1, 3, 5, 7, 8, 10, 12} => LastDay(y, m) = 31)
BY DEF LastDay

LEMMA DaysAreSmall ==
    ASSUME NEW x \in Triples, IsDay(x)
    PROVE  x[1] \in 1..9999 /\ x[2] \in 1..12 /\ x[3] \in 1..31 /\ x[3] <= LastDay(x[1], x[2])
BY MonthsEnd DEF IsDay, Triples

LEMMA TokenParts ==
    ASSUME NEW t, Parses(t)
    PROVE  /\ t.form \in {"day", "season", "month", "year", "decade", "century"}
           /\ t.year \in Int /\ t.month \in Int /\ t.day \in Int
           /\ t.form = "season" => t.month \in 21..24
           /\ t.form = "decade" => t.year % 10 = 0
           /\ t.form = "century" => t.year % 100 = 0
<1>1. t \in Tokens BY DEF Parses
<1>2. t.form \in {"day", "season", "month", "year", "decade", "century"} BY <1>1 DEF Tokens
<1>3. t.year \in Int /\ t.month \in Int /\ t.day \in Int
  <2>1. t.year \in Digits BY <1>1 DEF Tokens
  <2>2. t.month \in (0..99) \union (21..24) \union {0} BY <1>1 DEF Tokens
  <2>3. t.day \in (0..99) \union {0} BY <1>1 DEF Tokens
  <2>4. t.year \in Int
    <3>1. \A a \in Int, b \in Int : a..b \subseteq Int OBVIOUS
    <3>2. Digits \subseteq Int BY <3>1 DEF Digits
    <3>. QED BY <2>1, <3>2
  <2>5. t.month \in Int BY <2>2
  <2>6. t.day \in Int BY <2>3
  <2>. QED BY <2>4, <2>5, <2>6
<1>4. t.form = "season" => t.month \in 21..24 BY <1>1 DEF Tokens
<1>5. t.form = "decade" => t.year \in {y \in Digits : y % 10 = 0} BY <1>1 DEF Tokens
<1>6. t.form = "century" => t.year \in {y \in Digits : y % 100 = 0} BY <1>1 DEF Tokens
<1>. QED BY <1>2, <1>3, <1>4, <1>5, <1>6

(* First and Final, form by form.                                          *)
LEMMA Spans ==
    ASSUME NEW t, Parses(t)
    PROVE  /\ t.form = "day" => First(t) = <<t.year, t.month, t.day>> /\ Final(t) = First(t)
           /\ t.form = "season" /\ t.month = 24 =>
                 First(t) = <<t.year, 12, 1>> /\ Final(t) = <<t.year + 1, 2, LastDay(t.year + 1, 2)>>
           /\ t.form = "season" /\ t.month # 24 =>
                 \E m \in {3, 6, 9} :
                    /\ m = SeasonMonth(t.month)
                    /\ First(t) = <<t.year, m, 1>>
                    /\ Final(t) = <<t.year, m + 2, LastDay(t.year, m + 2)>>
           /\ t.form = "month" =>
                 /\ First(t) = <<t.year, t.month, 1>>
                 /\ Final(t) = <<t.year, t.month, LastDay(t.year, t.month)>>
           /\ t.form = "year" => First(t) = <<t.year, 1, 1>> /\ Final(t) = <<t.year, 12, 31>>
           /\ t.form = "decade" => First(t) = <<t.year, 1, 1>> /\ Final(t) = <<t.year + 9, 12, 31>>
           /\ t.form = "century" => First(t) = <<t.year, 1, 1>> /\ Final(t) = <<t.year + 99, 12, 31>>
<1>1. t.form = "season" => t.month \in 21..24 BY TokenParts
<1>2. t.form = "season" /\ t.month # 24 => SeasonMonth(t.month) \in {3, 6, 9}
      BY <1>1 DEF SeasonMonth
<1>3. t.form = "season" /\ t.month = 24 => SeasonMonth(t.month) = 12 BY DEF SeasonMonth
<1>. QED BY <1>2, <1>3 DEF First, Final, EndOfMonth

(* The bounds of a token span the days it speaks of and no other: a month  *)
(* to its last day, February in a leap year too, a winter into the next    *)
(* year, 197X ten years (_parse_single).                                   *)
THEOREM SpansWhatItCovers ==
    ASSUME NEW t, Parses(t), NEW x \in Triples, IsDay(x)
    PROVE  Covers(t, x) <=> NotAfter(First(t), x) /\ NotAfter(x, Final(t))
<1>. DEFINE y == x[1]
            m == x[2]
            d == x[3]
<1>0. x = <<y, m, d>> /\ y \in 1..9999 /\ m \in 1..12 /\ d \in 1..31 /\ d <= LastDay(y, m)
      BY DaysAreSmall DEF Triples
<1>. HIDE DEF y, m, d
<1>. DEFINE Y == t.year
            M == t.month
            D == t.day
<1>1. Y \in Int /\ M \in Int /\ D \in Int BY TokenParts
<1>2. CASE t.form = "day"
  <2>1. First(t) = <<Y, M, D>> /\ Final(t) = <<Y, M, D>> BY <1>2, Spans
  <2>2. Covers(t, x) <=> x = <<Y, M, D>> BY <1>2 DEF Covers
  <2>. QED BY <1>0, <1>1, <2>1, <2>2 DEF NotAfter
<1>3. CASE t.form = "month"
  <2>1. First(t) = <<Y, M, 1>> /\ Final(t) = <<Y, M, LastDay(Y, M)>> BY <1>3, Spans
  <2>2. Covers(t, x) <=> y = Y /\ m = M BY <1>0, <1>3 DEF Covers
  <2>3. LastDay(Y, M) \in Int BY DEF LastDay
  <2>. QED BY <1>0, <1>1, <2>1, <2>2, <2>3 DEF NotAfter
<1>4. CASE t.form = "season"
  <2>1. CASE M = 24
    <3>1. LastDay(Y + 1, 2) \in 28..31 BY <1>1, MonthsEnd
    <3>2. First(t) = <<Y, 12, 1>> /\ Final(t) = <<Y + 1, 2, LastDay(Y + 1, 2)>>
          BY <1>4, <2>1, Spans
    <3>3. Covers(t, x) <=> (y = Y /\ m = 12) \/ (y = Y + 1 /\ m \in {1, 2})
          BY <1>0, <1>4, <2>1 DEF Covers
    <3>. QED BY <1>0, <1>1, <3>1, <3>2, <3>3 DEF NotAfter
  <2>2. CASE M # 24
    <3>1. PICK n \in {3, 6, 9} :
             /\ n = SeasonMonth(M)
             /\ First(t) = <<Y, n, 1>>
             /\ Final(t) = <<Y, n + 2, LastDay(Y, n + 2)>>
          BY <1>4, <2>2, Spans
    <3>2. LastDay(Y, n + 2) \in 28..31 BY <1>1, <3>1, MonthsEnd
    <3>3. Covers(t, x) <=> y = Y /\ m \in n..(n + 2) BY <1>0, <1>4, <2>2, <3>1 DEF Covers
    <3>. QED BY <1>0, <1>1, <3>1, <3>2, <3>3 DEF NotAfter
  <2>. QED BY <2>1, <2>2
<1>5. CASE t.form = "year"
  <2>1. First(t) = <<Y, 1, 1>> /\ Final(t) = <<Y, 12, 31>> BY <1>5, Spans
  <2>2. Covers(t, x) <=> y = Y BY <1>0, <1>5 DEF Covers
  <2>. QED BY <1>0, <1>1, <2>1, <2>2 DEF NotAfter
<1>6. CASE t.form = "decade"
  <2>1. First(t) = <<Y, 1, 1>> /\ Final(t) = <<Y + 9, 12, 31>> BY <1>6, Spans
  <2>2. Covers(t, x) <=> (y \div 10) * 10 = Y BY <1>0, <1>6 DEF Covers, DecadeOf
  <2>3. Y % 10 = 0 BY <1>6, TokenParts
  <2>4. (y \div 10) * 10 = Y <=> Y <= y /\ y <= Y + 9 BY <1>0, <1>1, <2>3
  <2>. QED BY <1>0, <1>1, <2>1, <2>2, <2>4 DEF NotAfter
<1>7. CASE t.form = "century"
  <2>1. First(t) = <<Y, 1, 1>> /\ Final(t) = <<Y + 99, 12, 31>> BY <1>7, Spans
  <2>2. Covers(t, x) <=> (y \div 100) * 100 = Y BY <1>0, <1>7 DEF Covers
  <2>3. Y % 100 = 0 BY <1>7, TokenParts
  <2>4. (y \div 100) * 100 = Y <=> Y <= y /\ y <= Y + 99 BY <1>0, <1>1, <2>3
  <2>. QED BY <1>0, <1>1, <2>1, <2>2, <2>4 DEF NotAfter
<1>. QED BY <1>2, <1>3, <1>4, <1>5, <1>6, <1>7, TokenParts

LEMMA Readable ==
    ASSUME NEW t, Parses(t)
    PROVE  /\ First(t) \in Triples /\ Final(t) \in Triples
           /\ IsDay(First(t)) /\ IsDay(Final(t))
           /\ t # OpenEnd
<1>1. First(t) \in Triples /\ Final(t) \in Triples
  <2>1. t.year \in Int /\ t.month \in Int /\ t.day \in Int BY TokenParts
  <2>2. CASE t.form = "season" /\ t.month # 24
    <3>1. PICK n \in {3, 6, 9} :
             /\ First(t) = <<t.year, n, 1>>
             /\ Final(t) = <<t.year, n + 2, LastDay(t.year, n + 2)>>
          BY <2>2, Spans
    <3>2. LastDay(t.year, n + 2) \in Int BY DEF LastDay
    <3>. QED BY <2>1, <3>1, <3>2 DEF Triples
  <2>3. CASE t.form = "season" /\ t.month = 24
    <3>1. LastDay(t.year + 1, 2) \in Int BY DEF LastDay
    <3>. QED BY <2>1, <2>3, <3>1, Spans DEF Triples
  <2>4. CASE t.form = "month"
    <3>1. LastDay(t.year, t.month) \in Int BY DEF LastDay
    <3>. QED BY <2>1, <2>4, <3>1, Spans DEF Triples
  <2>5. CASE t.form \in {"day", "year", "decade", "century"} BY <2>1, <2>5, Spans DEF Triples
  <2>. QED BY <2>2, <2>3, <2>4, <2>5, TokenParts
<1>2. t # OpenEnd BY TokenParts DEF OpenEnd, Token
<1>. QED BY <1>1, <1>2 DEF Parses

LEMMA TokenOrdered ==
    ASSUME NEW t, Parses(t)
    PROVE  NotAfter(First(t), Final(t))
<1>1. t.year \in Int /\ t.month \in Int /\ t.day \in Int BY TokenParts
<1>2. \A y \in Int, m \in 1..12 : LastDay(y, m) \in 28..31 BY MonthsEnd
<1>3. CASE t.form = "month"
  <2>1. t.month \in 1..12 BY <1>1, <1>3, Spans, Readable, DaysAreSmall
  <2>2. LastDay(t.year, t.month) \in 28..31 BY <1>1, <1>2, <2>1
  <2>. QED BY <1>1, <1>3, <2>2, Spans DEF NotAfter
<1>4. CASE t.form = "season"
  <2>1. CASE t.month = 24
        BY <1>1, <1>2, <1>4, <2>1, Spans DEF NotAfter
  <2>2. CASE t.month # 24
    <3>1. PICK n \in {3, 6, 9} :
             /\ First(t) = <<t.year, n, 1>>
             /\ Final(t) = <<t.year, n + 2, LastDay(t.year, n + 2)>>
          BY <1>4, <2>2, Spans
    <3>. QED BY <1>1, <3>1 DEF NotAfter
  <2>. QED BY <2>1, <2>2
<1>5. CASE t.form \notin {"month", "season"}
      BY <1>1, <1>5, TokenParts, Spans DEF NotAfter
<1>. QED BY <1>3, <1>4, <1>5

(* What a date that was accepted gives the index: a first day that exists  *)
(* and, unless its end is open, a last day that exists and is none         *)
(* earlier, or a search over date ranges would never find it (_bounds).    *)
THEOREM BoundsOrdered ==
    ASSUME NEW v, Accepted(v)
    PROVE  /\ Earliest(v) \in Triples /\ IsDay(Earliest(v))
           /\ v.to # OpenEnd => /\ Latest(v) \in Triples /\ IsDay(Latest(v))
                             /\ NotAfter(Earliest(v), Latest(v))
<1>1. CASE v.from # OpenEnd
  <2>1. Earliest(v) \in Triples /\ IsDay(Earliest(v)) BY <1>1, Readable DEF Accepted, Earliest
  <2>2. ASSUME v.to # OpenEnd
        PROVE  Latest(v) \in Triples /\ IsDay(Latest(v)) /\ NotAfter(Earliest(v), Latest(v))
        BY <1>1, <2>2, Readable DEF Accepted, Latest
  <2>. QED BY <2>1, <2>2
<1>2. CASE v.from = OpenEnd
      BY <1>2, Readable, TokenOrdered DEF Accepted, Earliest, Latest
<1>. QED BY <1>1, <1>2

LEMMA DecadesStart ==
    ASSUME NEW y \in Int
    PROVE  DecadeOf(y) \in Int /\ DecadeOf(y) % 10 = 0 /\ DecadeOf(y) <= y /\ y <= DecadeOf(y) + 9
BY DEF DecadeOf

(* A date whose end is not open is listed under a decade exactly when it   *)
(* shares a year with it: what the facet of a decade finds and what the    *)
(* range of its ten years finds are the same (decades, _date_columns).     *)
THEOREM DecadesShareAYear ==
    ASSUME NEW v, Accepted(v), v.to # OpenEnd, NEW capYear \in Int, NEW d \in Int, d % 10 = 0
    PROVE  d \in Decades(v, capYear) <=> Earliest(v)[1] <= d + 9 /\ Latest(v)[1] >= d
<1>. DEFINE a == Earliest(v)[1]
            z == Latest(v)[1]
<1>1. a \in Int /\ z \in Int /\ a <= z BY BoundsOrdered DEF Triples, NotAfter
<1>2. LastYear(v, capYear) = z BY DEF LastYear
<1>3. DecadeOf(a) \in Int /\ DecadeOf(a) % 10 = 0 /\ DecadeOf(a) <= a /\ a <= DecadeOf(a) + 9
      BY <1>1, DecadesStart
<1>4. DecadeOf(z) \in Int /\ DecadeOf(z) % 10 = 0 /\ DecadeOf(z) <= z /\ z <= DecadeOf(z) + 9
      BY <1>1, DecadesStart
<1>5. d \in Decades(v, capYear) <=> d \in DecadeOf(a)..DecadeOf(z) /\ (d - DecadeOf(a)) % 10 = 0
      BY <1>2 DEF Decades
<1>. HIDE DEF a, z
<1>6. (d - DecadeOf(a)) % 10 = 0 BY <1>3
<1>7. d >= DecadeOf(a) <=> a <= d + 9 BY <1>3, <1>1
<1>8. d <= DecadeOf(z) <=> z >= d BY <1>4, <1>1
<1>9. d \in Decades(v, capYear) <=> a <= d + 9 /\ z >= d BY <1>3, <1>4, <1>5, <1>6, <1>7, <1>8
<1>. QED BY <1>9 DEF a, z

(* A date with an open end is listed under the decade it begins in and     *)
(* every decade after it to that of the year before the row was built.     *)
THEOREM OpenEndReachesTheYear ==
    ASSUME NEW v, Accepted(v), v.to = OpenEnd, NEW capYear \in Int, Earliest(v)[1] < capYear
    PROVE  /\ DecadeOf(Earliest(v)[1]) \in Decades(v, capYear)
           /\ DecadeOf(capYear - 1) \in Decades(v, capYear)
<1>. DEFINE a == Earliest(v)[1]
<1>1. a \in Int /\ a <= capYear - 1 BY BoundsOrdered DEF Triples
<1>2. DecadeOf(a) \in Int /\ DecadeOf(a) % 10 = 0 /\ DecadeOf(a) <= a /\ a <= DecadeOf(a) + 9
      BY <1>1, DecadesStart
<1>. DEFINE z == capYear - 1
<1>3. z \in Int /\ DecadeOf(z) \in Int /\ DecadeOf(z) % 10 = 0 /\ DecadeOf(z) <= z /\ z <= DecadeOf(z) + 9
      BY DecadesStart
<1>4. Decades(v, capYear) = {d \in DecadeOf(a)..DecadeOf(z) : (d - DecadeOf(a)) % 10 = 0}
      BY DEF Decades, LastYear
<1>. HIDE DEF a, z
<1>5. DecadeOf(a) <= DecadeOf(z) BY <1>1, <1>2, <1>3 DEF z
<1>6. (DecadeOf(z) - DecadeOf(a)) % 10 = 0 /\ (DecadeOf(a) - DecadeOf(a)) % 10 = 0 BY <1>2, <1>3
<1>7. DecadeOf(a) \in Decades(v, capYear) /\ DecadeOf(z) \in Decades(v, capYear)
      BY <1>2, <1>3, <1>4, <1>5, <1>6
<1>. QED BY <1>7 DEF a, z

-----------------------------------------------------------------------------
(***************************************************************************)
(* The links that remove a filter                                          *)
(***************************************************************************)
LEMMA Restricted ==
    ASSUME NEW f, NEW S
    PROVE  /\ DOMAIN Restrict(f, S) = S
           /\ \A x \in S : Restrict(f, S)[x] = f[x]
BY DEF Restrict

(* Every filter of a query string has a slot or stands beside them.        *)
LEMMA EveryFilterIsNamed ==
    ASSUME NEW p
    PROVE  SetParams(Filters(p)) = DOMAIN Filters(p)
<1>1. DOMAIN Filters(p) \subseteq FilterParams BY Restricted DEF Filters
<1>2. ASSUME NEW key \in FilterParams
      PROVE  \/ key \in SlotParams(Filters(p)) \union Unslotted(Filters(p))
             \/ key = "decade" /\ UndatedSlot(Filters(p))
  <2>1. key = "document_type" =>
           key \in SlotParams(Filters(p)) \/ key \in Unslotted(Filters(p))
        BY DEF SlotParams, Unslotted
  <2>2. key = "dateless" => key \in SlotParams(Filters(p)) \/ key \in Unslotted(Filters(p))
        BY DEF SlotParams, Unslotted
  <2>3. key = "decade" => key \in SlotParams(Filters(p)) \/ UndatedSlot(Filters(p))
        BY DEF SlotParams
  <2>4. key \in {"collection", "media_type"} => key \in SlotParams(Filters(p)) BY DEF SlotParams
  <2>5. key \in {"tag", "creator", "place", "date_from", "date_to", "digital", "file",
                 "drafts", "templates"} => key \in Unslotted(Filters(p))
        BY DEF Unslotted
  <2>. QED BY <2>1, <2>2, <2>3, <2>4, <2>5 DEF FilterParams
<1>3. UndatedSlot(Filters(p)) => "decade" \notin DOMAIN Filters(p) BY DEF UndatedSlot
<1>. QED BY <1>1, <1>2, <1>3 DEF SetParams

(* A param taken off the query string takes its filter off, the one that   *)
(* sits under it, and no other.                                            *)
LEMMA RemovingOne ==
    ASSUME NEW p, NEW key
    PROVE  Filters(WithoutParam(p, key)) = Without(Filters(p), key)
<1>. DEFINE kept == DOMAIN p \ (Nested(key) \union {"page"})
            q == WithoutParam(p, key)
            InForce(r) == {k \in DOMAIN r \intersect FilterParams : k = "decade" => r[k] # Malformed}
<1>1. DOMAIN q = kept /\ \A k \in kept : q[k] = p[k]
      BY Restricted DEF WithoutParam, Changing
<1>2. "page" \notin FilterParams BY DEF FilterParams
<1>3. InForce(q) = InForce(p) \ Nested(key) BY <1>1, <1>2
<1>4. /\ Filters(q) = [k \in InForce(q) |-> q[k]]
      /\ Filters(p) = [k \in InForce(p) |-> p[k]]
      BY DEF Filters, Restrict
<1>5. Without(Filters(p), key) = [k \in InForce(p) \ Nested(key) |-> p[k]]
      BY <1>4 DEF Without, Restrict
<1>6. \A k \in InForce(q) : q[k] = p[k] BY <1>1
<1>. QED BY <1>3, <1>4, <1>5, <1>6

(***************************************************************************)
(* Whatever filters the URL of a list sets, each has a link that removes   *)
(* it and nothing but it and what depends on it (browse.py, ledger.py).    *)
(***************************************************************************)
THEOREM RemovableHolds == Spec => []Removable
<1>1. Removable
  <2>1. SUFFICES ASSUME NEW key \in DOMAIN Filters(params)
                 PROVE  \E to \in Removals(params) : Filters(to) = Without(Filters(params), key)
        BY DEF Removable
  <2>2. WithoutParam(params, key) \in Removals(params) BY EveryFilterIsNamed DEF Removals
  <2>. QED BY <2>2, RemovingOne
<1>. QED BY <1>1, PTL
-----------------------------------------------------------------------------
(***************************************************************************)
(* What a viewer sees of the list                                          *)
(***************************************************************************)
(* A row as an archive would have it that holds nothing of the floored     *)
(* fields.                                                                 *)
Masked(r) == [r EXCEPT !.archivist_words = {}]
MaskedAll(S) == {Masked(r) : r \in S}

(* Two rows that differ in the floored words alone.                        *)
Alike(r, m) ==
    /\ r.ulid = m.ulid /\ r.title = m.title /\ r.words = m.words /\ r.creator = m.creator
    /\ r.place = m.place /\ r.ref_code = m.ref_code /\ r.media_type = m.media_type
    /\ r.document_type = m.document_type /\ r.tags = m.tags /\ r.draft = m.draft
    /\ r.template = m.template /\ r.added = m.added /\ r.deleted = m.deleted
    /\ r.kinds = m.kinds /\ r.hashes = m.hashes /\ r.collection = m.collection
    /\ r.ancestors = m.ancestors /\ r.earliest = m.earliest /\ r.latest = m.latest
    /\ r.decades = m.decades /\ r.archivist_only = m.archivist_only /\ r.tier = m.tier
    /\ r.groups = m.groups

(* Rows as an index holds them: finitely many, one of each ulid.           *)
Index(S) ==
    /\ IsFiniteSet(S)
    /\ \A r \in S : Alike(r, Masked(r))
    /\ \A r, o \in S : r.ulid = o.ulid => r = o

LEMMA RowMasked ==
    ASSUME NEW a
    PROVE  Alike(RowOf(a), Masked(RowOf(a)))
BY DEF RowOf, Masked, Alike

LEMMA PartsOfAnIndex ==
    ASSUME NEW S, NEW T, Index(S), T \subseteq S
    PROVE  Index(T)
BY FS_Subset DEF Index

(* Masking keeps rows apart, as it keeps their ulids.                      *)
LEMMA MaskedCount ==
    ASSUME NEW S, Index(S)
    PROVE  Cardinality(MaskedAll(S)) = Cardinality(S)
<1>. DEFINE f == [r \in S |-> Masked(r)]
<1>1. f \in Bijection(S, MaskedAll(S))
  <2>1. \A r, o \in S : f[r] = f[o] => r = o
        BY DEF Index, Alike
  <2>2. f \in [S -> MaskedAll(S)] BY DEF MaskedAll
  <2>3. \A m \in MaskedAll(S) : \E r \in S : f[r] = m BY DEF MaskedAll
  <2>. HIDE DEF f
  <2>. QED BY <2>1, <2>2, <2>3 DEF Bijection, Injection, Surjection, IsInjective
<1>2. IsFiniteSet(S) BY DEF Index
<1>. QED BY <1>1, <1>2, FS_Bijection DEF ExistsBijection

(* No filter, facet, order or hit reads the floored words.                 *)
LEMMA CarriedAlike ==
    ASSUME NEW r, NEW m, Alike(r, m),
           NEW key \in {"collection", "decade", "tag", "file", "media_type", "document_type",
                        "creator", "place"}
    PROVE  Carried(r, key) = Carried(m, key)
<1>1. CASE key = "collection" BY <1>1 DEF Carried, Alike
<1>2. CASE key = "decade" BY <1>2 DEF Carried, Alike
<1>3. CASE key = "tag" BY <1>3 DEF Carried, Alike
<1>4. CASE key = "file" BY <1>4 DEF Carried, Alike
<1>5. CASE key = "media_type" BY <1>5 DEF Carried, Alike
<1>6. CASE key = "document_type" BY <1>6 DEF Carried, Alike
<1>7. CASE key = "creator" BY <1>7 DEF Carried, Alike
<1>8. CASE key = "place" BY <1>8 DEF Carried, Alike
<1>. QED BY <1>1, <1>2, <1>3, <1>4, <1>5, <1>6, <1>7, <1>8

LEMMA AdmitsAlike ==
    ASSUME NEW r, NEW m, Alike(r, m), NEW key \in FilterParams, NEW value
    PROVE  Admits(r, key, value) <=> Admits(m, key, value)
<1>1. CASE key \in {"dateless", "date_from", "date_to", "digital", "drafts", "templates"}
      BY <1>1 DEF Admits, Alike
<1>2. CASE key \notin {"dateless", "date_from", "date_to", "digital", "drafts", "templates"}
  <2>1. Carried(r, key) = Carried(m, key) BY <1>2, CarriedAlike DEF FilterParams
  <2>. QED BY <1>2, <2>1 DEF Admits
<1>. QED BY <1>1, <1>2

LEMMA SortKeyAlike ==
    ASSUME NEW r, NEW m, Alike(r, m), NEW typed, NEW sort, NEW descending
    PROVE  SortKey(r, typed, sort, descending) = SortKey(m, typed, sort, descending)
BY DEF SortKey, Alike

LEMMA HitAlike ==
    ASSUME NEW r, NEW m, Alike(r, m), NEW typed
    PROVE  Hit(r, typed) = Hit(m, typed)
BY DEF Hit, Alike

(* Masking passes through the filters and, but for an archivist, the text. *)
LEMMA FiltersMasked ==
    ASSUME NEW S, Index(S), NEW filters, DOMAIN filters \subseteq FilterParams
    PROVE  ApplyFilters(MaskedAll(S), filters) = MaskedAll(ApplyFilters(S, filters))
<1>1. ASSUME NEW r \in S
      PROVE  (\A key \in DOMAIN filters : Admits(Masked(r), key, filters[key]))
                <=> \A key \in DOMAIN filters : Admits(r, key, filters[key])
      BY AdmitsAlike DEF Index
<1>. QED BY <1>1 DEF ApplyFilters, MaskedAll

LEMMA TextMasked ==
    ASSUME NEW S, Index(S), NEW who, who.role # "archivist", NEW typed
    PROVE  ApplyText(who, MaskedAll(S), typed) = MaskedAll(ApplyText(who, S, typed))
<1>1. ASSUME NEW r \in S
      PROVE  /\ MatchedVector(who, Masked(r)) = MatchedVector(who, r)
             /\ Masked(r).hashes = r.hashes
             /\ Masked(r).ref_code = r.ref_code
      BY <1>1 DEF MatchedVector, Index, Alike
<1>. QED BY <1>1 DEF ApplyText, MaskedAll

(* The order, and with it the page, of the masked rows is the same.        *)
LEMMA PageMasked ==
    ASSUME NEW S, Index(S), NEW typed, NEW query
    PROVE  PageOf(MaskedAll(S), typed, query) = MaskedAll(PageOf(S, typed, query))
<1>. DEFINE Key(r) == SortKey(r, typed, query.sort, query.descending)
            Before(a, b) == Key(a) < Key(b) \/ (Key(a) = Key(b) /\ a.ulid < b.ulid)
            Ahead(T, r) == {o \in T : Before(o, r)}
            first == (query.page - 1) * query.page_size
            On(n) == n \in first..(first + query.page_size - 1)
<1>1. \A r \in S : Key(Masked(r)) = Key(r) /\ Masked(r).ulid = r.ulid
      BY SortKeyAlike DEF Index, Alike
<1>. HIDE DEF Key
<1>2. ASSUME NEW r \in S
      PROVE  Cardinality(Ahead(MaskedAll(S), Masked(r))) = Cardinality(Ahead(S, r))
  <2>1. Ahead(MaskedAll(S), Masked(r)) = MaskedAll(Ahead(S, r))
        BY <1>1 DEF MaskedAll
  <2>2. Index(Ahead(S, r)) BY PartsOfAnIndex
  <2>. QED BY <2>1, <2>2, MaskedCount
<1>3. \A T : PageOf(T, typed, query) = {r \in T : On(Cardinality(Ahead(T, r)))}
      BY DEF PageOf, Key
<1>. HIDE DEF Ahead, On
<1>4. MaskedAll({r \in S : On(Cardinality(Ahead(S, r)))})
        = {m \in MaskedAll(S) : On(Cardinality(Ahead(MaskedAll(S), m)))}
      BY <1>2 DEF MaskedAll
<1>. QED BY <1>3, <1>4

FacetKeys == {"collection", "decade", "media_type", "document_type", "file", "tag", "creator", "place"}

LEMMA FacetMasked ==
    ASSUME NEW S, Index(S), NEW filters, DOMAIN filters \subseteq FilterParams,
           NEW key \in FacetKeys
    PROVE  Facet(MaskedAll(S), filters, key) = Facet(S, filters, key)
<1>. DEFINE N == ApplyFilters(S, Without(filters, key))
            Namings(T, value) ==
                UNION {{r.ulid} \X (1..Times(r, key, value)) :
                          r \in {o \in T : value \in Carried(o, key)}}
<1>1. DOMAIN Without(filters, key) \subseteq FilterParams BY Restricted DEF Without
<1>2. ApplyFilters(MaskedAll(S), Without(filters, key)) = MaskedAll(N)
      BY <1>1, FiltersMasked
<1>3. ASSUME NEW r \in N
      PROVE  /\ Carried(Masked(r), key) = Carried(r, key)
             /\ \A value : Times(Masked(r), key, value) = Times(r, key, value)
             /\ Masked(r).ulid = r.ulid
  <2>1. Alike(r, Masked(r)) BY DEF Index, ApplyFilters
  <2>. QED BY <2>1, CarriedAlike DEF Times, Alike, FacetKeys
<1>. HIDE DEF N
<1>4. UNION {Carried(r, key) : r \in MaskedAll(N)} = UNION {Carried(r, key) : r \in N}
      BY <1>3 DEF MaskedAll
<1>5. \A value : Namings(MaskedAll(N), value) = Namings(N, value)
      BY <1>3 DEF MaskedAll
<1>6. /\ Facet(S, filters, key) =
             [value \in UNION {Carried(r, key) : r \in N} |-> Cardinality(Namings(N, value))]
      /\ Facet(MaskedAll(S), filters, key) =
             [value \in UNION {Carried(r, key) : r \in MaskedAll(N)} |->
                 Cardinality(Namings(MaskedAll(N), value))]
      BY <1>2 DEF Facet, N
<1>. HIDE DEF Namings
<1>. QED BY <1>4, <1>5, <1>6

LEMMA DatelessMasked ==
    ASSUME NEW S, Index(S), NEW filters, DOMAIN filters \subseteq FilterParams
    PROVE  DatelessCount(MaskedAll(S), filters) = DatelessCount(S, filters)
<1>. DEFINE others == Restrict(filters, DOMAIN filters \ {"dateless", "date_from", "date_to"})
            Undateds(T) == {r \in ApplyFilters(T, others) : Admits(r, "dateless", "1")}
<1>1. DOMAIN others \subseteq FilterParams BY Restricted
<1>. HIDE DEF others
<1>2. ApplyFilters(MaskedAll(S), others) = MaskedAll(ApplyFilters(S, others))
      BY <1>1, FiltersMasked
<1>3. Undateds(MaskedAll(S)) = MaskedAll(Undateds(S))
  <2>1. \A r \in S : Admits(Masked(r), "dateless", "1") <=> Admits(r, "dateless", "1")
        BY AdmitsAlike DEF Index, FilterParams
  <2>2. ApplyFilters(S, others) \subseteq S BY DEF ApplyFilters
  <2>. QED BY <1>2, <2>1, <2>2 DEF MaskedAll
<1>4. Index(Undateds(S)) BY PartsOfAnIndex DEF ApplyFilters
<1>5. Cardinality(Undateds(MaskedAll(S))) = Cardinality(Undateds(S))
      BY <1>3, <1>4, MaskedCount
<1>. QED BY <1>5 DEF DatelessCount, others

(* So is the whole page of a search, when the rows in scope are.           *)
LEMMA SearchMasked ==
    ASSUME NEW R, NEW O, NEW who, who.role # "archivist", NEW query, NEW facets \in SUBSET FacetKeys,
           Index(R), DOMAIN query.filters \subseteq FilterParams,
           Scoped(who, O, query.deleted) = MaskedAll(Scoped(who, R, query.deleted))
    PROVE  SearchPage(who, R, query, facets) = SearchPage(who, O, query, facets)
<1>. DEFINE matched == Matched(who, R, query)
            found == Found(who, R, query)
<1>1. Index(Scoped(who, R, query.deleted)) BY PartsOfAnIndex DEF Scoped
<1>2. Matched(who, O, query) = MaskedAll(matched)
      BY <1>1, TextMasked DEF Matched
<1>3. Index(matched) BY <1>1, PartsOfAnIndex DEF Matched, ApplyText
<1>. HIDE DEF matched
<1>4. found = ApplyFilters(matched, query.filters) BY DEF Found, matched
<1>5. Found(who, O, query) = MaskedAll(found)
      BY <1>2, <1>3, <1>4, FiltersMasked DEF Found
<1>6. Index(found) BY <1>3, <1>4, PartsOfAnIndex DEF ApplyFilters
<1>. HIDE DEF found
<1>7. Cardinality(Found(who, O, query)) = Cardinality(found) BY <1>5, <1>6, MaskedCount
<1>8. {Hit(m, query.text) : m \in PageOf(MaskedAll(found), query.text, query)}
        = {Hit(r, query.text) : r \in PageOf(found, query.text, query)}
  <2>1. PageOf(MaskedAll(found), query.text, query) = MaskedAll(PageOf(found, query.text, query))
        BY <1>6, PageMasked
  <2>. DEFINE page == PageOf(found, query.text, query)
  <2>2. \A r \in page : Hit(Masked(r), query.text) = Hit(r, query.text)
        BY <1>6, HitAlike DEF Index, PageOf
  <2>. HIDE DEF page
  <2>3. {Hit(m, query.text) : m \in MaskedAll(page)} = {Hit(r, query.text) : r \in page}
        BY <2>2 DEF MaskedAll
  <2>. QED BY <2>1, <2>3 DEF page
<1>9. \A key \in facets :
         Facet(MaskedAll(matched), query.filters, key) = Facet(matched, query.filters, key)
      BY <1>3, FacetMasked
<1>10. DatelessCount(MaskedAll(matched), query.filters) = DatelessCount(matched, query.filters)
       BY <1>3, DatelessMasked
<1>. QED BY <1>2, <1>5, <1>7, <1>8, <1>9, <1>10 DEF SearchPage, matched, found

(***************************************************************************)
(* The index holds the row of every record and no other row; a record has  *)
(* the fields a row is built of.                                           *)
(***************************************************************************)
IsRecord(a) ==
    /\ DOMAIN a = {"ulid", "title", "words", "floored", "creator", "place", "ref_code",
                   "media_type", "document_type", "tags", "published", "template", "deleted",
                   "audience", "added", "files", "date", "collection"}
    /\ PlacementOf(a) \in Placed
    /\ {a.ulid, a.title, a.ref_code, a.added} \subseteq Nat
    /\ a.date = NoDate \/ Accepted(a.date)
    /\ \A tag \in DOMAIN a.tags : a.tags[tag] \in Nat \ {0}

IndexKept ==
    /\ IsFiniteSet(archive)
    /\ \A a \in archive : IsRecord(a)
    /\ \A a, b \in archive : a.ulid = b.ulid => a = b
    /\ rows = {RowOf(a) : a \in archive}
    /\ viewer \in Viewers

LEMMA EveryRecord ==
    /\ \A a \in Editions : IsRecord(a)
    /\ \A kept \in Archives : \A a \in kept : IsRecord(a)
BY RecordsAssumption DEF IsRecord

LEMMA UlidOfRow == ASSUME NEW a PROVE RowOf(a).ulid = a.ulid
BY DEF RowOf

LEMMA LinksKeepTheArchive == Follow => UNCHANGED <<archive, rows, viewer>>
<1>1. PickValue => UNCHANGED <<archive, rows, viewer>> BY DEF PickValue, Open
<1>2. ToggleUndated => UNCHANGED <<archive, rows, viewer>> BY DEF ToggleUndated, Open
<1>3. ToggleCheck => UNCHANGED <<archive, rows, viewer>> BY DEF ToggleCheck, Open
<1>4. RemoveFilter => UNCHANGED <<archive, rows, viewer>> BY DEF RemoveFilter, Open
<1>5. ClearAll => UNCHANGED <<archive, rows, viewer>> BY DEF ClearAll, Open
<1>6. SortByHead => UNCHANGED <<archive, rows, viewer>> BY DEF SortByHead, Open
<1>7. DropOrder => UNCHANGED <<archive, rows, viewer>> BY DEF DropOrder, Open
<1>8. SwitchView => UNCHANGED <<archive, rows, viewer>> BY DEF SwitchView, Open
<1>9. TurnPage => UNCHANGED <<archive, rows, viewer>> BY DEF TurnPage, Open
<1>10. ResizePages => UNCHANGED <<archive, rows, viewer>> BY DEF ResizePages, Open
<1>11. FollowCell => UNCHANGED <<archive, rows, viewer>> BY DEF FollowCell, Open
<1>12. FollowArticleLink => UNCHANGED <<archive, rows, viewer>> BY DEF FollowArticleLink, Open
<1>13. TypeText => UNCHANGED <<archive, rows, viewer>> BY DEF TypeText, Open
<1>14. PickSuggestion => UNCHANGED <<archive, rows, viewer>> BY DEF PickSuggestion, Open
<1>15. OpenAllSuggested => UNCHANGED <<archive, rows, viewer>> BY DEF OpenAllSuggested, Open
<1>16. OpenTile => UNCHANGED <<archive, rows, viewer>> BY DEF OpenTile, Open
<1>. QED BY <1>1, <1>2, <1>3, <1>4, <1>5, <1>6, <1>7, <1>8, <1>9, <1>10, <1>11, <1>12, <1>13,
            <1>14, <1>15, <1>16 DEF Follow

LEMMA SavesKeepTheIndex == ASSUME IndexKept, SaveRecord PROVE IndexKept'
<1>1. PICK edition \in Editions :
          /\ archive' = {edition} \union {a \in archive : a.ulid # edition.ulid}
          /\ rows' = {RowOf(edition)} \union {r \in rows : r.ulid # edition.ulid}
      BY DEF SaveRecord
<1>2. viewer' = viewer BY DEF SaveRecord
<1>3. IsFiniteSet(archive')
  <2>1. IsFiniteSet({a \in archive : a.ulid # edition.ulid}) BY FS_Subset DEF IndexKept
  <2>2. archive' = {a \in archive : a.ulid # edition.ulid} \union {edition} BY <1>1
  <2>. QED BY <2>1, <2>2, FS_AddElement
<1>4. \A a \in archive' : IsRecord(a) BY <1>1, EveryRecord DEF IndexKept
<1>5. \A a, b \in archive' : a.ulid = b.ulid => a = b BY <1>1 DEF IndexKept
<1>6. rows' = {RowOf(a) : a \in archive'}
  <2>1. rows = {RowOf(a) : a \in archive} BY DEF IndexKept
  <2>2. {r \in rows : r.ulid # edition.ulid} = {RowOf(a) : a \in {b \in archive : b.ulid # edition.ulid}}
        BY <2>1, UlidOfRow
  <2>. QED BY <1>1, <2>2
<1>. QED BY <1>2, <1>3, <1>4, <1>5, <1>6 DEF IndexKept

LEMMA IndexAlwaysKept == Spec => []IndexKept
<1>1. Init => IndexKept BY RecordsAssumption, EveryRecord DEF Init, IndexKept
<1>2. IndexKept /\ [Next]_vars => IndexKept'
  <2>1. ASSUME IndexKept, UNCHANGED <<archive, rows, viewer>> PROVE IndexKept'
        BY <2>1 DEF IndexKept
  <2>. QED BY <2>1, LinksKeepTheArchive, SavesKeepTheIndex DEF Next, vars
<1>. QED BY <1>1, <1>2, PTL DEF Spec

(* The row of a record as project leaves it.                               *)
LEMMA ProjectedRow ==
    ASSUME NEW a, IsRecord(a)
    PROVE  RowOf([a EXCEPT !.floored = {}]) = Masked(RowOf(a))
<1>. DEFINE b == [a EXCEPT !.floored = {}]
<1>1. /\ b.ulid = a.ulid /\ b.title = a.title /\ b.words = a.words /\ b.creator = a.creator
      /\ b.place = a.place /\ b.ref_code = a.ref_code /\ b.media_type = a.media_type
      /\ b.document_type = a.document_type /\ b.tags = a.tags /\ b.published = a.published
      /\ b.template = a.template /\ b.deleted = a.deleted /\ b.audience = a.audience
      /\ b.added = a.added /\ b.files = a.files /\ b.date = a.date /\ b.collection = a.collection
      /\ b.floored = {}
      BY DEF IsRecord
<1>. HIDE DEF b
<1>2. \A chain : EffectiveAudience(b, chain) = EffectiveAudience(a, chain)
      BY <1>1 DEF EffectiveAudience, Fits
<1>3. PICK chain, dates, scope, kinds, hashes, ancestors :
          /\ chain = ChainOf[a.collection]
          /\ dates = DateColumns(a.date)
          /\ scope = ScopeColumns(EffectiveAudience(a, chain))
          /\ kinds = {file.kind : file \in a.files}
          /\ hashes = {file.hash : file \in a.files}
          /\ ancestors = {chain[i].ulid : i \in DOMAIN chain}
      OBVIOUS
<1>. DEFINE Columns(floored) ==
        [ulid |-> a.ulid, title |-> a.title, words |-> a.words, archivist_words |-> floored,
         creator |-> a.creator, place |-> a.place, ref_code |-> a.ref_code,
         media_type |-> a.media_type, document_type |-> a.document_type, tags |-> a.tags,
         draft |-> ~a.published, template |-> a.template, added |-> a.added,
         deleted |-> a.deleted, kinds |-> kinds, hashes |-> hashes, collection |-> a.collection,
         ancestors |-> ancestors, earliest |-> dates.earliest, latest |-> dates.latest,
         decades |-> dates.decades, archivist_only |-> scope.archivist_only, tier |-> scope.tier,
         groups |-> scope.groups]
<1>4. RowOf(a) = Columns(a.floored) BY <1>3 DEF RowOf
<1>5. RowOf(b) = Columns({}) BY <1>1, <1>2, <1>3 DEF RowOf
<1>6. Masked(Columns(a.floored)) = Columns({}) BY DEF Masked
<1>. QED BY <1>4, <1>5, <1>6 DEF b

(* Not being an archivist, a viewer finds the rows of what it may see.     *)
LEMMA ScopeOfRecord ==
    ASSUME NEW a, IsRecord(a), viewer \in Viewers, viewer.role # "archivist"
    PROVE  ViewerScope(viewer, RowOf(a)) <=> MaySee(a)
<1>. DEFINE chain == ChainOf[a.collection]
            p == PlacementOf(a)
            scope == ScopeColumns(EffectiveAudience(a, chain))
<1>1. p \in Placed /\ chain \in Chains
  <2>1. p.collection = a.collection BY DEF PlacementOf
  <2>. QED BY <2>1, ChainsAssumption DEF IsRecord, Placed
<1>2. EffectiveAudience(p, chain) = EffectiveAudience(a, chain)
      BY DEF EffectiveAudience, Fits, PlacementOf
<1>3. CanView(viewer, p, chain) <=> CanView(viewer, a, chain)
      BY <1>2 DEF CanView
<1>4. ViewerScope(viewer, RowOf(a)) <=> ViewerScope(viewer, scope)
  <2>1. /\ RowOf(a).archivist_only = scope.archivist_only
        /\ RowOf(a).tier = scope.tier
        /\ RowOf(a).groups = scope.groups
        BY DEF RowOf
  <2>. QED BY <2>1 DEF ViewerScope
<1>5. PICK who \in Viewers : who = viewer OBVIOUS
<1>6. IF Fits(p, chain) THEN ViewerScope(who, scope) <=> CanView(who, p, chain)
      ELSE ViewerScope(who, scope) <=> who.role = "archivist"
      BY <1>1, <1>2, ScopeMatchesCanView
<1>7. ~Fits(p, chain) => ~CanView(who, p, chain)
      BY CanViewWhen DEF EffectiveAudience
<1>. QED BY <1>3, <1>4, <1>5, <1>6, <1>7 DEF MaySee

(***************************************************************************)
(* What a viewer gets of a search and of the suggestions, counts and order *)
(* included, is what an archive would give that holds nothing but what     *)
(* can_view and project show that viewer (query.py, suggestions.py).       *)
(***************************************************************************)
THEOREM SeesOnlyItsOwnHolds == Spec => []SeesOnlyItsOwn
<1>. DEFINE own == {RowOf(Projected(a)) : a \in {b \in archive : MaySee(b)}}
<1>1. ASSUME IndexKept, viewer.role = "archivist" PROVE own = rows
      BY <1>1 DEF IndexKept, Projected, MaySee
<1>2. ASSUME IndexKept, viewer.role # "archivist", NEW deleted
      PROVE  Scoped(viewer, own, deleted) = MaskedAll(Scoped(viewer, rows, deleted))
  <2>1. ASSUME NEW a \in archive
        PROVE  /\ RowOf(Projected(a)) = Masked(RowOf(a))
               /\ ViewerScope(viewer, RowOf(a)) <=> MaySee(a)
               /\ ViewerScope(viewer, Masked(RowOf(a))) <=> ViewerScope(viewer, RowOf(a))
               /\ Masked(RowOf(a)).deleted = RowOf(a).deleted
    <3>1. Alike(RowOf(a), Masked(RowOf(a))) BY RowMasked
    <3>2. ViewerScope(viewer, Masked(RowOf(a))) <=> ViewerScope(viewer, RowOf(a))
          BY <3>1 DEF ViewerScope, Alike
    <3>3. IsRecord(a) /\ viewer \in Viewers BY <1>2 DEF IndexKept
    <3>. QED BY <1>2, <3>1, <3>2, <3>3, ProjectedRow, ScopeOfRecord DEF Projected, Alike
  <2>2. rows = {RowOf(a) : a \in archive} BY <1>2 DEF IndexKept
  <2>3. Scoped(viewer, own, deleted) =
            {Masked(RowOf(a)) : a \in {b \in archive : MaySee(b) /\ RowOf(b).deleted = deleted}}
        BY <2>1 DEF Scoped
  <2>4. Scoped(viewer, rows, deleted) =
            {RowOf(a) : a \in {b \in archive : MaySee(b) /\ RowOf(b).deleted = deleted}}
        BY <2>1, <2>2 DEF Scoped
  <2>. QED BY <2>3, <2>4 DEF MaskedAll
<1>3. ASSUME IndexKept PROVE Index(rows)
  <2>1. IsFiniteSet(rows)
    <3>. DEFINE f == [a \in archive |-> RowOf(a)]
    <3>1. f \in Surjection(archive, rows) BY <1>3 DEF IndexKept, Surjection
    <3>. QED BY <1>3, <3>1, FS_Surjection DEF IndexKept
  <2>. QED BY <1>3, <2>1, UlidOfRow, RowMasked DEF IndexKept, Index
<1>4. ASSUME IndexKept, viewer.role # "archivist" PROVE SeesOnlyItsOwn
  <2>. DEFINE query == Query(params)
  <2>1. query.filters = Filters(params) /\ DOMAIN Filters(params) \subseteq FilterParams
        BY Restricted DEF Query, Filters
  <2>. HIDE DEF query, own
  <2>2. SearchPage(viewer, rows, query, FacetKeys) = SearchPage(viewer, own, query, FacetKeys)
        BY <1>2, <1>3, <1>4, <2>1, SearchMasked
  <2>3. ASSUME NEW key \in {"creator", "place", "tag"}, NEW typed
        PROVE  ValuesContaining(viewer, rows, key, typed, Filters(params))
                  = ValuesContaining(viewer, own, key, typed, Filters(params))
    <3>1. Index(Scoped(viewer, rows, FALSE)) BY <1>3, <1>4, PartsOfAnIndex DEF Scoped
    <3>2. Facet(Scoped(viewer, own, FALSE), Filters(params), key)
             = Facet(Scoped(viewer, rows, FALSE), Filters(params), key)
          BY <1>2, <1>4, <2>1, <3>1, FacetMasked DEF FacetKeys
    <3>. QED BY <3>2 DEF ValuesContaining
  <2>. QED BY <2>2, <2>3 DEF SeesOnlyItsOwn, FacetKeys, query, own
<1>5. ASSUME IndexKept PROVE SeesOnlyItsOwn
      BY <1>1, <1>4, <1>5 DEF SeesOnlyItsOwn
<1>. QED BY <1>5, IndexAlwaysKept, PTL
-----------------------------------------------------------------------------
(***************************************************************************)
(* What a link promises of the list it opens                               *)
(***************************************************************************)
(* Rows in the order of two numbers of theirs, the second of which tells   *)
(* any two apart: each has its own place, and the places leave no gap.     *)
Ahead(S, k, u, r) == {o \in S : k[o] < k[r] \/ (k[o] = k[r] /\ u[o] < u[r])}
Places(S, k, u) == [r \in S |-> Cardinality(Ahead(S, k, u, r))]

LEMMA PlacesLeaveNoGap ==
    ASSUME NEW S, IsFiniteSet(S), NEW k \in [S -> Int], NEW u \in [S -> Int],
           \A r, o \in S : u[r] = u[o] => r = o
    PROVE  Places(S, k, u) \in Bijection(S, 0..(Cardinality(S) - 1))
<1>. DEFINE n == Cardinality(S)
            place == Places(S, k, u)
            To(r) == Ahead(S, k, u, r)
<1>1. n \in Nat BY FS_CardinalityType
<1>2. ASSUME NEW r \in S
      PROVE  /\ IsFiniteSet(To(r)) /\ Cardinality(To(r)) \in Nat
             /\ Cardinality(To(r)) < n
  <2>1. To(r) \in SUBSET S /\ r \notin To(r) BY DEF Ahead
  <2>2. IsFiniteSet(To(r)) /\ Cardinality(To(r)) <= n /\ Cardinality(To(r)) # n
        BY <2>1, FS_Subset
  <2>3. Cardinality(To(r)) \in Nat BY <2>2, FS_CardinalityType
  <2>. QED BY <1>1, <2>2, <2>3
<1>3. ASSUME NEW r \in S, NEW o \in S, o \in To(r)
      PROVE  Cardinality(To(o)) < Cardinality(To(r))
  <2>1. To(o) \subseteq To(r) BY <1>3 DEF Ahead
  <2>2. o \notin To(o) BY DEF Ahead
  <2>3. Cardinality(To(o)) <= Cardinality(To(r)) /\ Cardinality(To(o)) # Cardinality(To(r))
        BY <1>2, <1>3, <2>1, <2>2, FS_Subset
  <2>. QED BY <1>2, <2>3
<1>4. ASSUME NEW r \in S, NEW o \in S, r # o
      PROVE  o \in To(r) \/ r \in To(o)
  <2>1. k[r] \in Int /\ k[o] \in Int /\ u[r] \in Int /\ u[o] \in Int /\ u[r] # u[o] BY <1>4
  <2>. QED BY <2>1 DEF Ahead
<1>5. \A r \in S : place[r] = Cardinality(To(r)) BY DEF Places
<1>6. DOMAIN place = S /\ place = [r \in S |-> place[r]] BY DEF Places
<1>. HIDE DEF place, To, n
<1>7. place \in [S -> 0..(n - 1)] BY <1>1, <1>2, <1>5, <1>6
<1>8. \A r, o \in S : r # o => place[r] # place[o]
  <2>. SUFFICES ASSUME NEW r \in S, NEW o \in S, r # o PROVE place[r] # place[o] OBVIOUS
  <2>1. Cardinality(To(o)) < Cardinality(To(r)) \/ Cardinality(To(r)) < Cardinality(To(o))
        BY <1>3, <1>4
  <2>. QED BY <1>2, <1>5, <2>1
<1>9. place \in Injection(S, 0..(n - 1)) BY <1>7, <1>8 DEF Injection, IsInjective
<1>10. IsFiniteSet(0..(n - 1)) /\ Cardinality(0..(n - 1)) = n BY <1>1, FS_Interval
<1>11. place \in Surjection(S, 0..(n - 1)) BY <1>9, <1>10, FS_Injection DEF n
<1>. QED BY <1>9, <1>11 DEF Bijection, place, n

(* Those whose places lie in a stretch of a given size fill it, as far as  *)
(* there are any.                                                          *)
InSlice(n, start, size) == IF n <= start THEN 0 ELSE Lesser(size, n - start)

LEMMA SliceFills ==
    ASSUME NEW S, IsFiniteSet(S), NEW place \in Bijection(S, 0..(Cardinality(S) - 1)),
           NEW start \in Nat, NEW size \in Nat
    PROVE  LET T == {r \in S : place[r] \in start..(start + size - 1)}
           IN  /\ IsFiniteSet(T)
               /\ Cardinality(T) = InSlice(Cardinality(S), start, size)
<1>. DEFINE n == Cardinality(S)
            T == {r \in S : place[r] \in start..(start + size - 1)}
            end == IF n < start + size THEN n - 1 ELSE start + size - 1
            f == [r \in T |-> place[r]]
<1>1. n \in Nat BY FS_CardinalityType
<1>2. IsFiniteSet(T) BY FS_Subset
<1>3. /\ place \in [S -> 0..(n - 1)]
      /\ \A r, o \in S : place[r] = place[o] => r = o
      /\ \A i \in 0..(n - 1) : \E r \in S : place[r] = i
      BY DEF Bijection, Injection, Surjection, IsInjective
<1>4. end \in Int BY <1>1
<1>5. \A i \in Int : i \in start..end <=> i \in 0..(n - 1) /\ i \in start..(start + size - 1)
      BY <1>1
<1>. HIDE DEF n, end
<1>6. f \in [T -> start..end]
  <2>. SUFFICES ASSUME NEW r \in T PROVE place[r] \in start..end OBVIOUS
  <2>1. place[r] \in 0..(n - 1) /\ place[r] \in start..(start + size - 1) BY <1>3
  <2>2. place[r] \in Int BY <2>1, <1>1
  <2>. QED BY <1>5, <2>1, <2>2
<1>7. \A r, o \in T : f[r] = f[o] => r = o BY <1>3
<1>8. \A i \in start..end : \E r \in T : f[r] = i
  <2>. SUFFICES ASSUME NEW i \in start..end PROVE \E r \in T : f[r] = i OBVIOUS
  <2>1. i \in 0..(n - 1) /\ i \in start..(start + size - 1) BY <1>4, <1>5
  <2>. QED BY <1>3, <2>1
<1>. HIDE DEF f, T
<1>9. f \in Bijection(T, start..end)
      BY <1>6, <1>7, <1>8 DEF Bijection, Injection, Surjection, IsInjective
<1>10. IsFiniteSet(start..end) /\ Cardinality(start..end) = IF start > end THEN 0 ELSE end - start + 1
       BY <1>4, FS_Interval
<1>11. Cardinality(T) = Cardinality(start..end)
       BY <1>2, <1>9, FS_Bijection DEF ExistsBijection
<1>12. (IF start > end THEN 0 ELSE end - start + 1) = InSlice(n, start, size)
       BY <1>1 DEF end, InSlice, Lesser
<1>. QED BY <1>2, <1>10, <1>11, <1>12 DEF T, n

(* The columns of a row that rows are ordered and counted by.              *)
Columned(r) ==
    /\ r.ulid \in Int /\ r.title \in Int /\ r.ref_code \in Int /\ r.added \in Int
    /\ r.earliest \in Triples
    /\ Malformed \notin r.decades
    /\ \A tag \in DOMAIN r.tags : r.tags[tag] \in Nat \ {0}
    /\ r.ancestors # {} => r.collection \in r.ancestors

LEMMA RowsAreColumned ==
    ASSUME NEW a, IsRecord(a)
    PROVE  Columned(RowOf(a))
<1>. DEFINE r == RowOf(a)
            chain == ChainOf[a.collection]
<1>1. /\ r.ulid = a.ulid /\ r.title = a.title /\ r.ref_code = a.ref_code /\ r.added = a.added
      /\ r.tags = a.tags /\ r.collection = a.collection
      /\ r.earliest = DateColumns(a.date).earliest
      /\ r.decades = DateColumns(a.date).decades
      /\ r.ancestors = {chain[i].ulid : i \in DOMAIN chain}
      BY DEF RowOf
<1>. HIDE DEF r
<1>2. r.ulid \in Int /\ r.title \in Int /\ r.ref_code \in Int /\ r.added \in Int
      BY <1>1 DEF IsRecord
<1>3. r.earliest \in Triples /\ Malformed \notin r.decades
  <2>1. CASE a.date = NoDate
    <3>1. r.earliest = NoDay /\ r.decades = {} BY <1>1, <2>1 DEF DateColumns
    <3>. QED BY <3>1 DEF NoDay, Triples
  <2>2. CASE a.date # NoDate
    <3>1. r.earliest = Earliest(a.date) /\ r.decades = Decades(a.date, ThisYear)
          BY <1>1, <2>2 DEF DateColumns
    <3>2. Accepted(a.date) BY <2>2 DEF IsRecord
    <3>3. Earliest(a.date) \in Triples BY <3>2, BoundsOrdered
    <3>. DEFINE first == DecadeOf(Earliest(a.date)[1])
    <3>4. first \in Int /\ first % 10 = 0 BY <3>3, DecadesStart DEF Triples
    <3>5. \A d \in r.decades : (d - first) % 10 = 0 BY <3>1 DEF Decades
    <3>. HIDE DEF first
    <3>6. (Malformed - first) % 10 # 0 BY <3>4 DEF Malformed
    <3>. QED BY <3>1, <3>3, <3>5, <3>6
  <2>. QED BY <2>1, <2>2
<1>4. \A tag \in DOMAIN r.tags : r.tags[tag] \in Nat \ {0} BY <1>1 DEF IsRecord
<1>5. r.ancestors # {} => r.collection \in r.ancestors
  <2>. SUFFICES ASSUME r.ancestors # {} PROVE r.collection \in r.ancestors OBVIOUS
  <2>1. chain \in Chains /\ (chain # <<>> => chain[1].ulid = a.collection)
    <3>1. PlacementOf(a).collection = a.collection BY DEF PlacementOf
    <3>2. a.collection \in Collections BY <3>1 DEF IsRecord, Placed
    <3>. QED BY <3>2, ChainsAssumption, SearchAssumption
  <2>2. PICK i \in DOMAIN chain : TRUE BY <1>1
  <2>3. chain # <<>> /\ 1 \in DOMAIN chain
    <3>1. PICK T : chain \in Seq(T) BY <2>1 DEF Chains
    <3>2. DOMAIN chain = 1..Len(chain) /\ Len(chain) \in Nat BY <3>1
    <3>. QED BY <2>2, <3>2
  <2>. QED BY <1>1, <2>1, <2>3
<1>. QED BY <1>2, <1>3, <1>4, <1>5 DEF Columned, r

LEMMA IndexOfRows ==
    ASSUME IndexKept
    PROVE  /\ Index(rows)
           /\ \A r \in rows : Columned(r)
           /\ Cardinality(rows) <= Cardinality(archive)
           /\ Cardinality(archive) \in Nat
<1>. DEFINE f == [a \in archive |-> RowOf(a)]
<1>1. f \in Surjection(archive, rows) BY DEF IndexKept, Surjection
<1>. HIDE DEF f
<1>2. IsFiniteSet(rows) /\ Cardinality(rows) <= Cardinality(archive) BY <1>1, FS_Surjection DEF IndexKept
<1>3. Cardinality(archive) \in Nat BY FS_CardinalityType DEF IndexKept
<1>4. Index(rows) BY <1>2, UlidOfRow, RowMasked DEF IndexKept, Index
<1>5. \A r \in rows : Columned(r) BY RowsAreColumned DEF IndexKept
<1>. QED BY <1>2, <1>3, <1>4, <1>5

LEMMA KeysAreNumbers ==
    ASSUME NEW r, Columned(r), NEW typed, NEW sort \in Sorts, NEW descending
    PROVE  SortKey(r, typed, sort, descending) \in Int
<1>. DEFINE turned(key) == IF descending THEN -key ELSE key
            K == SortKey(r, typed, sort, descending)
<1>1. CASE sort = "relevance"
  <2>1. K = IF typed = Blank THEN 0
            ELSE r.title + (IF r.ref_code = typed.code /\ typed.code # NoCode THEN 0 ELSE Last)
        BY <1>1, Zenon DEF SortKey
  <2>. QED BY <2>1 DEF Columned, Last
<1>2. CASE sort = "ref_code"
  <2>1. K = IF r.ref_code = NoCode THEN Last ELSE turned(r.ref_code) BY <1>2, Zenon DEF SortKey
  <2>. QED BY <2>1 DEF Columned, Last
<1>3. CASE sort = "date"
  <2>1. K = IF r.earliest = NoDay THEN Last ELSE turned(DayNumber(r.earliest)) BY <1>3, Zenon DEF SortKey
  <2>2. DayNumber(r.earliest) \in Int BY DEF Columned, Triples, DayNumber
  <2>. QED BY <2>1, <2>2 DEF Last
<1>4. CASE sort = "title"
  <2>1. K = turned(r.title) BY <1>4, Zenon DEF SortKey
  <2>. QED BY <2>1 DEF Columned
<1>5. CASE sort = "added"
  <2>1. K = -r.added BY <1>5, Zenon DEF SortKey
  <2>. QED BY <2>1 DEF Columned
<1>. QED BY <1>1, <1>2, <1>3, <1>4, <1>5 DEF Sorts

QueryOK(q) ==
    /\ q.page \in Nat \ {0}
    /\ q.page_size \in Nat \ {0}
    /\ q.sort \in Sorts
StartOf(q) == (q.page - 1) * q.page_size

LEMMA StartIsNat == ASSUME NEW q, QueryOK(q) PROVE StartOf(q) \in Nat
<1>1. q.page - 1 \in Nat /\ q.page_size \in Nat BY DEF QueryOK
<1>2. \A m, n \in Nat : m * n \in Nat OBVIOUS
<1>. QED BY <1>1, <1>2 DEF StartOf

(* A page has as many hits as fit on it, as far as there are any.          *)
LEMMA PageFills ==
    ASSUME NEW S, Index(S), \A r \in S : Columned(r), NEW typed, NEW q, QueryOK(q)
    PROVE  /\ IsFiniteSet(PageOf(S, typed, q))
           /\ Cardinality(PageOf(S, typed, q)) = InSlice(Cardinality(S), StartOf(q), q.page_size)
<1>. DEFINE k == [r \in S |-> SortKey(r, typed, q.sort, q.descending)]
            u == [r \in S |-> r.ulid]
            place == Places(S, k, u)
<1>1. k \in [S -> Int] BY KeysAreNumbers DEF QueryOK
<1>2. u \in [S -> Int] BY DEF Columned
<1>3. \A r, o \in S : u[r] = u[o] => r = o BY DEF Index
<1>4. IsFiniteSet(S) BY DEF Index
<1>5. ASSUME NEW r \in S
      PROVE  place[r] = Cardinality({o \in S :
                 \/ SortKey(o, typed, q.sort, q.descending) < SortKey(r, typed, q.sort, q.descending)
                 \/ SortKey(o, typed, q.sort, q.descending) = SortKey(r, typed, q.sort, q.descending)
                    /\ o.ulid < r.ulid})
      BY DEF Places, Ahead
<1>. HIDE DEF k, u, place
<1>6. PageOf(S, typed, q) = {r \in S : place[r] \in StartOf(q)..(StartOf(q) + q.page_size - 1)}
      BY <1>5 DEF PageOf, StartOf
<1>7. place \in Bijection(S, 0..(Cardinality(S) - 1))
      BY <1>1, <1>2, <1>3, <1>4, PlacesLeaveNoGap DEF place
<1>8. StartOf(q) \in Nat /\ q.page_size \in Nat BY StartIsNat DEF QueryOK
<1>. QED BY <1>4, <1>6, <1>7, <1>8, SliceFills

(* One page has nothing of the next.                                       *)
LEMMA PagesApart ==
    ASSUME NEW S, NEW typed, NEW q, NEW p, QueryOK(q), QueryOK(p), p.page = q.page + 1,
           p.page_size = q.page_size, p.sort = q.sort, p.descending = q.descending
    PROVE  PageOf(S, typed, q) \intersect PageOf(S, typed, p) = {}
<1>. DEFINE Place(r) == Cardinality({o \in S :
                 \/ SortKey(o, typed, q.sort, q.descending) < SortKey(r, typed, q.sort, q.descending)
                 \/ SortKey(o, typed, q.sort, q.descending) = SortKey(r, typed, q.sort, q.descending)
                    /\ o.ulid < r.ulid})
<1>1. /\ PageOf(S, typed, q) = {r \in S : Place(r) \in StartOf(q)..(StartOf(q) + q.page_size - 1)}
      /\ PageOf(S, typed, p) = {r \in S : Place(r) \in StartOf(p)..(StartOf(p) + q.page_size - 1)}
      BY DEF PageOf, StartOf
<1>2. StartOf(p) = StartOf(q) + q.page_size
  <2>1. \A m, n \in Nat : n * m = (n - 1) * m + m OBVIOUS
  <2>2. p.page - 1 = q.page /\ q.page \in Nat /\ q.page_size \in Nat BY DEF QueryOK
  <2>. QED BY <2>1, <2>2 DEF StartOf
<1>3. StartOf(q) \in Nat /\ q.page_size \in Nat BY StartIsNat DEF QueryOK
<1>. HIDE DEF Place
<1>. QED BY <1>1, <1>2, <1>3

-----------------------------------------------------------------------------
(* The list behind a query string                                          *)
LEMMA ParamsGiveAQuery ==
    ASSUME NEW p, ParamsOK(p)
    PROVE  QueryOK(Query(p))
<1>1. /\ Query(p).page = Param(p, "page", 1)
      /\ Query(p).page_size = Param(p, "page_size", PageSize)
      /\ Query(p).sort = Param(p, "sort", Rising("relevance"))[1]
      BY DEF Query
<1>2. Param(p, "page", 1) \in Nat \ {0} BY DEF ParamsOK, Param
<1>3. Param(p, "page_size", PageSize) \in Nat \ {0} BY WorkbenchAssumption DEF ParamsOK, Param
<1>4. Param(p, "sort", Rising("relevance"))[1] \in Sorts
  <2>1. Rising("relevance")[1] = "relevance" BY DEF Rising
  <2>. QED BY <2>1 DEF ParamsOK, Param, Sorts
<1>. QED BY <1>1, <1>2, <1>3, <1>4 DEF QueryOK

LEMMA ListIsAnIndex ==
    ASSUME IndexKept, NEW p
    PROVE  /\ Index(All(p)) /\ \A r \in All(p) : Columned(r)
           /\ Index(Matched(viewer, rows, Query(p)))
           /\ Total(p) \in Nat /\ Total(p) <= Cardinality(archive)
<1>1. All(p) \subseteq Matched(viewer, rows, Query(p)) /\ Matched(viewer, rows, Query(p)) \subseteq rows
      BY DEF All, Found, ApplyFilters, Matched, ApplyText, Scoped
<1>2. Index(rows) /\ Cardinality(rows) <= Cardinality(archive) /\ Cardinality(archive) \in Nat
      BY IndexOfRows
<1>3. IsFiniteSet(All(p)) /\ Cardinality(All(p)) <= Cardinality(rows)
      BY <1>1, <1>2, FS_Subset DEF Index
<1>4. Total(p) \in Nat /\ Cardinality(rows) \in Nat
      BY <1>2, <1>3, FS_CardinalityType DEF Total, Index
<1>. QED BY <1>1, <1>2, <1>3, <1>4, IndexOfRows, PartsOfAnIndex DEF Total

(* As many ulids as rows.                                                  *)
LEMMA UlidsCount ==
    ASSUME NEW S, Index(S)
    PROVE  /\ IsFiniteSet({r.ulid : r \in S})
           /\ Cardinality({r.ulid : r \in S}) = Cardinality(S)
<1>. DEFINE f == [r \in S |-> r.ulid]
<1>1. f \in Bijection(S, {r.ulid : r \in S})
      BY DEF Index, Bijection, Injection, Surjection, IsInjective
<1>. HIDE DEF f
<1>2. IsFiniteSet(S) BY DEF Index
<1>. QED BY <1>1, <1>2, FS_Bijection DEF ExistsBijection

LEMMA ShownFills ==
    ASSUME IndexKept, NEW p, ParamsOK(p)
    PROVE  /\ IsFiniteSet(Shown(p))
           /\ Cardinality(Shown(p)) = InSlice(Total(p), StartOf(Query(p)), Query(p).page_size)
<1>. DEFINE page == PageOf(All(p), Query(p).text, Query(p))
<1>1. /\ Index(All(p)) /\ QueryOK(Query(p))
      /\ Cardinality(page) = InSlice(Total(p), StartOf(Query(p)), Query(p).page_size)
      BY ListIsAnIndex, ParamsGiveAQuery, PageFills DEF Total
<1>2. Index(page) BY <1>1, PartsOfAnIndex DEF PageOf
<1>. HIDE DEF page
<1>3. IsFiniteSet({r.ulid : r \in page}) /\ Cardinality({r.ulid : r \in page}) = Cardinality(page)
      BY <1>2, UlidsCount
<1>. QED BY <1>1, <1>3 DEF Shown, page

(***************************************************************************)
(* A list keeps what a link said of it.                                    *)
(***************************************************************************)
Keeps(p, said) ==
    /\ said.least <= Total(p) /\ Total(p) <= said.most
    /\ said.has \subseteq {r.ulid : r \in All(p)}
    /\ said.shows \subseteq Shown(p)
    /\ said.hides \intersect Shown(p) = {}
    /\ Cardinality(Shown(p)) >= said.fills

LEMMA FirstPageFills ==
    ASSUME IndexKept, NEW p, ParamsOK(p), "page" \notin DOMAIN p
    PROVE  /\ Cardinality(Shown(p)) = Lesser(Query(p).page_size, Total(p))
           /\ Cardinality(Shown(p)) >= Lesser(Total(p), 1)
           /\ Query(p).page_size \in Nat \ {0}
<1>1. StartOf(Query(p)) = 0 /\ Query(p).page_size \in Nat \ {0}
  <2>1. Query(p).page = 1 BY DEF Query, Param
  <2>2. Query(p).page_size \in Nat \ {0} BY ParamsGiveAQuery DEF QueryOK
  <2>3. \A n \in Nat : 0 * n = 0 OBVIOUS
  <2>. QED BY <2>1, <2>2, <2>3 DEF StartOf
<1>2. Total(p) \in Nat BY ListIsAnIndex
<1>3. Cardinality(Shown(p)) = InSlice(Total(p), 0, Query(p).page_size) BY <1>1, ShownFills
<1>. QED BY <1>1, <1>2, <1>3 DEF InSlice, Lesser

LEMMA SaidOf ==
    ASSUME NEW n
    PROVE  /\ Anything = [least |-> 0, most |-> Cardinality(archive), has |-> {}, shows |-> {},
                          hides |-> {}, fills |-> 0]
           /\ AtLeast(n) = [least |-> n, most |-> Cardinality(archive), has |-> {}, shows |-> {},
                            hides |-> {}, fills |-> Lesser(n, 1)]
           /\ AtMost(n) = [least |-> 0, most |-> n, has |-> {}, shows |-> {}, hides |-> {},
                           fills |-> 0]
           /\ Exactly(n) = [least |-> n, most |-> n, has |-> {}, shows |-> {}, hides |-> {},
                            fills |-> Lesser(n, 1)]
           /\ Having(n) = [least |-> 1, most |-> Cardinality(archive), has |-> {n}, shows |-> {},
                           hides |-> {}, fills |-> 1]
<1>. DEFINE most == Cardinality(archive)
            Said(least, fills) == [least |-> least, most |-> most, has |-> {}, shows |-> {},
                                   hides |-> {}, fills |-> fills]
<1>0. Anything = Said(0, 0) BY DEF Anything
<1>. HIDE DEF most
<1>a. \A x : AtLeast(x) = Said(x, Lesser(x, 1))
  <2>. SUFFICES ASSUME NEW x PROVE AtLeast(x) = Said(x, Lesser(x, 1)) OBVIOUS
  <2>1. AtLeast(x) = [Said(0, 0) EXCEPT !.least = x, !.fills = Lesser(x, 1)] BY <1>0 DEF AtLeast
  <2>. DEFINE fills == Lesser(x, 1)
  <2>. HIDE DEF fills
  <2>2. [Said(0, 0) EXCEPT !.least = x] = Said(x, 0) OBVIOUS
  <2>3. [Said(x, 0) EXCEPT !.fills = fills] = Said(x, fills) OBVIOUS
  <2>. HIDE DEF Said
  <2>. QED BY <2>1, <2>2, <2>3 DEF fills
<1>1. AtLeast(n) = [least |-> n, most |-> Cardinality(archive), has |-> {}, shows |-> {},
                    hides |-> {}, fills |-> Lesser(n, 1)]
      BY <1>a DEF most
<1>2. AtMost(n) = [least |-> 0, most |-> n, has |-> {}, shows |-> {}, hides |-> {}, fills |-> 0]
      BY DEF AtMost, Anything
<1>3. Exactly(n) = [least |-> n, most |-> n, has |-> {}, shows |-> {}, hides |-> {},
                    fills |-> Lesser(n, 1)]
      BY <1>1 DEF Exactly
<1>4. AtLeast(1) = [least |-> 1, most |-> Cardinality(archive), has |-> {}, shows |-> {},
                    hides |-> {}, fills |-> 1]
      BY <1>a DEF most, Lesser
<1>5. Having(n) = [least |-> 1, most |-> Cardinality(archive), has |-> {n}, shows |-> {},
                   hides |-> {}, fills |-> 1]
      BY <1>4 DEF Having
<1>. QED BY <1>1, <1>2, <1>3, <1>5 DEF Anything

LEMMA AnythingIsKept ==
    ASSUME IndexKept, NEW p, ParamsOK(p)
    PROVE  Keeps(p, Anything)
<1>1. Total(p) \in Nat /\ Total(p) <= Cardinality(archive) BY ListIsAnIndex
<1>2. Cardinality(Shown(p)) >= 0 BY ShownFills, FS_CardinalityType
<1>. QED BY <1>1, <1>2 DEF Anything, Keeps

LEMMA AtMostIsKept ==
    ASSUME IndexKept, NEW p, ParamsOK(p), NEW n, Total(p) <= n
    PROVE  Keeps(p, AtMost(n))
<1>1. Total(p) \in Nat BY ListIsAnIndex
<1>2. Cardinality(Shown(p)) >= 0 BY ShownFills, FS_CardinalityType
<1>. QED BY <1>1, <1>2 DEF Anything, AtMost, Keeps

LEMMA AtLeastIsKept ==
    ASSUME IndexKept, NEW p, ParamsOK(p), "page" \notin DOMAIN p, NEW n \in Nat, n <= Total(p)
    PROVE  Keeps(p, AtLeast(n))
<1>1. Total(p) \in Nat /\ Total(p) <= Cardinality(archive) BY ListIsAnIndex
<1>2. Cardinality(Shown(p)) \in Nat /\ Cardinality(Shown(p)) >= Lesser(Total(p), 1)
      BY ShownFills, FirstPageFills, FS_CardinalityType
<1>3. Cardinality(Shown(p)) >= Lesser(n, 1) BY <1>1, <1>2 DEF Lesser
<1>. DEFINE said == AtLeast(n)
<1>4. /\ said.least = n /\ said.most = Cardinality(archive) /\ said.has = {} /\ said.shows = {}
      /\ said.hides = {} /\ said.fills = Lesser(n, 1)
      BY SaidOf
<1>. HIDE DEF said
<1>. QED BY <1>1, <1>3, <1>4 DEF Keeps, said

LEMMA ExactlyIsKept ==
    ASSUME IndexKept, NEW p, ParamsOK(p), "page" \notin DOMAIN p, NEW n, n = Total(p)
    PROVE  Keeps(p, Exactly(n))
<1>1. Total(p) \in Nat BY ListIsAnIndex
<1>2. Cardinality(Shown(p)) >= Lesser(n, 1) BY FirstPageFills
<1>. DEFINE said == Exactly(n)
<1>3. /\ said.least = n /\ said.most = n /\ said.has = {} /\ said.shows = {} /\ said.hides = {}
      /\ said.fills = Lesser(n, 1)
      BY SaidOf
<1>. HIDE DEF said
<1>. QED BY <1>1, <1>2, <1>3 DEF Keeps, said

LEMMA HavingIsKept ==
    ASSUME IndexKept, NEW p, ParamsOK(p), "page" \notin DOMAIN p, NEW r \in All(p)
    PROVE  /\ Keeps(p, Having(r.ulid))
           /\ \A n : Total(p) <= n => Keeps(p, [Having(r.ulid) EXCEPT !.most = n])
<1>1. Total(p) \in Nat /\ Total(p) >= 1 /\ Total(p) <= Cardinality(archive)
  <2>1. Total(p) \in Nat /\ Total(p) <= Cardinality(archive) BY ListIsAnIndex
  <2>2. Total(p) # 0 BY ListIsAnIndex, FS_EmptySet DEF Total, Index
  <2>. QED BY <2>1, <2>2
<1>2. Cardinality(Shown(p)) \in Nat /\ Cardinality(Shown(p)) >= 1
      BY <1>1, ShownFills, FirstPageFills, FS_CardinalityType DEF Lesser
<1>3. {r.ulid} \subseteq {o.ulid : o \in All(p)} OBVIOUS
<1>. DEFINE Said(n) == [least |-> 1, most |-> n, has |-> {r.ulid}, shows |-> {}, hides |-> {},
                        fills |-> 1]
<1>4. \A n : Total(p) <= n => Keeps(p, Said(n)) BY <1>1, <1>2, <1>3 DEF Keeps
<1>5. Having(r.ulid) = Said(Cardinality(archive)) BY SaidOf
<1>6. \A n : [Having(r.ulid) EXCEPT !.most = n] = Said(n) BY <1>5
<1>. HIDE DEF Said
<1>. QED BY <1>1, <1>4, <1>5, <1>6

(* The links that keep the list.                                           *)
LEMMA SameCountIsKept ==
    ASSUME IndexKept, NEW p, ParamsOK(p), "page" \notin DOMAIN p, All(p) = All(params)
    PROVE  Keeps(p, SameCount)
<1>1. Total(p) = Total(params) BY DEF Total
<1>. HIDE DEF Total
<1>. QED BY <1>1, ExactlyIsKept DEF SameCount

-----------------------------------------------------------------------------
(***************************************************************************)
(* What a link does to the query string, and what that does to the list    *)
(***************************************************************************)
LEMMA WithOne ==
    ASSUME NEW p, NEW key, NEW value, NEW k
    PROVE  LET q == WithParam(p, key, value) IN
           /\ k \in DOMAIN q <=> k = key \/ (k \in DOMAIN p /\ k \notin Nested(key) /\ k # "page")
           /\ k \in DOMAIN q => q[k] = IF k = key THEN value ELSE p[k]
BY DEF WithParam, Setting, Changing, Restrict

LEMMA WithoutOne ==
    ASSUME NEW p, NEW key
    PROVE  LET q == WithoutParam(p, key) IN
           /\ DOMAIN q = DOMAIN p \ (Nested(key) \union {"page"})
           /\ \A k \in DOMAIN q : q[k] = p[k]
BY Restricted DEF WithoutParam, Changing

LEMMA FormKeeps ==
    ASSUME NEW p
    PROVE  LET q == FormFilters(p) IN
           /\ DOMAIN q = DOMAIN p \intersect (FilterParams \union {"sort", "view", "page_size"})
           /\ \A k \in DOMAIN q : q[k] = p[k]
BY Restricted DEF FormFilters

(* A query string whose params are some of another's, one of which may     *)
(* have a new value, is one too.                                           *)
LEMMA StaysAQuery ==
    ASSUME NEW p, ParamsOK(p), NEW q, NEW key,
           \A k \in DOMAIN q \ {key} : k \in DOMAIN p /\ q[k] = p[k],
           key \notin DOMAIN q \/ key \notin {"page", "page_size", "sort"}
    PROVE  ParamsOK(q)
<1>1. "page" \in DOMAIN q => "page" \in DOMAIN p /\ q["page"] = p["page"] OBVIOUS
<1>2. "page_size" \in DOMAIN q => "page_size" \in DOMAIN p /\ q["page_size"] = p["page_size"] OBVIOUS
<1>3. "sort" \in DOMAIN q => "sort" \in DOMAIN p /\ q["sort"] = p["sort"] OBVIOUS
<1>4. "page" \in DOMAIN q => q["page"] \in Nat \ {0} BY <1>1 DEF ParamsOK
<1>5. "page_size" \in DOMAIN q => q["page_size"] \in PageSizes BY <1>2 DEF ParamsOK
<1>6. "sort" \in DOMAIN q => q["sort"][1] \in Sorts BY <1>3 DEF ParamsOK
<1>. QED BY <1>4, <1>5, <1>6 DEF ParamsOK

(* The text of the query.                                                  *)
TextOf(p) == Param(p, "q", Blank)

LEMMA ListOf ==
    ASSUME NEW p
    PROVE  /\ Query(p).text = TextOf(p) /\ Query(p).filters = Filters(p) /\ ~Query(p).deleted
           /\ Matched(viewer, rows, Query(p)) = ApplyText(viewer, Scoped(viewer, rows, FALSE), TextOf(p))
           /\ All(p) = ApplyFilters(Matched(viewer, rows, Query(p)), Filters(p))
           /\ DOMAIN Filters(p) \subseteq FilterParams
<1>1. Query(p).text = TextOf(p) /\ Query(p).filters = Filters(p) /\ Query(p).deleted = FALSE
      BY DEF Query, TextOf
<1>2. DOMAIN Filters(p) \subseteq FilterParams BY Restricted DEF Filters
<1>. QED BY <1>1, <1>2 DEF All, Found, Matched

(* With fewer filters a list has all it had.                               *)
LEMMA FewerFindMore ==
    ASSUME IndexKept, NEW p, NEW q, TextOf(q) = TextOf(p),
           \A k \in DOMAIN Filters(q) : k \in DOMAIN Filters(p) /\ Filters(q)[k] = Filters(p)[k]
    PROVE  All(p) \subseteq All(q) /\ Total(p) <= Total(q)
<1>1. Matched(viewer, rows, Query(q)) = Matched(viewer, rows, Query(p)) BY ListOf
<1>2. All(p) \subseteq All(q) BY <1>1, ListOf DEF ApplyFilters
<1>3. IsFiniteSet(All(q)) BY ListIsAnIndex DEF Index
<1>. QED BY <1>2, <1>3, FS_Subset DEF Total

LEMMA SameFiltersFindTheSame ==
    ASSUME NEW p, NEW q, TextOf(q) = TextOf(p), Filters(q) = Filters(p)
    PROVE  All(q) = All(p)
BY ListOf

(* The filters behind a link that sets one or takes one off.               *)
InForce(p, k) == k \in DOMAIN p /\ k \in FilterParams /\ (k = "decade" => p[k] # Malformed)

LEMMA FiltersIs ==
    ASSUME NEW p
    PROVE  \A k : /\ k \in DOMAIN Filters(p) <=> InForce(p, k)
                  /\ k \in DOMAIN Filters(p) => Filters(p)[k] = p[k]
BY Restricted DEF Filters, InForce

LEMMA SettingOne ==
    ASSUME NEW p, NEW key \in FilterParams, NEW value, key = "decade" => value # Malformed, NEW k
    PROVE  LET q == WithParam(p, key, value) IN
           /\ k \in DOMAIN Filters(q) <=> k = key \/ (k \in DOMAIN Filters(p) /\ k \notin Nested(key))
           /\ k \in DOMAIN Filters(q) => Filters(q)[k] = IF k = key THEN value ELSE Filters(p)[k]
<1>. DEFINE q == WithParam(p, key, value)
<1>1. /\ k \in DOMAIN q <=> k = key \/ (k \in DOMAIN p /\ k \notin Nested(key) /\ k # "page")
      /\ k \in DOMAIN q => q[k] = IF k = key THEN value ELSE p[k]
      BY WithOne
<1>2. "page" \notin FilterParams BY DEF FilterParams
<1>. HIDE DEF q
<1>3. /\ k \in DOMAIN Filters(q) <=> InForce(q, k)
      /\ k \in DOMAIN Filters(q) => Filters(q)[k] = q[k]
      BY FiltersIs
<1>4. /\ k \in DOMAIN Filters(p) <=> InForce(p, k)
      /\ k \in DOMAIN Filters(p) => Filters(p)[k] = p[k]
      BY FiltersIs
<1>5. CASE k = key BY <1>1, <1>3, <1>5 DEF InForce, q
<1>6. CASE k # key
  <2>1. k \in DOMAIN Filters(q) <=> k \in DOMAIN Filters(p) /\ k \notin Nested(key)
        BY <1>1, <1>2, <1>3, <1>4, <1>6 DEF InForce
  <2>2. k \in DOMAIN Filters(q) => Filters(q)[k] = Filters(p)[k]
        BY <1>1, <1>3, <1>4, <1>6, <2>1 DEF InForce
  <2>. QED BY <1>6, <2>1, <2>2 DEF q
<1>. QED BY <1>5, <1>6

LEMMA SettingKeepsTheText ==
    ASSUME NEW p, NEW key, NEW value, key # "q"
    PROVE  TextOf(WithParam(p, key, value)) = TextOf(p)
<1>1. "q" \notin Nested(key) BY DEF Nested
<1>2. LET q == WithParam(p, key, value) IN
      /\ "q" \in DOMAIN q <=> "q" \in DOMAIN p
      /\ "q" \in DOMAIN q => q["q"] = p["q"]
      BY <1>1, WithOne
<1>. QED BY <1>2 DEF TextOf, Param

LEMMA TakingOneOff ==
    ASSUME NEW p, NEW key, key # "q"
    PROVE  LET q == WithoutParam(p, key) IN
           /\ \A k \in DOMAIN Filters(q) : k \in DOMAIN Filters(p) /\ Filters(q)[k] = Filters(p)[k]
           /\ TextOf(q) = TextOf(p)
           /\ "page" \notin DOMAIN q
           /\ ParamsOK(p) => ParamsOK(q)
<1>. DEFINE q == WithoutParam(p, key)
<1>1. /\ DOMAIN q = DOMAIN p \ (Nested(key) \union {"page"})
      /\ \A k \in DOMAIN q : q[k] = p[k]
      BY WithoutOne
<1>2. "q" \notin Nested(key) BY DEF Nested
<1>. HIDE DEF q
<1>3. TextOf(q) = TextOf(p) BY <1>1, <1>2 DEF TextOf, Param
<1>4. ASSUME NEW k \in DOMAIN Filters(q)
      PROVE  k \in DOMAIN Filters(p) /\ Filters(q)[k] = Filters(p)[k]
  <2>1. InForce(q, k) /\ Filters(q)[k] = q[k] BY FiltersIs
  <2>2. k \in DOMAIN p /\ q[k] = p[k] BY <1>1, <2>1 DEF InForce
  <2>3. InForce(p, k) BY <2>1, <2>2 DEF InForce
  <2>4. k \in DOMAIN Filters(p) BY <2>3, FiltersIs
  <2>5. Filters(p)[k] = p[k] BY <2>4, FiltersIs
  <2>. QED BY <2>1, <2>2, <2>4, <2>5
<1>5. ParamsOK(p) => ParamsOK(q) BY <1>1, StaysAQuery
<1>. QED BY <1>1, <1>3, <1>4, <1>5 DEF q

LEMMA WithStaysAQuery ==
    ASSUME NEW p, ParamsOK(p), NEW key, NEW value, key \notin {"page", "page_size", "sort"}
    PROVE  ParamsOK(WithParam(p, key, value)) /\ "page" \notin DOMAIN WithParam(p, key, value)
<1>. DEFINE q == WithParam(p, key, value)
<1>1. ASSUME NEW k \in DOMAIN q \ {key} PROVE k \in DOMAIN p /\ q[k] = p[k]
      BY <1>1, WithOne
<1>2. "page" \notin DOMAIN q BY WithOne
<1>. HIDE DEF q
<1>. QED BY <1>1, <1>2, StaysAQuery DEF q

LEMMA SettingFinds ==
    ASSUME NEW p, NEW key \in FilterParams, NEW value, key = "decade" => value # Malformed
    PROVE  All(WithParam(p, key, value))
              = {r \in ApplyFilters(Matched(viewer, rows, Query(p)), Without(Filters(p), key)) :
                    Admits(r, key, value)}
<1>. DEFINE q == WithParam(p, key, value)
            M == Matched(viewer, rows, Query(p))
            kept == DOMAIN Filters(p) \ Nested(key)
<1>1. /\ \A k : k \in DOMAIN Filters(q) <=> k = key \/ k \in kept
      /\ \A k \in DOMAIN Filters(q) : Filters(q)[k] = IF k = key THEN value ELSE Filters(p)[k]
      BY SettingOne
<1>2. key \notin kept BY DEF Nested
<1>3. DOMAIN Without(Filters(p), key) = kept /\ \A k \in kept : Without(Filters(p), key)[k] = Filters(p)[k]
      BY Restricted DEF Without
<1>4. All(q) = ApplyFilters(M, Filters(q))
  <2>1. key # "q" BY DEF FilterParams
  <2>2. TextOf(q) = TextOf(p) BY <2>1, SettingKeepsTheText
  <2>. QED BY <2>2, ListOf
<1>. HIDE DEF q, M, kept
<1>5. ASSUME NEW r
      PROVE  (\A k \in DOMAIN Filters(q) : Admits(r, k, Filters(q)[k]))
                <=> /\ \A k \in kept : Admits(r, k, Without(Filters(p), key)[k])
                    /\ Admits(r, key, value)
      BY <1>1, <1>2, <1>3
<1>. QED BY <1>3, <1>4, <1>5 DEF ApplyFilters, q, M

(* A facet that names no value of a row twice counts rows.                 *)
LEMMA FacetCountsRows ==
    ASSUME NEW M, Index(M), NEW filters, NEW key, key # "tag",
           NEW value \in DOMAIN Facet(M, filters, key)
    PROVE  Facet(M, filters, key)[value]
              = Cardinality({r \in ApplyFilters(M, Without(filters, key)) : value \in Carried(r, key)})
<1>. DEFINE N == ApplyFilters(M, Without(filters, key))
            T == {o \in N : value \in Carried(o, key)}
            Namings == UNION {{r.ulid} \X (1..Times(r, key, value)) : r \in T}
            f == [r \in T |-> <<r.ulid, 1>>]
<1>1. value \in UNION {Carried(r, key) : r \in N} /\ Facet(M, filters, key)[value] = Cardinality(Namings)
      BY DEF Facet
<1>2. Index(T) BY PartsOfAnIndex DEF ApplyFilters
<1>. HIDE DEF T
<1>3. Namings = {<<r.ulid, 1>> : r \in T}
  <2>1. \A r : Times(r, key, value) = 1 BY DEF Times
  <2>2. 1..1 = {1} OBVIOUS
  <2>3. \A r : {r.ulid} \X (1..Times(r, key, value)) = {<<r.ulid, 1>>} BY <2>1, <2>2
  <2>. QED BY <2>3
<1>4. f \in Bijection(T, {<<r.ulid, 1>> : r \in T})
  <2>1. f \in [T -> {<<r.ulid, 1>> : r \in T}] OBVIOUS
  <2>2. \A r, o \in T : f[r] = f[o] => r = o BY <1>2 DEF Index
  <2>3. \A y \in {<<r.ulid, 1>> : r \in T} : \E r \in T : f[r] = y OBVIOUS
  <2>. HIDE DEF f
  <2>. QED BY <2>1, <2>2, <2>3 DEF Bijection, Injection, Surjection, IsInjective
<1>. HIDE DEF f, Namings
<1>5. Cardinality(Namings) = Cardinality(T) BY <1>2, <1>3, <1>4, FS_Bijection DEF ExistsBijection, Index
<1>. QED BY <1>1, <1>5 DEF T

(* The Schlagworte are counted at least as often as there are rows, and    *)
(* there is one.                                                           *)
LEMMA NamingsCoverRows ==
    ASSUME NEW M, Index(M), \A r \in M : Columned(r), NEW filters,
           NEW value \in DOMAIN Facet(M, filters, "tag")
    PROVE  LET T == {r \in ApplyFilters(M, Without(filters, "tag")) : value \in Carried(r, "tag")} IN
           /\ Cardinality(T) <= Facet(M, filters, "tag")[value]
           /\ Cardinality(T) >= 1
<1>. DEFINE N == ApplyFilters(M, Without(filters, "tag"))
            T == {o \in N : value \in Carried(o, "tag")}
            Named(r) == {r.ulid} \X (1..Times(r, "tag", value))
            Namings == UNION {Named(r) : r \in T}
            f == [r \in T |-> <<r.ulid, 1>>]
<1>1. value \in UNION {Carried(r, "tag") : r \in N} /\ Facet(M, filters, "tag")[value] = Cardinality(Namings)
      BY DEF Facet
<1>2. Index(T) /\ T \subseteq M BY PartsOfAnIndex DEF ApplyFilters
<1>3. T # {} BY <1>1
<1>4. ASSUME NEW r \in T PROVE Times(r, "tag", value) \in Nat \ {0}
  <2>1. value \in DOMAIN r.tags BY DEF Carried
  <2>. QED BY <1>2, <2>1 DEF Columned, Times
<1>. HIDE DEF T
<1>5. IsFiniteSet(Namings)
  <2>1. ASSUME NEW r \in T PROVE IsFiniteSet(Named(r))
    <3>1. IsFiniteSet(1..Times(r, "tag", value)) BY <1>4, FS_Interval
    <3>. QED BY <3>1, FS_Singleton, FS_Product
  <2>. DEFINE g == [r \in T |-> Named(r)]
  <2>2. g \in Surjection(T, {Named(r) : r \in T}) BY DEF Surjection
  <2>. HIDE DEF g, Named
  <2>3. IsFiniteSet({Named(r) : r \in T}) BY <1>2, <2>2, FS_Surjection DEF Index
  <2>. QED BY <2>1, <2>3, FS_UNION
<1>6. f \in Injection(T, Namings)
  <2>1. ASSUME NEW r \in T PROVE <<r.ulid, 1>> \in Namings
    <3>1. 1 \in 1..Times(r, "tag", value) BY <1>4
    <3>2. <<r.ulid, 1>> \in Named(r) BY <3>1
    <3>. QED BY <3>2
  <2>. HIDE DEF Namings
  <2>2. f \in [T -> Namings] BY <2>1
  <2>3. \A r, o \in T : f[r] = f[o] => r = o BY <1>2 DEF Index
  <2>. HIDE DEF f
  <2>. QED BY <2>2, <2>3 DEF Injection, IsInjective
<1>. HIDE DEF f, Namings
<1>7. Cardinality(T) <= Cardinality(Namings) BY <1>5, <1>6, FS_Injection
<1>8. Cardinality(T) \in Nat /\ Cardinality(T) # 0
      BY <1>2, <1>3, FS_CardinalityType, FS_EmptySet DEF Index
<1>. QED BY <1>1, <1>7, <1>8 DEF T

-----------------------------------------------------------------------------
(***************************************************************************)
(* Link by link                                                            *)
(***************************************************************************)
PromiseParts == {"least", "most", "has", "shows", "hides", "fills"}

(* A link that leads to a query string, of whose list it says what is so.  *)
Honest(to, said) == ParamsOK(to) /\ Keeps(to, said) /\ DOMAIN said = PromiseParts

LEMMA SaidInParts ==
    ASSUME NEW n, NEW m
    PROVE  /\ DOMAIN Anything = PromiseParts /\ DOMAIN AtLeast(n) = PromiseParts
           /\ DOMAIN AtMost(n) = PromiseParts /\ DOMAIN Exactly(n) = PromiseParts
           /\ DOMAIN Having(n) = PromiseParts
           /\ DOMAIN [Having(n) EXCEPT !.most = m] = PromiseParts
BY SaidOf DEF PromiseParts

LEMMA OpenedAsSaid ==
    ASSUME NEW to, NEW said, Honest(to, said), Open(to, said)
    PROVE  ParamsOK(params)' /\ PromiseKept' /\ (DOMAIN promise = PromiseParts)'
<1>1. params' = to /\ promise' = said /\ rows' = rows /\ viewer' = viewer BY DEF Open
<1>2. ParamsOK(params)' /\ (DOMAIN promise = PromiseParts)' BY <1>1 DEF Honest, ParamsOK
<1>3. PromiseKept'
      BY <1>1 DEF Honest, Keeps, PromiseKept, Total, All, Shown
<1>. QED BY <1>2, <1>3

(* The removal of a filter loses nothing.                                  *)
LEMMA RemovalIsHonest ==
    ASSUME IndexKept, NEW p, ParamsOK(p), NEW key, key # "q"
    PROVE  Honest(WithoutParam(p, key), AtLeast(Total(p)))
<1>. DEFINE q == WithoutParam(p, key)
<1>1. /\ \A k \in DOMAIN Filters(q) : k \in DOMAIN Filters(p) /\ Filters(q)[k] = Filters(p)[k]
      /\ TextOf(q) = TextOf(p)
      /\ "page" \notin DOMAIN q
      /\ ParamsOK(q)
      BY TakingOneOff
<1>. HIDE DEF q
<1>2. Total(p) <= Total(q) BY <1>1, FewerFindMore
<1>3. Total(p) \in Nat BY ListIsAnIndex
<1>. QED BY <1>1, <1>2, <1>3, AtLeastIsKept, SaidInParts DEF Honest, q

(* The count beside a value is that of the list it opens.                  *)
LEMMA CountIsHonest ==
    ASSUME IndexKept, NEW p, ParamsOK(p),
           NEW key \in {"collection", "decade", "media_type", "document_type", "file", "creator", "place"},
           NEW value \in DOMAIN Counts(p, key)
    PROVE  Honest(WithParam(p, key, value), Exactly(Counts(p, key)[value]))
<1>. DEFINE q == WithParam(p, key, value)
            M == Matched(viewer, rows, Query(p))
            N == ApplyFilters(M, Without(Filters(p), key))
<1>1. Index(M) /\ M \subseteq rows BY ListIsAnIndex DEF Matched, ApplyText, Scoped
<1>2. Counts(p, key) = Facet(M, Filters(p), key) BY DEF Counts
<1>3. key = "decade" => value # Malformed
  <2>1. value \in UNION {Carried(r, key) : r \in N} BY <1>2 DEF Facet
  <2>2. PICK r \in N : value \in Carried(r, key) BY <2>1
  <2>3. Columned(r) BY <1>1, IndexOfRows DEF ApplyFilters
  <2>. QED BY <2>2, <2>3 DEF Carried, Columned
<1>4. key \in FilterParams /\ key # "tag" BY DEF FilterParams
<1>5. All(q) = {r \in N : Admits(r, key, value)} BY <1>3, <1>4, SettingFinds
<1>6. \A r : Admits(r, key, value) <=> value \in Carried(r, key) BY DEF Admits
<1>7. Counts(p, key)[value] = Cardinality({r \in N : value \in Carried(r, key)})
      BY <1>1, <1>2, <1>4, FacetCountsRows
<1>8. ParamsOK(q) /\ "page" \notin DOMAIN q BY WithStaysAQuery
<1>. HIDE DEF q, M, N
<1>9. Counts(p, key)[value] = Total(q) BY <1>5, <1>6, <1>7 DEF Total
<1>. QED BY <1>8, <1>9, ExactlyIsKept, SaidInParts DEF Honest, q

(* One more filter finds no more.                                          *)
LEMMA OneMoreFindsNoMore ==
    ASSUME IndexKept, NEW p, NEW key \in FilterParams \ {"media_type", "decade"}, key \notin DOMAIN p,
           NEW value
    PROVE  Total(WithParam(p, key, value)) <= Total(p)
<1>. DEFINE q == WithParam(p, key, value)
<1>1. TextOf(q) = TextOf(p)
  <2>1. key # "q" BY DEF FilterParams
  <2>. QED BY <2>1, SettingKeepsTheText
<1>2. ASSUME NEW k \in DOMAIN Filters(p)
      PROVE  k \in DOMAIN Filters(q) /\ Filters(q)[k] = Filters(p)[k]
  <2>1. k # key BY FiltersIs DEF InForce
  <2>2. k \notin Nested(key) BY <2>1 DEF Nested
  <2>. QED BY <2>1, <2>2, SettingOne
<1>. HIDE DEF q
<1>3. Total(q) <= Total(p) BY <1>1, <1>2, FewerFindMore
<1>. QED BY <1>3 DEF q

LEMMA PickValueIsHonest ==
    ASSUME IndexKept, ParamsOK(params), PickValue
    PROVE  \E to, said : Honest(to, said) /\ Open(to, said)
<1>1. PICK key \in Menus(Filters(params)) \union {"file"} :
          \E value \in DOMAIN Counts(params, key) :
              IF key \in DOMAIN params /\ value = params[key]
              THEN Open(WithoutParam(params, key), AtLeast(Total(params)))
              ELSE Open(WithParam(params, key, value), Exactly(Counts(params, key)[value]))
      BY DEF PickValue
<1>2. PICK value \in DOMAIN Counts(params, key) :
          IF key \in DOMAIN params /\ value = params[key]
          THEN Open(WithoutParam(params, key), AtLeast(Total(params)))
          ELSE Open(WithParam(params, key, value), Exactly(Counts(params, key)[value]))
      BY <1>1
<1>3. key \in {"collection", "decade", "media_type", "document_type", "file", "creator", "place"}
      BY DEF Menus
<1>4. key # "q" BY <1>3
<1>5. Honest(WithoutParam(params, key), AtLeast(Total(params))) BY <1>4, RemovalIsHonest
<1>6. Honest(WithParam(params, key, value), Exactly(Counts(params, key)[value])) BY <1>3, CountIsHonest
<1>. QED BY <1>2, <1>5, <1>6

LEMMA RemoveFilterIsHonest ==
    ASSUME IndexKept, ParamsOK(params), RemoveFilter
    PROVE  \E to, said : Honest(to, said) /\ Open(to, said)
<1>1. PICK key \in SetParams(Filters(params)) : Open(WithoutParam(params, key), AtLeast(Total(params)))
      BY DEF RemoveFilter, Removals
<1>2. key # "q"
  <2>1. key \in FilterParams BY ListOf DEF SetParams
  <2>. QED BY <2>1 DEF FilterParams
<1>. QED BY <1>1, <1>2, RemovalIsHonest

LEMMA ToggleCheckIsHonest ==
    ASSUME IndexKept, ParamsOK(params), ToggleCheck
    PROVE  \E to, said : Honest(to, said) /\ Open(to, said)
<1>1. PICK key \in {"digital", "drafts", "templates"} :
          IF key \in DOMAIN params
          THEN Open(WithoutParam(params, key), AtLeast(Total(params)))
          ELSE Open(WithParam(params, key, "1"), AtMost(Total(params)))
      BY DEF ToggleCheck
<1>2. key \in FilterParams \ {"media_type", "decade"} /\ key \notin {"q", "page", "page_size", "sort"}
      BY DEF FilterParams
<1>3. Honest(WithoutParam(params, key), AtLeast(Total(params))) BY <1>2, RemovalIsHonest
<1>4. ASSUME key \notin DOMAIN params
      PROVE  Honest(WithParam(params, key, "1"), AtMost(Total(params)))
  <2>1. Total(WithParam(params, key, "1")) <= Total(params) BY <1>2, <1>4, OneMoreFindsNoMore
  <2>2. ParamsOK(WithParam(params, key, "1")) BY <1>2, WithStaysAQuery
  <2>. QED BY <2>1, <2>2, AtMostIsKept, SaidInParts DEF Honest
<1>. QED BY <1>1, <1>3, <1>4

(* Filters and text alike make the same list.                              *)
LEMMA AlikeFindTheSame ==
    ASSUME NEW p, NEW q,
           \A k \in FilterParams \union {"q"} :
              /\ k \in DOMAIN q <=> k \in DOMAIN p
              /\ k \in DOMAIN q => q[k] = p[k]
    PROVE  Filters(q) = Filters(p) /\ TextOf(q) = TextOf(p) /\ All(q) = All(p)
<1>1. Filters(q) = Filters(p)
  <2>1. {k \in DOMAIN q \intersect FilterParams : k = "decade" => q[k] # Malformed}
          = {k \in DOMAIN p \intersect FilterParams : k = "decade" => p[k] # Malformed}
        OBVIOUS
  <2>. QED BY <2>1 DEF Filters, Restrict
<1>2. TextOf(q) = TextOf(p)
  <2>1. /\ "q" \in DOMAIN q <=> "q" \in DOMAIN p
        /\ "q" \in DOMAIN q => q["q"] = p["q"]
        OBVIOUS
  <2>. QED BY <2>1 DEF TextOf, Param
<1>. QED BY <1>1, <1>2, SameFiltersFindTheSame

LEMMA ClearAllIsHonest ==
    ASSUME IndexKept, ParamsOK(params), ClearAll
    PROVE  \E to, said : Honest(to, said) /\ Open(to, said)
<1>. DEFINE q == ClearFilters(params)
<1>1. Open(q, AtLeast(Total(params))) BY DEF ClearAll
<1>2. /\ DOMAIN q = DOMAIN params \ (FilterParams \union {"page"})
      /\ \A k \in DOMAIN q : q[k] = params[k]
      BY Restricted DEF ClearFilters
<1>. HIDE DEF q
<1>3. "q" \notin FilterParams BY DEF FilterParams
<1>4. TextOf(q) = TextOf(params) BY <1>2, <1>3 DEF TextOf, Param
<1>5. DOMAIN Filters(q) = {} BY <1>2, FiltersIs DEF InForce
<1>6. Total(params) <= Total(q) BY <1>4, <1>5, FewerFindMore
<1>7. ParamsOK(q) /\ "page" \notin DOMAIN q
  <2>1. "page" \notin DOMAIN q BY <1>2
  <2>. QED BY <1>2, <2>1, StaysAQuery
<1>8. Total(params) \in Nat BY ListIsAnIndex
<1>9. Honest(q, AtLeast(Total(params))) BY <1>6, <1>7, <1>8, AtLeastIsKept, SaidInParts DEF Honest
<1>. QED BY <1>1, <1>9

(* Another order keeps the list and starts it anew.                        *)
LEMMA OrderIsHonest ==
    ASSUME IndexKept, ParamsOK(params), NEW value, value[1] \in Sorts
    PROVE  /\ Honest(WithParam(params, "sort", value), SameCount)
           /\ Honest(WithoutParam(params, "sort"), SameCount)
<1>. DEFINE q == WithParam(params, "sort", value)
            o == WithoutParam(params, "sort")
<1>1. "sort" \notin FilterParams \union {"q"} /\ "page" \notin FilterParams \union {"q"} BY DEF FilterParams
<1>2. Nested("sort") = {"sort"} BY DEF Nested
<1>3. ASSUME NEW k
      PROVE  /\ k \in DOMAIN q <=> k = "sort" \/ (k \in DOMAIN params /\ k # "page")
             /\ k \in DOMAIN q => q[k] = IF k = "sort" THEN value ELSE params[k]
      BY <1>2, WithOne
<1>4. /\ DOMAIN o = DOMAIN params \ {"sort", "page"}
      /\ \A k \in DOMAIN o : o[k] = params[k]
      BY <1>2, WithoutOne
<1>. HIDE DEF q, o
<1>5. All(q) = All(params) BY <1>1, <1>3, AlikeFindTheSame
<1>6. All(o) = All(params) BY <1>1, <1>4, AlikeFindTheSame
<1>7. ParamsOK(q) /\ "page" \notin DOMAIN q
  <2>1. "page" \notin DOMAIN q BY <1>3
  <2>2. "page_size" \in DOMAIN q => q["page_size"] \in PageSizes BY <1>3 DEF ParamsOK
  <2>3. q["sort"] = value BY <1>3
  <2>. QED BY <2>1, <2>2, <2>3 DEF ParamsOK
<1>8. ParamsOK(o) /\ "page" \notin DOMAIN o BY <1>4, StaysAQuery
<1>9. DOMAIN SameCount = PromiseParts BY SaidInParts DEF SameCount
<1>. QED BY <1>5, <1>6, <1>7, <1>8, <1>9, SameCountIsKept DEF Honest, q, o

LEMMA SortByHeadIsHonest ==
    ASSUME IndexKept, ParamsOK(params), SortByHead
    PROVE  \E to, said : Honest(to, said) /\ Open(to, said)
<1>1. PICK head \in {"title", "date", "ref_code"} :
          LET now == Query(params) IN
          Open(CASE now.sort # head -> WithParam(params, "sort", Rising(head))
                 [] now.sort = head /\ ~now.descending -> WithParam(params, "sort", Falling(head))
                 [] now.sort = head /\ now.descending -> WithoutParam(params, "sort"),
               SameCount)
      BY DEF SortByHead
<1>. DEFINE now == Query(params)
            to == CASE now.sort # head -> WithParam(params, "sort", Rising(head))
                    [] now.sort = head /\ ~now.descending -> WithParam(params, "sort", Falling(head))
                    [] now.sort = head /\ now.descending -> WithoutParam(params, "sort")
<1>2. \/ to = WithParam(params, "sort", Rising(head))
      \/ to = WithParam(params, "sort", Falling(head))
      \/ to = WithoutParam(params, "sort")
  <2>. HIDE DEF now
  <2>1. CASE now.sort # head BY <2>1, Zenon
  <2>2. CASE now.sort = head /\ ~now.descending BY <2>2, Zenon
  <2>3. CASE now.sort = head /\ now.descending BY <2>3, Zenon
  <2>. QED BY <2>1, <2>2, <2>3
<1>3. Open(to, SameCount) BY <1>1, Zenon
<1>. HIDE DEF to
<1>4. Rising(head)[1] \in Sorts /\ Falling(head)[1] \in Sorts BY DEF Rising, Falling, Sorts
<1>5. Honest(to, SameCount) BY <1>2, <1>4, OrderIsHonest
<1>. QED BY <1>3, <1>5

LEMMA DropOrderIsHonest ==
    ASSUME IndexKept, ParamsOK(params), DropOrder
    PROVE  \E to, said : Honest(to, said) /\ Open(to, said)
<1>1. Open(WithoutParam(params, "sort"), SameCount) BY DEF DropOrder
<1>2. Rising("title")[1] \in Sorts BY DEF Rising, Sorts
<1>. QED BY <1>1, <1>2, OrderIsHonest

(* What pages and views keep is the list, and what they say of the page.   *)
LEMMA SameListIsKept ==
    ASSUME IndexKept, NEW p, ParamsOK(p), All(p) = All(params),
           NEW shows, shows \subseteq Shown(p), NEW hides, hides \intersect Shown(p) = {},
           NEW fills, Cardinality(Shown(p)) >= fills
    PROVE  Honest(p, [least |-> Total(params), most |-> Total(params), has |-> {},
                      shows |-> shows, hides |-> hides, fills |-> fills])
<1>1. Total(p) = Total(params) /\ Total(p) \in Nat BY ListIsAnIndex DEF Total
<1>. HIDE DEF Total
<1>. QED BY <1>1 DEF Honest, Keeps, PromiseParts

LEMMA SameCountIs ==
    ASSUME NEW shows, NEW hides, NEW fills
    PROVE  LET n == Total(params) IN
           /\ [SameCount EXCEPT !.shows = shows, !.fills = fills]
                = [least |-> n, most |-> n, has |-> {}, shows |-> shows, hides |-> {}, fills |-> fills]
           /\ [SameCount EXCEPT !.hides = hides, !.fills = fills]
                = [least |-> n, most |-> n, has |-> {}, shows |-> {}, hides |-> hides, fills |-> fills]
           /\ [SameCount EXCEPT !.fills = fills]
                = [least |-> n, most |-> n, has |-> {}, shows |-> {}, hides |-> {}, fills |-> fills]
<1>. DEFINE n == Total(params)
            Said(s, h, f) == [least |-> n, most |-> n, has |-> {}, shows |-> s, hides |-> h, fills |-> f]
            f0 == Lesser(n, 1)
<1>1. SameCount = Said({}, {}, f0) BY SaidOf DEF SameCount
<1>. HIDE DEF n, f0
<1>2. [Said({}, {}, f0) EXCEPT !.shows = shows] = Said(shows, {}, f0) OBVIOUS
<1>3. [Said(shows, {}, f0) EXCEPT !.fills = fills] = Said(shows, {}, fills) OBVIOUS
<1>4. [Said({}, {}, f0) EXCEPT !.hides = hides] = Said({}, hides, f0) OBVIOUS
<1>5. [Said({}, hides, f0) EXCEPT !.fills = fills] = Said({}, hides, fills) OBVIOUS
<1>6. [Said({}, {}, f0) EXCEPT !.fills = fills] = Said({}, {}, fills) OBVIOUS
<1>. HIDE DEF Said
<1>7. [SameCount EXCEPT !.shows = shows, !.fills = fills] = Said(shows, {}, fills) BY <1>1, <1>2, <1>3
<1>8. [SameCount EXCEPT !.hides = hides, !.fills = fills] = Said({}, hides, fills) BY <1>1, <1>4, <1>5
<1>9. [SameCount EXCEPT !.fills = fills] = Said({}, {}, fills) BY <1>1, <1>6
<1>. QED BY <1>7, <1>8, <1>9 DEF n, Said

LEMMA SwitchViewIsHonest ==
    ASSUME IndexKept, ParamsOK(params), SwitchView
    PROVE  \E to, said : Honest(to, said) /\ Open(to, said)
<1>. DEFINE same == Restrict(params, DOMAIN params \ {"view"})
            q == IF Reading(params) THEN Setting("view", "table", same) ELSE same
            said == [SameCount EXCEPT !.shows = Shown(params), !.fills = Cardinality(Shown(params))]
<1>1. Open(q, said) BY DEF SwitchView
<1>2. ASSUME NEW k, k # "view"
      PROVE  /\ k \in DOMAIN q <=> k \in DOMAIN params
             /\ k \in DOMAIN q => q[k] = params[k]
  <2>1. CASE Reading(params) BY <1>2, <2>1 DEF Setting, Restrict
  <2>2. CASE ~Reading(params) BY <1>2, <2>2 DEF Restrict
  <2>. QED BY <2>1, <2>2
<1>3. "view" \notin FilterParams \union {"q", "sort", "page", "page_size"} BY DEF FilterParams
<1>. HIDE DEF q
<1>4. Filters(q) = Filters(params) /\ TextOf(q) = TextOf(params) /\ All(q) = All(params)
      BY <1>2, <1>3, AlikeFindTheSame
<1>5. ASSUME NEW k \in {"sort", "page", "page_size"}, NEW default
      PROVE  Param(q, k, default) = Param(params, k, default)
      BY <1>2, <1>3 DEF Param
<1>6. Query(q) = Query(params)
  <2>1. Param(q, "q", Blank) = Param(params, "q", Blank) BY <1>4 DEF TextOf
  <2>. QED BY <1>4, <1>5, <2>1 DEF Query
<1>7. Shown(q) = Shown(params) BY <1>4, <1>6 DEF Shown
<1>8. ParamsOK(q)
  <2>1. ASSUME NEW k \in DOMAIN q \ {"view"} PROVE k \in DOMAIN params /\ q[k] = params[k]
        BY <1>2, <2>1
  <2>. QED BY <2>1, StaysAQuery
<1>9. Cardinality(Shown(params)) \in Nat BY ShownFills, FS_CardinalityType
<1>10. Honest(q, [least |-> Total(params), most |-> Total(params), has |-> {},
                  shows |-> Shown(params), hides |-> {}, fills |-> Cardinality(Shown(params))])
       BY <1>4, <1>7, <1>8, <1>9, SameListIsKept
<1>11. Honest(q, said) BY <1>10, SameCountIs
<1>. HIDE DEF said
<1>. QED BY <1>1, <1>11

LEMMA PagingIs ==
    ASSUME NEW p, NEW key, NEW value, NEW k
    PROVE  LET q == PagingQuery(p, key, value) IN
           /\ k \in DOMAIN q <=> k = key \/ (k \in DOMAIN p /\ k # "page")
           /\ k \in DOMAIN q => q[k] = IF k = key THEN value ELSE p[k]
BY DEF PagingQuery, Setting, Restrict

(* Of the query, a page step changes the page alone.                       *)
LEMMA PageStep ==
    ASSUME ParamsOK(params), NEW n \in Nat \ {0}
    PROVE  LET q == PagingQuery(params, "page", n) IN
           /\ ParamsOK(q) /\ All(q) = All(params)
           /\ Query(q).page = n /\ Query(q).page_size = Query(params).page_size
           /\ Query(q).sort = Query(params).sort /\ Query(q).descending = Query(params).descending
           /\ Query(q).text = Query(params).text
<1>. DEFINE q == PagingQuery(params, "page", n)
<1>1. ASSUME NEW k
      PROVE  /\ k \in DOMAIN q <=> k = "page" \/ k \in DOMAIN params
             /\ k \in DOMAIN q => q[k] = IF k = "page" THEN n ELSE params[k]
      BY PagingIs
<1>. HIDE DEF q
<1>2. "page" \notin FilterParams \union {"q"} BY DEF FilterParams
<1>3. Filters(q) = Filters(params) /\ TextOf(q) = TextOf(params) /\ All(q) = All(params)
      BY <1>1, <1>2, AlikeFindTheSame
<1>4. ASSUME NEW k \in {"sort", "page_size"}, NEW default
      PROVE  Param(q, k, default) = Param(params, k, default)
      BY <1>1 DEF Param
<1>5. Param(q, "page", 1) = n BY <1>1 DEF Param
<1>6. ParamsOK(q)
  <2>1. q["page"] = n BY <1>1
  <2>2. "page_size" \in DOMAIN q => q["page_size"] \in PageSizes BY <1>1 DEF ParamsOK
  <2>3. "sort" \in DOMAIN q => q["sort"][1] \in Sorts BY <1>1 DEF ParamsOK
  <2>. QED BY <2>1, <2>2, <2>3 DEF ParamsOK
<1>. QED BY <1>3, <1>4, <1>5, <1>6 DEF Query, TextOf, q

LEMMA StepShowsOthers ==
    ASSUME IndexKept, ParamsOK(params), NEW n \in Nat \ {0},
           n = Query(params).page + 1 \/ Query(params).page = n + 1
    PROVE  Shown(params) \intersect Shown(PagingQuery(params, "page", n)) = {}
<1>. DEFINE q == PagingQuery(params, "page", n)
            A == All(params)
            t == Query(params).text
            here == PageOf(A, t, Query(params))
            there == PageOf(A, t, Query(q))
<1>1. /\ ParamsOK(q) /\ All(q) = A
      /\ Query(q).page = n /\ Query(q).page_size = Query(params).page_size
      /\ Query(q).sort = Query(params).sort /\ Query(q).descending = Query(params).descending
      /\ Query(q).text = t
      BY PageStep
<1>. HIDE DEF q
<1>2. QueryOK(Query(q)) /\ QueryOK(Query(params)) BY <1>1, ParamsGiveAQuery
<1>3. here \intersect there = {}
  <2>1. CASE n = Query(params).page + 1 BY <1>1, <1>2, <2>1, PagesApart
  <2>2. CASE Query(params).page = n + 1
    <3>1. there \intersect here = {} BY <1>1, <1>2, <2>2, PagesApart
    <3>. QED BY <3>1
  <2>. QED BY <2>1, <2>2
<1>4. Shown(params) = {r.ulid : r \in here} /\ Shown(q) = {r.ulid : r \in there}
      BY <1>1 DEF Shown
<1>5. here \subseteq A /\ there \subseteq A BY DEF PageOf
<1>6. \A r, o \in A : r.ulid = o.ulid => r = o BY ListIsAnIndex DEF Index
<1>. HIDE DEF here, there, A
<1>. QED BY <1>3, <1>4, <1>5, <1>6 DEF q

LEMMA TurnPageIsHonest ==
    ASSUME IndexKept, ParamsOK(params), TurnPage
    PROVE  \E to, said : Honest(to, said) /\ Open(to, said)
<1>. DEFINE page == Query(params).page
            size == Query(params).page_size
            total == Total(params)
            To(n) == PagingQuery(params, "page", n)
<1>1. page \in Nat \ {0} /\ size \in Nat \ {0} BY ParamsGiveAQuery DEF QueryOK
<1>2. total \in Nat BY ListIsAnIndex
<1>3. /\ Cardinality(Shown(params)) = InSlice(total, StartOf(Query(params)), size)
      /\ StartOf(Query(params)) \in Nat
      /\ StartOf(Query(params)) = (page - 1) * size
      BY ShownFills, ParamsGiveAQuery, StartIsNat DEF StartOf
<1>4. ASSUME NEW n \in Nat \ {0}
      PROVE  /\ ParamsOK(To(n)) /\ All(To(n)) = All(params)
             /\ Cardinality(Shown(To(n))) = InSlice(total, (n - 1) * size, size)
  <2>1. /\ ParamsOK(To(n)) /\ All(To(n)) = All(params)
        /\ Query(To(n)).page = n /\ Query(To(n)).page_size = size
        BY PageStep
  <2>2. Total(To(n)) = total BY <2>1 DEF Total
  <2>3. StartOf(Query(To(n))) = (n - 1) * size BY <2>1 DEF StartOf
  <2>. HIDE DEF To
  <2>. QED BY <2>1, <2>2, <2>3, ShownFills
<1>5. ASSUME NEW n \in Nat \ {0}, n = page + 1 \/ page = n + 1,
             NEW fills, Cardinality(Shown(To(n))) >= fills
      PROVE  Honest(To(n), [SameCount EXCEPT !.hides = Shown(params), !.fills = fills])
  <2>1. Shown(params) \intersect Shown(To(n)) = {} BY <1>5, StepShowsOthers
  <2>2. Honest(To(n), [least |-> total, most |-> total, has |-> {}, shows |-> {},
                       hides |-> Shown(params), fills |-> fills])
        BY <1>4, <1>5, <2>1, SameListIsKept
  <2>. QED BY <2>2, SameCountIs
<1>6. \A m, n \in Nat : (m + 1) * n = m * n + n OBVIOUS
<1>7. CASE /\ HasNext(params)
           /\ Open(To(page + 1), [SameCount EXCEPT !.hides = Shown(params), !.fills = 1])
  <2>1. (page - 1) * size + Cardinality(Shown(params)) < total BY <1>7 DEF HasNext
  <2>. DEFINE start == StartOf(Query(params))
  <2>2. start \in Nat /\ start + InSlice(total, start, size) < total BY <1>3, <2>1
  <2>. HIDE DEF start
  <2>3. start + size < total BY <1>1, <1>2, <2>2 DEF InSlice, Lesser
  <2>4. page * size = start + size
    <3>1. page - 1 \in Nat /\ (page - 1) + 1 = page BY <1>1
    <3>2. ((page - 1) + 1) * size = (page - 1) * size + size BY <1>1, <1>6, <3>1
    <3>. QED BY <1>3, <3>1, <3>2 DEF start
  <2>. HIDE DEF total, size, page
  <2>5. InSlice(total, start + size, size) >= 1 BY <1>1, <1>2, <2>2, <2>3 DEF InSlice, Lesser
  <2>6. page + 1 \in Nat \ {0} /\ (page + 1) - 1 = page BY <1>1
  <2>7. Cardinality(Shown(To(page + 1))) >= 1 BY <1>4, <2>4, <2>5, <2>6
  <2>8. Honest(To(page + 1), [SameCount EXCEPT !.hides = Shown(params), !.fills = 1])
        BY <1>5, <2>6, <2>7
  <2>. QED BY <1>7, <2>8
<1>8. CASE /\ page > 1
           /\ Open(To(page - 1), [SameCount EXCEPT !.hides = Shown(params),
                                      !.fills = IF Shown(params) = {} THEN 0 ELSE size])
  <2>. DEFINE start == StartOf(Query(params))
              fills == IF Shown(params) = {} THEN 0 ELSE size
  <2>1. page - 1 \in Nat \ {0} /\ page = (page - 1) + 1 BY <1>1, <1>8
  <2>2. Cardinality(Shown(To(page - 1))) = InSlice(total, ((page - 1) - 1) * size, size) BY <1>4, <2>1
  <2>3. start = ((page - 1) - 1) * size + size
    <3>1. (page - 1) - 1 \in Nat /\ ((page - 1) - 1) + 1 = page - 1 BY <2>1
    <3>2. (((page - 1) - 1) + 1) * size = ((page - 1) - 1) * size + size BY <1>1, <1>6, <3>1
    <3>. QED BY <1>3, <3>1, <3>2
  <2>4. Shown(params) # {} => start < total
    <3>1. Shown(params) # {} => Cardinality(Shown(params)) # 0 BY ShownFills, FS_EmptySet
    <3>2. Cardinality(Shown(params)) = InSlice(total, start, size) /\ start \in Nat BY <1>3
    <3>. QED BY <1>2, <3>1, <3>2 DEF InSlice
  <2>. DEFINE before == ((page - 1) - 1) * size
  <2>5. before \in Nat
    <3>1. \A m, n \in Nat : m * n \in Nat OBVIOUS
    <3>. QED BY <1>1, <2>1, <3>1
  <2>6. InSlice(total, before, size) >= fills
    <3>1. start = before + size BY <2>3
    <3>. HIDE DEF before, start, size, total
    <3>. QED BY <1>1, <1>2, <2>4, <2>5, <3>1 DEF InSlice, Lesser
  <2>7. Cardinality(Shown(To(page - 1))) >= fills BY <2>2, <2>6
  <2>. HIDE DEF fills
  <2>8. Honest(To(page - 1), [SameCount EXCEPT !.hides = Shown(params), !.fills = fills])
        BY <1>5, <2>1, <2>7
  <2>. QED BY <1>8, <2>8 DEF fills
<1>. QED BY <1>7, <1>8 DEF TurnPage

LEMMA ResizePagesIsHonest ==
    ASSUME IndexKept, ParamsOK(params), ResizePages
    PROVE  \E to, said : Honest(to, said) /\ Open(to, said)
<1>1. PICK size \in PageSizes :
          Open(PagingQuery(params, "page_size", size), [SameCount EXCEPT !.fills = Lesser(size, Total(params))])
      BY DEF ResizePages
<1>. DEFINE q == PagingQuery(params, "page_size", size)
            fills == Lesser(size, Total(params))
<1>2. ASSUME NEW k
      PROVE  /\ k \in DOMAIN q <=> k = "page_size" \/ (k \in DOMAIN params /\ k # "page")
             /\ k \in DOMAIN q => q[k] = IF k = "page_size" THEN size ELSE params[k]
      BY PagingIs
<1>. HIDE DEF q
<1>3. "page" \notin FilterParams \union {"q"} /\ "page_size" \notin FilterParams \union {"q"}
      BY DEF FilterParams
<1>4. All(q) = All(params) BY <1>2, <1>3, AlikeFindTheSame
<1>5. ParamsOK(q) /\ "page" \notin DOMAIN q
  <2>1. "page" \notin DOMAIN q BY <1>2
  <2>2. q["page_size"] = size BY <1>2
  <2>3. "sort" \in DOMAIN q => q["sort"][1] \in Sorts BY <1>2 DEF ParamsOK
  <2>. QED BY <2>1, <2>2, <2>3 DEF ParamsOK
<1>6. Query(q).page_size = size BY <1>2 DEF Query, Param
<1>7. Total(q) = Total(params) BY <1>4 DEF Total
<1>8. Cardinality(Shown(q)) = fills BY <1>5, <1>6, <1>7, FirstPageFills
<1>9. Cardinality(Shown(q)) >= fills BY <1>5, <1>8, ShownFills, FS_CardinalityType
<1>. HIDE DEF fills
<1>10. Honest(q, [least |-> Total(params), most |-> Total(params), has |-> {}, shows |-> {},
                  hides |-> {}, fills |-> fills])
       BY <1>4, <1>5, <1>9, SameListIsKept
<1>11. Honest(q, [SameCount EXCEPT !.fills = fills]) BY <1>10, SameCountIs
<1>. QED BY <1>1, <1>11 DEF q, fills

LEMMA UndatedIsHonest ==
    ASSUME IndexKept, NEW p, ParamsOK(p)
    PROVE  LET q == WithParam(p, "dateless", "1") IN
           /\ Honest(q, AtMost(Undated(p)))
           /\ DOMAIN p \intersect {"date_from", "date_to"} = {} => Honest(q, Exactly(Undated(p)))
<1>. DEFINE q == WithParam(p, "dateless", "1")
            M == Matched(viewer, rows, Query(p))
            f == Filters(p)
            others == Restrict(f, DOMAIN f \ {"dateless", "date_from", "date_to"})
            T == {r \in ApplyFilters(M, others) : Admits(r, "dateless", "1")}
<1>1. ParamsOK(q) /\ "page" \notin DOMAIN q BY WithStaysAQuery
<1>2. All(q) = {r \in ApplyFilters(M, Without(f, "dateless")) : Admits(r, "dateless", "1")}
      BY SettingFinds DEF FilterParams
<1>3. Undated(p) = Cardinality(T) BY DEF Undated, DatelessCount
<1>4. Without(f, "dateless") = Restrict(f, DOMAIN f \ {"dateless"}) BY DEF Without, Nested
<1>5. IsFiniteSet(T)
  <2>1. T \subseteq M /\ IsFiniteSet(M) BY ListIsAnIndex DEF ApplyFilters, Index
  <2>. QED BY <2>1, FS_Subset
<1>6. All(q) \subseteq T
  <2>1. \A k \in DOMAIN others : k \in DOMAIN Without(f, "dateless") /\ others[k] = Without(f, "dateless")[k]
        BY <1>4, Restricted
  <2>. HIDE DEF others, M, q
  <2>. QED BY <1>2, <2>1 DEF ApplyFilters
<1>7. DOMAIN p \intersect {"date_from", "date_to"} = {} => All(q) = T
  <2>. SUFFICES ASSUME DOMAIN p \intersect {"date_from", "date_to"} = {} PROVE All(q) = T OBVIOUS
  <2>1. DOMAIN f \subseteq DOMAIN p BY FiltersIs DEF InForce
  <2>2. DOMAIN f \ {"dateless"} = DOMAIN f \ {"dateless", "date_from", "date_to"} BY <2>1
  <2>. QED BY <1>2, <1>4, <2>2
<1>. HIDE DEF q, T
<1>8. Total(q) <= Undated(p) BY <1>3, <1>5, <1>6, FS_Subset DEF Total
<1>9. DOMAIN p \intersect {"date_from", "date_to"} = {} => Undated(p) = Total(q)
      BY <1>3, <1>7 DEF Total
<1>. QED BY <1>1, <1>8, <1>9, AtMostIsKept, ExactlyIsKept, SaidInParts DEF Honest, q

LEMMA ToggleUndatedIsHonest ==
    ASSUME IndexKept, ParamsOK(params), ToggleUndated
    PROVE  \E to, said : Honest(to, said) /\ Open(to, said)
<1>1. CASE "dateless" \in DOMAIN params
  <2>1. Open(WithoutParam(params, "dateless"), AtLeast(Total(params))) BY <1>1 DEF ToggleUndated
  <2>. QED BY <2>1, RemovalIsHonest
<1>2. CASE "dateless" \notin DOMAIN params
  <2>1. Open(WithParam(params, "dateless", "1"),
             IF DOMAIN params \intersect {"date_from", "date_to"} = {}
             THEN Exactly(Undated(params)) ELSE AtMost(Undated(params)))
        BY <1>2 DEF ToggleUndated
  <2>. QED BY <2>1, UndatedIsHonest
<1>. QED BY <1>1, <1>2

LEMMA FollowCellIsHonest ==
    ASSUME IndexKept, ParamsOK(params), FollowCell
    PROVE  \E to, said : Honest(to, said) /\ Open(to, said)
<1>1. PICK r \in PageOf(All(params), Query(params).text, Query(params)),
           key \in {"document_type", "collection"} \ DOMAIN params :
          /\ r[key] # Nothing
          /\ Open(WithParam(params, key, r[key]),
                  IF key = "collection" /\ r.ancestors = {} THEN AtMost(Total(params))
                  ELSE [Having(r.ulid) EXCEPT !.most = Total(params)])
      BY DEF FollowCell
<1>. DEFINE q == WithParam(params, key, r[key])
            M == Matched(viewer, rows, Query(params))
            f == Filters(params)
<1>2. r \in All(params) /\ Columned(r) BY ListIsAnIndex DEF PageOf
<1>3. key \in FilterParams \ {"media_type", "decade"} /\ key \notin {"page", "page_size", "sort"}
      BY DEF FilterParams
<1>4. Total(q) <= Total(params) BY <1>3, OneMoreFindsNoMore
<1>5. ParamsOK(q) /\ "page" \notin DOMAIN q BY <1>3, WithStaysAQuery
<1>6. ASSUME ~(key = "collection" /\ r.ancestors = {}) PROVE r \in All(q)
  <2>1. r \in M /\ \A k \in DOMAIN f : Admits(r, k, f[k]) BY <1>2, ListOf DEF ApplyFilters
  <2>2. r \in ApplyFilters(M, Without(f, key))
    <3>1. \A k \in DOMAIN Without(f, key) : k \in DOMAIN f /\ Without(f, key)[k] = f[k]
          BY Restricted DEF Without
    <3>. QED BY <2>1, <3>1 DEF ApplyFilters
  <2>3. r[key] \in Carried(r, key)
    <3>1. CASE key = "document_type" BY <1>1, <3>1 DEF Carried
    <3>2. CASE key = "collection"
      <4>1. Carried(r, key) = r.ancestors BY <3>2 DEF Carried
      <4>. QED BY <1>2, <1>6, <3>2, <4>1 DEF Columned
    <3>. QED BY <3>1, <3>2
  <2>4. Admits(r, key, r[key]) BY <2>3 DEF Admits
  <2>5. All(q) = {o \in ApplyFilters(M, Without(f, key)) : Admits(o, key, r[key])}
        BY <1>3, SettingFinds
  <2>. HIDE DEF q, M, f
  <2>. QED BY <2>2, <2>4, <2>5
<1>. HIDE DEF q
<1>7. CASE key = "collection" /\ r.ancestors = {}
  <2>1. Honest(q, AtMost(Total(params))) BY <1>4, <1>5, AtMostIsKept, SaidInParts DEF Honest
  <2>. QED BY <1>1, <1>7, <2>1 DEF q
<1>8. CASE ~(key = "collection" /\ r.ancestors = {})
  <2>1. Keeps(q, [Having(r.ulid) EXCEPT !.most = Total(params)]) BY <1>4, <1>5, <1>6, <1>8, HavingIsKept
  <2>2. Honest(q, [Having(r.ulid) EXCEPT !.most = Total(params)]) BY <1>5, <2>1, SaidInParts DEF Honest
  <2>. QED BY <1>1, <1>8, <2>2 DEF q
<1>. QED BY <1>7, <1>8

(* The list without a param.                                               *)
LEMMA WithoutParams ==
    /\ ParamsOK(NoParams) /\ DOMAIN NoParams = {} /\ DOMAIN Filters(NoParams) = {}
    /\ TextOf(NoParams) = Blank
    /\ Matched(viewer, rows, Query(NoParams)) = Scoped(viewer, rows, FALSE)
    /\ \A key, value : Setting(key, value, NoParams) = WithParam(NoParams, key, value)
<1>1. DOMAIN NoParams = {} BY DEF NoParams
<1>2. ParamsOK(NoParams) BY <1>1 DEF ParamsOK
<1>3. DOMAIN Filters(NoParams) = {} BY <1>1, FiltersIs DEF InForce
<1>4. TextOf(NoParams) = Blank BY <1>1 DEF TextOf, Param
<1>5. Matched(viewer, rows, Query(NoParams)) = Scoped(viewer, rows, FALSE) BY <1>4, ListOf DEF ApplyText
<1>6. ASSUME NEW key, NEW value PROVE Setting(key, value, NoParams) = WithParam(NoParams, key, value)
  <2>1. Changing(NoParams, key) = NoParams BY DEF Changing, Restrict, NoParams
  <2>. QED BY <2>1 DEF WithParam
<1>. QED BY <1>1, <1>2, <1>3, <1>4, <1>5, <1>6

LEMMA FollowArticleLinkIsHonest ==
    ASSUME IndexKept, ParamsOK(params), FollowArticleLink
    PROVE  \E to, said : Honest(to, said) /\ Open(to, said)
<1>1. PICK a \in archive :
          /\ CanView(viewer, a, ChainOf[a.collection])
          /\ \E key \in {"collection", "tag"} \ {k \in {"collection"} : a.deleted} :
                 \E value \in Carried(RowOf(a), key) :
                     Open(Setting(key, value, NoParams), IF a.deleted THEN Anything ELSE Having(a.ulid))
      BY DEF FollowArticleLink
<1>2. PICK key \in {"collection", "tag"} : \E value \in Carried(RowOf(a), key) :
          Open(Setting(key, value, NoParams), IF a.deleted THEN Anything ELSE Having(a.ulid))
      BY <1>1
<1>3. PICK value \in Carried(RowOf(a), key) :
          Open(Setting(key, value, NoParams), IF a.deleted THEN Anything ELSE Having(a.ulid))
      BY <1>2
<1>. DEFINE q == WithParam(NoParams, key, value)
            r == RowOf(a)
<1>4. Setting(key, value, NoParams) = q BY WithoutParams
<1>5. ParamsOK(q) /\ "page" \notin DOMAIN q BY WithStaysAQuery, WithoutParams
<1>6. ASSUME ~a.deleted PROVE r \in All(q)
  <2>1. r \in rows /\ IsRecord(a) BY DEF IndexKept
  <2>2. r.deleted = FALSE
    <3>1. PlacementOf(a).deleted \in BOOLEAN /\ PlacementOf(a).deleted = a.deleted
          BY <2>1 DEF IsRecord, Placed, PlacementOf
    <3>2. r.deleted = a.deleted BY DEF RowOf
    <3>. QED BY <1>6, <3>1, <3>2
  <2>3. ViewerScope(viewer, r)
    <3>1. CASE viewer.role = "archivist" BY <3>1, Zenon DEF ViewerScope
    <3>2. CASE viewer.role # "archivist" BY <1>1, <2>1, <3>2, ScopeOfRecord DEF MaySee, IndexKept
    <3>. QED BY <3>1, <3>2
  <2>4. r \in Scoped(viewer, rows, FALSE) BY <2>1, <2>2, <2>3 DEF Scoped
  <2>5. r \in ApplyFilters(Matched(viewer, rows, Query(NoParams)), Without(Filters(NoParams), key))
    <3>1. DOMAIN Without(Filters(NoParams), key) = {} BY WithoutParams, Restricted DEF Without
    <3>. QED BY <2>4, <3>1, WithoutParams DEF ApplyFilters
  <2>6. Admits(r, key, value) BY DEF Admits
  <2>7. All(q) = {o \in ApplyFilters(Matched(viewer, rows, Query(NoParams)), Without(Filters(NoParams), key)) :
                     Admits(o, key, value)}
        BY SettingFinds DEF FilterParams
  <2>. HIDE DEF q, r
  <2>. QED BY <2>5, <2>6, <2>7
<1>7. r.ulid = a.ulid BY UlidOfRow
<1>. HIDE DEF q, r
<1>8. CASE a.deleted
  <2>1. Honest(q, Anything) BY <1>5, AnythingIsKept, SaidInParts DEF Honest
  <2>. QED BY <1>3, <1>4, <1>8, <2>1
<1>9. CASE ~a.deleted
  <2>1. Keeps(q, Having(a.ulid)) BY <1>5, <1>6, <1>7, <1>9, HavingIsKept
  <2>2. Honest(q, Having(a.ulid)) BY <1>5, <2>1, SaidInParts DEF Honest
  <2>. QED BY <1>3, <1>4, <1>9, <2>2
<1>. QED BY <1>8, <1>9

(* The search field keeps the filters, the order and the view.             *)
LEMMA FormIs ==
    ASSUME NEW p
    PROVE  LET q == FormFilters(p) IN
           /\ Filters(q) = Filters(p) /\ TextOf(q) = Blank
           /\ "page" \notin DOMAIN q /\ "q" \notin DOMAIN q
           /\ ParamsOK(p) => ParamsOK(q)
<1>. DEFINE q == FormFilters(p)
<1>1. /\ DOMAIN q = DOMAIN p \intersect (FilterParams \union {"sort", "view", "page_size"})
      /\ \A k \in DOMAIN q : q[k] = p[k]
      BY FormKeeps
<1>. HIDE DEF q
<1>2. "page" \notin FilterParams /\ "q" \notin FilterParams BY DEF FilterParams
<1>3. "page" \notin DOMAIN q /\ "q" \notin DOMAIN q BY <1>1, <1>2
<1>4. TextOf(q) = Blank BY <1>3 DEF TextOf, Param
<1>5. Filters(q) = Filters(p)
  <2>1. {k \in DOMAIN q \intersect FilterParams : k = "decade" => q[k] # Malformed}
          = {k \in DOMAIN p \intersect FilterParams : k = "decade" => p[k] # Malformed}
        BY <1>1
  <2>. QED BY <1>1, <2>1 DEF Filters, Restrict
<1>6. ParamsOK(p) => ParamsOK(q) BY <1>1, <1>3, StaysAQuery
<1>. QED BY <1>3, <1>4, <1>5, <1>6 DEF q

LEMMA TypeTextIsHonest ==
    ASSUME IndexKept, ParamsOK(params), TypeText
    PROVE  \E to, said : Honest(to, said) /\ Open(to, said)
<1>1. PICK typed \in Texts \union {Blank} :
          Open(IF typed = Blank THEN FormFilters(params) ELSE Setting("q", typed, FormFilters(params)),
               Anything)
      BY DEF TypeText
<1>. DEFINE f == FormFilters(params)
            q == Setting("q", typed, f)
<1>2. ParamsOK(f) BY FormIs
<1>3. ParamsOK(q)
  <2>1. \A k \in DOMAIN q \ {"q"} : k \in DOMAIN f /\ q[k] = f[k]
    <3>. HIDE DEF f
    <3>. QED BY DEF Setting
  <2>. HIDE DEF f, q
  <2>. QED BY <1>2, <2>1, StaysAQuery
<1>. HIDE DEF q, f
<1>4. Honest(f, Anything) /\ Honest(q, Anything) BY <1>2, <1>3, AnythingIsKept, SaidInParts DEF Honest
<1>. QED BY <1>1, <1>4 DEF q, f

LEMMA PickSuggestionIsHonest ==
    ASSUME IndexKept, ParamsOK(params), PickSuggestion
    PROVE  \E to, said : Honest(to, said) /\ Open(to, said)
<1>. DEFINE f == FormFilters(params)
            Offered(key, typed) == ValuesContaining(viewer, rows, key, typed, Filters(params))
<1>1. PICK typed \in Texts, key \in {"creator", "place", "tag"} :
          \E value \in DOMAIN Offered(key, typed) :
              Open(WithParam(f, key, value),
                   IF key = "tag" THEN [AtMost(Offered(key, typed)[value]) EXCEPT !.least = 1]
                   ELSE Exactly(Offered(key, typed)[value]))
      BY DEF PickSuggestion
<1>2. PICK value \in DOMAIN Offered(key, typed) :
          Open(WithParam(f, key, value),
               IF key = "tag" THEN [AtMost(Offered(key, typed)[value]) EXCEPT !.least = 1]
               ELSE Exactly(Offered(key, typed)[value]))
      BY <1>1
<1>3. /\ Filters(f) = Filters(params) /\ TextOf(f) = Blank
      /\ ParamsOK(f)
      BY FormIs
<1>. DEFINE counted == Facet(Scoped(viewer, rows, FALSE), Filters(params), key)
            M == Matched(viewer, rows, Query(f))
<1>4. M = Scoped(viewer, rows, FALSE) BY <1>3, ListOf DEF ApplyText
<1>5. Counts(f, key) = counted BY <1>3, <1>4 DEF Counts
<1>6. /\ DOMAIN Offered(key, typed) = DOMAIN counted \intersect typed.inside
      /\ \A v \in DOMAIN Offered(key, typed) : Offered(key, typed)[v] = counted[v]
      BY Restricted DEF ValuesContaining
<1>7. value \in DOMAIN Counts(f, key) /\ Offered(key, typed)[value] = Counts(f, key)[value]
      BY <1>5, <1>6
<1>. DEFINE q == WithParam(f, key, value)
            n == Counts(f, key)[value]
<1>8. CASE key # "tag"
  <2>1. Honest(q, Exactly(n)) BY <1>3, <1>7, <1>8, CountIsHonest
  <2>. QED BY <1>2, <1>7, <1>8, <2>1
<1>9. CASE key = "tag"
  <2>. DEFINE T == {r \in ApplyFilters(M, Without(Filters(f), "tag")) : value \in Carried(r, "tag")}
  <2>1. Index(M) /\ M \subseteq rows BY ListIsAnIndex DEF Matched, ApplyText, Scoped
  <2>2. \A r \in M : Columned(r) BY <2>1, IndexOfRows
  <2>3. n = Facet(M, Filters(f), "tag")[value] /\ value \in DOMAIN Facet(M, Filters(f), "tag")
        BY <1>7, <1>9 DEF Counts
  <2>4. Cardinality(T) <= n /\ Cardinality(T) >= 1
        BY <2>1, <2>2, <2>3, NamingsCoverRows
  <2>5. All(q) = {r \in ApplyFilters(M, Without(Filters(f), "tag")) : Admits(r, "tag", value)}
        BY <1>9, SettingFinds DEF FilterParams
  <2>6. \A r : Admits(r, "tag", value) <=> value \in Carried(r, "tag") BY DEF Admits
  <2>7. Total(q) <= n /\ 1 <= Total(q) BY <2>4, <2>5, <2>6 DEF Total
  <2>8. ParamsOK(q) BY <1>3, <1>9, WithStaysAQuery
  <2>. DEFINE said == [AtMost(n) EXCEPT !.least = 1]
  <2>9. said = [least |-> 1, most |-> n, has |-> {}, shows |-> {}, hides |-> {}, fills |-> 0]
    <3>. HIDE DEF n
    <3>1. AtMost(n) = [least |-> 0, most |-> n, has |-> {}, shows |-> {}, hides |-> {}, fills |-> 0]
          BY SaidOf
    <3>. QED BY <3>1
  <2>10. Cardinality(Shown(q)) >= 0 BY <2>8, ShownFills, FS_CardinalityType
  <2>. HIDE DEF q, n, said, T, M
  <2>11. Honest(q, said) BY <2>7, <2>8, <2>9, <2>10 DEF Honest, Keeps, PromiseParts
  <2>12. Open(q, said) BY <1>2, <1>7, <1>9 DEF said, n, q
  <2>. QED BY <2>11, <2>12
<1>. QED BY <1>8, <1>9

LEMMA OpenAllSuggestedIsHonest ==
    ASSUME IndexKept, ParamsOK(params), OpenAllSuggested
    PROVE  \E to, said : Honest(to, said) /\ Open(to, said)
<1>. DEFINE f == FormFilters(params)
<1>1. PICK typed \in Texts : Open(WithParam(f, "q", typed), Exactly(Total(Setting("q", typed, f))))
      BY DEF OpenAllSuggested
<1>. DEFINE q == WithParam(f, "q", typed)
            o == Setting("q", typed, f)
<1>2. ParamsOK(f) /\ "page" \notin DOMAIN f BY FormIs
<1>3. ParamsOK(q) /\ "page" \notin DOMAIN q BY <1>2, WithStaysAQuery
<1>4. o = q
  <2>1. f = Changing(f, "q")
    <3>1. DOMAIN f \ (Nested("q") \union {"page"}) = DOMAIN f BY FormIs DEF Nested
    <3>2. f = [k \in DOMAIN f |-> f[k]] BY DEF FormFilters, Restrict
    <3>. QED BY <3>1, <3>2 DEF Changing, Restrict
  <2>. QED BY <2>1 DEF WithParam
<1>. HIDE DEF q, o, f
<1>5. Honest(q, Exactly(Total(o))) BY <1>3, <1>4, ExactlyIsKept, SaidInParts DEF Honest
<1>. QED BY <1>1, <1>5 DEF q, o

LEMMA OpenTileIsHonest ==
    ASSUME IndexKept, ParamsOK(params), OpenTile
    PROVE  \E to, said : Honest(to, said) /\ Open(to, said)
<1>1. ParamsOK(NoParams) /\ DOMAIN NoParams = {} BY WithoutParams
<1>2. ASSUME NEW key \in {"collection", "media_type", "decade"}, NEW value \in DOMAIN Counts(NoParams, key),
             Open(Setting(key, value, NoParams), Exactly(Counts(NoParams, key)[value]))
      PROVE  \E to, said : Honest(to, said) /\ Open(to, said)
  <2>1. Honest(WithParam(NoParams, key, value), Exactly(Counts(NoParams, key)[value]))
        BY <1>1, CountIsHonest
  <2>. QED BY <1>2, <2>1, WithoutParams
<1>3. ASSUME Open(Setting("dateless", "1", NoParams), Exactly(Undated(NoParams)))
      PROVE  \E to, said : Honest(to, said) /\ Open(to, said)
  <2>1. Honest(WithParam(NoParams, "dateless", "1"), Exactly(Undated(NoParams)))
        BY <1>1, UndatedIsHonest
  <2>. QED BY <1>3, <2>1, WithoutParams
<1>4. ASSUME LET drafts == Setting("drafts", "1", NoParams) IN Open(drafts, Exactly(Total(drafts)))
      PROVE  \E to, said : Honest(to, said) /\ Open(to, said)
  <2>. DEFINE q == WithParam(NoParams, "drafts", "1")
  <2>1. ParamsOK(q) /\ "page" \notin DOMAIN q BY <1>1, WithStaysAQuery
  <2>2. Open(q, Exactly(Total(q))) BY <1>4, WithoutParams
  <2>. HIDE DEF q
  <2>3. Honest(q, Exactly(Total(q))) BY <2>1, ExactlyIsKept, SaidInParts DEF Honest
  <2>. QED BY <2>2, <2>3
<1>5. ASSUME Open(Setting("sort", Rising("added"), NoParams), Exactly(Total(NoParams)))
      PROVE  \E to, said : Honest(to, said) /\ Open(to, said)
  <2>. DEFINE q == Setting("sort", Rising("added"), NoParams)
  <2>1. DOMAIN q = {"sort"} /\ q["sort"] = Rising("added") BY <1>1 DEF Setting
  <2>2. Rising("added")[1] \in Sorts BY DEF Rising, Sorts
  <2>. HIDE DEF q
  <2>3. ParamsOK(q) /\ "page" \notin DOMAIN q BY <2>1, <2>2 DEF ParamsOK
  <2>4. \A k \in FilterParams \union {"q"} : k \notin DOMAIN q /\ k \notin DOMAIN NoParams
        BY <1>1, <2>1 DEF FilterParams
  <2>5. All(q) = All(NoParams) BY <2>4, AlikeFindTheSame
  <2>6. Total(NoParams) = Total(q) BY <2>5 DEF Total
  <2>7. Honest(q, Exactly(Total(NoParams))) BY <2>3, <2>6, ExactlyIsKept, SaidInParts DEF Honest
  <2>. QED BY <1>5, <2>7 DEF q
<1>. QED BY <1>2, <1>3, <1>4, <1>5 DEF OpenTile

(* Whatever was saved meanwhile, a list has no more than the archive.      *)
ListBounded ==
    /\ 0 <= Total(params) /\ Total(params) <= Cardinality(archive)
    /\ Cardinality(Shown(params)) >= 0

LEMMA BoundedLists == IndexKept /\ ParamsOK(params) => ListBounded
<1>. SUFFICES ASSUME IndexKept, ParamsOK(params) PROVE ListBounded OBVIOUS
<1>1. Total(params) \in Nat /\ Total(params) <= Cardinality(archive) BY ListIsAnIndex
<1>2. Cardinality(Shown(params)) >= 0 BY ShownFills, FS_CardinalityType
<1>. QED BY <1>1, <1>2 DEF ListBounded

LEMMA BoundedListsNext == (IndexKept /\ ParamsOK(params) => ListBounded)'
BY BoundedLists, PTL

PromiseInv ==
    /\ IndexKept
    /\ ParamsOK(params)
    /\ DOMAIN promise = PromiseParts
    /\ PromiseKept

LEMMA SavesVoidThePromise ==
    ASSUME PromiseInv, SaveRecord
    PROVE  PromiseInv'
<1>1. IndexKept' BY SavesKeepTheIndex DEF PromiseInv
<1>2. params' = params
      /\ promise' = [promise EXCEPT !.least = 0, !.most = Cardinality(archive'), !.has = {},
                                    !.shows = {}, !.hides = {}, !.fills = 0]
      BY DEF SaveRecord
<1>3. ParamsOK(params)' BY <1>2 DEF PromiseInv, ParamsOK
<1>4. ListBounded' BY <1>1, <1>3, BoundedListsNext
<1>5. /\ DOMAIN promise' = PromiseParts
      /\ promise'.least = 0 /\ promise'.most = Cardinality(archive') /\ promise'.has = {}
      /\ promise'.shows = {} /\ promise'.hides = {} /\ promise'.fills = 0
      BY <1>2 DEF PromiseInv, PromiseParts
<1>6. PromiseKept' BY <1>4, <1>5 DEF ListBounded, PromiseKept
<1>. QED BY <1>1, <1>3, <1>5, <1>6 DEF PromiseInv

LEMMA LinksAreHonest ==
    ASSUME PromiseInv, Follow
    PROVE  PromiseInv'
<1>1. IndexKept /\ ParamsOK(params) BY DEF PromiseInv
<1>2. \E to, said : Honest(to, said) /\ Open(to, said)
      BY <1>1, PickValueIsHonest, ToggleUndatedIsHonest, ToggleCheckIsHonest, RemoveFilterIsHonest,
         ClearAllIsHonest, SortByHeadIsHonest, DropOrderIsHonest, SwitchViewIsHonest,
         TurnPageIsHonest, ResizePagesIsHonest, FollowCellIsHonest, FollowArticleLinkIsHonest,
         TypeTextIsHonest, PickSuggestionIsHonest, OpenAllSuggestedIsHonest, OpenTileIsHonest
         DEF Follow
<1>3. ParamsOK(params)' /\ PromiseKept' /\ (DOMAIN promise = PromiseParts)' BY <1>2, OpenedAsSaid
<1>4. IndexKept' BY <1>1, LinksKeepTheArchive DEF IndexKept
<1>. QED BY <1>3, <1>4 DEF PromiseInv

(***************************************************************************)
(* What a link's words say of the list behind it comes true: the count     *)
(* beside a value, the hits that clearing a filter must keep, the list     *)
(* that order, view and pages leave alone, the other hits of the next      *)
(* page, the Article a fact was read of (browse_views.py, ledger.py,       *)
(* suggestions.py, start.py).                                              *)
(***************************************************************************)
THEOREM PromiseKeptHolds == Spec => []PromiseKept
<1>1. Init => PromiseInv
  <2>. SUFFICES ASSUME Init PROVE PromiseInv OBVIOUS
  <2>1. IndexKept BY RecordsAssumption, EveryRecord DEF Init, IndexKept
  <2>2. ParamsOK(params) BY EntriesAssumption DEF Init
  <2>3. promise = Anything BY DEF Init
  <2>4. DOMAIN promise = PromiseParts BY <2>3, SaidInParts
  <2>5. Keeps(params, promise) BY <2>1, <2>2, <2>3, AnythingIsKept
  <2>6. PromiseKept BY <2>5 DEF Keeps, PromiseKept
  <2>. QED BY <2>1, <2>2, <2>4, <2>6 DEF PromiseInv
<1>2. PromiseInv /\ [Next]_vars => PromiseInv'
  <2>1. ASSUME PromiseInv, UNCHANGED vars PROVE PromiseInv'
        BY <2>1 DEF PromiseInv, IndexKept, ParamsOK, PromiseKept, Total, All, Shown, vars
  <2>. QED BY <2>1, LinksAreHonest, SavesVoidThePromise DEF Next
<1>3. PromiseInv => PromiseKept BY DEF PromiseInv
<1>. QED BY <1>1, <1>2, <1>3, PTL DEF Spec

=============================================================================

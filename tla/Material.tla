------------------------------- MODULE Material -------------------------------
(***************************************************************************)
(* What the system computes rather than asks a model for: the typed claims *)
(* of a transcript as ingestion dates them, and the timeline and the       *)
(* totals that go with an answer (the two blocks of askQuery).  The pass   *)
(* runs where ingestion is asked for it (cli.ts, --typed).                 *)
(***************************************************************************)
EXTENDS TypedPass, Totals

CONSTANTS
  Transcript,  \* the histories: sequences of turns [at, spans, lines], with
               \* the instant of their session or Undated
  Question,    \* [items, temporal, total, asked]
  MaterialMax  \* claims that go with an answer

VARIABLES
  history,   \* the history being read
  read,      \* its turns read so far
  claims,    \* the typed claims, in order
  window,    \* the claims retrieved for the last question, best first
  material   \* the blocks computed for the last question

materialVars == <<history, read, claims, window, material>>

Undated == Instant(NoDate, 0)

\* What is read and asked: sessions dated in four digits or not, turns with what the
\* patterns can find in them, and questions that name some items.
ASSUME MaterialAssumption ==
  /\ MaterialMax \in Nat \ {0}
  /\ \A h \in Transcript : h \in Seq(Range(h)) /\ \A turn \in Range(h) :
       (turn.at = Undated \/ (IsInstant(turn.at) /\ turn.at.y \in FourDigits)) /\ Found(turn.spans) /\ turn.lines \in Seq(ListLine)
  /\ \A q \in Question : q.items \in Seq(Range(q.items)) /\ IsInstant(q.asked)
  /\ \A q \in Question : \A item \in Range(q.items) : IsFiniteSet(item)

NoMaterial == [timeline |-> {}, totals |-> {}]

----------------------------------------------------------------------------
(* Ingestion *)

DateOf(t) == [y |-> t.y, m |-> t.m, d |-> t.d]

\* A claim without a date of its own has its session's; one whose date cannot
\* be read back has no time, and not its session's either.
EventOf(c, at) ==
  CASE c.date = NoDate -> at
    [] c.date = Unreadable -> Undated
    [] OTHER -> Instant(c.date, 0)

\* One turn of the pass.
ReadTurn ==
  /\ read < Len(history)
  /\ LET turn == history[read + 1]
         found == Deduplicated(FromTurn(turn, DateOf(turn.at)))
     IN  claims' = claims \o [i \in DOMAIN found |->
                     [family |-> found[i].family, words |-> found[i].words, value |-> found[i].value,
                      event |-> EventOf(found[i], turn.at), turn |-> read + 1,
                      sentence |-> found[i].sentence]]
  /\ read' = read + 1
  /\ UNCHANGED <<history, window, material>>

----------------------------------------------------------------------------
(* The answer *)

\* What the ranking leaves of the claims: some of them, in any order.
Retrieve ==
  /\ read = Len(history)
  /\ \E n \in 1..MaterialMax : \E best \in [1..n -> DOMAIN claims] :
       IsInjective(best) /\ window' = [k \in 1..n |-> claims[best[k]]]
  /\ material' = NoMaterial
  /\ UNCHANGED <<history, read, claims>>

\* The event time, in thirds of a day since 1970: -1 stands for none, and only
\* what is above zero counts as a date.
Rank(t) ==
  IF t = Undated THEN -1
  ELSE 3 * (DayNumber(t) - DayNumber([y |-> 1970, m |-> 1, d |-> 1])) + t.s
Dated(t) == Rank(t) > 0

\* By event time, and otherwise as they came.
Earlier(i, j) ==
  LET a == Rank(window[i].event)
      b == Rank(window[j].event)
  IN  a < b \/ (a = b /\ i < j)

InTime(S) == {p \in S \X S : Earlier(p[1], p[2])}
Ordered == Lined(DOMAIN window, InTime(DOMAIN window))

\* The claims of one sentence stand together, at the time of their first.
SameSpan(i, j) == window[i].turn = window[j].turn /\ window[i].sentence = window[j].sentence
Leads == {i \in DOMAIN window : \A j \in DOMAIN window : SameSpan(i, j) => j = i \/ Earlier(i, j)}
DatedLeads == {i \in Leads : Dated(window[i].event)}
Placed == Lined(DatedLeads, InTime(DatedLeads))

\* buildTimeline, where renderTimeline shows it: two dates at least.
Timeline(asked) ==
  LET placed == Placed
      event(k) == window[placed[k]].event
      last == Len(placed)
  IN  IF last < 2 THEN {}
      ELSE {[rows |-> [k \in 1..last |->
                        [event |-> event(k),
                         gap |-> IF k = 1 THEN 0 ELSE DayDelta(event(k - 1), event(k)),
                         age |-> DayDelta(event(k), asked)]],
             undated |-> Cardinality(Leads) - last,
             days |-> DayDelta(event(1), event(last)),
             calendar |-> CalendarDelta(event(1), event(last))]}

\* The amounts of a claim are read out of its value again, its words are
\* those of its attribute.
AmountClaims ==
  LET ordered == Ordered
  IN  [k \in DOMAIN ordered |->
         LET c == window[ordered[k]]
         IN  [words |-> c.words,
              amounts |-> IF c.family = "money" THEN <<c.value>> ELSE <<>>]]

\* The blocks are computed only for a question that asks for them.
Ask(q) ==
  /\ window # <<>>
  /\ material' = [timeline |-> IF q.temporal THEN Timeline(q.asked) ELSE {},
                  totals |-> IF q.total THEN {[of |-> q.items, is |-> Rendered(Totals(AmountClaims, q.items))]} ELSE {}]
  /\ UNCHANGED <<history, read, claims, window>>

MaterialInit ==
  /\ history \in Transcript
  /\ read = 0 /\ claims = <<>> /\ window = <<>> /\ material = NoMaterial

MaterialNext == ReadTurn \/ Retrieve \/ \E q \in Question : Ask(q)

MaterialSpec == MaterialInit /\ [][MaterialNext]_materialVars

----------------------------------------------------------------------------
(* Properties *)

MonthsIn(d) == d.years * 12 + d.months
GapsOf(rows) == FoldLeft(LAMBDA n, r : n + r.gap, 0, rows)

\* "A negative day count inside a published number is exactly the quiet
\* nonsense this layer exists to remove" (core/src/temporal.ts:153): a
\* published span goes whole months forward and then fewer days than make
\* another month, and reaches the last date; the gaps add up to its days.
SpanAddsUp(t) ==
  LET first == t.rows[1].event
      last == t.rows[Len(t.rows)].event
      forward == AddMonthsClamped(first, MonthsIn(t.calendar))
  IN  /\ t.calendar.days \in 0..30
      /\ DayNumber(forward) + t.calendar.days = DayNumber(last)
      /\ t.days = GapsOf(t.rows)
      /\ \A i \in DOMAIN t.rows : t.rows[i].age + DayDelta(first, t.rows[i].event) = t.rows[1].age

\* What was said to be so many days, weeks, months ... away.
InDays == [hour |-> 0, day |-> 1, week |-> 7]
InMonths == [month |-> 1, year |-> 12, decade |-> 120]

\* The calendar of the answer gives back the phrase that ingestion resolved:
\* what was said to be n days or weeks away is so many days from its session,
\* what was n months, years or decades away is so many months and at most the
\* three days that clamping to the end of a month takes.
AgeIsAsSaid(c, at) ==
  LET away == IF Before(c.event, at) THEN CalendarDelta(c.event, at) ELSE CalendarDelta(at, c.event)
      size == IF c.value.count < 0 THEN -c.value.count ELSE c.value.count
  IN  /\ c.value.unit \in DOMAIN InDays =>
           DayDelta(at, c.event) = c.value.count * InDays[c.value.unit]
      /\ c.value.unit \in DOMAIN InMonths =>
           MonthsIn(away) = size * InMonths[c.value.unit] /\ away.days \in 0..3

\* Where the phrase leads is no year of four digits.
OutOfYears(c, at) ==
  \/ /\ c.value.unit \in DOMAIN InDays
     /\ DayNumber(at) + c.value.count * InDays[c.value.unit]
          \notin DayNumber([y |-> 1000, m |-> 1, d |-> 1])..DayNumber([y |-> 9999, m |-> 12, d |-> 31])
  \/ /\ c.value.unit \in DOMAIN InMonths
     /\ AddMonthsClamped(at, c.value.count * InMonths[c.value.unit]).y \notin FourDigits

\* The calendars agree with each other and with themselves: an exact phrase of
\* a dated session is as far away as it says, or it has no date at all, and
\* that only where it leaves the years of four digits.
CalendarsAgree ==
  /\ \A t \in material.timeline : SpanAddsUp(t)
  /\ \A c \in Range(claims) :
       LET at == Instant(DateOf(history[c.turn].at), 0)
       IN  c.family = "relative_time" /\ c.value.exact /\ at # Undated =>
             IF c.event = Undated THEN OutOfYears(c, at) ELSE AgeIsAsSaid(c, at)

\* What the retrieved claims say that an item costs; the price of each item
\* that has one, its only one if the claims agree.
Said(item) == {c.value : c \in {d \in Range(window) : d.family = "money" /\ item \subseteq d.words}}
PricesOf(items) ==
  [k \in {i \in DOMAIN items : items[i] # {} /\ Said(items[i]) # {}} |-> CHOOSE v \in Said(items[k]) : TRUE]

\* Each item has one price, and no claim could be about two of the items.
About(c, items) == {k \in DOMAIN items : items[k] \intersect c.words # {}}
Unmistakable(items) ==
  /\ \A k \in DOMAIN items : items[k] # {} => Cardinality(Said(items[k])) <= 1
  /\ \A c \in Range(window) :
       /\ Cardinality(About(c, items)) <= 1
       /\ \A k \in About(c, items) : items[k] \subseteq c.words

\* What n items come to in a currency, and those nobody priced.
Due(prices, n, currency) ==
  FoldLeft(LAMBDA sum, k : IF k \in DOMAIN prices /\ prices[k].currency = currency
                           THEN sum + prices[k].amount ELSE sum,
           0, [k \in 1..n |-> k])
Unpriced(items, priced) ==
  FoldLeft(LAMBDA s, k : IF items[k] # {} /\ k \notin priced THEN Append(s, items[k]) ELSE s,
           <<>>, [k \in DOMAIN items |-> k])

\* The total is that of the items the question names: when each item has one
\* price in what was retrieved, and no claim could be about two of them, a
\* block that is printed has every price once in its sum, however often and in
\* whatever order it was said, also when two items cost the same beside a third
\* amount (of equal amounts alone nothing is printed); an item without a price
\* is named as missing.
NamedItemsAddUp ==
  \A t \in material.totals :
    LET prices == PricesOf(t.of)
    IN  t.is.lines # {} /\ Len(t.of) >= 2 /\ Cardinality(DOMAIN prices) >= 2 /\ Unmistakable(t.of) =>
          /\ t.is.totals = {[currency |-> prices[k].currency,
                             sum |-> Due(prices, Len(t.of), prices[k].currency)] : k \in DOMAIN prices}
          /\ t.is.missing = Unpriced(t.of, DOMAIN prices)

\* The list a line belongs to, defined without the scan: items with nothing
\* but a single blank line between neighbours.
Items(lines) == {i \in DOMAIN lines : lines[i].kind \in {"bullet", "number"}}
Joined(lines, i, j) ==
  \A a, b \in {k \in Items(lines) : i <= k /\ k <= j} :
    a < b /\ {k \in Items(lines) : a < k /\ k < b} = {} =>
      b - a <= 2 /\ \A k \in a + 1..b - 1 : lines[k].kind = "blank"
ListOf(lines, i) ==
  {j \in Items(lines) : IF i <= j THEN Joined(lines, i, j) ELSE Joined(lines, j, i)}

\* The lists of a turn are its runs of at least two items, and an item goes
\* by its printed number, a bullet by its place among the bullets of its list.
LinesOf(list) == {list[k].line : k \in DOMAIN list}
Place(lines, i) ==
  IF lines[i].kind = "bullet"
  THEN Cardinality({j \in ListOf(lines, i) : j <= i /\ lines[j].kind = "bullet"})
  ELSE lines[i].n
RunsAreListed(lines) ==
  LET lists == ParseLists(lines)
  IN  /\ {LinesOf(lists[l]) : l \in DOMAIN lists}
           = {ListOf(lines, i) : i \in {j \in Items(lines) : Cardinality(ListOf(lines, j)) >= 2}}
      /\ \A l \in DOMAIN lists : \A k \in DOMAIN lists[l] :
           lists[l][k].index = Place(lines, lists[l][k].line)
ListsAreTheRuns == \A t \in 1..read : RunsAreListed(history[t].lines)
===============================================================================

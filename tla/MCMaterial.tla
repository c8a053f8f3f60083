------------------------------ MODULE MCMaterial ------------------------------
(* Three kinds of transcript: dates said in every awkward month, prices of   *)
(* three items, and lists of up to five lines.                               *)
EXTENDS Material

Span(family, from, to, sentence, value, words, target) ==
  [family |-> family, from |-> from, to |-> to, code |-> FALSE, sentence |-> sentence,
   value |-> value, words |-> words, target |-> target]
Turn(at, spans, lines) == [at |-> at, spans |-> spans, lines |-> lines]
D(y, m, d) == [y |-> y, m |-> m, d |-> d]

Anchors == {Instant(D(2023, 1, 31), 1), Instant(D(2023, 3, 31), 0), Instant(D(2024, 2, 29), 1),
            Instant(D(2023, 12, 30), 0), Instant(D(2024, 3, 1), 1)}
Phrase(count, unit) == [count |-> count, unit |-> unit, exact |-> TRUE]
\* Some lead before 1970, or out of the years of four digits.
Phrases == {Phrase(c, u) : c \in {-11, -1, 2}, u \in {"day", "week", "month"}}
           \union {Phrase(-1, "year"), Phrase(1, "year"), Phrase(-3, "hour"), Phrase(-60, "year"),
                   Phrase(-300, "decade"), Phrase(800, "decade"),
                   [count |-> 0, unit |-> "week", exact |-> FALSE]}

\* "Two weeks ago" also reads as the duration "two weeks", and a price stands
\* in the same sentence or in the next one.
Told(at, phrase, sentence) ==
  Turn(at, {Span("relative_time", 1, 4, 1, phrase, {}, {}),
            Span("duration", 1, 3, 1, [count |-> 0], {}, {}),
            Span("time", 5, 6, sentence, [count |-> 1], {}, {})}, <<>>)
Written(date) ==
  Turn(Undated, {Span("date", 1, 2, 1, date, {}, {}),
                 [Span("date", 3, 4, 1, D(2023, 5, 5), {}, {}) EXCEPT !.code = TRUE]}, <<>>)
MCDates == {<<Told(a, p, s), Told(b, q, 2)>> : a, b \in Anchors, p \in Phrases, s \in {1, 2},
                                               q \in {Phrase(-1, "month")}}
           \union {<<Written(w), Told(a, p, 2), Written(D(2023, 2, 29))>> :
                      w \in {D(2024, 2, 29), D(450, 1, 31)}, a \in Anchors \union {Undated}, p \in Phrases}

Price(amount, currency) == [amount |-> amount, currency |-> currency]
Spoken(at, words, target, price) == Turn(at, {Span("money", 1, 2, 1, price, words, target)}, <<>>)
Mentions(at) ==
  {Spoken(at, {"food", "bowl"}, {}, Price(15, "USD")),
   Spoken(at, {"it"}, {"measuring", "cup"}, Price(15, "USD")),
   Spoken(at, {"dental", "chews"}, {}, Price(10, "USD")),
   Spoken(at, {"watch"}, {}, Price(1500, "USD")),
   Spoken(at, {"collar"}, {}, Price(20, "EUR"))}
Shop == Instant(D(2023, 5, 30), 0)
MCPrices == UNION {[1..n -> Mentions(Shop)] : n \in 2..4}

Line(kind, n) == [kind |-> kind, n |-> n]
Lines == {Line("number", 7), Line("bullet", 0), Line("blank", 0), Line("text", 0)}
MCLists == {<<Turn(Shop, {}, lines)>> : lines \in UNION {[1..n -> Lines] : n \in 2..5}}

MCTranscript == MCDates \union MCPrices \union MCLists

MCQuestion ==
  {[items |-> <<>>, temporal |-> TRUE, total |-> FALSE, asked |-> Instant(D(2024, 1, 1), 0)],
   [items |-> <<{"bowl"}, {"measuring", "cup"}, {"dental", "chews"}>>, temporal |-> FALSE, total |-> TRUE, asked |-> Shop],
   [items |-> <<{"collar"}, {"food", "bowl"}>>, temporal |-> TRUE, total |-> TRUE, asked |-> Shop]}
===============================================================================

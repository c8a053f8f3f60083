-------------------------------- MODULE Totals --------------------------------
(***************************************************************************)
(* The sum that accompanies an answer (core/src/arithmetic.ts): every      *)
(* amount in the material, and a total over the items the question itself  *)
(* enumerates.                                                             *)
(*                                                                         *)
(* A claim has its words and the amounts its text carries, in the order    *)
(* they are read; an item of the question is the set of its own words.     *)
(***************************************************************************)
EXTENDS Integers, Sequences, SequencesExt, FiniteSets

\* One entry per claim and amount: the view the items are matched against.
EntriesOf(claims) ==
  FlattenSeq([i \in DOMAIN claims |->
    [k \in DOMAIN claims[i].amounts |->
       [amount |-> claims[i].amounts[k].amount, currency |-> claims[i].amounts[k].currency,
        words |-> claims[i].words]]])

Unsummable(claims) == Cardinality({i \in DOMAIN claims : claims[i].amounts = <<>>})

Currencies(entries) == {entries[e].currency : e \in DOMAIN entries}

\* The distinct amounts: the same figure restated is one line.
Distinct(entries, currency) ==
  {entries[e].amount : e \in {f \in DOMAIN entries : entries[f].currency = currency}}

\* How much of an item an entry covers.
Cover(item, entry) == Cardinality(item \intersect entry.words)

\* A slip: a figure that was matched already does not match again.
OpenDistinct(entries, used) ==
  {e \in DOMAIN entries : \A u \in used : entries[u].amount # entries[e].amount}

\* An entry answers one item.
Open(entries, used) == DOMAIN entries \ used

\* The first of the entries that cover most of the item, if it is half of it.
Best(entries, used, item) ==
  {e \in Open(entries, used) :
     /\ 2 * Cover(item, entries[e]) >= Cardinality(item) /\ Cover(item, entries[e]) > 0
     /\ \A f \in Open(entries, used) :
          \/ Cover(item, entries[f]) < Cover(item, entries[e])
          \/ Cover(item, entries[f]) = Cover(item, entries[e]) /\ e <= f}

\* Items in the order of the question, those without a word of their own
\* left out; a lone item is no enumeration.
OnNamed(entries, m, item) ==
  IF item = {} THEN m
  ELSE IF Best(entries, m.used, item) = {}
  THEN [m EXCEPT !.unmatched = Append(@, item)]
  ELSE LET e == CHOOSE e \in Best(entries, m.used, item) : TRUE
       IN  [m EXCEPT !.used = @ \union {e}, !.matched = Append(@, e)]
Matching(entries, items) ==
  FoldLeft(LAMBDA m, item : OnNamed(entries, m, item),
           [used |-> {}, matched |-> <<>>, unmatched |-> <<>>],
           IF Len(items) >= 2 THEN items ELSE <<>>)

SumOver(entries, matched, currency) ==
  FoldLeft(LAMBDA t, e : IF entries[e].currency = currency THEN t + entries[e].amount ELSE t, 0, matched)

\* computeTotals: the distinct amounts of each currency, and the sum of what
\* the question names, if that is two items at least.
Totals(claims, items) ==
  LET entries == EntriesOf(claims)
      m == Matching(entries, items)
  IN  [byCurrency |-> [c \in Currencies(entries) |-> Distinct(entries, c)],
       matchedSums |-> IF Len(m.matched) < 2 THEN {}
                       ELSE {[currency |-> entries[e].currency,
                              sum |-> SumOver(entries, m.matched, entries[e].currency)] : e \in m.used},
       unmatched |-> m.unmatched,
       unsummable |-> Unsummable(claims)]

\* renderTotals: nothing at all unless some currency has two different
\* amounts; what is missing only next to a sum.
Rendered(t) ==
  LET several == {c \in DOMAIN t.byCurrency : Cardinality(t.byCurrency[c]) >= 2}
  IN  IF several = {} THEN [lines |-> {}, totals |-> {}, missing |-> <<>>, unsummable |-> 0]
      ELSE [lines |-> {[currency |-> c, amounts |-> t.byCurrency[c]] : c \in several},
            totals |-> t.matchedSums,
            missing |-> IF t.matchedSums = {} THEN <<>> ELSE t.unmatched,
            unsummable |-> t.unsummable]
===============================================================================

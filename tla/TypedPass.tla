------------------------------ MODULE TypedPass -------------------------------
(***************************************************************************)
(* The pass of ingestion without a model (ingest/src/typed.ts): patterns   *)
(* of five families claim stretches of a turn, the specific ones first,    *)
(* and the enumerated lists become one claim per item.                     *)
(*                                                                         *)
(* A turn is what the patterns find in it: [spans, lines].  A span has the *)
(* family that matches it, its bounds, whether it lies in a code fence,    *)
(* its sentence, its value (a written date, a phrase, an amount), and the  *)
(* words around an amount; a line is an item, blank, or text.              *)
(***************************************************************************)
EXTENDS Calendar, Sequences, SequencesExt, FiniteSets

CONSTANTS
  MaxClaimsPerTurn,  \* claims one turn may yield
  MaxListItems       \* items one list may yield

ASSUME TypedAssumption == {MaxClaimsPerTurn, MaxListItems} \subseteq Nat \ {0}

\* The order in which the families claim their stretches.
Families == <<"date", "relative_time", "duration", "time", "money">>

\* What the patterns can find: the matches of one of them lie apart.
ValueFits(s) ==
  CASE s.family = "date" -> s.value \in [y : Nat, m : Nat, d : Nat]
    [] s.family = "relative_time" -> s.value \in [count : Int, unit : Units, exact : BOOLEAN]
    [] s.family = "money" -> s.value \in [amount : Int, currency : STRING]
    [] OTHER -> TRUE
Found(spans) ==
  /\ IsFiniteSet(spans)
  /\ \A s \in spans : s.from \in Nat /\ s.code \in BOOLEAN /\ ValueFits(s)
  /\ \A s, t \in spans : s.family = t.family /\ ~s.code /\ ~t.code /\ s.from = t.from => s = t
ListLine == [kind : {"bullet", "number", "blank", "text"}, n : Nat]

Overlaps(taken, s) == \E t \in taken : s.from < t.to /\ t.from < s.to

\* localNounPhrase: what "$5 for it" names, or else the words before.
NounPhrase(s) == IF s.target # {} THEN s.target ELSE s.words

ClaimOf(s, anchor) ==
  [family |-> s.family,
   words |-> IF s.family = "money" THEN NounPhrase(s) ELSE {},
   value |-> s.value,
   sentence |-> s.sentence,
   date |-> CASE s.family = "date" -> ResolveAbsolute(s.value)
              [] s.family = "relative_time" -> ResolveRelative(s.value, anchor)
              [] OTHER -> NoDate]

\* The members of a set in line, each after those that R puts before it.
Lined(S, R) ==
  [k \in 1..Cardinality(S) |->
     CHOOSE x \in S : Cardinality({y \in S : y = x \/ <<y, x>> \in R}) = k]

\* The stretches of one family, from left to right; code is masked.
Matches(spans, family) == {s \in spans : s.family = family /\ ~s.code}
LeftToRight(S) == {p \in S \X S : p[1].from < p[2].from}
InOrder(spans, family) == Lined(Matches(spans, family), LeftToRight(Matches(spans, family)))

\* scan(): a stretch already claimed is passed over, and a family stops with
\* the claim that reaches the limit.
OnMatch(a, s, anchor) ==
  IF a.full \/ Overlaps(a.taken, s) THEN a
  ELSE [taken |-> a.taken \union {s},
        out |-> Append(a.out, ClaimOf(s, anchor)),
        full |-> Len(a.out) + 1 >= MaxClaimsPerTurn]
Scanned(acc, spans, family, anchor) ==
  FoldLeft(LAMBDA a, s : OnMatch(a, s, anchor), [acc EXCEPT !.full = FALSE], InOrder(spans, family))

----------------------------------------------------------------------------
(* Lists *)

NoList == <<>>

\* flush(): a lone item is a sentence with a dash.
Flushed(a) ==
  [a EXCEPT !.lists = IF Len(a.items) >= 2 THEN Append(@, a.items) ELSE @,
            !.items = NoList, !.bullets = 0]

\* An item keeps its printed number; a bullet gets its position.
OnItem(a, line, i) ==
  LET bullets == IF line.kind = "bullet" THEN a.bullets + 1 ELSE a.bullets
  IN  [a EXCEPT !.gap = 0, !.bullets = bullets,
                !.items = Append(@, [index |-> IF line.kind = "bullet" THEN bullets ELSE line.n,
                                     line |-> i])]

\* A slip: a second blank line is let pass.
GapEndsLate(gap) == gap > 2

\* At most one blank line between two items of a list.
GapEnds(gap) == gap > 1

OnBlank(a) ==
  LET b == [a EXCEPT !.gap = @ + 1] IN IF GapEnds(b.gap) THEN Flushed(b) ELSE b

OnText(a) == [Flushed(a) EXCEPT !.gap = 0]

OnLine(a, line, i) ==
  CASE line.kind \in {"bullet", "number"} -> OnItem(a, line, i)
    [] line.kind = "blank" -> OnBlank(a)
    [] line.kind = "text" -> OnText(a)

\* parseLists: the items of every list of a turn.
ParseLists(lines) ==
  LET end == FoldLeft(LAMBDA a, i : OnLine(a, lines[i], i),
                      [lists |-> <<>>, items |-> NoList, bullets |-> 0, gap |-> 0],
                      [i \in DOMAIN lines |-> i])
  IN  Flushed(end).lists

\* The evidence of an item is its line.
ListClaims(lists) ==
  FlattenSeq([l \in DOMAIN lists |->
    [i \in 1..(IF Len(lists[l]) < MaxListItems THEN Len(lists[l]) ELSE MaxListItems) |->
      [family |-> "list_item", words |-> {}, value |-> lists[l][i],
       sentence |-> -lists[l][i].line, date |-> NoDate]]])

----------------------------------------------------------------------------
(* The pass *)

Upto(s, n) == IF Len(s) <= n THEN s ELSE SubSeq(s, 1, n)

\* extractTypedFromTurn.
FromTurn(turn, anchor) ==
  LET scanned == FoldLeft(LAMBDA a, family : Scanned(a, turn.spans, family, anchor),
                          [taken |-> {}, out |-> <<>>, full |-> FALSE], Families)
  IN  Upto(scanned.out \o ListClaims(ParseLists(turn.lines)), MaxClaimsPerTurn)

\* One claim key for what is said twice in one turn.
SameFact(a, b) == a.family = b.family /\ a.words = b.words /\ a.value = b.value
Deduplicated(claims) ==
  LET first == {i \in DOMAIN claims : \A j \in 1..i - 1 : ~SameFact(claims[j], claims[i])}
      kept == Lined(first, {p \in first \X first : p[1] < p[2]})
  IN  [k \in DOMAIN kept |-> claims[kept[k]]]
===============================================================================

---------------------------------- MODULE Web ----------------------------------
(***************************************************************************)
(* A visit to apps/web: one page at a time, reached by the links and the   *)
(* stage keys, over a history that this visitor and others correct.        *)
(***************************************************************************)
EXTENDS AskPage, TimelinePage

CONSTANT MaxVisits  \* bound on the pages opened

VARIABLES
  page,   \* "home", "ask" or "timeline"
  visits  \* pages opened

vars == <<store, askVars, timelineVars, page, visits>>

Stay == UNCHANGED <<page, visits>>

\* The router unmounts one page and mounts the next.
Navigate(to) ==
  /\ to # page /\ visits < MaxVisits
  /\ page' = to /\ visits' = visits + 1

GoAsk ==
  /\ Navigate("ask") /\ page = "home"
  /\ OpenAskPage /\ UNCHANGED timelineVars

GoTimeline ==
  /\ Navigate("timeline") /\ page = "home"
  /\ OpenTimeline /\ UNCHANGED askVars

GoHome ==
  /\ Navigate("home")
  /\ LeaveAskPage /\ Leave
  /\ UNCHANGED store

Elsewhere ==
  /\ \E attr \in Attribute : CorrectedElsewhere(attr)
  /\ UNCHANGED <<askVars, timelineVars>>

WebInit == StoreInit /\ AskInit /\ TimelineInit /\ page = "home" /\ visits = 0

WebNext ==
  \/ GoAsk \/ GoTimeline \/ GoHome
  \/ Elsewhere /\ Stay
  \/ page = "ask" /\ AskStep /\ UNCHANGED timelineVars /\ Stay
  \/ FilingsGoOn /\ UNCHANGED timelineVars /\ Stay
  \/ page = "timeline" /\ PanelStep /\ UNCHANGED askVars /\ Stay

WebSpec == WebInit /\ [][WebNext]_vars

----------------------------------------------------------------------------
(* Properties *)

\* Late replies keep their place: the neighbouring turns on show are those of
\* the citation above them and a chain on show is that of the selected
\* attribute, however many were asked for and in whatever order they return,
\* also across pages left and entered again.
LateRepliesKeepTheirPlace ==
  /\ window.turns \in {NoClaim, window.of}
  /\ \A ch \in shown["history"] \union shown["graph"] : ch.of = panel.attr
===============================================================================

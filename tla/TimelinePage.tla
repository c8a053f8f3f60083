----------------------------- MODULE TimelinePage -----------------------------
(***************************************************************************)
(* The page of apps/web that shows a whole revision chain: the History and *)
(* Constellation tabs of /timeline.  A chain is put together from          *)
(* GET /api/belief and GET /api/diff (lib/chain.ts), and each of these     *)
(* reads claims and edges at a moment of its own, while the visitor        *)
(* selects another attribute and others correct the history.               *)
(***************************************************************************)
EXTENDS SiteStore

CONSTANTS
  Attribute,    \* the attributes of the picker
  FirstAttr,    \* the one the panel opens with
  MaxLoads      \* bound on the chains loaded

ASSUME TimelineAssumption == FirstAttr \in Attribute

VARIABLES
  panel,  \* TimelinePanel: the attribute, the tab, whether a load failed
  shown,  \* the chain each view holds, if any
  loads,  \* loadChain in flight: who asked, and the four snapshots behind it
  loaded  \* loads begun

timelineVars == <<panel, shown, loads, loaded>>

View == {"history", "graph"}
Unloaded == {}
ClosedPanel == [attr |-> "none", tab |-> "none", error |-> FALSE]

----------------------------------------------------------------------------
(* loadChain *)

Begin(view, attr) ==
  [view |-> view, of |-> attr,
   beliefClaims |-> Unloaded, beliefEdges |-> Unloaded,
   diffClaims |-> Unloaded, diffEdges |-> Unloaded]

Part(l) == {p \in {"beliefClaims", "beliefEdges", "diffClaims", "diffEdges"} : l[p] = Unloaded}

\* One of the reads reaches the store.
ReadPart(l) ==
  /\ \E p \in Part(l) :
       loads' = (loads \ {l}) \union
                {[l EXCEPT ![p] = {IF p \in {"beliefClaims", "diffClaims"} THEN Of(l.of) ELSE edges}]}
  /\ UNCHANGED <<store, panel, shown, loaded>>

Snapshot(s) == CHOOSE x \in s : TRUE

\* The claims of both replies, the revisions of the diff from the first to
\* the last second, the head and the struck claims of the belief.
Chain(l) ==
  LET belief == ResolveBelief("FUNCTIONAL", Snapshot(l.beliefClaims), row, Snapshot(l.beliefEdges))
      all == Snapshot(l.diffClaims)
      far == CHOOSE t \in {row[c].event : c \in DOMAIN row} : \A c \in DOMAIN row : row[c].event <= t
      walk == DiffChain("FUNCTIONAL", all, row, Snapshot(l.diffEdges), 0, far, 8).revisions
      revisions == {walk[i] : i \in DOMAIN walk}
  IN  [of |-> l.of,
       claims |-> belief.superseded \union belief.negations \union belief.heads
                  \union Newers(revisions) \union Olders(revisions),
       revisions |-> revisions,
       headId |-> belief.head,
       aside |-> belief.superseded]

----------------------------------------------------------------------------
(* What the views make of a chain, wherever the playhead stands *)

Born(ch, at) == {c \in ch.claims : row[c].event <= at}
Struck(ch, at) == {r.older : r \in {e \in ch.revisions : row[e.newer].event <= at}}

\* A slip: whatever is not the head of the belief reply is struck.
AsideAll(ch, at) == ch.claims \ {ch.headId}

\* Set aside by the fold without an edge, once something later exists.
Aside(ch, at) ==
  {c \in ch.aside : \E o \in Born(ch, at) : row[o].event > row[c].event}

HistoryStruck(ch, at) == ch.claims \intersect (Struck(ch, at) \union Aside(ch, at))

\* The last of the claims on show that are not struck, sorted by event time
\* and id.
After(a, b) == row[a].event > row[b].event \/ (row[a].event = row[b].event /\ a > b)
HistoryCurrent(ch, at) ==
  {c \in Born(ch, at) \ HistoryStruck(ch, at) :
     \A d \in Born(ch, at) \ HistoryStruck(ch, at) : d = c \/ After(c, d)}

\* The red edges whose ends are both on the stage.
Drawn(ch) == {r \in ch.revisions : {r.newer, r.older} \subseteq ch.claims}

\* A slip: whether anything later is born does not matter.
DimmedEarly(ch, at) == ch.aside

\* The graph dims an aside claim when a later one of its attribute is born.
Dimmed(ch, at) ==
  {c \in ch.aside \intersect Born(ch, at) :
     \E o \in Born(ch, at) : row[o].event > row[c].event}

GraphStruck(ch, at) ==
  {r.older : r \in {e \in Drawn(ch) : row[e.newer].event <= at}} \union Dimmed(ch, at)

\* The latest birth; of equal ones the first in the chain's order.
GraphCurrent(ch, at) ==
  {c \in Born(ch, at) \ GraphStruck(ch, at) :
     \A d \in Born(ch, at) \ GraphStruck(ch, at) :
       d = c \/ row[c].event > row[d].event \/ (row[c].event = row[d].event /\ c < d)}

----------------------------------------------------------------------------
(* The panel *)

\* A slip: the effect's clean-up is forgotten.
StillAliveAll(views) == loads

\* The clean-up of an effect: the loads of these views will find alive =
\* false and change nothing, so they are forgotten here.
StillAlive(views) == {l \in loads : l.view \notin views}

\* The effect of an attribute: the old chain goes, its own is asked for; the
\* tabs, which need a chain, are unmounted.
Select(attr) ==
  /\ panel.attr # attr /\ loaded < MaxLoads
  /\ panel' = [panel EXCEPT !.attr = attr, !.error = FALSE]
  /\ shown' = [view \in View |-> Unloaded]
  /\ loads' = StillAlive(View) \union {Begin("history", attr)}
  /\ loaded' = loaded + 1
  /\ UNCHANGED store

\* The Constellation loads its chains anew whenever it is mounted.
MountGraph(ls) == ls \union {Begin("graph", panel.attr)}

\* setChain; a graph tab is mounted with the chain it needs.
ChainArrives(l) ==
  /\ Part(l) = {}
  /\ l.view = "history" => loaded < MaxLoads
  /\ shown' = [shown EXCEPT ![l.view] = {Chain(l)}]
  /\ IF l.view = "history" /\ panel.tab = "graph"
     THEN loads' = MountGraph(loads \ {l}) /\ loaded' = loaded + 1
     ELSE loads' = loads \ {l} /\ UNCHANGED loaded
  /\ UNCHANGED <<store, panel>>

\* A read fails: the panel shows an error, the graph goes without the chain.
LoadFails(l) ==
  /\ loads' = loads \ {l}
  /\ panel' = IF l.view = "history" THEN [panel EXCEPT !.error = TRUE] ELSE panel
  /\ UNCHANGED <<store, shown, loaded>>

SwitchTab(tab) ==
  /\ tab # panel.tab
  /\ loaded < MaxLoads
  /\ panel' = [panel EXCEPT !.tab = tab]
  /\ shown' = [shown EXCEPT !["graph"] = Unloaded]
  /\ IF tab = "graph" /\ shown["history"] # Unloaded /\ ~panel.error
     THEN loads' = MountGraph(loads) /\ loaded' = loaded + 1
     ELSE loads' = StillAlive({"graph"}) /\ UNCHANGED loaded
  /\ UNCHANGED store

----------------------------------------------------------------------------
(* The pages *)

TimelineInit ==
  /\ panel = ClosedPanel
  /\ shown = [view \in View |-> Unloaded]
  /\ loads = {} /\ loaded = 0

\* Mounted, the panel opens with the first attribute and asks for its chain;
\* the attribute of the URL is selected after that.
OpenTimeline ==
  /\ loaded < MaxLoads
  /\ \E tab \in {"history", "graph"} :
       panel' = [ClosedPanel EXCEPT !.attr = FirstAttr, !.tab = tab]
  /\ loads' = loads \union {Begin("history", FirstAttr)}
  /\ loaded' = loaded + 1
  /\ UNCHANGED <<store, shown>>

Leave ==
  /\ panel' = ClosedPanel
  /\ shown' = [view \in View |-> Unloaded]
  /\ loads' = StillAlive(View)
  /\ UNCHANGED loaded

PanelStep ==
  \/ \E attr \in Attribute : Select(attr)
  \/ \E tab \in {"history", "graph"} : SwitchTab(tab)
  \/ \E l \in loads : ReadPart(l) \/ ChainArrives(l) \/ LoadFails(l)

----------------------------------------------------------------------------
(* Properties *)

\* No view strikes a claim that stands: although a chain is put together from
\* reads of four moments, what is struck on it today is not believed now.
NoStandingClaimIsStruck ==
  \A ch \in shown["history"] \union shown["graph"] :
    \A c \in HistoryStruck(ch, LastSecond) \union GraphStruck(ch, LastSecond) :
      c \notin BeliefOf(ch.of).heads

\* The two tabs tell one story of a chain without two claims of one second:
\* wherever the playhead stands, they strike the same claims of those born
\* by then and call the same one current.
TabsAgree ==
  \A ch \in shown["history"] \union shown["graph"] :
    (\A c, d \in ch.claims : row[c].event = row[d].event => c = d) =>
      \A at \in 0..LastSecond :
        /\ HistoryStruck(ch, at) \intersect Born(ch, at) = GraphStruck(ch, at) \intersect Born(ch, at)
        /\ HistoryCurrent(ch, at) = GraphCurrent(ch, at)
===============================================================================

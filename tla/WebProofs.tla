------------------------------- MODULE WebProofs -------------------------------
(***************************************************************************)
(* What the pages promise, for every history, set of attributes and        *)
(* questions, and any number of calls, loads and visits.                   *)
(*                                                                         *)
(* Late replies: what is in flight was asked for by what is selected now.  *)
(* Turns are read for the line of the open window only, chains are loaded  *)
(* for the selected attribute only, and nothing is loaded for a page that  *)
(* was left; so it does not matter which reply comes when.                 *)
(*                                                                         *)
(* Tabs: both are drawn from one chain, whose revisions end in its claims. *)
(*                                                                         *)
(* The patient visitor: with one call in flight the card, the call and the *)
(* correction speak of the same question.                                  *)
(*                                                                         *)
(* What is struck: a claim that the fold set aside stays aside while later *)
(* claims and their revisions are appended (AsideStaysAside), so a chain   *)
(* put together from four reads strikes no belief of its own last read.    *)
(***************************************************************************)
EXTENDS Web, BeliefFoldProofs

\* The records keep their fields.
WindowShape == window = [of |-> window.of, turns |-> window.turns]
PanelShape == panel = [attr |-> panel.attr, tab |-> panel.tab, error |-> panel.error]
LoadField == {"view", "of", "beliefClaims", "beliefEdges", "diffClaims", "diffEdges"}
LoadShape(l) == l = [f \in LoadField |-> l[f]] /\ l.view \in View

\* The window of the first citation.
WindowInv ==
  /\ WindowShape
  /\ reads \subseteq {window.of}
  /\ window.turns \in {NoClaim, window.of}

\* The timeline, whose page may be closed.
PanelInv ==
  /\ PanelShape
  /\ DOMAIN shown = View
  /\ \A l \in loads : LoadShape(l) /\ l.of = panel.attr
  /\ \A view \in View : \A ch \in shown[view] : ch.of = panel.attr
Closed == loads = {} /\ \A view \in View : shown[view] = {}

Inv == WindowInv /\ PanelInv /\ (page # "timeline" => Closed)

----------------------------------------------------------------------------
(* The ask page *)

LEMMA ReopenedWindow ==
  ASSUME WindowInv, NEW claim, Reopened(claim)
  PROVE  WindowInv'
  <1>1. CASE claim = window.of
    BY <1>1 DEF Reopened, WindowInv, WindowShape
  <1>2. CASE claim # window.of
    BY <1>2 DEF Reopened, WindowInv, WindowShape
  <1> QED BY <1>1, <1>2

LEMMA AskStepKeepsWindow ==
  ASSUME WindowInv, AskStep
  PROVE  WindowInv'
  <1>1. CASE UNCHANGED <<window, reads>>
    BY <1>1 DEF WindowInv, WindowShape
  <1>2. ASSUME NEW call \in asks, AnswerArrives(call) PROVE WindowInv'
    <2>1. PICK r \in call.reply : TRUE
      BY <1>2 DEF AnswerArrives, Nothing
    <2>2. Reopened(r.claim)
      BY <1>2, <2>1 DEF AnswerArrives
    <2> QED BY <2>2, ReopenedWindow
  <1>3. ASSUME NEW call \in asks, AskFails(call) PROVE WindowInv'
    BY <1>3, ReopenedWindow DEF AskFails
  <1>4. ASSUME NEW r \in reads, TurnsArrive(r) PROVE WindowInv'
    BY <1>4 DEF TurnsArrive, WindowInv, WindowShape
  <1>5. ASSUME NEW r \in reads, TurnsFail(r) PROVE WindowInv'
    BY <1>5 DEF TurnsFail, WindowInv, WindowShape
  <1> QED
    BY <1>1, <1>2, <1>3, <1>4, <1>5
       DEF AskStep, AskQuestion, ToggleForm, FileErratum, Stet, ServeAsk

----------------------------------------------------------------------------
(* The timeline *)

LEMMA BegunLoad ==
  ASSUME NEW view \in View, NEW attr
  PROVE  LoadShape(Begin(view, attr)) /\ Begin(view, attr).of = attr
  BY DEF LoadShape, LoadField, Begin

LEMMA PanelStepKeepsPanel ==
  ASSUME PanelInv, PanelStep
  PROVE  PanelInv'
  <1> USE DEF PanelInv
  <1>1. "history" \in View /\ "graph" \in View
    BY DEF View
  <1>2. ASSUME NEW attr \in Attribute, Select(attr) PROVE PanelInv'
    <2>1. panel'.attr = attr /\ PanelShape'
      BY <1>2 DEF Select, PanelShape
    <2>2. loads' = {Begin("history", attr)}
      BY <1>2 DEF Select, StillAlive, LoadShape
    <2>3. DOMAIN shown' = View /\ \A view \in View : shown'[view] = {}
      BY <1>2 DEF Select, Unloaded
    <2> QED BY <1>1, <2>1, <2>2, <2>3, BegunLoad
  <1>3. ASSUME NEW tab, SwitchTab(tab) PROVE PanelInv'
    <2>1. panel'.attr = panel.attr /\ PanelShape'
      BY <1>3 DEF SwitchTab, PanelShape
    <2>2. loads' \subseteq loads \union {Begin("graph", panel.attr)}
      BY <1>3 DEF SwitchTab, StillAlive, MountGraph
    <2>3. DOMAIN shown' = View /\ \A view \in View : shown'[view] \subseteq shown[view]
      BY <1>3 DEF SwitchTab, Unloaded
    <2> QED BY <1>1, <2>1, <2>2, <2>3, BegunLoad
  <1>4. ASSUME NEW l \in loads, ReadPart(l) PROVE PanelInv'
    <2> DEFINE Got(p, s) == loads' = (loads \ {l}) \union {[l EXCEPT ![p] = {s}]}
    <2>0. PICK p \in Part(l) : \E s : Got(p, s)
      BY <1>4 DEF ReadPart
    <2>1. PICK s : Got(p, s)
      BY <2>0
    <2>2. p \in {"beliefClaims", "beliefEdges", "diffClaims", "diffEdges"}
      BY <2>0 DEF Part
    <2>3. LoadShape([l EXCEPT ![p] = {s}]) /\ [l EXCEPT ![p] = {s}].of = l.of
      <3>1. l = [f \in LoadField |-> l[f]] /\ l.view \in View
        BY DEF LoadShape
      <3>2. [l EXCEPT ![p] = {s}] = [f \in LoadField |-> IF f = p THEN {s} ELSE l[f]]
        BY <3>1, <2>2 DEF LoadField
      <3> QED BY <2>2, <3>1, <3>2 DEF LoadShape, LoadField
    <2> QED BY <1>4, <2>1, <2>3 DEF ReadPart, PanelShape
  <1>5. ASSUME NEW l \in loads, ChainArrives(l) PROVE PanelInv'
    <2>1. Chain(l).of = panel.attr
      BY DEF Chain
    <2>2. loads' \subseteq loads \union {Begin("graph", panel.attr)}
      BY <1>5 DEF ChainArrives, MountGraph
    <2>3. /\ DOMAIN shown' = View
          /\ \A view \in View : shown'[view] \subseteq shown[view] \union {Chain(l)}
      BY <1>5 DEF ChainArrives
    <2>4. panel' = panel
      BY <1>5 DEF ChainArrives
    <2> QED BY <1>1, <2>1, <2>2, <2>3, <2>4, BegunLoad DEF PanelShape
  <1>6. ASSUME NEW l \in loads, LoadFails(l) PROVE PanelInv'
    BY <1>6 DEF LoadFails, PanelShape
  <1> QED
    BY <1>2, <1>3, <1>4, <1>5, <1>6 DEF PanelStep

----------------------------------------------------------------------------
(* The visit *)

LEMMA InitInv == WebInit => Inv
  BY DEF WebInit, AskInit, TimelineInit, NoWindow, ClosedPanel, Unloaded,
         Inv, WindowInv, WindowShape, PanelInv, PanelShape, Closed

\* Replies and corrections that leave a page's selection and calls alone.
LEMMA UntouchedWindow == WindowInv /\ UNCHANGED <<window, reads>> => WindowInv'
  BY DEF WindowInv, WindowShape

LEMMA UntouchedPanel ==
  PanelInv /\ UNCHANGED timelineVars => PanelInv' /\ (Closed => Closed')
  BY DEF PanelInv, PanelShape, Closed, timelineVars

LEMMA StepInv == Inv /\ [WebNext]_vars => Inv'
  <1> SUFFICES ASSUME Inv, [WebNext]_vars PROVE Inv'
    OBVIOUS
  <1> USE DEF Inv
  <1>1. CASE GoAsk
    <2>1. UNCHANGED <<window, reads, timelineVars>> /\ page = "home" /\ page' = "ask"
      BY <1>1 DEF GoAsk, OpenAskPage, Navigate
    <2> QED BY <2>1, UntouchedWindow, UntouchedPanel
  <1>2. CASE GoTimeline
    <2>1. UNCHANGED <<window, reads>> /\ page = "home" /\ page' = "timeline" /\ OpenTimeline
      BY <1>2 DEF GoTimeline, Navigate, askVars
    <2>2. panel'.attr = FirstAttr /\ PanelShape'
      BY <2>1 DEF OpenTimeline, ClosedPanel, PanelShape
    <2>3. loads' = {Begin("history", FirstAttr)} /\ shown' = shown
      BY <2>1 DEF OpenTimeline, Closed
    <2>4. "history" \in View
      BY DEF View
    <2>5. PanelInv'
      BY <2>1, <2>2, <2>3, <2>4, BegunLoad DEF PanelInv, Closed
    <2> QED BY <2>1, <2>5, UntouchedWindow
  <1>3. CASE GoHome
    <2>1. LeaveAskPage /\ Leave
      BY <1>3 DEF GoHome
    <2>2. WindowInv'
      BY <2>1 DEF LeaveAskPage, NoWindow, WindowInv, WindowShape
    <2>3. loads' = {}
      BY <2>1 DEF Leave, StillAlive, PanelInv, LoadShape
    <2>4. PanelInv' /\ Closed'
      BY <2>1, <2>3 DEF Leave, ClosedPanel, Unloaded, PanelInv, PanelShape, Closed
    <2> QED BY <2>2, <2>4
  <1>4. CASE Elsewhere /\ Stay
    BY <1>4, UntouchedWindow, UntouchedPanel DEF Elsewhere, Stay, askVars
  <1>5. CASE page = "ask" /\ AskStep /\ UNCHANGED timelineVars /\ Stay
    BY <1>5, AskStepKeepsWindow, UntouchedPanel DEF Stay
  <1>6. CASE FilingsGoOn /\ UNCHANGED timelineVars /\ Stay
    <2>1. UNCHANGED <<window, reads>>
      BY <1>6 DEF FilingsGoOn, ServeCorrection, CorrectionAcked, CorrectionFails
    <2> QED BY <1>6, <2>1, UntouchedWindow, UntouchedPanel DEF Stay
  <1>7. CASE page = "timeline" /\ PanelStep /\ UNCHANGED askVars /\ Stay
    BY <1>7, PanelStepKeepsPanel, UntouchedWindow DEF Stay, askVars
  <1>8. CASE UNCHANGED vars
    BY <1>8, UntouchedWindow, UntouchedPanel DEF vars, askVars
  <1> QED
    BY <1>1, <1>2, <1>3, <1>4, <1>5, <1>6, <1>7, <1>8 DEF WebNext

\* A turn window and a chain on show are those of what is selected now,
\* in whatever order the replies of lib/api.ts come in.
THEOREM LateRepliesAreInPlace == WebSpec => []LateRepliesKeepTheirPlace
  <1>1. Inv => LateRepliesKeepTheirPlace
    <2> SUFFICES ASSUME Inv PROVE LateRepliesKeepTheirPlace
      OBVIOUS
    <2>1. "history" \in View /\ "graph" \in View
      BY DEF View
    <2> QED BY <2>1 DEF Inv, WindowInv, PanelInv, LateRepliesKeepTheirPlace
  <1> QED BY <1>1, InitInv, StepInv, PTL DEF WebSpec

----------------------------------------------------------------------------
(* One story of a chain *)

\* Both ends of a revision are on show with the chain it belongs to.
EndsShown(ch) == Newers(ch.revisions) \union Olders(ch.revisions) \subseteq ch.claims
ChainsWhole == \A view \in View : \A ch \in shown[view] : EndsShown(ch)

LEMMA ChainIsWhole ==
  ASSUME NEW l
  PROVE  EndsShown(Chain(l))
  BY DEF EndsShown, Chain

LEMMA StepKeepsWhole == PanelInv /\ ChainsWhole /\ [WebNext]_vars => ChainsWhole'
  <1> SUFFICES ASSUME PanelInv, ChainsWhole, [WebNext]_vars PROVE ChainsWhole'
    OBVIOUS
  <1> USE DEF ChainsWhole
  <1>1. ASSUME \A view \in View : shown'[view] \subseteq shown[view] PROVE ChainsWhole'
    BY <1>1 DEF EndsShown, Newers, Olders
  <1>2. CASE UNCHANGED shown
    BY <1>1, <1>2
  <1>3. CASE shown' = [view \in View |-> Unloaded]
    BY <1>1, <1>3 DEF Unloaded
  <1>4. ASSUME NEW tab, SwitchTab(tab) PROVE ChainsWhole'
    BY <1>1, <1>4 DEF SwitchTab, PanelInv, Unloaded
  <1>5. ASSUME NEW l \in loads, ChainArrives(l) PROVE ChainsWhole'
    <2>1. \A view \in View : shown'[view] \subseteq shown[view] \union {Chain(l)}
      BY <1>5 DEF ChainArrives, PanelInv
    <2> QED BY <2>1, ChainIsWhole DEF EndsShown, Newers, Olders
  <1>6. CASE PanelStep
    BY <1>2, <1>3, <1>4, <1>5, <1>6 DEF PanelStep, Select, ReadPart, LoadFails
  <1> QED
    BY <1>2, <1>3, <1>6
       DEF WebNext, vars, timelineVars, GoAsk, GoTimeline, OpenTimeline, GoHome, Leave,
           Elsewhere

\* The two tabs of a chain tell one story: with both ends of every revision on
\* show, the history strikes what the graph strikes, and when no two claims
\* have one second, the latest claim left standing is the same for the order of
\* the history and for that of the graph.
THEOREM TabsTellOneStory == WebSpec => []TabsAgree
  <1>1. WebInit => ChainsWhole
    BY DEF WebInit, TimelineInit, Unloaded, ChainsWhole
  <1>2. PanelInv /\ ChainsWhole => TabsAgree
    <2> SUFFICES ASSUME PanelInv, ChainsWhole,
                        NEW ch \in shown["history"] \union shown["graph"],
                        \A c, d \in ch.claims : row[c].event = row[d].event => c = d,
                        NEW at \in 0..LastSecond
                 PROVE  /\ HistoryStruck(ch, at) \intersect Born(ch, at)
                             = GraphStruck(ch, at) \intersect Born(ch, at)
                        /\ HistoryCurrent(ch, at) = GraphCurrent(ch, at)
      BY DEF TabsAgree
    <2>1. EndsShown(ch)
      BY DEF ChainsWhole, View
    <2>2. Drawn(ch) = ch.revisions
      BY <2>1 DEF Drawn, EndsShown, Newers, Olders
    <2>3. Aside(ch, at) \intersect Born(ch, at) = Dimmed(ch, at)
      BY DEF Aside, Dimmed
    <2>4. HistoryStruck(ch, at) \intersect Born(ch, at)
            = GraphStruck(ch, at) \intersect Born(ch, at)
      BY <2>2, <2>3 DEF HistoryStruck, GraphStruck, Struck, Born
    <2>5. Born(ch, at) \ HistoryStruck(ch, at) = Born(ch, at) \ GraphStruck(ch, at)
      BY <2>4
    <2>6. Born(ch, at) \subseteq ch.claims
      BY DEF Born
    <2>7. HistoryCurrent(ch, at) = GraphCurrent(ch, at)
      BY <2>5, <2>6 DEF HistoryCurrent, GraphCurrent, After
    <2> QED BY <2>4, <2>7
  <1> QED BY <1>1, <1>2, InitInv, StepInv, StepKeepsWhole, PTL DEF WebSpec, Inv

----------------------------------------------------------------------------
(* The card of a patient visitor *)

\* The records and sets of the card: at most one answer and one slip on show.
CardShape ==
  /\ ask = [question |-> ask.question, resp |-> ask.resp, pending |-> ask.pending,
            error |-> ask.error, struck |-> ask.struck, slip |-> ask.slip,
            corrOpen |-> ask.corrOpen]
  /\ {ask.pending, ask.error, ask.struck, ask.corrOpen} \subseteq BOOLEAN
  /\ \A r, s \in ask.resp : r = s
  /\ \A s, t \in ask.slip : s = t
SlipShape(s) == s = [n |-> s.n, target |-> s.target, says |-> s.says]

\* A claim of the n-th call stands in the history and supersedes the target.
Appended(target, n) ==
  \E e \in edges : e.older = target /\ e.newer \in DOMAIN row /\ row[e.newer].value = n

\* The question in flight: the only call, for the question on the card, which
\* shows no erratum until it is answered.
AskInv ==
  /\ ask.pending = (asks # {})
  /\ asks # {} => filings = {} /\ ask.slip = {} /\ ~ask.struck /\ ~ask.error
  /\ \A a, b \in asks : a = b
  /\ \A a \in asks :
       /\ a = [n |-> a.n, q |-> a.q, reply |-> a.reply] /\ a.q = ask.question
       /\ \A r, s \in a.reply : r = s
       /\ \A r \in a.reply : r.q = a.q

\* The correction in flight: the only call, and the one the slip is about.
FilingInv ==
  /\ \A f, g \in filings : f = g
  /\ \A f \in filings :
       /\ f = [n |-> f.n, target |-> f.target, landed |-> f.landed] /\ f.landed \in BOOLEAN
       /\ f.landed => Appended(f.target, f.n)
       /\ \A s \in ask.slip : s.n = f.n /\ s.target = f.target /\ s.says = "appending"

\* What is on show.
ShownInv ==
  /\ ~ask.pending => \A r \in ask.resp : r.q = ask.question
  /\ ask.struck => ask.slip # {}
  /\ ask.error => ask.resp = {}
  /\ \A s \in ask.slip :
       /\ SlipShape(s)
       /\ \E r \in ask.resp : ~r.abstained /\ s.target = r.claim
       /\ s.says = "appended" => Appended(s.target, s.n)

Patient == CardShape /\ AskInv /\ FilingInv /\ ShownInv
CardInv == ~hasty => Patient

\* A history that only grows keeps what was appended.
StoreGrows ==
  /\ edges \subseteq edges'
  /\ DOMAIN row \subseteq DOMAIN row' /\ \A c \in DOMAIN row : row'[c] = row[c]

LEMMA AppendGrows ==
  ASSUME NEW target, NEW value, AppendCorrection(target, value)
  PROVE  StoreGrows /\ Appended(target, value)'
  <1>1. PICK c \in CorrectionId \ DOMAIN row, t \in LastSecond..LastSecond + 1 :
          /\ row' = [d \in DOMAIN row \union {c} |->
                       IF d = c THEN [attr |-> row[target].attr, event |-> t, ingest |-> t,
                                      conf |-> 99, polarity |-> "AFFIRM", value |-> value]
                       ELSE row[d]]
          /\ edges' = edges \union {[rel |-> "SUPERSEDES", newer |-> c, older |-> target,
                                     ingest |-> t, conf |-> 99]}
    BY DEF AppendCorrection
  <1>2. StoreGrows
    BY <1>1 DEF StoreGrows
  <1>3. c \in DOMAIN row' /\ row'[c].value = value
    BY <1>1
  <1> DEFINE e == [rel |-> "SUPERSEDES", newer |-> c, older |-> target, ingest |-> t, conf |-> 99]
  <1>4. e \in edges' /\ e.older = target /\ e.newer = c
    BY <1>1
  <1> HIDE DEF e
  <1>5. Appended(target, value)'
    BY <1>3, <1>4 DEF Appended
  <1> QED BY <1>2, <1>5

LEMMA AppendedStays ==
  ASSUME StoreGrows, NEW target, NEW n, Appended(target, n)
  PROVE  Appended(target, n)'
  BY DEF StoreGrows, Appended

LEMMA StoreUnchanged == UNCHANGED store => StoreGrows
  BY DEF store, StoreGrows

\* Steps that leave the card and its calls alone.
LEMMA UntouchedCard ==
  ASSUME Patient, StoreGrows, UNCHANGED <<ask, asks, filings>>
  PROVE  Patient'
  <1>1. CardShape' /\ AskInv'
    BY DEF Patient, CardShape, AskInv
  <1>2. \A f \in filings : f.landed => Appended(f.target, f.n)'
    BY AppendedStays DEF Patient, FilingInv
  <1>3. \A s \in ask.slip : s.says = "appended" => Appended(s.target, s.n)'
    BY AppendedStays DEF Patient, ShownInv
  <1>4. FilingInv'
    BY <1>2 DEF Patient, FilingInv
  <1>5. ShownInv'
    BY <1>3 DEF Patient, ShownInv, SlipShape
  <1> QED BY <1>1, <1>4, <1>5 DEF Patient

\* A fresh card is coherent, with the question it asks or without one.
LEMMA FreshIsPatient ==
  ASSUME ask' = FreshCard, asks' = {}, \A f, g \in filings' : f = g,
         \A f \in filings' :
           /\ f = [n |-> f.n, target |-> f.target, landed |-> f.landed] /\ f.landed \in BOOLEAN
           /\ f.landed => Appended(f.target, f.n)'
  PROVE  Patient'
  BY DEF Patient, CardShape, AskInv, FilingInv, ShownInv, FreshCard, Nothing

LEMMA RunIsPatient ==
  ASSUME NEW a, NEW q, Run(a, q), asks = {}, filings' = {}, a \in {ask, FreshCard}, CardShape
  PROVE  Patient'
  <1>1. a = [question |-> a.question, resp |-> a.resp, pending |-> a.pending,
             error |-> a.error, struck |-> a.struck, slip |-> a.slip, corrOpen |-> a.corrOpen]
    BY DEF CardShape, FreshCard
  <1>2. \A r, s \in a.resp : r = s
    BY DEF CardShape, FreshCard, Nothing
  <1>3. ask' = [question |-> q, resp |-> a.resp, pending |-> TRUE, error |-> FALSE,
                struck |-> FALSE, slip |-> {}, corrOpen |-> FALSE]
    BY <1>1 DEF Run, Asked, Nothing
  <1>4. asks' = {[n |-> calls + 1, q |-> q, reply |-> {}]}
    BY DEF Run, Nothing
  <1>5. CardShape'
    BY <1>2, <1>3 DEF CardShape
  <1>6. AskInv'
    <2>1. ask'.pending = (asks' # {}) /\ ask'.slip = {} /\ ~ask'.struck /\ ~ask'.error
      BY <1>3, <1>4
    <2>2. ASSUME NEW b \in asks'
          PROVE  /\ b = [n |-> b.n, q |-> b.q, reply |-> b.reply] /\ b.q = ask'.question
                 /\ b.reply = {}
      BY <1>3, <1>4
    <2>3. \A b, d \in asks' : b = d
      BY <1>4
    <2> QED BY <2>1, <2>2, <2>3 DEF AskInv
  <1>7. FilingInv' /\ ShownInv'
    BY <1>3 DEF FilingInv, ShownInv
  <1> QED BY <1>5, <1>6, <1>7 DEF Patient

LEMMA AskStepIsPatient ==
  ASSUME CardInv, AskStep, ~hasty'
  PROVE  Patient'
  <1>0. ~hasty /\ Patient
    <2>1. UNCHANGED hasty \/ Acts
      BY DEF AskStep, AskQuestion, ToggleForm, FileErratum, Stet, ServeAsk, AnswerArrives,
             AskFails, TurnsArrive, TurnsFail
    <2>2. ~hasty
      BY <2>1 DEF Acts
    <2> QED BY <2>2 DEF CardInv
  <1>1. ASSUME NEW q, AskQuestion(q) PROVE Patient'
    <2>1. Settled
      BY <1>1 DEF AskQuestion, Acts
    <2> QED BY <1>0, <1>1, <2>1, RunIsPatient DEF AskQuestion, Settled, Patient
  <1>2. CASE ToggleForm
    <2>1. ask' = [question |-> ask.question, resp |-> ask.resp, pending |-> ask.pending,
                  error |-> ask.error, struck |-> ask.struck, slip |-> ask.slip,
                  corrOpen |-> ~ask.corrOpen]
      BY <1>0, <1>2 DEF ToggleForm, Patient, CardShape
    <2>2. UNCHANGED <<asks, filings, row, edges>>
      BY <1>2 DEF ToggleForm, store
    <2> QED BY <1>0, <2>1, <2>2
        DEF Patient, CardShape, AskInv, FilingInv, ShownInv, SlipShape, Appended
  <1>3. CASE FileErratum
    <2>1. Settled /\ Answered
      BY <1>3 DEF FileErratum, Acts
    <2>2. ask.resp = {Resp} /\ ~Resp.abstained
      BY <1>0, <2>1 DEF Answered, Resp, Nothing, Patient, CardShape
    <2>3. ask' = [question |-> ask.question, resp |-> ask.resp, pending |-> ask.pending,
                  error |-> ask.error, struck |-> TRUE,
                  slip |-> {[n |-> calls + 1, target |-> Resp.claim, says |-> "appending"]},
                  corrOpen |-> FALSE]
      BY <1>0, <1>3 DEF FileErratum, Patient, CardShape
    <2>4. /\ asks' = {} /\ asks = {}
          /\ filings' = {[n |-> calls + 1, target |-> Resp.claim, landed |-> FALSE]}
      BY <1>3, <2>1 DEF FileErratum, Settled
    <2>5. CardShape'
      BY <1>0, <2>3 DEF Patient, CardShape
    <2>6. AskInv'
      BY <1>0, <2>3, <2>4 DEF Patient, AskInv
    <2>7. FilingInv'
      BY <2>3, <2>4 DEF FilingInv
    <2>8. ShownInv'
      <3>1. ~ask.pending /\ ~ask.error
        BY <1>0, <2>2, <2>4 DEF Patient, ShownInv, AskInv
      <3>2. ~ask'.pending => \A r \in ask'.resp : r.q = ask'.question
        BY <1>0, <2>3, <3>1 DEF Patient, ShownInv
      <3>3. ask'.slip # {} /\ ~ask'.error
        BY <2>3, <3>1
      <3>4. ASSUME NEW s \in ask'.slip
            PROVE  /\ SlipShape(s) /\ s.says = "appending"
                   /\ \E r \in ask'.resp : ~r.abstained /\ s.target = r.claim
        BY <2>2, <2>3 DEF SlipShape
      <3> QED BY <3>2, <3>3, <3>4 DEF ShownInv
    <2> QED BY <2>5, <2>6, <2>7, <2>8 DEF Patient
  <1>4. CASE Stet
    <2>1. ask' = [question |-> ask.question, resp |-> ask.resp, pending |-> ask.pending,
                  error |-> ask.error, struck |-> FALSE, slip |-> {}, corrOpen |-> FALSE]
      BY <1>0, <1>4 DEF Stet, Patient, CardShape, Nothing
    <2>2. UNCHANGED <<asks, filings, row, edges>>
      BY <1>4 DEF Stet, store
    <2> QED BY <1>0, <2>1, <2>2
        DEF Patient, CardShape, AskInv, FilingInv, ShownInv, Appended
  <1>5. ASSUME NEW call \in asks, ServeAsk(call) PROVE Patient'
    <2>1. call = [n |-> call.n, q |-> call.q, reply |-> call.reply] /\ asks = {call}
      BY <1>0 DEF Patient, AskInv
    <2>2. asks' = {[n |-> call.n, q |-> call.q, reply |-> {ReplyTo(call.q)}]}
      BY <1>5, <2>1 DEF ServeAsk
    <2>3. ReplyTo(call.q).q = call.q
      BY DEF ReplyTo
    <2>4. UNCHANGED <<ask, filings, row, edges>>
      BY <1>5 DEF ServeAsk, store
    <2>5. AskInv'
      BY <1>0, <2>1, <2>2, <2>3, <2>4 DEF Patient, AskInv
    <2> QED BY <1>0, <2>4, <2>5
        DEF Patient, CardShape, FilingInv, ShownInv, SlipShape, Appended
  <1>6. ASSUME NEW call \in asks, AnswerArrives(call) PROVE Patient'
    <2>1. ask' = [question |-> ask.question, resp |-> call.reply, pending |-> FALSE,
                  error |-> ask.error, struck |-> ask.struck, slip |-> ask.slip,
                  corrOpen |-> ask.corrOpen]
      BY <1>0, <1>6 DEF AnswerArrives, Patient, CardShape
    <2>2. asks = {call} /\ asks' = {} /\ UNCHANGED filings
      BY <1>0, <1>6 DEF AnswerArrives, Patient, AskInv
    <2>3. filings = {} /\ ask.slip = {} /\ ~ask.struck /\ ~ask.error
      BY <1>0, <2>2 DEF Patient, AskInv
    <2> QED BY <1>0, <2>1, <2>2, <2>3 DEF Patient, CardShape, AskInv, FilingInv, ShownInv
  <1>7. ASSUME NEW call \in asks, AskFails(call) PROVE Patient'
    <2>1. ask' = [question |-> ask.question, resp |-> {}, pending |-> FALSE,
                  error |-> TRUE, struck |-> ask.struck, slip |-> ask.slip,
                  corrOpen |-> ask.corrOpen]
      BY <1>0, <1>7 DEF AskFails, Patient, CardShape, Nothing
    <2>2. asks = {call} /\ asks' = {} /\ UNCHANGED filings
      BY <1>0, <1>7 DEF AskFails, Patient, AskInv
    <2>3. filings = {} /\ ask.slip = {} /\ ~ask.struck
      BY <1>0, <2>2 DEF Patient, AskInv
    <2> QED BY <1>0, <2>1, <2>2, <2>3 DEF Patient, CardShape, AskInv, FilingInv, ShownInv
  <1>8. ASSUME NEW r, TurnsArrive(r) \/ TurnsFail(r) PROVE Patient'
    BY <1>0, <1>8, UntouchedCard, StoreUnchanged DEF TurnsArrive, TurnsFail
  <1> QED
    BY <1>1, <1>2, <1>3, <1>4, <1>5, <1>6, <1>7, <1>8 DEF AskStep

LEMMA FilingsGoOnPatiently ==
  ASSUME Patient, FilingsGoOn
  PROVE  Patient'
  <1>0. PICK call \in filings :
          ServeCorrection(call) \/ CorrectionAcked(call) \/ CorrectionFails(call)
    BY DEF FilingsGoOn
  <1>1. /\ filings = {call}
        /\ call = [n |-> call.n, target |-> call.target, landed |-> call.landed]
    BY DEF Patient, FilingInv
  <1>2. asks = {}
    BY <1>1 DEF Patient, AskInv
  <1>3. CASE ServeCorrection(call)
    <2>1. AppendCorrection(call.target, call.n) /\ UNCHANGED <<ask, asks>>
      BY <1>3 DEF ServeCorrection
    <2>2. StoreGrows /\ Appended(call.target, call.n)'
      BY <2>1, AppendGrows
    <2>3. filings' = {[n |-> call.n, target |-> call.target, landed |-> TRUE]}
      BY <1>1, <1>3 DEF ServeCorrection
    <2>4. \A s \in ask.slip : s.says = "appended" => Appended(s.target, s.n)'
      BY <2>2, AppendedStays DEF Patient, ShownInv
    <2>5. CardShape' /\ AskInv'
      BY <1>2, <2>1 DEF Patient, CardShape, AskInv
    <2>6. FilingInv'
      BY <2>1, <2>2, <2>3, <1>1 DEF Patient, FilingInv
    <2>7. ShownInv'
      BY <2>1, <2>4 DEF Patient, ShownInv, SlipShape
    <2> QED BY <2>5, <2>6, <2>7 DEF Patient
  <1>4. ASSUME NEW says, ask' = [ask EXCEPT !.slip = Captioned(says)],
               filings' = filings \ {call}, UNCHANGED <<store, asks>>,
               says = "appended" => call.landed
        PROVE  Patient'
    <2>1. ask' = [question |-> ask.question, resp |-> ask.resp, pending |-> ask.pending,
                  error |-> ask.error, struck |-> ask.struck, slip |-> Captioned(says),
                  corrOpen |-> ask.corrOpen]
      BY <1>4 DEF Patient, CardShape
    <2>2. Captioned(says) = {[n |-> s.n, target |-> s.target, says |-> says] : s \in ask.slip}
      BY DEF Captioned, Patient, ShownInv, SlipShape
    <2>3. filings' = {} /\ asks' = {} /\ UNCHANGED <<row, edges>>
      BY <1>1, <1>2, <1>4 DEF store
    <2>4. CardShape'
      BY <2>1, <2>2 DEF Patient, CardShape
    <2>5. AskInv' /\ FilingInv'
      BY <1>2, <2>1, <2>3 DEF Patient, AskInv, FilingInv
    <2>6. \A s \in ask.slip : says = "appended" => Appended(s.target, s.n)
      BY <1>1, <1>4 DEF Patient, FilingInv
    <2>7. ASSUME NEW t \in Captioned(says)
          PROVE  /\ SlipShape(t)
                 /\ \E r \in ask.resp : ~r.abstained /\ t.target = r.claim
                 /\ t.says = "appended" => Appended(t.target, t.n)
      BY <2>2, <2>6 DEF Patient, ShownInv, SlipShape
    <2>8. ask.struck => Captioned(says) # {}
      BY DEF Captioned, Patient, ShownInv
    <2>9. ShownInv'
      BY <2>1, <2>3, <2>7, <2>8 DEF Patient, ShownInv, SlipShape, Appended
    <2> QED BY <2>4, <2>5, <2>9 DEF Patient
  <1> QED
    BY <1>0, <1>3, <1>4 DEF CorrectionAcked, CorrectionFails

LEMMA StepKeepsCard == CardInv /\ [WebNext]_vars => CardInv'
  <1> SUFFICES ASSUME CardInv, [WebNext]_vars, ~hasty' PROVE Patient'
    BY DEF CardInv
  <1>1. CASE GoAsk
    <2>1. ~hasty /\ Settled
      BY <1>1 DEF GoAsk, OpenAskPage, Acts
    <2> QED BY <1>1, <2>1, RunIsPatient DEF GoAsk, OpenAskPage, Settled, CardInv, Patient
  <1>2. CASE GoHome
    <2>1. ask' = FreshCard /\ asks' = {} /\ UNCHANGED <<filings, hasty, row, edges>>
      BY <1>2 DEF GoHome, LeaveAskPage, store
    <2> QED BY <2>1, FreshIsPatient DEF CardInv, Patient, FilingInv, Appended
  <1>3. CASE UNCHANGED <<store, askVars>>
    BY <1>3, UntouchedCard, StoreUnchanged DEF CardInv, askVars
  <1>4. CASE Elsewhere
    <2>1. StoreGrows
      BY <1>4, AppendGrows DEF Elsewhere, CorrectedElsewhere
    <2> QED BY <1>4, <2>1, UntouchedCard DEF Elsewhere, CardInv, askVars
  <1>5. CASE FilingsGoOn
    <2>1. UNCHANGED hasty
      BY <1>5 DEF FilingsGoOn, ServeCorrection, CorrectionAcked, CorrectionFails
    <2> QED BY <1>5, <2>1, FilingsGoOnPatiently DEF CardInv
  <1>6. CASE PanelStep /\ UNCHANGED askVars
    <2>1. UNCHANGED store
      BY <1>6 DEF PanelStep, Select, SwitchTab, ReadPart, ChainArrives, LoadFails
    <2> QED BY <1>3, <1>6, <2>1
  <1> QED
    BY <1>1, <1>2, <1>3, <1>4, <1>5, <1>6, AskStepIsPatient
       DEF WebNext, vars, GoTimeline, OpenTimeline

\* Whoever waits for every reply sees a coherent card, whatever fails and
\* whoever else corrects: with one call in flight at a time the slip is that of
\* the correction in flight, and what the history has appended it keeps.
THEOREM PatientCardStaysCoherent == WebSpec => []PatientCardIsCoherent
  <1>1. WebInit => CardInv
    <2> SUFFICES ASSUME WebInit PROVE Patient
      BY DEF CardInv
    <2>1. /\ ask = [question |-> "none", resp |-> {}, pending |-> FALSE, error |-> FALSE,
                    struck |-> FALSE, slip |-> {}, corrOpen |-> FALSE]
          /\ asks = {} /\ filings = {}
      BY DEF WebInit, AskInit, FreshCard, Nothing
    <2> QED BY <2>1 DEF Patient, CardShape, AskInv, FilingInv, ShownInv
  <1>2. CardInv => PatientCardIsCoherent
    <2> SUFFICES ASSUME ~hasty, Patient PROVE PatientCardIsCoherent
      BY DEF CardInv, PatientCardIsCoherent
    <2>1. ask.resp # {} => ask.resp = {Resp}
      BY DEF Resp, Patient, CardShape
    <2>2. ask.slip # {} => ask.slip = {Slip}
      BY DEF Slip, Patient, CardShape
    <2>3. ask.slip # {} => Answered /\ Slip.target = Resp.claim
      BY <2>1, <2>2 DEF Patient, ShownInv, Answered, Nothing
    <2> QED BY <2>1, <2>3
        DEF PatientCardIsCoherent, Patient, CardShape, ShownInv, Appended, Nothing
  <1> QED BY <1>1, <1>2, StepKeepsCard, PTL DEF WebSpec

----------------------------------------------------------------------------
(* What is struck *)

\* A history as ingestion leaves it when nothing is said to happen after it is
\* told: its revisions lead back in time and in no circle, what supports a
\* claim supersedes none, and no extractor is as sure as a correction.
ToldInOrder ==
  LET sup == EdgesOf(BaseEdges, "SUPERSEDES")
  IN  /\ ~HasCycle(sup)
      /\ Newers(EdgesOf(BaseEdges, "SUPPORTS")) \intersect Newers(sup) = {}
      /\ \A e \in sup : BaseRow[e.newer].event >= BaseRow[e.older].event
      /\ \A c \in DOMAIN BaseRow : BaseRow[c].event <= BaseRow[c].ingest /\ BaseRow[c].conf < 99

\* Whatever can be selected or asked about was told something of.
IngestedOf(attr) == {c \in DOMAIN BaseRow : BaseRow[c].attr = attr}
SomethingTold ==
  /\ \A attr \in Attribute : IngestedOf(attr) # {}
  /\ \A q \in Question : About(q) = "nothing" \/ IngestedOf(About(q)) # {}

\* The claims: the ingested ones, and corrections dated by their append.
RowInv ==
  /\ DOMAIN BaseRow \subseteq DOMAIN row /\ DOMAIN row \subseteq DOMAIN BaseRow \union CorrectionId
  /\ IsFiniteSet(DOMAIN row)
  /\ \A c \in DOMAIN BaseRow : row[c] = BaseRow[c]
  /\ \A c \in DOMAIN row : /\ row[c].event \in Int /\ row[c].ingest \in Int /\ row[c].conf \in Int
                           /\ row[c].event <= row[c].ingest
  /\ \A k \in DOMAIN row \ DOMAIN BaseRow :
       /\ row[k].event = row[k].ingest /\ row[k].conf = 99
       /\ \A b \in DOMAIN BaseRow : row[b].ingest <= row[k].ingest

\* The revisions: the ingested ones, and one from each correction to its target.
Displacing == EdgesOf(edges, "SUPERSEDES")
EdgeInv ==
  /\ BaseEdges \subseteq edges /\ IsFiniteSet(edges)
  /\ \A e \in edges : /\ e.rel \in Relation /\ e.ingest \in Int /\ e.conf \in Int
                      /\ e.newer \in DOMAIN row /\ e.older \in DOMAIN row /\ e.newer # e.older
                      /\ row[e.newer].attr = row[e.older].attr
  /\ \A e \in edges \ BaseEdges : e.rel = "SUPERSEDES" /\ e.newer \notin DOMAIN BaseRow
  /\ \A e \in Displacing : row[e.newer].event >= row[e.older].event
  /\ \A e, f \in Displacing : e.newer = f.newer /\ e.older = f.older => e = f
  /\ ~HasCycle(Displacing)

HistoryInv == RowInv /\ EdgeInv

LEMMA LastSecondIsLast ==
  ASSUME RowInv, DOMAIN row # {}
  PROVE  LastSecond \in Int /\ \A c \in DOMAIN row : row[c].ingest <= LastSecond
  <1> DEFINE seconds == {row[c].ingest : c \in DOMAIN row}
  <1>1. IsFiniteSet(seconds) /\ seconds # {} /\ seconds \subseteq Int
    <2> DEFINE f == [c \in DOMAIN row |-> row[c].ingest]
    <2>1. f \in Surjection(DOMAIN row, seconds)
      BY DEF Surjection
    <2>2. seconds # {} /\ seconds \subseteq Int
      BY DEF RowInv
    <2> HIDE DEF f, seconds
    <2> QED BY <2>1, <2>2, FS_Surjection DEF RowInv
  <1>2. \A c \in DOMAIN row : row[c].ingest \in seconds
    OBVIOUS
  <1> HIDE DEF seconds
  <1>3. PICK t \in seconds : \A u \in seconds : u <= t
    BY <1>1, LargestExists DEF Numbers
  <1>4. \A c \in DOMAIN row : row[c].ingest <= t
    BY <1>2, <1>3
  <1>5. LastSecond \in seconds /\ \A c \in DOMAIN row : row[c].ingest <= LastSecond
    BY <1>4 DEF LastSecond, seconds
  <1> QED BY <1>1, <1>5

LEMMA CorrectedHistory ==
  ASSUME HistoryInv, NEW target \in DOMAIN row, NEW value, AppendCorrection(target, value)
  PROVE  HistoryInv' /\ StoreGrows
  <1>1. PICK c \in CorrectionId \ DOMAIN row, t \in LastSecond..LastSecond + 1 :
          /\ row' = [d \in DOMAIN row \union {c} |->
                       IF d = c THEN [attr |-> row[target].attr, event |-> t, ingest |-> t,
                                      conf |-> 99, polarity |-> "AFFIRM", value |-> value]
                       ELSE row[d]]
          /\ edges' = edges \union {[rel |-> "SUPERSEDES", newer |-> c, older |-> target,
                                     ingest |-> t, conf |-> 99]}
    BY DEF AppendCorrection
  <1> DEFINE r == [attr |-> row[target].attr, event |-> t, ingest |-> t,
                   conf |-> 99, polarity |-> "AFFIRM", value |-> value]
             e == [rel |-> "SUPERSEDES", newer |-> c, older |-> target, ingest |-> t, conf |-> 99]
  <1>2. t \in Int /\ \A d \in DOMAIN row : row[d].ingest <= t
    <2>1. LastSecond \in Int /\ \A d \in DOMAIN row : row[d].ingest <= LastSecond
      BY LastSecondIsLast DEF HistoryInv
    <2>2. t \in Int /\ LastSecond <= t
      BY <2>1
    <2>3. \A d \in DOMAIN row : row[d].ingest \in Int
      BY DEF HistoryInv, RowInv
    <2> QED BY <2>1, <2>2, <2>3
  <1>3. r.attr = row[target].attr /\ r.event = t /\ r.ingest = t /\ r.conf = 99
    OBVIOUS
  <1>4. e.rel = "SUPERSEDES" /\ e.newer = c /\ e.older = target /\ e.ingest = t /\ e.conf = 99
    OBVIOUS
  <1>5. /\ DOMAIN row' = DOMAIN row \union {c} /\ row'[c] = r
        /\ \A d \in DOMAIN row : row'[d] = row[d]
    BY <1>1
  <1>6. edges' = edges \union {e}
    BY <1>1
  <1> HIDE DEF r, e
  <1>7. c \notin DOMAIN row /\ c \in CorrectionId /\ c \notin DOMAIN BaseRow /\ c # target
    BY SiteAssumption DEF HistoryInv, RowInv
  <1>8. StoreGrows
    BY <1>5, <1>6 DEF StoreGrows
  <1>9. RowInv'
    <2>1. IsFiniteSet(DOMAIN row')
      BY <1>5, FS_AddElement DEF HistoryInv, RowInv
    <2>2. \A d \in DOMAIN row' : /\ row'[d].event \in Int /\ row'[d].ingest \in Int /\ row'[d].conf \in Int
                                 /\ row'[d].event <= row'[d].ingest
      BY <1>2, <1>3, <1>5 DEF HistoryInv, RowInv
    <2>3. \A b \in DOMAIN BaseRow : row'[b] = BaseRow[b] /\ b \in DOMAIN row
      BY <1>5 DEF HistoryInv, RowInv
    <2>4. \A k \in DOMAIN row' \ DOMAIN BaseRow :
            /\ row'[k].event = row'[k].ingest /\ row'[k].conf = 99
            /\ \A b \in DOMAIN BaseRow : row'[b].ingest <= row'[k].ingest
      <3>1. ASSUME NEW k \in DOMAIN row \ DOMAIN BaseRow
            PROVE  /\ row'[k].event = row'[k].ingest /\ row'[k].conf = 99
                   /\ \A b \in DOMAIN BaseRow : row'[b].ingest <= row'[k].ingest
        BY <1>5, <2>3 DEF HistoryInv, RowInv
      <3>2. \A b \in DOMAIN BaseRow : row'[b].ingest <= row'[c].ingest
        BY <1>2, <1>3, <1>5, <2>3
      <3> QED BY <1>3, <1>5, <3>1, <3>2
    <2> QED BY <1>5, <1>7, <2>1, <2>2, <2>3, <2>4 DEF HistoryInv, RowInv
  <1>10. EdgeInv'
    <2>1. IsFiniteSet(edges')
      BY <1>6, FS_AddElement DEF HistoryInv, EdgeInv
    <2>2. ASSUME NEW f \in edges
          PROVE  /\ f.rel \in Relation /\ f.ingest \in Int /\ f.conf \in Int
                 /\ f.newer \in DOMAIN row /\ f.older \in DOMAIN row /\ f.newer # f.older
                 /\ row'[f.newer] = row[f.newer] /\ row'[f.older] = row[f.older]
                 /\ row[f.newer].attr = row[f.older].attr
      BY <1>5 DEF HistoryInv, EdgeInv
    <2>3. \A f \in edges' : /\ f.rel \in Relation /\ f.ingest \in Int /\ f.conf \in Int
                            /\ f.newer \in DOMAIN row' /\ f.older \in DOMAIN row' /\ f.newer # f.older
                            /\ row'[f.newer].attr = row'[f.older].attr
      <3>1. /\ e.rel \in Relation /\ e.ingest \in Int /\ e.conf \in Int
            /\ e.newer \in DOMAIN row' /\ e.older \in DOMAIN row' /\ e.newer # e.older
            /\ row'[e.newer].attr = row'[e.older].attr
        BY <1>2, <1>3, <1>4, <1>5, <1>7 DEF Relation
      <3> QED BY <1>5, <1>6, <2>2, <3>1
    <2>4. \A f \in edges' \ BaseEdges : f.rel = "SUPERSEDES" /\ f.newer \notin DOMAIN BaseRow
      BY <1>4, <1>6, <1>7 DEF HistoryInv, EdgeInv
    <2>5. Displacing' = Displacing \union {e}
      BY <1>4, <1>6 DEF Displacing, EdgesOf
    <2>6. Displacing \subseteq edges
      BY DEF Displacing, EdgesOf
    <2>7. \A f \in Displacing' : row'[f.newer].event >= row'[f.older].event
      <3>1. row'[e.newer].event >= row'[e.older].event
        <4>1. row[target].event \in Int /\ row[target].ingest \in Int
              /\ row[target].event <= row[target].ingest
          BY DEF HistoryInv, RowInv
        <4>2. row[target].ingest <= t
          BY <1>2
        <4>3. row[target].event <= t
          BY <1>2, <4>1, <4>2
        <4> QED BY <1>2, <1>3, <1>4, <1>5, <4>1, <4>3
      <3> QED BY <2>2, <2>5, <2>6, <3>1 DEF HistoryInv, EdgeInv
    <2>8. \A f \in edges : c \notin {f.newer, f.older}
      BY <1>7, <2>2
    <2>9. \A f, g \in Displacing' : f.newer = g.newer /\ f.older = g.older => f = g
      BY <1>4, <2>5, <2>6, <2>8 DEF HistoryInv, EdgeInv
    <2>10. ~HasCycle(Displacing')
      BY <1>4, <1>7, <2>5, <2>6, <2>8, NewLeafNoCycle DEF HistoryInv, EdgeInv
    <2> QED BY <1>6, <2>1, <2>3, <2>4, <2>7, <2>9, <2>10 DEF HistoryInv, EdgeInv
  <1> QED BY <1>8, <1>9, <1>10 DEF HistoryInv

LEMMA KeptHistory == HistoryInv /\ UNCHANGED store => HistoryInv' /\ StoreGrows
  BY DEF HistoryInv, RowInv, EdgeInv, Displacing, store, StoreGrows

\* Any part of the claims with any part of the revisions is what a read returns.
LEMMA HistoryIsReadable ==
  ASSUME HistoryInv, NEW C, C \subseteq DOMAIN row, NEW E, E \subseteq edges
  PROVE  Readable(C, row, E)
  <1>1. IsFiniteSet(C)
    BY FS_Subset DEF HistoryInv, RowInv
  <1>2. \A c \in C : c \in Int /\ row[c].event \in Int /\ row[c].ingest \in Int /\ row[c].conf \in Int
    <2>1. \A c \in Nat : c \in Int
      OBVIOUS
    <2>2. \A c \in C : c \in Nat
      BY SiteAssumption DEF HistoryInv, RowInv
    <2> QED BY <2>1, <2>2 DEF HistoryInv, RowInv
  <1>3. EdgeSet(Displacing)
    <2>1. Displacing \subseteq edges
      BY DEF Displacing, EdgesOf
    <2>2. IsFiniteSet(Displacing)
      BY <2>1, FS_Subset DEF HistoryInv, EdgeInv
    <2>3. \A c \in DOMAIN row : c \in Int
      <3>1. \A c \in Nat : c \in Int
        OBVIOUS
      <3> QED BY <3>1, SiteAssumption DEF HistoryInv, RowInv
    <2> QED BY <2>1, <2>2, <2>3 DEF EdgeSet, HistoryInv, EdgeInv
  <1>4. EdgesOf(E, "SUPERSEDES") \subseteq Displacing
    BY DEF Displacing, EdgesOf
  <1> QED BY <1>1, <1>2, <1>3, <1>4, EdgeSubset DEF Readable, Comparable

\* The belief of an attribute something is told of is a claim of it.
LEMMA BeliefIsThere ==
  ASSUME HistoryInv, NEW attr, IngestedOf(attr) # {}
  PROVE  BeliefOf(attr).first \in DOMAIN row
  <1>1. Of(attr) # {} /\ Of(attr) \subseteq DOMAIN row
    BY DEF Of, IngestedOf, HistoryInv, RowInv
  <1>2. Readable(Of(attr), row, edges)
    BY <1>1, HistoryIsReadable
  <1>3. BeliefOf(attr) = ResolveFunctional(Of(attr), row, edges)
    BY <1>1 DEF BeliefOf, ResolveBelief
  <1> DEFINE sup == BreakCycles(EdgesOf(edges, "SUPERSEDES"))
             b == ResolveFunctional(Of(attr), row, edges)
  <1>4. b.first \in Candidates(Of(attr), edges, sup) /\ Candidates(Of(attr), edges, sup) \subseteq Of(attr)
    BY <1>1, <1>2, FunctionalHead
  <1> HIDE DEF b, sup
  <1> QED BY <1>1, <1>3, <1>4 DEF b

\* What the card cites, and what is being corrected, is a claim there is.
Cited(r) == ~r.abstained => r.claim \in DOMAIN row
TargetsInv ==
  /\ ask = [question |-> ask.question, resp |-> ask.resp, pending |-> ask.pending,
            error |-> ask.error, struck |-> ask.struck, slip |-> ask.slip,
            corrOpen |-> ask.corrOpen]
  /\ \A r \in ask.resp : Cited(r)
  /\ \A a \in asks : /\ a = [n |-> a.n, q |-> a.q, reply |-> a.reply] /\ a.q \in Question
                     /\ \A r \in a.reply : Cited(r)
  /\ \A f \in filings : /\ f = [n |-> f.n, target |-> f.target, landed |-> f.landed]
                        /\ f.target \in DOMAIN row

LEMMA UntouchedTargets ==
  ASSUME TargetsInv, StoreGrows, ask' = ask, asks' \subseteq asks, filings' \subseteq filings
  PROVE  TargetsInv'
  BY DEF TargetsInv, Cited, StoreGrows

LEMMA RunKeepsTargets ==
  ASSUME TargetsInv, UNCHANGED <<row, filings>>, NEW a, a \in {ask, FreshCard}, NEW q \in Question, Run(a, q)
  PROVE  TargetsInv'
  <1>1. a = [question |-> a.question, resp |-> a.resp, pending |-> a.pending,
             error |-> a.error, struck |-> a.struck, slip |-> a.slip, corrOpen |-> a.corrOpen]
    BY DEF TargetsInv, FreshCard
  <1>2. \A r \in a.resp : Cited(r)
    BY DEF TargetsInv, FreshCard, Nothing
  <1>3. ask' = [question |-> q, resp |-> a.resp, pending |-> TRUE, error |-> FALSE,
                struck |-> FALSE, slip |-> {}, corrOpen |-> FALSE]
    BY <1>1 DEF Run, Asked, Nothing
  <1>4. asks' = asks \union {[n |-> calls + 1, q |-> q, reply |-> {}]}
    BY DEF Run, Nothing
  <1>5. \A b \in asks' : /\ b = [n |-> b.n, q |-> b.q, reply |-> b.reply] /\ b.q \in Question
                         /\ \A r \in b.reply : Cited(r)
    BY <1>4 DEF TargetsInv
  <1> QED BY <1>2, <1>3, <1>5 DEF TargetsInv, Cited

LEMMA AskStepKeepsTargets ==
  ASSUME SomethingTold, HistoryInv, TargetsInv, AskStep
  PROVE  TargetsInv' /\ UNCHANGED store
  <1> USE DEF store
  <1>0. UNCHANGED store
    BY DEF AskStep, AskQuestion, ToggleForm, FileErratum, Stet, ServeAsk, AnswerArrives,
           AskFails, TurnsArrive, TurnsFail
  <1>1. ASSUME NEW q \in Question, AskQuestion(q) PROVE TargetsInv'
    BY <1>1, RunKeepsTargets DEF AskQuestion
  <1>2. ASSUME NEW a, ask' = a, \A r \in a.resp : Cited(r), UNCHANGED filings, asks' \subseteq asks,
               a = [question |-> a.question, resp |-> a.resp, pending |-> a.pending,
                    error |-> a.error, struck |-> a.struck, slip |-> a.slip, corrOpen |-> a.corrOpen]
        PROVE  TargetsInv'
    BY <1>0, <1>2 DEF TargetsInv, Cited
  <1>3. CASE ToggleForm
    <2> DEFINE a == [question |-> ask.question, resp |-> ask.resp, pending |-> ask.pending,
                     error |-> ask.error, struck |-> ask.struck, slip |-> ask.slip,
                     corrOpen |-> ~ask.corrOpen]
    <2>1. ask' = a
      BY <1>3 DEF ToggleForm, TargetsInv
    <2>2. UNCHANGED <<asks, filings>>
      BY <1>3 DEF ToggleForm
    <2>3. \A r \in a.resp : Cited(r)
      BY DEF TargetsInv
    <2> QED BY <1>0, <1>2, <2>1, <2>2, <2>3
  <1>4. CASE FileErratum
    <2>1. Resp \in ask.resp /\ ~Resp.abstained
      BY <1>4 DEF FileErratum, Answered, Resp, Nothing
    <2>2. Resp.claim \in DOMAIN row
      BY <2>1 DEF TargetsInv, Cited
    <2>3. ask' = [question |-> ask.question, resp |-> ask.resp, pending |-> ask.pending,
                  error |-> ask.error, struck |-> TRUE,
                  slip |-> {[n |-> calls + 1, target |-> Resp.claim, says |-> "appending"]},
                  corrOpen |-> FALSE]
      BY <1>4 DEF FileErratum, TargetsInv
    <2>4. asks' = asks /\ filings' = filings \union {[n |-> calls + 1, target |-> Resp.claim, landed |-> FALSE]}
      BY <1>4 DEF FileErratum
    <2>5. \A f \in filings' : /\ f = [n |-> f.n, target |-> f.target, landed |-> f.landed]
                              /\ f.target \in DOMAIN row
      BY <2>2, <2>4 DEF TargetsInv
    <2> QED BY <1>0, <2>3, <2>4, <2>5 DEF TargetsInv, Cited
  <1>5. CASE Stet
    <2> DEFINE a == [question |-> ask.question, resp |-> ask.resp, pending |-> ask.pending,
                     error |-> ask.error, struck |-> FALSE, slip |-> {}, corrOpen |-> FALSE]
    <2>1. ask' = a
      BY <1>5 DEF Stet, TargetsInv, Nothing
    <2>2. UNCHANGED <<asks, filings>>
      BY <1>5 DEF Stet
    <2>3. \A r \in a.resp : Cited(r)
      BY DEF TargetsInv
    <2> QED BY <1>0, <1>2, <2>1, <2>2, <2>3
  <1>6. ASSUME NEW call \in asks, ServeAsk(call) PROVE TargetsInv'
    <2>1. call = [n |-> call.n, q |-> call.q, reply |-> call.reply] /\ call.q \in Question
      BY DEF TargetsInv
    <2>2. asks' = (asks \ {call}) \union {[n |-> call.n, q |-> call.q, reply |-> {ReplyTo(call.q)}]}
      BY <1>6, <2>1 DEF ServeAsk
    <2>3. Cited(ReplyTo(call.q))
      <3>1. CASE About(call.q) = "nothing"
        BY <3>1 DEF ReplyTo, Cited
      <3>2. CASE About(call.q) # "nothing"
        <4>1. BeliefOf(About(call.q)).first \in DOMAIN row
          BY <2>1, <3>2, BeliefIsThere DEF SomethingTold
        <4>2. ReplyTo(call.q).claim = BeliefOf(About(call.q)).first
          BY <3>2 DEF ReplyTo
        <4> QED BY <4>1, <4>2 DEF Cited
      <3> QED BY <3>1, <3>2
    <2>4. \A b \in asks' : /\ b = [n |-> b.n, q |-> b.q, reply |-> b.reply] /\ b.q \in Question
                           /\ \A r \in b.reply : Cited(r)
      BY <2>1, <2>2, <2>3 DEF TargetsInv
    <2>5. UNCHANGED <<ask, filings>>
      BY <1>6 DEF ServeAsk
    <2> QED BY <1>0, <2>4, <2>5 DEF TargetsInv, Cited
  <1>7. ASSUME NEW call \in asks, AnswerArrives(call) PROVE TargetsInv'
    <2> DEFINE a == [question |-> ask.question, resp |-> call.reply, pending |-> FALSE,
                     error |-> ask.error, struck |-> ask.struck, slip |-> ask.slip,
                     corrOpen |-> ask.corrOpen]
    <2>1. ask' = a
      BY <1>7 DEF AnswerArrives, TargetsInv
    <2>2. asks' \subseteq asks /\ UNCHANGED filings
      BY <1>7 DEF AnswerArrives
    <2>3. \A r \in a.resp : Cited(r)
      BY DEF TargetsInv
    <2> QED BY <1>0, <1>2, <2>1, <2>2, <2>3
  <1>8. ASSUME NEW call \in asks, AskFails(call) PROVE TargetsInv'
    <2> DEFINE a == [question |-> ask.question, resp |-> {}, pending |-> FALSE,
                     error |-> TRUE, struck |-> ask.struck, slip |-> ask.slip,
                     corrOpen |-> ask.corrOpen]
    <2>1. ask' = a
      BY <1>8 DEF AskFails, TargetsInv, Nothing
    <2>2. asks' \subseteq asks /\ UNCHANGED filings
      BY <1>8 DEF AskFails
    <2> QED BY <1>2, <2>1, <2>2
  <1>9. ASSUME NEW r, TurnsArrive(r) \/ TurnsFail(r) PROVE TargetsInv'
    <2>1. ask' = ask /\ UNCHANGED <<asks, filings>>
      BY <1>9 DEF TurnsArrive, TurnsFail
    <2> QED BY <1>0, <2>1, UntouchedTargets, StoreUnchanged
  <1> QED
    BY <1>0, <1>1, <1>3, <1>4, <1>5, <1>6, <1>7, <1>8, <1>9 DEF AskStep

LEMMA FilingsKeepTargets ==
  ASSUME HistoryInv, TargetsInv, FilingsGoOn
  PROVE  HistoryInv' /\ StoreGrows /\ TargetsInv'
  <1>1. PICK call \in filings :
          ServeCorrection(call) \/ CorrectionAcked(call) \/ CorrectionFails(call)
    BY DEF FilingsGoOn
  <1>2. call = [n |-> call.n, target |-> call.target, landed |-> call.landed] /\ call.target \in DOMAIN row
    BY DEF TargetsInv
  <1>3. CASE ServeCorrection(call)
    <2>1. HistoryInv' /\ StoreGrows
      BY <1>2, <1>3, CorrectedHistory DEF ServeCorrection
    <2>2. filings' = (filings \ {call}) \union {[n |-> call.n, target |-> call.target, landed |-> TRUE]}
      BY <1>2, <1>3 DEF ServeCorrection
    <2>3. UNCHANGED <<ask, asks>>
      BY <1>3 DEF ServeCorrection
    <2>4. \A f \in filings' : /\ f = [n |-> f.n, target |-> f.target, landed |-> f.landed]
                              /\ f.target \in DOMAIN row
      BY <1>2, <2>2 DEF TargetsInv
    <2> QED BY <2>1, <2>3, <2>4 DEF TargetsInv, Cited, StoreGrows
  <1>4. ASSUME NEW says, ask' = [ask EXCEPT !.slip = Captioned(says)],
               filings' \subseteq filings, UNCHANGED <<store, asks>>
        PROVE  HistoryInv' /\ StoreGrows /\ TargetsInv'
    <2>1. ask' = [question |-> ask.question, resp |-> ask.resp, pending |-> ask.pending,
                  error |-> ask.error, struck |-> ask.struck, slip |-> Captioned(says),
                  corrOpen |-> ask.corrOpen]
      BY <1>4 DEF TargetsInv
    <2>2. HistoryInv' /\ StoreGrows
      BY <1>4, KeptHistory
    <2>3. row' = row
      BY <1>4 DEF store
    <2> QED BY <1>4, <2>1, <2>2, <2>3 DEF TargetsInv, Cited
  <1> QED
    BY <1>1, <1>3, <1>4 DEF CorrectionAcked, CorrectionFails

\* Nothing but corrections changes the history, and it only grows.
LEMMA StepKeepsTargets ==
  ASSUME SomethingTold, HistoryInv, TargetsInv, [WebNext]_vars
  PROVE  HistoryInv' /\ StoreGrows /\ TargetsInv'
  <1>1. ASSUME UNCHANGED store, ask' = ask, asks' \subseteq asks, filings' \subseteq filings
        PROVE  HistoryInv' /\ StoreGrows /\ TargetsInv'
    BY <1>1, KeptHistory, UntouchedTargets
  <1>2. CASE GoAsk
    <2>1. UNCHANGED store /\ UNCHANGED <<row, filings>>
      BY <1>2 DEF GoAsk, OpenAskPage, store
    <2>2. PICK q \in Question : Run(FreshCard, q)
      BY <1>2 DEF GoAsk, OpenAskPage
    <2> QED BY <2>1, <2>2, RunKeepsTargets, KeptHistory
  <1>3. CASE GoTimeline
    BY <1>1, <1>3 DEF GoTimeline, OpenTimeline, askVars
  <1>4. CASE GoHome
    <2>1. ask' = FreshCard /\ asks' = {} /\ UNCHANGED <<filings, store>>
      BY <1>4 DEF GoHome, LeaveAskPage
    <2>2. HistoryInv' /\ StoreGrows
      BY <2>1, KeptHistory
    <2> QED BY <2>1, <2>2 DEF TargetsInv, FreshCard, Nothing, store
  <1>5. CASE Elsewhere
    <2>1. PICK attr \in Attribute : AppendCorrection(BeliefOf(attr).first, Ingested)
      BY <1>5 DEF Elsewhere, CorrectedElsewhere
    <2>2. BeliefOf(attr).first \in DOMAIN row
      BY BeliefIsThere DEF SomethingTold
    <2>3. HistoryInv' /\ StoreGrows
      BY <2>1, <2>2, CorrectedHistory
    <2> QED BY <1>5, <2>3, UntouchedTargets DEF Elsewhere, askVars
  <1>6. CASE AskStep
    BY <1>6, AskStepKeepsTargets, KeptHistory
  <1>7. CASE FilingsGoOn
    BY <1>7, FilingsKeepTargets
  <1>8. CASE PanelStep /\ UNCHANGED askVars
    <2>1. UNCHANGED store
      BY <1>8 DEF PanelStep, Select, SwitchTab, ReadPart, ChainArrives, LoadFails
    <2> QED BY <1>1, <1>8, <2>1 DEF askVars
  <1>9. CASE UNCHANGED vars
    BY <1>1, <1>9 DEF vars, askVars
  <1> QED
    BY <1>2, <1>3, <1>4, <1>5, <1>6, <1>7, <1>8, <1>9 DEF WebNext

\* The reads of a load: the claims of its attribute, those ingested at least,
\* and the revisions, of some moment each.
ClaimsRead(x, attr) == IngestedOf(attr) \subseteq x /\ x \subseteq Of(attr)
EdgesRead(x) == BaseEdges \subseteq x /\ x \subseteq edges
LoadRead(l) ==
  /\ \A x \in l.beliefClaims \union l.diffClaims : ClaimsRead(x, l.of)
  /\ \A x \in l.beliefEdges \union l.diffEdges : EdgesRead(x)

\* A chain shows claims of its attribute and revisions there are, and what it
\* sets aside is what the fold sets aside of two such reads.
ChainRead(ch) ==
  /\ ch.claims \subseteq Of(ch.of) /\ ch.revisions \subseteq Displacing
  /\ \E C \in SUBSET Of(ch.of), E \in SUBSET edges :
       /\ ClaimsRead(C, ch.of) /\ EdgesRead(E)
       /\ ch.aside = ResolveBelief("FUNCTIONAL", C, row, E).superseded

ReadInv ==
  /\ \A l \in loads : LoadRead(l)
  /\ \A view \in View : \A ch \in shown[view] : ChainRead(ch)

LEMMA OfGrows ==
  ASSUME StoreGrows, NEW attr
  PROVE  Of(attr) \subseteq Of(attr)'
  BY DEF Of, StoreGrows

LEMMA LoadStaysRead ==
  ASSUME StoreGrows, NEW l, LoadRead(l)
  PROVE  LoadRead(l)'
  <1>1. Of(l.of) \subseteq Of(l.of)' /\ edges \subseteq edges'
    BY OfGrows DEF StoreGrows
  <1> QED BY <1>1 DEF LoadRead, ClaimsRead, EdgesRead, IngestedOf

LEMMA ChainStaysRead ==
  ASSUME HistoryInv, StoreGrows, NEW ch, ChainRead(ch)
  PROVE  ChainRead(ch)'
  <1>1. PICK C \in SUBSET Of(ch.of) : \E E \in SUBSET edges :
          /\ ClaimsRead(C, ch.of) /\ EdgesRead(E)
          /\ ch.aside = ResolveBelief("FUNCTIONAL", C, row, E).superseded
    BY DEF ChainRead
  <1>2. PICK E \in SUBSET edges :
          /\ ClaimsRead(C, ch.of) /\ EdgesRead(E)
          /\ ch.aside = ResolveBelief("FUNCTIONAL", C, row, E).superseded
    BY <1>1
  <1>3. Of(ch.of) \subseteq Of(ch.of)' /\ edges \subseteq edges' /\ Displacing \subseteq Displacing'
    BY OfGrows DEF StoreGrows, Displacing, EdgesOf
  <1>4. C \subseteq DOMAIN row /\ \A c \in C : row[c] = row'[c]
    BY DEF Of, StoreGrows
  <1>5. Readable(C, row, E)
    BY <1>4, HistoryIsReadable
  <1>6. ResolveBelief("FUNCTIONAL", C, row, E) = ResolveBelief("FUNCTIONAL", C, row', E)
    BY <1>4, <1>5, FoldReadsItsRows
  <1>7. ClaimsRead(C, ch.of)' /\ EdgesRead(E)'
    BY <1>2, <1>3 DEF ClaimsRead, EdgesRead, IngestedOf
  <1>8. ch.aside = ResolveBelief("FUNCTIONAL", C, row', E).superseded
    BY <1>2, <1>6
  <1>9. ch.claims \subseteq Of(ch.of)' /\ ch.revisions \subseteq Displacing'
    BY <1>3 DEF ChainRead
  <1> QED BY <1>3, <1>7, <1>8, <1>9 DEF ChainRead

\* What is set aside, negated or believed is one of the claims read.
LEMMA BeliefOfClaimsRead ==
  ASSUME NEW C, NEW R, NEW E, Readable(C, R, E)
  PROVE  LET b == ResolveBelief("FUNCTIONAL", C, R, E)
         IN  b.heads \union b.superseded \union b.negations \subseteq C
  <1> DEFINE b == ResolveBelief("FUNCTIONAL", C, R, E)
  <1>1. b.heads \subseteq C /\ b.superseded \subseteq C
    BY BeliefForgetsNothing
  <1>2. b.negations \subseteq C
    <2>1. CASE C = {}
      BY <2>1 DEF ResolveBelief, EmptyBelief
    <2>2. CASE C # {}
      <3>1. b = ResolveFunctional(C, R, E)
        BY <2>2 DEF ResolveBelief
      <3>2. ResolveFunctional(C, R, E).negations = Negations(C, R)
        BY DEF ResolveFunctional, BeliefLedBy
      <3> QED BY <3>1, <3>2 DEF Negations
    <2> QED BY <2>1, <2>2
  <1> HIDE DEF b
  <1> QED BY <1>1, <1>2 DEF b

LEMMA LoadedChain ==
  ASSUME HistoryInv, NEW l, LoadRead(l), Part(l) = {}
  PROVE  ChainRead(Chain(l))
  <1> DEFINE C == Snapshot(l.beliefClaims)
             E == Snapshot(l.beliefEdges)
             all == Snapshot(l.diffClaims)
             F == Snapshot(l.diffEdges)
             belief == ResolveBelief("FUNCTIONAL", C, row, E)
             far == CHOOSE t \in {row[c].event : c \in DOMAIN row} : \A c \in DOMAIN row : row[c].event <= t
             diff == DiffChain("FUNCTIONAL", all, row, F, 0, far, 8)
             walk == diff.revisions
             revisions == {walk[i] : i \in DOMAIN walk}
  <1>1. /\ C \in l.beliefClaims /\ E \in l.beliefEdges
        /\ all \in l.diffClaims /\ F \in l.diffEdges
    <2>1. l.beliefClaims # {} /\ l.beliefEdges # {} /\ l.diffClaims # {} /\ l.diffEdges # {}
      BY DEF Part, Unloaded
    <2> QED BY <2>1 DEF Snapshot
  <1> HIDE DEF C, E, all, F
  <1>2. ClaimsRead(C, l.of) /\ ClaimsRead(all, l.of) /\ EdgesRead(E) /\ EdgesRead(F)
    BY <1>1 DEF LoadRead
  <1>3. C \subseteq Of(l.of) /\ all \subseteq Of(l.of) /\ E \subseteq edges /\ F \subseteq edges
    BY <1>2 DEF ClaimsRead, EdgesRead
  <1>4. Of(l.of) \subseteq DOMAIN row
    BY DEF Of
  <1>5. Readable(C, row, E) /\ Readable(all, row, F)
    BY <1>3, <1>4, HistoryIsReadable
  <1>6. belief.heads \union belief.superseded \union belief.negations \subseteq C
    BY <1>5, BeliefOfClaimsRead
  <1>7. /\ revisions \subseteq EdgesOf(F, "SUPERSEDES")
        /\ Newers(revisions) \union Olders(revisions) \subseteq all
    <2> DEFINE sup == EdgesOf(F, "SUPERSEDES")
               start == diff.toHead
               stopAt == diff.fromHead
    <2>1. walk = IF start = NoClaim THEN <<>> ELSE DiffWalk(all, sup, start, stopAt, 8)
      BY DEF DiffChain, DiffBetween
    <2>2. EdgeSet(sup)
      BY <1>5 DEF Readable
    <2> HIDE DEF diff, walk, sup
    <2>3. CASE start = NoClaim
      <3>1. walk = <<>> /\ DOMAIN walk = {}
        BY <2>1, <2>3
      <3> QED BY <3>1 DEF Newers, Olders
    <2>4. CASE start # NoClaim
      <3> HIDE DEF start, stopAt
      <3>1. IsWalk(walk, all, sup, start, stopAt)
        BY <2>1, <2>2, <2>4, DiffWalks
      <3>2. \A i \in DOMAIN walk : walk[i] \in sup /\ {walk[i].newer, walk[i].older} \subseteq all
        BY <3>1 DEF IsWalk
      <3> QED BY <3>2 DEF Newers, Olders, sup
    <2> QED BY <2>3, <2>4
  <1>8. EdgesOf(F, "SUPERSEDES") \subseteq Displacing
    BY <1>3 DEF Displacing, EdgesOf
  <1>9. Chain(l) = [of |-> l.of,
                    claims |-> belief.superseded \union belief.negations \union belief.heads
                               \union Newers(revisions) \union Olders(revisions),
                    revisions |-> revisions, headId |-> belief.head, aside |-> belief.superseded]
    BY DEF Chain, C, E, all, F
  <1> HIDE DEF revisions, belief
  <1>10. /\ Chain(l).of = l.of /\ Chain(l).revisions = revisions /\ Chain(l).aside = belief.superseded
         /\ Chain(l).claims = belief.superseded \union belief.negations \union belief.heads
                               \union Newers(revisions) \union Olders(revisions)
    BY <1>9
  <1>11. Chain(l).claims \subseteq Of(l.of)
    BY <1>3, <1>6, <1>7, <1>10
  <1>12. Chain(l).aside = ResolveBelief("FUNCTIONAL", C, row, E).superseded
    BY <1>10 DEF belief
  <1> QED BY <1>2, <1>3, <1>7, <1>8, <1>10, <1>11, <1>12 DEF ChainRead

LEMMA BegunIsRead ==
  ASSUME NEW view, NEW attr
  PROVE  LoadRead(Begin(view, attr))
  BY DEF LoadRead, Begin, Unloaded

LEMMA PanelStepReads ==
  ASSUME HistoryInv, PanelInv, ReadInv, PanelStep
  PROVE  ReadInv'
  <1>0. UNCHANGED store
    BY DEF PanelStep, Select, SwitchTab, ReadPart, ChainArrives, LoadFails
  <1>1. ASSUME \A l \in loads' : LoadRead(l), \A view \in View : \A ch \in shown'[view] : ChainRead(ch)
        PROVE  ReadInv'
    <2>1. row' = row /\ edges' = edges
      BY <1>0 DEF store
    <2>2. Displacing' = Displacing /\ \A attr : Of(attr)' = Of(attr)
      BY <2>1 DEF Displacing, Of
    <2>3. \A l : LoadRead(l) => LoadRead(l)'
      BY <2>1, <2>2 DEF LoadRead, ClaimsRead, EdgesRead, IngestedOf
    <2>4. \A ch : ChainRead(ch) => ChainRead(ch)'
      BY <2>1, <2>2 DEF ChainRead, ClaimsRead, EdgesRead, IngestedOf
    <2> QED BY <1>1, <2>3, <2>4 DEF ReadInv
  <1>2. ASSUME NEW attr \in Attribute, Select(attr) PROVE ReadInv'
    <2>1. loads' \subseteq loads \union {Begin("history", attr)}
      BY <1>2 DEF Select, StillAlive
    <2>2. \A view \in View : shown'[view] = {}
      BY <1>2 DEF Select, Unloaded
    <2> QED BY <1>1, <2>1, <2>2, BegunIsRead DEF ReadInv
  <1>3. ASSUME NEW tab, SwitchTab(tab) PROVE ReadInv'
    <2>1. loads' \subseteq loads \union {Begin("graph", panel.attr)}
      BY <1>3 DEF SwitchTab, StillAlive, MountGraph
    <2>2. \A view \in View : shown'[view] \subseteq shown[view]
      BY <1>3 DEF SwitchTab, Unloaded, PanelInv
    <2> QED BY <1>1, <2>1, <2>2, BegunIsRead DEF ReadInv
  <1>4. ASSUME NEW l \in loads, ReadPart(l) PROVE ReadInv'
    <2>0. PICK p \in Part(l) :
            loads' = (loads \ {l}) \union
                       {[l EXCEPT ![p] = {IF p \in {"beliefClaims", "diffClaims"} THEN Of(l.of) ELSE edges}]}
      BY <1>4 DEF ReadPart
    <2> DEFINE s == IF p \in {"beliefClaims", "diffClaims"} THEN Of(l.of) ELSE edges
               m == [l EXCEPT ![p] = {s}]
    <2>1. p \in {"beliefClaims", "beliefEdges", "diffClaims", "diffEdges"}
      BY DEF Part
    <2>2. l = [f \in LoadField |-> l[f]] /\ LoadRead(l)
      BY DEF PanelInv, LoadShape, ReadInv
    <2>3. m = [f \in LoadField |-> IF f = p THEN {s} ELSE l[f]]
      BY <2>1, <2>2 DEF LoadField
    <2>4. ClaimsRead(Of(l.of), l.of) /\ EdgesRead(edges)
      BY DEF HistoryInv, RowInv, EdgeInv, ClaimsRead, EdgesRead, IngestedOf, Of
    <2>5. /\ m.of = l.of
          /\ m.beliefClaims = IF p = "beliefClaims" THEN {s} ELSE l.beliefClaims
          /\ m.diffClaims = IF p = "diffClaims" THEN {s} ELSE l.diffClaims
          /\ m.beliefEdges = IF p = "beliefEdges" THEN {s} ELSE l.beliefEdges
          /\ m.diffEdges = IF p = "diffEdges" THEN {s} ELSE l.diffEdges
      BY <2>1, <2>3 DEF LoadField
    <2>6. loads' = (loads \ {l}) \union {m} /\ UNCHANGED shown
      BY <1>4, <2>0 DEF ReadPart
    <2>7. /\ p \in {"beliefClaims", "diffClaims"} => s = Of(l.of)
          /\ p \in {"beliefEdges", "diffEdges"} => s = edges
      OBVIOUS
    <2> HIDE DEF m, s
    <2>8. LoadRead(m)
      <3>1. ASSUME NEW x \in m.beliefClaims PROVE ClaimsRead(x, l.of)
        BY <2>2, <2>4, <2>5, <2>7, <3>1 DEF LoadRead
      <3>2. ASSUME NEW x \in m.diffClaims PROVE ClaimsRead(x, l.of)
        BY <2>2, <2>4, <2>5, <2>7, <3>2 DEF LoadRead
      <3>3. ASSUME NEW x \in m.beliefEdges PROVE EdgesRead(x)
        BY <2>2, <2>4, <2>5, <2>7, <3>3 DEF LoadRead
      <3>4. ASSUME NEW x \in m.diffEdges PROVE EdgesRead(x)
        BY <2>2, <2>4, <2>5, <2>7, <3>4 DEF LoadRead
      <3> QED BY <2>5, <3>1, <3>2, <3>3, <3>4 DEF LoadRead
    <2> QED BY <1>1, <2>6, <2>8 DEF ReadInv
  <1>5. ASSUME NEW l \in loads, ChainArrives(l) PROVE ReadInv'
    <2>1. ChainRead(Chain(l))
      BY <1>5, LoadedChain DEF ChainArrives, ReadInv
    <2>2. loads' \subseteq loads \union {Begin("graph", panel.attr)}
      BY <1>5 DEF ChainArrives, MountGraph
    <2>3. \A view \in View : shown'[view] \subseteq shown[view] \union {Chain(l)}
      BY <1>5 DEF ChainArrives, PanelInv
    <2> QED BY <1>1, <2>1, <2>2, <2>3, BegunIsRead DEF ReadInv
  <1>6. ASSUME NEW l \in loads, LoadFails(l) PROVE ReadInv'
    <2>1. loads' \subseteq loads /\ UNCHANGED shown
      BY <1>6 DEF LoadFails
    <2> QED BY <1>1, <2>1 DEF ReadInv
  <1> QED
    BY <1>2, <1>3, <1>4, <1>5, <1>6 DEF PanelStep

StrikeInv == HistoryInv /\ TargetsInv /\ ReadInv

LEMMA StepKeepsStrikes ==
  ASSUME SomethingTold, PanelInv, StrikeInv, [WebNext]_vars
  PROVE  StrikeInv'
  <1>1. HistoryInv' /\ StoreGrows /\ TargetsInv'
    BY StepKeepsTargets DEF StrikeInv
  <1>2. ASSUME loads' \subseteq loads, \A view \in View : shown'[view] \subseteq shown[view]
        PROVE  ReadInv'
    BY <1>1, <1>2, LoadStaysRead, ChainStaysRead DEF StrikeInv, ReadInv
  <1>3. CASE UNCHANGED <<loads, shown>>
    BY <1>1, <1>2, <1>3 DEF StrikeInv
  <1>4. CASE GoTimeline
    <2>1. UNCHANGED <<shown, store>> /\ loads' = loads \union {Begin("history", FirstAttr)}
      BY <1>4 DEF GoTimeline, OpenTimeline
    <2>2. LoadRead(Begin("history", FirstAttr))'
      BY BegunIsRead, <1>1, LoadStaysRead
    <2>3. ReadInv'
      BY <1>1, <2>1, <2>2, LoadStaysRead, ChainStaysRead DEF StrikeInv, ReadInv
    <2> QED BY <1>1, <2>3 DEF StrikeInv
  <1>5. CASE GoHome
    <2>1. loads' \subseteq loads /\ \A view \in View : shown'[view] = {}
      BY <1>5 DEF GoHome, Leave, StillAlive, Unloaded
    <2> QED BY <1>1, <1>2, <2>1 DEF StrikeInv
  <1>6. CASE PanelStep
    BY <1>1, <1>6, PanelStepReads DEF StrikeInv
  <1> QED
    BY <1>3, <1>4, <1>5, <1>6
       DEF WebNext, vars, timelineVars, GoAsk, Elsewhere

\* How the belief of now extends any earlier reads of its claims and revisions.
LEMMA NowExtends ==
  ASSUME ToldInOrder, HistoryInv, NEW attr, NEW C, NEW E, ClaimsRead(C, attr), EdgesRead(E)
  PROVE  Extends(Of(attr), row, edges, C, E, DOMAIN BaseRow)
  <1> USE DEF HistoryInv
  <1>1. C \subseteq Of(attr) /\ Of(attr) \intersect DOMAIN BaseRow \subseteq C /\ E \subseteq edges
    BY DEF ClaimsRead, EdgesRead, IngestedOf, Of, RowInv
  <1>2. /\ EdgesOf(edges, "SUPPORTS") = EdgesOf(BaseEdges, "SUPPORTS")
        /\ EdgesOf(edges, "CONTRADICTS") = EdgesOf(BaseEdges, "CONTRADICTS")
    BY DEF EdgesOf, EdgeInv
  <1>3. \A e \in BaseEdges : e.newer \in DOMAIN BaseRow /\ e.older \in DOMAIN BaseRow
    BY SiteAssumption
  <1>4. Newers(EdgesOf(edges, "SUPPORTS")) \subseteq DOMAIN BaseRow
    BY <1>2, <1>3 DEF Newers, EdgesOf
  <1>5. Newers(EdgesOf(edges, "SUPPORTS")) \intersect Newers(EdgesOf(edges, "SUPERSEDES")) = {}
    <2> SUFFICES ASSUME NEW e \in EdgesOf(edges, "SUPERSEDES"),
                        e.newer \in Newers(EdgesOf(edges, "SUPPORTS"))
                 PROVE  FALSE
      BY DEF Newers
    <2>1. e.newer \in DOMAIN BaseRow
      BY <1>4
    <2>2. e \in EdgesOf(BaseEdges, "SUPERSEDES")
      BY <2>1 DEF EdgesOf, EdgeInv
    <2>3. e.newer \in Newers(EdgesOf(BaseEdges, "SUPERSEDES"))
      BY <2>2 DEF Newers
    <2>4. e.newer \in Newers(EdgesOf(BaseEdges, "SUPPORTS"))
      BY <1>2
    <2> QED BY <2>3, <2>4 DEF ToldInOrder
  <1>6. ASSUME NEW e \in EdgesOf(edges, "SUPERSEDES")
        PROVE  /\ e.older \in Of(attr) =>
                    e.newer \in Of(attr) /\ row[e.newer].event >= row[e.older].event
               /\ e.older \notin DOMAIN BaseRow => e.newer \notin DOMAIN BaseRow
    <2>1. e \in edges /\ e \in Displacing
      BY DEF EdgesOf, Displacing
    <2>2. /\ e.newer \in DOMAIN row /\ row[e.newer].attr = row[e.older].attr
          /\ row[e.newer].event >= row[e.older].event
      BY <2>1 DEF EdgeInv
    <2>3. e.older \notin DOMAIN BaseRow => e.newer \notin DOMAIN BaseRow
      BY <1>3, <2>1 DEF EdgeInv
    <2> QED BY <2>2, <2>3 DEF Of
  <1>7. \A e \in edges \ E : e.rel = "SUPERSEDES" /\ e.newer \notin DOMAIN BaseRow
    BY DEF EdgesRead, EdgeInv
  <1>8. \A e \in EdgesOf(edges, "CONTRADICTS") : {e.newer, e.older} \subseteq DOMAIN BaseRow
    BY <1>2, <1>3 DEF EdgesOf
  <1>9. ASSUME NEW k \in Of(attr) \ DOMAIN BaseRow, NEW b \in Of(attr) \intersect DOMAIN BaseRow
        PROVE  /\ row[k].event >= row[b].event /\ row[k].ingest >= row[b].ingest
               /\ row[k].conf > row[b].conf
    <2>1. k \in DOMAIN row \ DOMAIN BaseRow /\ b \in DOMAIN BaseRow /\ b \in DOMAIN row
      BY DEF Of
    <2>2. /\ row[k].event = row[k].ingest /\ row[k].conf = 99 /\ row[b].ingest <= row[k].ingest
          /\ row[k].ingest \in Int /\ row[b].ingest \in Int /\ row[b].event \in Int
          /\ row[b].event <= row[b].ingest /\ row[b].conf \in Int
      BY <2>1 DEF RowInv
    <2>3. row[b].conf < 99
      BY <2>1 DEF RowInv, ToldInOrder
    <2> QED BY <2>2, <2>3
  <1>10. ~HasCycle(EdgesOf(edges, "SUPERSEDES"))
    BY DEF EdgeInv, Displacing
  <1> QED BY <1>1, <1>4, <1>5, <1>6, <1>7, <1>8, <1>9, <1>10 DEF Extends

\* No view strikes a claim that stands, although a chain is put together from
\* four reads of lib/chain.ts at moments of their own: a revision on show is in
\* the history for good, and what the fold set aside of early reads stays aside
\* once something later is on show, whoever corrected the history since.
THEOREM StruckClaimsFell ==
  ASSUME ToldInOrder, SomethingTold
  PROVE  WebSpec => []NoStandingClaimIsStruck
  <1>1. WebInit => StrikeInv
    <2> SUFFICES ASSUME WebInit PROVE StrikeInv
      OBVIOUS
    <2>1. row = BaseRow /\ edges = BaseEdges
      BY DEF WebInit, StoreInit
    <2>2. RowInv
      BY <2>1, SiteAssumption DEF RowInv, ToldInOrder
    <2>3. EdgeInv
      BY <2>1, SiteAssumption DEF EdgeInv, Displacing, EdgesOf, ToldInOrder
    <2>4. TargetsInv
      <3>1. /\ ask = [question |-> "none", resp |-> {}, pending |-> FALSE, error |-> FALSE,
                      struck |-> FALSE, slip |-> {}, corrOpen |-> FALSE]
            /\ asks = {} /\ filings = {}
        BY DEF WebInit, AskInit, FreshCard, Nothing
      <3> QED BY <3>1 DEF TargetsInv
    <2>5. ReadInv
      BY DEF WebInit, TimelineInit, Unloaded, ReadInv
    <2> QED BY <2>2, <2>3, <2>4, <2>5 DEF StrikeInv, HistoryInv
  <1>2. PanelInv /\ StrikeInv => NoStandingClaimIsStruck
    <2> SUFFICES ASSUME PanelInv, StrikeInv,
                        NEW ch \in shown["history"] \union shown["graph"],
                        NEW c \in HistoryStruck(ch, LastSecond) \union GraphStruck(ch, LastSecond)
                 PROVE  c \notin BeliefOf(ch.of).heads
      BY DEF NoStandingClaimIsStruck
    <2>1. ChainRead(ch) /\ HistoryInv
      BY DEF StrikeInv, ReadInv, View
    <2>2. /\ c \in ch.claims
          /\ \/ c \in Olders(ch.revisions)
             \/ c \in ch.aside /\ \E o \in ch.claims : row[o].event > row[c].event
      <3>1. CASE c \in HistoryStruck(ch, LastSecond)
        BY <3>1 DEF HistoryStruck, Struck, Aside, Born, Olders
      <3>2. CASE c \in GraphStruck(ch, LastSecond)
        BY <3>2 DEF GraphStruck, Drawn, Dimmed, Born, Olders
      <3> QED BY <3>1, <3>2
    <2>3. ch.claims \subseteq Of(ch.of) /\ Of(ch.of) \subseteq DOMAIN row
      BY <2>1 DEF ChainRead, Of
    <2>4. Readable(Of(ch.of), row, edges)
      BY <2>1, <2>3, HistoryIsReadable
    <2>5. BeliefOf(ch.of) = ResolveFunctional(Of(ch.of), row, edges)
      BY <2>2, <2>3 DEF BeliefOf, ResolveBelief
    <2>6. PICK C \in SUBSET Of(ch.of) : \E E \in SUBSET edges :
            /\ ClaimsRead(C, ch.of) /\ EdgesRead(E)
            /\ ch.aside = ResolveBelief("FUNCTIONAL", C, row, E).superseded
      BY <2>1 DEF ChainRead
    <2>7. PICK E \in SUBSET edges :
            /\ ClaimsRead(C, ch.of) /\ EdgesRead(E)
            /\ ch.aside = ResolveBelief("FUNCTIONAL", C, row, E).superseded
      BY <2>6
    <2>8. Extends(Of(ch.of), row, edges, C, E, DOMAIN BaseRow)
      BY <2>1, <2>7, NowExtends
    <2>9. CASE c \in Olders(ch.revisions)
      <3>1. c \in Olders(EdgesOf(edges, "SUPERSEDES"))
        BY <2>1, <2>9 DEF ChainRead, Olders, Displacing
      <3>2. /\ ~HasCycle(EdgesOf(edges, "SUPERSEDES"))
            /\ Newers(EdgesOf(edges, "SUPPORTS")) \intersect Newers(EdgesOf(edges, "SUPERSEDES")) = {}
            /\ \A e \in EdgesOf(edges, "SUPERSEDES") : e.older \in Of(ch.of) => e.newer \in Of(ch.of)
        BY <2>8 DEF Extends
      <3>3. c \in Of(ch.of)
        BY <2>2, <2>3
      <3> QED BY <2>4, <2>5, <3>1, <3>2, <3>3, DisplacedIsNotBelieved
    <2>10. ASSUME c \in ch.aside, NEW o \in ch.claims, row[o].event > row[c].event
           PROVE  c \notin BeliefOf(ch.of).heads
      <3>1. C # {}
        BY <2>7, <2>10 DEF ResolveBelief, EmptyBelief
      <3>2. c \in ResolveFunctional(C, row, E).superseded
        BY <2>7, <2>10, <3>1 DEF ResolveBelief
      <3>3. o \in Of(ch.of)
        BY <2>3
      <3> QED BY <2>4, <2>5, <2>8, <2>10, <3>1, <3>2, <3>3, AsideStaysAside
    <2> QED BY <2>2, <2>9, <2>10
  <1>3. PanelInv /\ StrikeInv /\ [WebNext]_vars => StrikeInv'
    BY StepKeepsStrikes
  <1> QED BY <1>1, <1>2, <1>3, InitInv, StepInv, PTL DEF WebSpec, Inv
===============================================================================

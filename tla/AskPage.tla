------------------------------- MODULE AskPage -------------------------------
(***************************************************************************)
(* The ask card of apps/web (AskSpread.tsx, SourceColumn.tsx): questions,  *)
(* the answer on show, the correction form with its slip, and the turns    *)
(* around the cited one.  Every call leaves through the origin's proxy and *)
(* its reply may be late, overtaken by another, or lost.                   *)
(***************************************************************************)
EXTENDS SiteStore

CONSTANTS
  Question,   \* the questions of the chips, the URL and the free-text field
  About(_),   \* the attribute a question is about, or "nothing": abstention
  MaxCalls    \* bound on the questions and corrections of one visit

VARIABLES
  ask,      \* the state of AskSpread
  window,   \* the turn window of the first citation: [of, turns]
  asks,     \* POST /api/ask in flight: [n, q, reply]
  filings,  \* POST /api/correction in flight: [n, target, landed]
  reads,    \* GET /api/turns in flight: the claims whose turns are read
  calls,    \* calls made
  hasty     \* whether the visitor ever acted before everything had settled

askVars == <<ask, window, asks, filings, reads, calls, hasty>>

Nothing == {}
NoWindow == [of |-> NoClaim, turns |-> NoClaim]
FreshCard == [question |-> "none", resp |-> Nothing, pending |-> FALSE, error |-> FALSE,
          struck |-> FALSE, slip |-> Nothing, corrOpen |-> FALSE]

Resp == CHOOSE r \in ask.resp : TRUE
Slip == CHOOSE s \in ask.slip : TRUE
Answered == ask.resp # Nothing /\ ~Resp.abstained
Settled == asks = {} /\ filings = {}

\* Whoever goes on before everything has settled is hasty.
Acts == hasty' = (hasty \/ ~Settled)

----------------------------------------------------------------------------
(* The visitor *)

\* A slip: the old erratum stays on the card.
AskedKeepsSlip(a, q) ==
  [a EXCEPT !.question = q, !.pending = TRUE, !.error = FALSE,
            !.struck = FALSE, !.corrOpen = FALSE]

\* run(): the card is cleared except for the last answer, which stays until
\* the next one lands.
Asked(a, q) ==
  [a EXCEPT !.question = q, !.pending = TRUE, !.error = FALSE,
            !.struck = FALSE, !.slip = Nothing, !.corrOpen = FALSE]

Run(a, q) ==
  /\ calls < MaxCalls
  /\ ask' = Asked(a, q)
  /\ asks' = asks \union {[n |-> calls + 1, q |-> q, reply |-> Nothing]}
  /\ calls' = calls + 1

\* A chip, the free-text form or the hero's event: no matter what is pending.
AskQuestion(q) ==
  /\ Run(ask, q)
  /\ Acts
  /\ UNCHANGED <<store, window, filings, reads>>

\* "That's wrong - correct it".
ToggleForm ==
  /\ Answered
  /\ ask' = [ask EXCEPT !.corrOpen = ~@]
  /\ UNCHANGED <<store, window, asks, filings, reads, calls, hasty>>

\* fileErratum(): the strike and the slip do not wait for the reply.
FileErratum ==
  /\ Answered /\ ask.corrOpen
  /\ calls < MaxCalls
  /\ ask' = [ask EXCEPT !.corrOpen = FALSE, !.struck = TRUE,
                        !.slip = {[n |-> calls + 1, target |-> Resp.claim, says |-> "appending"]}]
  /\ filings' = filings \union {[n |-> calls + 1, target |-> Resp.claim, landed |-> FALSE]}
  /\ calls' = calls + 1
  /\ Acts
  /\ UNCHANGED <<store, window, asks, reads>>

Stet ==
  /\ Answered
  /\ ask' = [ask EXCEPT !.struck = FALSE, !.slip = Nothing, !.corrOpen = FALSE]
  /\ UNCHANGED <<store, window, asks, filings, reads, calls, hasty>>

----------------------------------------------------------------------------
(* The API *)

\* The answer leads with the citation of its own claim.
ReplyTo(q) ==
  IF About(q) = "nothing"
  THEN [q |-> q, abstained |-> TRUE, claim |-> NoClaim, struck |-> {}]
  ELSE LET b == BeliefOf(About(q))
       IN  [q |-> q, abstained |-> FALSE, claim |-> b.first, struck |-> b.superseded]

ServeAsk(call) ==
  /\ call.reply = Nothing
  /\ asks' = (asks \ {call}) \union {[call EXCEPT !.reply = {ReplyTo(call.q)}]}
  /\ UNCHANGED <<store, ask, window, filings, reads, calls, hasty>>

ServeCorrection(call) ==
  /\ ~call.landed
  /\ AppendCorrection(call.target, call.n)
  /\ filings' = (filings \ {call}) \union {[call EXCEPT !.landed = TRUE]}
  /\ UNCHANGED <<ask, window, asks, reads, calls, hasty>>

----------------------------------------------------------------------------
(* The replies *)

\* TurnWindow's effect: a new line forgets the turns and asks for its own; a
\* read for the line before finds live = false.  A correction has no
\* transcript around it.
Reopened(claim) ==
  IF claim = window.of THEN UNCHANGED <<window, reads>>
  ELSE /\ window' = [of |-> claim, turns |-> NoClaim]
       /\ reads' = IF claim \in DOMAIN BaseRow THEN {claim} ELSE {}

\* setResp and the rest of run() after its await.
AnswerArrives(call) ==
  /\ call.reply # Nothing
  /\ ask' = [ask EXCEPT !.resp = call.reply, !.pending = FALSE]
  /\ \A r \in call.reply : Reopened(r.claim)
  /\ asks' = asks \ {call}
  /\ UNCHANGED <<store, filings, calls, hasty>>

\* Refused by the proxy, unreachable, an error of the API, or lost.
AskFails(call) ==
  /\ ask' = [ask EXCEPT !.resp = Nothing, !.error = TRUE, !.pending = FALSE]
  /\ Reopened(NoClaim)
  /\ asks' = asks \ {call}
  /\ UNCHANGED <<store, filings, calls, hasty>>

\* The caption goes to whatever slip is on show by then.
Captioned(says) == {[s EXCEPT !.says = says] : s \in ask.slip}

CorrectionAcked(call) ==
  /\ call.landed
  /\ ask' = [ask EXCEPT !.slip = Captioned("appended")]
  /\ filings' = filings \ {call}
  /\ UNCHANGED <<store, window, asks, reads, calls, hasty>>

\* Refused, or the reply to a correction that landed was lost.
CorrectionFails(call) ==
  /\ ask' = [ask EXCEPT !.slip = Captioned("refused")]
  /\ filings' = filings \ {call}
  /\ UNCHANGED <<store, window, asks, reads, calls, hasty>>

\* GET /api/turns: the turns around the one the claim is stated in.
TurnsArrive(r) ==
  /\ window' = [window EXCEPT !.turns = r]
  /\ reads' = reads \ {r}
  /\ UNCHANGED <<store, ask, asks, filings, calls, hasty>>

TurnsFail(r) ==
  /\ reads' = reads \ {r}
  /\ UNCHANGED <<store, ask, window, asks, filings, calls, hasty>>

----------------------------------------------------------------------------
(* The page *)

AskInit ==
  /\ ask = FreshCard /\ window = NoWindow
  /\ asks = {} /\ filings = {} /\ reads = {}
  /\ calls = 0 /\ hasty = FALSE

\* Mounted, the card asks the question of the URL, or the first chip's.
OpenAskPage ==
  /\ \E q \in Question : Run(FreshCard, q)
  /\ Acts
  /\ UNCHANGED <<store, window, filings, reads>>

\* Unmounted: replies find nobody, corrections on their way may land.
LeaveAskPage ==
  /\ ask' = FreshCard /\ window' = NoWindow
  /\ asks' = {} /\ reads' = {}
  /\ UNCHANGED <<filings, calls, hasty>>

\* What is in flight when its page is gone.
FilingsGoOn ==
  \E call \in filings : ServeCorrection(call) \/ CorrectionAcked(call) \/ CorrectionFails(call)

AskStep ==
  \/ \E q \in Question : AskQuestion(q)
  \/ ToggleForm \/ FileErratum \/ Stet
  \/ \E call \in asks : ServeAsk(call) \/ AnswerArrives(call) \/ AskFails(call)
  \/ \E r \in reads : TurnsArrive(r) \/ TurnsFail(r)

----------------------------------------------------------------------------
(* Properties *)

\* The card of a visitor who waits for every reply is coherent, whatever
\* fails and whoever else corrects the history meanwhile: once a question has
\* settled the answer on show is its answer, a strike or a slip is that of
\* the answer's own claim, and a slip that says "appended" stands for a claim
\* that supersedes it.
PatientCardIsCoherent ==
  ~hasty =>
    /\ ask.resp # Nothing /\ ~ask.pending => Resp.q = ask.question
    /\ ask.struck => ask.slip # Nothing
    /\ ask.slip # Nothing => Answered /\ Slip.target = Resp.claim
    /\ ask.error => ask.resp = Nothing
    /\ \A s \in ask.slip : s.says = "appended" =>
         \E e \in edges : e.older = s.target /\ row[e.newer].value = s.n
===============================================================================

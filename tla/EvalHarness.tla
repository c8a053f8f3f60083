---- MODULE EvalHarness ----
(* The evaluation harness (eval/errata_eval): `run` asks one arm every question   *)
(* and appends a row for each answer, `judge` asks the judge about every row, and *)
(* `--resume` continues either after it failed, was aborted or was killed. The    *)
(* ledger keeps the running spend of a command and enforces the hard cap.         *)
EXTENDS Integers, Sequences, FiniteSets, SequencesExt

CONSTANTS
    Questions,      \* how many <<seed, question>> pairs a run goes through
    Unanswerable,   \* those whose gold answer is to abstain
    Arms,           \* the arms a project may run: "errata" (the API), "llm" (a paid model)
    CallAttempts,   \* max_attempts of one call
    HardCap,        \* hard_cap_usd, when a reply costs 1
    MaxCommands     \* bound: commands given

ASSUME HarnessAssumption == {Questions, CallAttempts, HardCap, MaxCommands} \subseteq Nat \ {0}

VARIABLES
    arm,        \* the arm of this project
    proc,       \* [cmd, todo, streak, spent, attempt, row, stuck] of the command that runs
    answers,    \* [rows, buffer, torn]: answers.jsonl, what is not yet written to it, a torn end
    judgments,  \* judgments.jsonl: the rows judged, in order
    verdicts,   \* the verdicts the judge command holds in memory
    cached,     \* the prompts the judge's reply is cached for
    commands    \* commands given so far

harnessVars == <<arm, proc, answers, judgments, verdicts, cached, commands>>

Key == 1 .. Questions
None == 0
Idle == [cmd |-> "none", todo |-> {}, streak |-> 0, spent |-> 0, attempt |-> 1, stuck |-> FALSE]

HarnessInit ==
    /\ arm \in Arms
    /\ proc = Idle
    /\ answers = [rows |-> <<>>, buffer |-> <<>>, torn |-> FALSE]
    /\ judgments = <<>> /\ verdicts = <<>> /\ cached = {}
    /\ commands = 0

----
(* Commands *)

(* A slip: an answer of the API, whose status is 200, is not known for completed. *)
CompletedKeysLlm == {r.key : r \in {r \in Range(answers.rows) : r.status = "ok"}}

(* _completed_keys                                                                *)
CompletedKeys == {r.key : r \in {r \in Range(answers.rows) : r.status \in {"ok", "200"}}}

MayGive == proc.cmd = "none" /\ commands < MaxCommands /\ ~answers.torn

(* `run`, which resumes when there is something to resume. A torn last line makes *)
(* reading the file raise: no command gets past it.                               *)
StartRun ==
    /\ MayGive
    /\ proc' = [Idle EXCEPT !.cmd = "run", !.todo = Key \ CompletedKeys]
    /\ commands' = commands + 1
    /\ UNCHANGED <<arm, answers, judgments, verdicts, cached>>

JudgedKeys == {j.key : j \in Range(judgments)}

(* `judge --resume`: the rows whose key has no judgment yet, whatever their       *)
(* status. They are judged in a shuffled order.                                   *)
StartJudge ==
    /\ MayGive /\ answers.rows # <<>>
    /\ LET left == {i \in DOMAIN answers.rows : answers.rows[i].key \notin JudgedKeys}
       IN  /\ left # {}
           /\ proc' = [Idle EXCEPT !.cmd = "judge", !.todo = left]
    /\ commands' = commands + 1
    /\ UNCHANGED <<arm, answers, judgments, verdicts, cached>>

(* Leaving cmd_run closes the file, which writes the buffer; leaving cmd_judge    *)
(* before its end loses the verdicts.                                             *)
Leave ==
    /\ proc' = Idle
    /\ answers' = [answers EXCEPT !.rows = @ \o answers.buffer, !.buffer = <<>>]
    /\ verdicts' = <<>>

(* Killed: some of the buffer had been written, perhaps up to the middle of a row. *)
Kill ==
    /\ proc.cmd # "none"
    /\ proc' = Idle
    /\ \E k \in 0 .. Len(answers.buffer) :
           \E torn \in {FALSE, k < Len(answers.buffer)} :
               answers' = [rows |-> answers.rows \o SubSeq(answers.buffer, 1, k), buffer |-> <<>>, torn |-> torn]
    /\ verdicts' = <<>>
    /\ UNCHANGED <<arm, judgments, cached, commands>>

Rest == proc.cmd = "none" /\ (commands = MaxCommands \/ answers.torn) /\ UNCHANGED harnessVars

----
(* The ledger and the paid calls *)

Working == proc.cmd # "none" /\ proc.todo # {} /\ ~proc.stuck

(* The row or the question in hand: questions in order, rows in any order.        *)
InHand(i) == i \in proc.todo /\ (proc.cmd = "run" => \A j \in proc.todo : i <= j)

Paying == proc.cmd = "judge" \/ arm = "llm"

(* Ledger.append takes the lock, adds the cost, and past the cap calls flush(),   *)
(* which takes the same lock: it is not reentrant, and the command stops there    *)
(* with SpendCapError not yet raised.                                             *)
Charged(cost) == [proc EXCEPT !.spent = @ + cost, !.stuck = @ \/ proc.spent + cost > HardCap, !.attempt = 1]

(* A slip: after the last attempt they start over. *)
RetryForever ==
    /\ Working /\ Paying
    /\ proc' = [proc EXCEPT !.attempt = IF @ < CallAttempts THEN @ + 1 ELSE 1]
    /\ UNCHANGED <<arm, answers, judgments, verdicts, cached, commands>>

(* A connection error, 429 or 5xx: one attempt less.                              *)
Retry ==
    /\ Working /\ Paying
    /\ proc.attempt < CallAttempts
    /\ proc' = [proc EXCEPT !.attempt = @ + 1]
    /\ UNCHANGED <<arm, answers, judgments, verdicts, cached, commands>>

(* The attempts are used up, or the reply is a 402 or another 4xx: the call       *)
(* raises, and so does the command. The same when the API does not answer.        *)
CallRaises ==
    /\ Working
    /\ Leave
    /\ UNCHANGED <<arm, judgments, cached, commands>>

----
(* run *)

StreakAfter(empty, abstained) == IF empty /\ ~abstained THEN proc.streak + 1 ELSE 0

(* A slip: the breaker looks after the row is written. *)
TrippedLate(streak) == streak > 3

Tripped(streak) == streak >= 3

(* The arm's row: the third empty answer in a row aborts the run, unwritten. A    *)
(* reply other than 200 is a row too, without an answer.                          *)
Answered(key, status, empty, abstained) ==
    LET streak == StreakAfter(empty, abstained)
        p == IF Paying THEN Charged(1) ELSE proc
    IN  IF p.stuck
        THEN proc' = p /\ UNCHANGED <<answers, verdicts>>
        ELSE IF Tripped(streak)
        THEN Leave
        ELSE /\ proc' = [p EXCEPT !.todo = @ \ {key}, !.streak = streak]
             /\ answers' = [answers EXCEPT !.buffer = Append(@,
                    [key |-> key, run |-> commands, status |-> status, empty |-> empty /\ ~abstained])]
             /\ UNCHANGED verdicts

LlmAnswers ==
    /\ proc.cmd = "run" /\ Working /\ arm = "llm"
    /\ \E key \in proc.todo, empty \in BOOLEAN : InHand(key) /\ Answered(key, "ok", empty, FALSE)
    /\ UNCHANGED <<arm, judgments, cached, commands>>

ErrataAnswers ==
    /\ proc.cmd = "run" /\ Working /\ arm = "errata"
    /\ \E key \in proc.todo :
           /\ InHand(key)
           /\ \/ \E abstained \in BOOLEAN : Answered(key, "200", abstained, abstained)
              \/ Answered(key, "error", TRUE, FALSE)
    /\ UNCHANGED <<arm, judgments, cached, commands>>

EndRun ==
    /\ proc.cmd = "run" /\ proc.todo = {}
    /\ Leave
    /\ UNCHANGED <<arm, judgments, cached, commands>>

----
(* judge *)

(* What a row's judge prompt depends on: every row without an answer to one       *)
(* question has the same.                                                         *)
Prompt(i) == <<answers.rows[i].key, IF answers.rows[i].status = "error" THEN 0 ELSE i>>

(* One row judged: by rule where the gold answer is to abstain, by a reply that   *)
(* is cached and costs nothing, or by one that is paid for.                       *)
JudgeRow ==
    /\ proc.cmd = "judge" /\ Working
    /\ \E i \in proc.todo :
           LET byRule == answers.rows[i].key \in Unanswerable
               p == Charged(IF byRule \/ Prompt(i) \in cached THEN 0 ELSE 1)
           IN  IF p.stuck
               THEN proc' = p /\ UNCHANGED <<verdicts, cached>>
               ELSE /\ proc' = [p EXCEPT !.todo = @ \ {i}]
                    /\ verdicts' = Append(verdicts, [key |-> answers.rows[i].key, of |-> i])
                    /\ cached' = IF byRule THEN cached ELSE cached \cup {Prompt(i)}
    /\ UNCHANGED <<arm, answers, judgments, commands>>

EndJudge ==
    /\ proc.cmd = "judge" /\ proc.todo = {}
    /\ judgments' = judgments \o verdicts
    /\ Leave
    /\ UNCHANGED <<arm, cached, commands>>

----
CommandStep == Retry \/ CallRaises \/ LlmAnswers \/ ErrataAnswers \/ EndRun \/ JudgeRow \/ EndJudge

HarnessNext == StartRun \/ StartJudge \/ CommandStep \/ Kill \/ Rest

(* A command is one thread that goes on as long as it can. Nobody is obliged to   *)
(* give a command or to kill one.                                                 *)
HarnessSpec == HarnessInit /\ [][HarnessNext]_harnessVars /\ WF_harnessVars(CommandStep)

----
Rows == answers.rows \o answers.buffer
Good(r) == r.status \in {"ok", "200"}

(* However often a run is killed, aborted and resumed, no question is answered,   *)
(* and paid for, again once its answer is in the file.                            *)
NoAnswerTwice ==
    \A i, j \in DOMAIN Rows : Good(Rows[i]) /\ Good(Rows[j]) /\ Rows[i].key = Rows[j].key => i = j

(* No run goes on past three empty answers one after the other: of the rows of    *)
(* one run, no three in a row are empty (cli.py: "Three consecutive empties       *)
(* aborts the arm").                                                              *)
NoThreeEmpties ==
    \A i \in 1 .. Len(Rows) - 2 :
        ~(\A k \in i .. i + 2 : Rows[k].empty /\ Rows[k].run = Rows[i].run)

(* A command ends, unless its spend has passed the cap.                           *)
EveryCommandEnds == (proc.cmd # "none") ~> (proc.cmd = "none" \/ proc.spent > HardCap)

(* "harness aborts mid-run at this number" (eval.toml, of hard_cap_usd).          *)
CapAborts == (proc.spent > HardCap) ~> (proc.cmd = "none")
====

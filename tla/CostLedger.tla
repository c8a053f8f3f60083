---- MODULE CostLedger ----
(* The cost ledger of packages/llm/src/ledger.ts: one append-only file a day,     *)
(* written by every process that calls a model and read back, through a cache of  *)
(* ten seconds, by GET /api/meta/costs and to seed the running spend of a new     *)
(* client (apps/api/src/deps.ts, packages/ingest/src/cli.ts). Processes stop, are *)
(* killed and start again; the host may lose what was never fsynced.              *)
EXTENDS Spend, Sequences, SequencesExt, FiniteSetsExt, Functions

CONSTANTS
    Process,        \* the processes that may hold a client
    InFlight,       \* the calls of one client that may be under way at once
    FlushEvery,     \* appends between two fsyncs
    Ttl,            \* READ_TTL_MS, in ticks of the clock
    DayTicks,       \* ticks of a day
    MaxClock,       \* bound on the clock
    MaxLines        \* bound on the lines appended

ASSUME LedgerAssumption ==
    /\ IsFiniteSet(Process)
    /\ {InFlight, FlushEvery, Ttl, DayTicks} \subseteq Nat \ {0}
    /\ {MaxClock, MaxLines} \subseteq Nat

VARIABLES
    now,        \* the clock
    file,       \* the file of each day: its lines, how many are fsynced, a torn end
    proc,       \* each process: its client and its calls, its Ledger, its read cache
    appends,    \* lines appended so far; with the append-only files, their mtimes and sizes
    paid,       \* what the calls that were answered have cost
    past,       \* what the files summed to when each of the last Ttl ticks ended
    faults      \* two processes at once; one killed; the host down, once

ledgerVars == <<now, file, proc, appends, paid, past, faults>>

Day == 0 .. (MaxClock \div DayTicks)
Today == now \div DayTicks
Torn == -1              \* a line that JSON.parse refuses
NoDay == -1             \* no file open

Down == [up |-> FALSE, client |-> FALSE, spent |-> 0, calls |-> 0, day |-> NoDay, since |-> 0,
         cached |-> FALSE, sum |-> 0, signature |-> 0, readAt |-> 0]

(* readLedger and rollupLines: the lines that parse, summed whatever their        *)
(* status.                                                                        *)
LineSum(lines) == FoldSeq(LAMBDA c, n : IF c = Torn THEN n ELSE n + c, 0, lines)
LedgerSum == MapThenSumSet(LAMBDA d : LineSum(file[d].lines), Day)

LedgerInit ==
    /\ now = 0
    /\ file = [d \in Day |-> [lines |-> <<>>, synced |-> 0, torn |-> FALSE]]
    /\ proc = [p \in Process |-> Down]
    /\ appends = 0 /\ paid = 0
    /\ past = [t \in 1 .. Ttl |-> 0]
    /\ faults = [overlap |-> FALSE, killed |-> FALSE, hostCrash |-> FALSE]

----
(* Reading *)

(* A slip: every consultation renews the TTL. *)
ConsultedSliding(q) ==
    IF q.cached /\ (now - q.readAt < Ttl \/ q.signature = appends) THEN [q EXCEPT !.readAt = now]
    ELSE [q EXCEPT !.cached = TRUE, !.sum = LedgerSum, !.signature = appends, !.readAt = now]

(* readLedger: what the cache holds once it has been consulted. Within the TTL    *)
(* nothing is looked at; after it, unchanged mtimes and sizes only renew readAt.  *)
Consulted(q) ==
    IF q.cached /\ now - q.readAt < Ttl THEN q
    ELSE IF q.cached /\ q.signature = appends THEN [q EXCEPT !.readAt = now]
    ELSE [q EXCEPT !.cached = TRUE, !.sum = LedgerSum, !.signature = appends, !.readAt = now]

(* GET /api/meta/costs. *)
Poll(p) ==
    /\ proc[p].up
    /\ proc' = [proc EXCEPT ![p] = Consulted(@)]
    /\ UNCHANGED <<now, file, appends, paid, past, faults>>

(* A slip: a new client starts from nothing, whatever the ledger says. *)
BuildClientFromZero(p) ==
    /\ proc[p].up /\ ~proc[p].client
    /\ proc' = [proc EXCEPT ![p] = [Consulted(@) EXCEPT !.client = TRUE]]
    /\ UNCHANGED <<now, file, appends, paid, past, faults>>

(* The client is built, once, at the first ask or by the ingest command, with the *)
(* rollup as its running spend.                                                   *)
BuildClient(p) ==
    /\ proc[p].up /\ ~proc[p].client
    /\ proc' = [proc EXCEPT ![p] = [Consulted(@) EXCEPT !.client = TRUE, !.spent = Consulted(proc[p]).sum]]
    /\ UNCHANGED <<now, file, appends, paid, past, faults>>

----
(* Writing *)

Synced(f) == [f EXCEPT !.synced = Len(f.lines)]

(* One line written at the end of the file; after a torn end it is glued to it,   *)
(* and the two make one line that does not parse.                                 *)
Written(f, cost) ==
    IF f.torn THEN [f EXCEPT !.torn = FALSE, !.synced = Len(f.lines) - 1]
    ELSE [f EXCEPT !.lines = Append(@, cost)]

(* A slip: the old file is closed without an fsync. *)
RotatedUnsynced(q) == file

(* ensureFd: on a new day the old file is fsynced and closed. *)
Rotated(q) ==
    IF q.day \in Day \ {Today} THEN [file EXCEPT ![q.day] = Synced(@)] ELSE file

(* Appends since the last fsync of the open file, the new one included. *)
Since(q) == 1 + (IF q.day = Today THEN q.since ELSE 0)

Full(q) == Since(q) >= FlushEvery

(* Ledger.append, by an attempt that ends as many calls as `ended`.               *)
Appended(p, cost, ended) ==
    LET q == proc[p]
        f == Written(Rotated(q)[Today], cost)
    IN  /\ file' = [Rotated(q) EXCEPT ![Today] = IF Full(q) THEN Synced(f) ELSE f]
        /\ proc' = [proc EXCEPT ![p].day = Today,
                                ![p].since = IF Full(q) THEN 0 ELSE Since(q),
                                ![p].spent = @ + cost,
                                ![p].calls = @ - ended]

(* record(): one line for each attempt, written without an await.                 *)
Recorded(p, cost, ended) ==
    /\ appends < MaxLines
    /\ Appended(p, cost, ended)
    /\ appends' = appends + 1
    /\ faults' = [faults EXCEPT !.overlap = @ \/ \E q \in Process \ {p} : proc[q].up]

(* budgetGuard lets an attempt through on what was spent so far; the semaphore    *)
(* and the answer are awaited after it, while others pass the guard too.          *)
PassGuard(p) ==
    /\ proc[p].client /\ proc[p].spent < Cap /\ proc[p].calls < InFlight
    /\ proc' = [proc EXCEPT ![p].calls = @ + 1]
    /\ UNCHANGED <<now, file, appends, paid, past, faults>>

(* The answer: its cost goes to the running spend and to the ledger together.     *)
PaidCall(p, cost) ==
    /\ proc[p].calls > 0
    /\ Recorded(p, cost, 1)
    /\ paid' = paid + cost
    /\ UNCHANGED <<now, past>>

(* An attempt that failed is a line at no cost; a retry meets the guard again.    *)
AttemptFails(p) ==
    /\ proc[p].calls > 0
    /\ Recorded(p, 0, 1)
    /\ UNCHANGED <<now, past, paid>>

(* A reply from the cache, or a unit past its deadline, is a line at no cost of a *)
(* call that never came to the guard.                                             *)
Noted(p) ==
    /\ proc[p].client
    /\ Recorded(p, 0, 0)
    /\ UNCHANGED <<now, past, paid>>

----
(* Processes, the host and the clock *)

Start(p) ==
    /\ ~proc[p].up
    /\ proc' = [proc EXCEPT ![p] = [Down EXCEPT !.up = TRUE]]
    /\ UNCHANGED <<now, file, appends, paid, past, faults>>

(* The exit and SIGINT handlers flush the open file; a process that is killed, or *)
(* stopped by SIGTERM, runs neither, and the host keeps what it wrote. The calls  *)
(* under way are lost with it: nobody notes what they cost.                       *)
Stop(p, graceful) ==
    /\ proc[p].up
    /\ proc' = [proc EXCEPT ![p] = Down]
    /\ file' = IF graceful /\ proc[p].day \in Day THEN [file EXCEPT ![proc[p].day] = Synced(@)] ELSE file
    /\ faults' = [faults EXCEPT !.killed = @ \/ ~graceful]
    /\ UNCHANGED <<now, appends, paid, past>>

(* What a file may be after the host goes down (once, which bounds the model):    *)
(* the fsynced lines, some of those behind them, perhaps a part of the next one.  *)
Survivors(f) ==
    {[lines |-> SubSeq(f.lines, 1, k), torn |-> FALSE] : k \in f.synced .. Len(f.lines)} \cup
    {[lines |-> Append(SubSeq(f.lines, 1, k), Torn), torn |-> TRUE] : k \in f.synced .. Len(f.lines) - 1}

HostCrash ==
    /\ ~faults.hostCrash
    /\ \E d \in Day : file[d].synced < Len(file[d].lines)
    /\ file' \in {[d \in Day |-> [lines |-> g[d].lines, synced |-> Len(g[d].lines), torn |-> g[d].torn]] :
                     g \in {h \in [Day -> UNION {Survivors(file[d]) : d \in Day}] :
                               \A d \in Day : h[d] \in Survivors(file[d])}}
    /\ proc' = [p \in Process |-> Down]
    /\ faults' = [faults EXCEPT !.hostCrash = TRUE]
    /\ UNCHANGED <<now, appends, paid, past>>

Tick ==
    /\ now < MaxClock
    /\ now' = now + 1
    /\ past' = [t \in 1 .. Ttl |-> IF t = 1 THEN LedgerSum ELSE past[t - 1]]
    /\ UNCHANGED <<file, proc, appends, paid, faults>>

LedgerNext ==
    \/ \E p \in Process :
           \/ Start(p) \/ Poll(p) \/ BuildClient(p)
           \/ \E cost \in Costs : PaidCall(p, cost)
           \/ PassGuard(p) \/ AttemptFails(p) \/ Noted(p)
           \/ \E graceful \in BOOLEAN : Stop(p, graceful)
    \/ HostCrash
    \/ Tick

LedgerSpec == LedgerInit /\ [][LedgerNext]_ledgerVars

----
(* Processes that run one after the other spend the cap once between them: each   *)
(* is seeded from the ledger of those before it (deps.ts: a "hard cap" must hold  *)
(* across restarts). What goes past the cap is the answers of calls that were let *)
(* through together, and of one process only, however many follow it.             *)
CapAcrossRestarts == ~faults.overlap /\ ~faults.hostCrash => paid < Cap + InFlight * MaxCost

(* While nothing was killed, what the host could lose of a file is what its       *)
(* writers have counted since their last fsync: rotation, the flush every         *)
(* FlushEvery lines and the flush at exit leave nothing else behind.              *)
UnsyncedBounded ==
    ~faults.killed => \A d \in Day :
        Len(file[d].lines) - file[d].synced <=
            MapThenSumSet(LAMBDA p : IF proc[p].day = d THEN proc[p].since ELSE 0, Process)

(* A rollup, shown or seeding a client, is at most one TTL behind: it counts      *)
(* every line that was in the files one TTL ago, however often it is asked for.   *)
RollupIsFresh ==
    [][\A p \in Process : Poll(p) \/ BuildClient(p) =>
           faults.hostCrash \/ proc'[p].sum >= past[Ttl]]_ledgerVars
====

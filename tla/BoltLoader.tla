---- MODULE BoltLoader ----
(* The ingest command's load loop (packages/ingest/src/cli.ts) over the retrying  *)
(* Bolt writer (packages/graph/src/bolt.ts), against a graph node that may be     *)
(* killed, restarted, shadowed by the lease of its killed predecessor, or slow.   *)
(* Time advances in ticks of five seconds; a call that takes less than a tick     *)
(* takes none.                                                                    *)
EXTENDS Naturals, FiniteSets

CONSTANTS
    Histories,      \* how many histories the run ingests, in order
    NodeBatches,    \* node batches of one history
    EdgeBatches,    \* edge batches of one history
    RestartTicks,   \* the longest a killed node takes to come back
    LeaseTicks,     \* GRAPH_WRITER_LEASE_MS
    Leases,         \* what a killed node's lease may still have to run
    MaxCrashes      \* bound: how many times the node is killed

ASSUME LoaderAssumption ==
    /\ {Histories, NodeBatches, EdgeBatches, RestartTicks} \subseteq Nat \ {0}
    /\ {LeaseTicks, MaxCrashes} \subseteq Nat
    /\ Leases \subseteq 0 .. LeaseTicks

VARIABLES
    node,       \* [up, restart, lease]: ticks until it is back, ticks the old lease still shadows it
    stored,     \* the batches the store holds, as <<history, batch>>
    loader,     \* the one loop of the ingest process
    done, failed, retried,  \* histories loaded, given up, and given their second try
    faults      \* what has gone wrong so far, and whether no retry covered it

vars == <<node, stored, loader, done, failed, retried, faults>>

Attempts == 4               \* writeWithRetry(stmt, attempts = 4)
QueryTimeout == 6           \* the server's fixed 30 s
DrainTicks == 16            \* 40 polls of 2 s
Batches == 1 .. (NodeBatches + EdgeBatches)
History == 1 .. Histories

(* How long writeWithRetry sleeps after failure number a, rounded up to ticks:    *)
(* 15 s, 30 s, 45 s; 20 s, 40 s, 60 s; 2 s, 4 s, 8 s.                             *)
Backoff(error, a) ==
    CASE error = "nodeDown"    -> 3 * a
      [] error = "leaseShadow" -> 4 * a
      [] error = "timedOut"    -> IF a < 3 THEN 1 ELSE 2

(* A node batch merges by id; an edge batch MATCHes its endpoints first and       *)
(* merges nothing, without an error, where they are missing.                      *)
Merged(h, b) ==
    IF b <= NodeBatches \/ \A n \in 1 .. NodeBatches : <<h, n>> \in stored
    THEN stored \cup {<<h, b>>}
    ELSE stored

Init ==
    /\ node = [up |-> TRUE, restart |-> 0, lease |-> 0]
    /\ stored = {}
    /\ loader = [phase |-> "start", history |-> 1, try |-> 1, batch |-> 1, attempt |-> 1, timer |-> 0]
    /\ done = {} /\ failed = {} /\ retried = {}
    /\ faults = [crashes |-> 0, unguarded |-> FALSE, timedOut |-> FALSE, other |-> FALSE]

----
(* The node and the clock *)

(* What a batch that gets no answer may have done to the store: nothing, or all.  *)
Unanswered == {stored, Merged(loader.history, loader.batch)}

(* The verify() before the loop and the one after a drain are outside of the try  *)
(* around a history: what they throw ends the run.                                *)
Unguarded == loader.phase \in {"start", "drain", "drained"}

(* Killed: what it was writing may or may not have reached the store, and its     *)
(* lease outlives it.                                                             *)
Crash ==
    /\ node.up /\ faults.crashes < MaxCrashes
    /\ \E r \in 1 .. RestartTicks, l \in Leases :
           node' = [up |-> FALSE, restart |-> r, lease |-> IF l > node.lease THEN l ELSE node.lease]
    /\ stored' \in IF loader.phase \in {"write", "running"} /\ node.lease = 0 THEN Unanswered ELSE {stored}
    /\ faults' = [faults EXCEPT !.crashes = @ + 1, !.unguarded = @ \/ Unguarded]
    /\ UNCHANGED <<loader, done, failed, retried>>

Less(n) == IF n = 0 THEN 0 ELSE n - 1

Tick ==
    /\ \/ loader.phase \in {"wait", "waitNode", "drain"} /\ loader.timer > 0
       \/ loader.phase = "running" /\ loader.timer > 0 /\ node.up
       \/ loader.phase = "extract" /\ node.restart + node.lease > 0
    /\ node' = [up |-> node.up \/ node.restart = 1, restart |-> Less(node.restart), lease |-> Less(node.lease)]
    /\ loader' = [loader EXCEPT !.timer = Less(@)]
    /\ UNCHANGED <<stored, done, failed, retried, faults>>

----
(* The ingest loop *)

Unchanged == UNCHANGED <<node, stored, faults>>

NextHistory ==
    loader' = IF loader.history = Histories
              THEN [loader EXCEPT !.phase = "end"]
              ELSE [loader EXCEPT !.phase = "between", !.history = @ + 1, !.try = 1,
                                  !.batch = 1, !.attempt = 1, !.timer = 0]

(* loadTwoPhase threw: one reconnect and one more try, then the id is recorded as *)
(* failed and the run goes on.                                                    *)
Throw ==
    IF loader.try = 1
    THEN /\ loader' = [loader EXCEPT !.phase = "reconnect", !.timer = 0]
         /\ UNCHANGED <<done, failed, retried>>
    ELSE /\ failed' = failed \cup {loader.history}
         /\ NextHistory
         /\ UNCHANGED <<done, retried>>

(* verify() answers at once when the node is up; otherwise it gives up within two *)
(* seconds, which ends the run.                                                   *)
Verify ==
    /\ loader.phase \in {"start", "drained"}
    /\ loader' = [loader EXCEPT !.phase = IF ~node.up THEN "aborted"
                                          ELSE IF @ = "start" THEN "between" ELSE "extract"]
    /\ Unchanged /\ UNCHANGED <<done, failed, retried>>

(* The memory guard finds the node over its limit: a graceful restart, which      *)
(* releases the lease, and a wait until it is healthy.                            *)
DrainRestart ==
    /\ loader.phase = "between" /\ node.up
    /\ \E r \in 1 .. RestartTicks : node' = [up |-> FALSE, restart |-> r, lease |-> 0]
    /\ loader' = [loader EXCEPT !.phase = "drain", !.timer = DrainTicks]
    /\ UNCHANGED <<stored, done, failed, retried, faults>>

Drained ==
    /\ loader.phase = "drain" /\ (node.up \/ loader.timer = 0)
    /\ loader' = [loader EXCEPT !.phase = "drained", !.timer = 0]
    /\ Unchanged /\ UNCHANGED <<done, failed, retried>>

SkipGuard ==
    /\ loader.phase = "between"
    /\ loader' = [loader EXCEPT !.phase = "extract"]
    /\ Unchanged /\ UNCHANGED <<done, failed, retried>>

(* Extraction and conflict resolution take any time; then the load begins.        *)
StartLoad ==
    /\ loader.phase = "extract"
    /\ loader' = [loader EXCEPT !.phase = "write", !.batch = 1, !.attempt = 1]
    /\ Unchanged /\ UNCHANGED <<done, failed, retried>>

(* The batch is acknowledged; the next one starts with all its attempts.          *)
WriteAck ==
    /\ loader.phase = "write" /\ node.up /\ node.lease = 0
    /\ stored' = Merged(loader.history, loader.batch)
    /\ IF loader.batch = NodeBatches + EdgeBatches
       THEN done' = done \cup {loader.history} /\ NextHistory
       ELSE loader' = [loader EXCEPT !.batch = @ + 1, !.attempt = 1] /\ UNCHANGED done
    /\ UNCHANGED <<node, failed, retried, faults>>

SlowWrite ==
    /\ loader.phase = "write" /\ node.up /\ node.lease = 0
    /\ loader' = [loader EXCEPT !.phase = "running", !.timer = QueryTimeout]
    /\ faults' = [faults EXCEPT !.timedOut = TRUE]
    /\ UNCHANGED <<node, stored, done, failed, retried>>

(* The error a write ends with, as writeWithRetry tells them apart.               *)
WriteError(error) ==
    CASE error = "nodeDown"    -> loader.phase \in {"write", "running"} /\ ~node.up
      [] error = "leaseShadow" -> loader.phase = "write" /\ node.up /\ node.lease > 0
      [] error = "timedOut"    -> loader.phase = "running" /\ node.up /\ loader.timer = 0
      [] error = "other"       -> loader.phase = "write" /\ node.up

(* A slip: the shadow of the old lease is not told from a refusal. *)
RetryableUnshadowed(error) == error \in {"nodeDown", "timedOut"} /\ loader.attempt < Attempts

Retryable(error) == error # "other" /\ loader.attempt < Attempts

(* A write that timed out may have been applied all the same. *)
WriteFails(error) ==
    /\ WriteError(error)
    /\ stored' \in IF error = "timedOut" THEN Unanswered ELSE {stored}
    /\ faults' = [faults EXCEPT !.other = @ \/ error = "other"]
    /\ IF Retryable(error)
       THEN /\ loader' = [loader EXCEPT !.phase = IF error = "nodeDown" THEN "waitNode" ELSE "wait",
                                        !.timer = Backoff(error, loader.attempt),
                                        !.attempt = @ + 1]
            /\ UNCHANGED <<done, failed, retried>>
       ELSE Throw
    /\ UNCHANGED node

(* A slip: after a reconnect the lost write is taken to have landed. *)
WaitOverLanded ==
    /\ loader.phase \in {"wait", "waitNode"} /\ loader.timer = 0
    /\ IF loader.phase = "waitNode" /\ ~node.up
       THEN Throw
       ELSE /\ loader' = [loader EXCEPT !.phase = "write", !.batch = IF @ + 1 \in Batches THEN @ + 1 ELSE @]
            /\ UNCHANGED <<done, failed, retried>>
    /\ Unchanged

(* The sleep is over: resend, after a verify() when the node had gone, whose own  *)
(* error ends writeWithRetry whatever attempts are left.                          *)
WaitOver ==
    /\ loader.phase \in {"wait", "waitNode"} /\ loader.timer = 0
    /\ IF loader.phase = "waitNode" /\ ~node.up
       THEN Throw
       ELSE loader' = [loader EXCEPT !.phase = "write"] /\ UNCHANGED <<done, failed, retried>>
    /\ Unchanged

(* A slip: the second try is not told from the first. *)
ReconnectForever ==
    /\ loader.phase = "reconnect"
    /\ IF node.up
       THEN /\ loader' = [loader EXCEPT !.phase = "extract"]
            /\ retried' = retried \cup {loader.history}
            /\ UNCHANGED failed
       ELSE /\ failed' = failed \cup {loader.history}
            /\ NextHistory
            /\ UNCHANGED retried
    /\ Unchanged /\ UNCHANGED done

(* The one retry of a failed history: reconnect, extract and load it again.       *)
Reconnect ==
    /\ loader.phase = "reconnect"
    /\ IF node.up
       THEN /\ loader' = [loader EXCEPT !.phase = "extract", !.try = 2]
            /\ retried' = retried \cup {loader.history}
            /\ UNCHANGED failed
       ELSE /\ failed' = failed \cup {loader.history}
            /\ NextHistory
            /\ UNCHANGED retried
    /\ Unchanged /\ UNCHANGED done

(* The run is over: the command exits 0, 2 with failed ids, or 1.                 *)
Exit == loader.phase \in {"end", "aborted"} /\ UNCHANGED vars

WriteFailure == \E error \in {"nodeDown", "leaseShadow", "timedOut", "other"} : WriteFails(error)

Step ==
    \/ Verify \/ DrainRestart \/ Drained \/ SkipGuard
    \/ StartLoad \/ WriteAck \/ SlowWrite \/ WriteFailure \/ WaitOver \/ Reconnect

Next == Step \/ Tick \/ Crash \/ Exit

(* The loop is one async function: a step that can be taken is taken, and the     *)
(* clock runs. Nothing obliges the node to crash, to be slow or to refuse.        *)
Fairness == WF_vars(Step) /\ WF_vars(Tick)

Spec == Init /\ [][Next]_vars /\ Fairness

----
(* The types of the variables. *)
TypeOK ==
    /\ node \in [up : BOOLEAN, restart : 0 .. RestartTicks, lease : 0 .. LeaseTicks]
    /\ node.up <=> node.restart = 0
    /\ stored \subseteq History \X Batches
    /\ loader \in [phase : {"start", "between", "drain", "drained", "extract", "write", "running", "wait",
                            "waitNode", "reconnect", "end", "aborted"},
                   history : History, try : 1 .. 2, batch : Batches,
                   attempt : 1 .. Attempts, timer : 0 .. DrainTicks]
    /\ done \subseteq History /\ failed \subseteq History /\ retried \subseteq History
    /\ faults \in [crashes : 0 .. MaxCrashes, unguarded : BOOLEAN, timedOut : BOOLEAN, other : BOOLEAN]

(* A history the run counts as ingested is whole in the store, whatever was       *)
(* killed, lost or replayed on the way: edges are MATCHed on nodes an earlier      *)
(* batch merged (loadTwoPhase, "ALL nodes, then ALL edges").                      *)
DoneIsWhole == \A h \in done, b \in Batches : <<h, b>> \in stored

(* Only a crash has gone wrong, only once, and not at an unguarded verify(). *)
OneCrash == faults.crashes <= 1 /\ ~faults.unguarded /\ ~faults.timedOut /\ ~faults.other

(* One node killed while a history is extracted or loaded costs the run none: its *)
(* restart and the lease it leaves are waited out between the writer's sleeps and *)
(* the loop's second try, and the run goes on until every history is ingested.    *)
OneCrashLosesNoHistory ==
    OneCrash => /\ failed = {} /\ loader.phase # "aborted"
                /\ loader.phase = "end" => done = History

(* The run ends, with every history ingested or reported; or a node killed at an  *)
(* unguarded verify() cut it short.                                               *)
EveryRunEnds ==
    <>(\/ loader.phase = "end" /\ done \cup failed = History
       \/ loader.phase = "aborted" /\ faults.unguarded)
====

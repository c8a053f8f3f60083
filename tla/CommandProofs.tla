---- MODULE CommandProofs ----
(* The two commands that run for hours and are killed and resumed, the load of    *)
(* the histories and the evaluation harness, and at the end what is computed      *)
(* without a model: Material, with the calendar, the typed pass and the totals    *)
(* it rests on.                                                                   *)
(*                                                                                *)
(* A history that is counted as ingested is whole in the store, for every number  *)
(* of histories and batches, every restart time and lease, and any number of      *)
(* crashes. The argument: while a history is loaded, every batch before the one   *)
(* that is being sent is in the store, and nothing ever leaves the store. An edge *)
(* batch is sent after every node batch, so it finds its endpoints. That a single *)
(* crash costs no history is arithmetic: the sleeps between the attempts outlast  *)
(* the restart and, from the first refused write on, the lease.                   *)
(*                                                                                *)
(* The calendar is arithmetic as well: the days before a date number the days     *)
(* one by one, so that adding days and months is exact where the month is long    *)
(* enough. The scans of the material are folds; each goes from element to         *)
(* element (FoldRuns), so that what holds of the start and after every element    *)
(* holds at the end (UpTo). The scan for lists has seen the runs that end before  *)
(* the line it is at; the matching of the items a question names has taken one    *)
(* entry for each priced item so far, and every entry it took is about an item    *)
(* so far, so the next item finds its own entries open.                           *)
EXTENDS BoltLoader, EvalHarness, Material, SequenceTheorems, FiniteSetTheorems, WellFoundedInduction, TLAPS

Loading == {"write", "running", "wait", "waitNode"}

SentIsStored ==
    loader.phase \in Loading =>
        \A b \in Batches : b < loader.batch => <<loader.history, b>> \in stored

Inv == TypeOK /\ SentIsStored /\ DoneIsWhole

LEMMA Bounds ==
    /\ Histories \in Nat \ {0} /\ NodeBatches \in Nat \ {0} /\ EdgeBatches \in Nat \ {0}
    /\ RestartTicks \in Nat \ {0} /\ LeaseTicks \in Nat /\ MaxCrashes \in Nat
    /\ Leases \subseteq 0 .. LeaseTicks
    /\ 1 \in Batches /\ 1 \in History /\ NodeBatches + EdgeBatches \in Batches
  BY LoaderAssumption DEF Batches, History

LEMMA InitInv == Init => Inv
  BY Bounds DEF Init, Inv, TypeOK, SentIsStored, DoneIsWhole, Loading, Attempts, DrainTicks

(* A batch only adds to the store. *)
LEMMA MergedGrows ==
    ASSUME TypeOK, NEW h \in History, NEW b \in Batches
    PROVE  stored \subseteq Merged(h, b) /\ Merged(h, b) \subseteq History \X Batches
  BY DEF Merged, TypeOK

(* The batch that is sent is merged: its endpoints are there. *)
LEMMA MergedLands ==
    ASSUME Inv, loader.phase \in Loading
    PROVE  <<loader.history, loader.batch>> \in Merged(loader.history, loader.batch)
  <1>1. loader.batch \in Batches /\ Batches = 1 .. NodeBatches + EdgeBatches
    BY DEF Inv, TypeOK, Batches
  <1>2. CASE loader.batch <= NodeBatches
    BY <1>2 DEF Merged
  <1>3. CASE ~(loader.batch <= NodeBatches)
    <2>1. ASSUME NEW n \in 1 .. NodeBatches PROVE <<loader.history, n>> \in stored
      <3>1. n \in Batches /\ n < loader.batch
        BY <1>1, <1>3, Bounds
      <3> QED BY <3>1 DEF Inv, SentIsStored
    <2> QED BY <2>1 DEF Merged
  <1> QED BY <1>2, <1>3

(* The next history, or the end of the run, starts with nothing sent. *)
LEMMA NextHistoryTypes ==
    ASSUME TypeOK, NextHistory
    PROVE  /\ loader'.phase \in {"between", "end"}
           /\ loader' \in [phase : {"between", "end"}, history : History, try : 1 .. 2,
                           batch : Batches, attempt : 1 .. Attempts, timer : 0 .. DrainTicks]
  <1>1. loader \in [phase : {"start", "between", "drain", "drained", "extract", "write", "running", "wait",
                            "waitNode", "reconnect", "end", "aborted"},
                    history : History, try : 1 .. 2, batch : Batches,
                    attempt : 1 .. Attempts, timer : 0 .. DrainTicks]
    BY DEF TypeOK
  <1>2. CASE loader.history = Histories
    BY <1>1, <1>2 DEF NextHistory
  <1>3. CASE loader.history # Histories
    <2>1. loader.history + 1 \in History
      BY <1>1, <1>3, Bounds DEF History
    <2>2. loader' = [loader EXCEPT !.phase = "between", !.history = @ + 1, !.try = 1,
                                   !.batch = 1, !.attempt = 1, !.timer = 0]
      BY <1>3 DEF NextHistory
    <2>3. 1 \in 1 .. 2 /\ 1 \in 1 .. Attempts /\ 0 \in 0 .. DrainTicks /\ 1 \in Batches
      BY Bounds DEF Attempts, DrainTicks
    <2> QED BY <1>1, <2>1, <2>2, <2>3
  <1> QED BY <1>2, <1>3

(* Steps that leave the store alone and leave the load, or start it. *)
LEMMA AwayFromLoad ==
    ASSUME Inv, stored \subseteq stored', done' = done,
           loader'.phase \notin Loading \/ loader'.batch = 1 \/
             (loader.phase \in Loading /\ UNCHANGED <<loader.batch, loader.history>>)
    PROVE  SentIsStored' /\ DoneIsWhole'
  <1>1. DoneIsWhole'
    BY DEF Inv, DoneIsWhole
  <1>2. \A b \in Batches : ~(b < 1)
    BY Bounds DEF Batches
  <1>3. SentIsStored'
    BY <1>2 DEF Inv, SentIsStored
  <1> QED BY <1>1, <1>3

(* The loader's type, and the rest of the types. *)
Phases == {"start", "between", "drain", "drained", "extract", "write", "running", "wait",
           "waitNode", "reconnect", "end", "aborted"}
Loaders == [phase : Phases, history : History, try : 1 .. 2, batch : Batches,
            attempt : 1 .. Attempts, timer : 0 .. DrainTicks]

LEMMA LoaderTyped == TypeOK => loader \in Loaders
  BY DEF TypeOK, Loaders, Phases

FaultsType == [crashes : 0 .. MaxCrashes, unguarded : BOOLEAN, timedOut : BOOLEAN, other : BOOLEAN]

LEMMA FaultsTyped == TypeOK => faults \in FaultsType
  BY DEF TypeOK, FaultsType

LEMMA QuietTypes ==
    ASSUME TypeOK,
           Verify \/ Drained \/ SkipGuard \/ StartLoad \/ SlowWrite
    PROVE  TypeOK'
  <1>1. loader \in Loaders
    BY LoaderTyped
  <1>2. 0 \in 0 .. DrainTicks /\ QueryTimeout \in 0 .. DrainTicks /\ 1 \in Batches /\ 1 \in 1 .. Attempts
    BY Bounds DEF DrainTicks, QueryTimeout, Attempts
  <1>3. CASE Verify
    <2>1. loader' \in Loaders
      BY <1>1, <1>3 DEF Verify, Loaders, Phases
    <2> QED BY <1>3, <2>1 DEF Verify, Unchanged, TypeOK, Loaders, Phases
  <1>4. CASE Drained
    <2>1. loader' \in Loaders
      BY <1>1, <1>2, <1>4 DEF Drained, Loaders, Phases
    <2> QED BY <1>4, <2>1 DEF Drained, Unchanged, TypeOK, Loaders, Phases
  <1>5. CASE SkipGuard
    <2>1. loader' \in Loaders
      BY <1>1, <1>5 DEF SkipGuard, Loaders, Phases
    <2> QED BY <1>5, <2>1 DEF SkipGuard, Unchanged, TypeOK, Loaders, Phases
  <1>6. CASE StartLoad
    <2>1. loader' \in Loaders
      BY <1>1, <1>2, <1>6 DEF StartLoad, Loaders, Phases
    <2> QED BY <1>6, <2>1 DEF StartLoad, Unchanged, TypeOK, Loaders, Phases
  <1>7. CASE SlowWrite
    <2>1. loader' \in Loaders
      BY <1>1, <1>2, <1>7 DEF SlowWrite, Loaders, Phases
    <2>2. faults' \in FaultsType
      BY <1>7, FaultsTyped DEF SlowWrite, FaultsType
    <2> QED BY <1>7, <2>1, <2>2 DEF SlowWrite, TypeOK, Loaders, Phases, FaultsType
  <1> QED BY <1>3, <1>4, <1>5, <1>6, <1>7

LEMMA NodeTypes ==
    ASSUME TypeOK, DrainRestart \/ Crash \/ Tick
    PROVE  TypeOK'
  <1>1. loader \in Loaders /\ node \in [up : BOOLEAN, restart : 0 .. RestartTicks, lease : 0 .. LeaseTicks]
    BY LoaderTyped DEF TypeOK
  <1>2. CASE DrainRestart
    <2>1. loader' \in Loaders
      <3>1. DrainTicks \in 0 .. DrainTicks
        BY DEF DrainTicks
      <3> QED BY <1>1, <1>2, <3>1 DEF DrainRestart, Loaders, Phases
    <2>2. /\ node' \in [up : BOOLEAN, restart : 0 .. RestartTicks, lease : 0 .. LeaseTicks]
          /\ node'.up <=> node'.restart = 0
      BY <1>2, Bounds DEF DrainRestart
    <2> QED BY <1>2, <2>1, <2>2 DEF DrainRestart, TypeOK, Loaders, Phases
  <1>3. CASE Crash
    <2>1. /\ node' \in [up : BOOLEAN, restart : 0 .. RestartTicks, lease : 0 .. LeaseTicks]
          /\ node'.up <=> node'.restart = 0
      BY <1>1, <1>3, Bounds DEF Crash
    <2>2. faults' \in FaultsType
      <3>1. faults.crashes + 1 \in 0 .. MaxCrashes /\ (faults.unguarded \/ Unguarded) \in BOOLEAN
        BY <1>3, FaultsTyped, Bounds DEF Crash, FaultsType, Unguarded
      <3>2. faults' = [faults EXCEPT !.crashes = @ + 1, !.unguarded = faults.unguarded \/ Unguarded]
        BY <1>3, FaultsTyped DEF Crash, FaultsType
      <3> QED BY <3>1, <3>2, FaultsTyped DEF FaultsType
    <2>3. stored' \subseteq History \X Batches
      <3>1. loader.history \in History /\ loader.batch \in Batches
        BY <1>1 DEF Loaders
      <3>2. Merged(loader.history, loader.batch) \subseteq History \X Batches
        BY <3>1, MergedGrows
      <3> QED BY <1>3, <3>2 DEF Crash, TypeOK, Unanswered
    <2> QED BY <1>3, <2>1, <2>2, <2>3 DEF Crash, TypeOK, FaultsType
  <1>4. CASE Tick
    <2>1. \A n \in Nat : Less(n) \in Nat /\ Less(n) <= n
      BY DEF Less
    <2>2. loader'  = [loader EXCEPT !.timer = Less(@)] /\ loader.timer \in 0 .. DrainTicks
      BY <1>1, <1>4 DEF Tick, Loaders
    <2>3. Less(loader.timer) \in 0 .. DrainTicks
      BY <2>2 DEF Less, DrainTicks
    <2>4. loader' \in Loaders
      BY <1>1, <2>2, <2>3 DEF Loaders
    <2>5. /\ Less(node.restart) \in 0 .. RestartTicks /\ Less(node.lease) \in 0 .. LeaseTicks
          /\ Less(node.restart) = 0 <=> node.restart = 0 \/ node.restart = 1
      BY <1>1, Bounds DEF Less
    <2>6. node' = [up |-> node.up \/ node.restart = 1, restart |-> Less(node.restart), lease |-> Less(node.lease)]
      BY <1>4 DEF Tick
    <2>7. node' \in [up : BOOLEAN, restart : 0 .. RestartTicks, lease : 0 .. LeaseTicks]
      BY <1>1, <2>5, <2>6
    <2>8. node'.up <=> node'.restart = 0
      BY <2>5, <2>6 DEF TypeOK
    <2> QED BY <1>4, <2>4, <2>7, <2>8 DEF Tick, TypeOK, Loaders, Phases
  <1> QED BY <1>2, <1>3, <1>4

(* A load that threw: the second try, or the next history. *)
LEMMA ThrowTypes ==
    ASSUME TypeOK, Throw
    PROVE  loader' \in Loaders /\ loader'.phase \notin Loading /\ failed' \subseteq History /\ UNCHANGED <<done, retried>>
  <1>1. loader \in Loaders
    BY LoaderTyped
  <1>2. CASE loader.try = 1
    <2>1. loader' = [loader EXCEPT !.phase = "reconnect", !.timer = 0] /\ 0 \in 0 .. DrainTicks
      BY <1>2 DEF Throw, DrainTicks
    <2>2. loader' \in Loaders /\ loader'.phase = "reconnect"
      BY <1>1, <2>1 DEF Loaders, Phases
    <2> QED BY <1>2, <2>2 DEF Throw, TypeOK, Loading
  <1>3. CASE loader.try # 1
    <2>1. loader' \in Loaders /\ loader'.phase \notin Loading
      BY <1>3, NextHistoryTypes DEF Throw, Loaders, Phases, Loading
    <2> QED BY <1>1, <1>3, <2>1 DEF Throw, TypeOK, Loaders
  <1> QED BY <1>2, <1>3

LEMMA AckInv == Inv /\ WriteAck => Inv'
  <1> SUFFICES ASSUME Inv, WriteAck PROVE Inv'
    OBVIOUS
  <1> DEFINE h == loader.history
             b == loader.batch
  <1>1. TypeOK /\ loader \in Loaders /\ h \in History /\ b \in Batches /\ loader.phase = "write"
    BY LoaderTyped DEF Inv, WriteAck, Loaders
  <1>2. /\ stored \subseteq stored' /\ stored' \subseteq History \X Batches
        /\ <<h, b>> \in stored'
    BY <1>1, MergedGrows, MergedLands DEF WriteAck, Loading
  <1>3. \A c \in Batches : c <= b => <<h, c>> \in stored'
    <2> SUFFICES ASSUME NEW c \in Batches, c <= b PROVE <<h, c>> \in stored'
      OBVIOUS
    <2>1. c < b \/ c = b
      BY <1>1 DEF Batches
    <2> QED BY <1>1, <1>2, <2>1 DEF Inv, SentIsStored, Loading
  <1>4. CASE b = NodeBatches + EdgeBatches
    <2>1. loader' \in Loaders /\ loader'.phase \notin Loading
      BY <1>1, <1>4, NextHistoryTypes DEF WriteAck, Loaders, Phases, Loading
    <2>2. done' = done \cup {h}
      BY <1>4 DEF WriteAck
    <2>3. \A c \in Batches : <<h, c>> \in stored'
      BY <1>3, <1>4, Bounds DEF Batches
    <2>4. DoneIsWhole'
      BY <1>2, <2>2, <2>3 DEF Inv, DoneIsWhole
    <2>5. TypeOK'
      BY <1>1, <1>2, <2>1, <2>2 DEF WriteAck, TypeOK, Loaders, Phases
    <2> QED BY <2>1, <2>4, <2>5 DEF Inv, SentIsStored
  <1>5. CASE b # NodeBatches + EdgeBatches
    <2>1. loader' = [loader EXCEPT !.batch = @ + 1, !.attempt = 1] /\ done' = done
      BY <1>5 DEF WriteAck
    <2>2. b + 1 \in Batches /\ 1 \in 1 .. Attempts
      BY <1>1, <1>5, Bounds DEF Batches, Attempts
    <2>3. loader' \in Loaders /\ loader'.history = h /\ loader'.batch = b + 1
      BY <1>1, <2>1, <2>2 DEF Loaders
    <2>4. \A c \in Batches : c < b + 1 => c <= b
      BY <1>1 DEF Batches
    <2>5. SentIsStored'
      BY <1>3, <2>3, <2>4 DEF SentIsStored
    <2>6. DoneIsWhole'
      BY <1>2, <2>1 DEF Inv, DoneIsWhole
    <2>7. TypeOK'
      BY <1>1, <1>2, <2>1, <2>3 DEF WriteAck, TypeOK, Loaders, Phases
    <2> QED BY <2>5, <2>6, <2>7 DEF Inv
  <1> QED BY <1>4, <1>5

LEMMA FailInv ==
    ASSUME Inv, NEW error \in {"nodeDown", "leaseShadow", "timedOut", "other"}, WriteFails(error)
    PROVE  Inv'
  <1>1. TypeOK /\ loader \in Loaders
    BY LoaderTyped DEF Inv
  <1>2. loader.phase \in Loading
    BY DEF WriteFails, WriteError, Loading
  <1>3. faults' \in FaultsType
    <2>1. faults.other \in BOOLEAN /\ (faults.other \/ error = "other") \in BOOLEAN
      BY <1>1, FaultsTyped DEF FaultsType
    <2>2. faults' = [faults EXCEPT !.other = faults.other \/ error = "other"]
      BY DEF WriteFails
    <2> QED BY <1>1, <2>1, <2>2, FaultsTyped DEF FaultsType
  <1>6. stored \subseteq stored' /\ stored' \subseteq History \X Batches /\ UNCHANGED node
    <2>1. stored \subseteq Merged(loader.history, loader.batch)
          /\ Merged(loader.history, loader.batch) \subseteq History \X Batches
      BY <1>1, MergedGrows DEF Loaders
    <2> QED BY <1>1, <2>1 DEF WriteFails, Unanswered, TypeOK
  <1>4. CASE Retryable(error)
    <2>1. error \in {"nodeDown", "leaseShadow", "timedOut"} /\ loader.attempt \in 1 .. Attempts
          /\ loader.attempt < Attempts
      BY <1>1, <1>4 DEF Retryable, Loaders
    <2>2. loader.attempt + 1 \in 1 .. Attempts
      BY <2>1 DEF Attempts
    <2>3. Backoff(error, loader.attempt) \in 0 .. DrainTicks
      BY <2>1 DEF Backoff, Attempts, DrainTicks
    <2> DEFINE next == IF error = "nodeDown" THEN "waitNode" ELSE "wait"
    <2>4. /\ loader' = [loader EXCEPT !.phase = next, !.timer = Backoff(error, loader.attempt),
                                      !.attempt = @ + 1]
          /\ UNCHANGED <<done, failed, retried>>
      BY <1>4 DEF WriteFails
    <2>5. next \in Phases
      BY DEF Phases
    <2> HIDE DEF next
    <2>6. loader' \in Loaders /\ UNCHANGED <<loader.batch, loader.history>>
      BY <1>1, <2>2, <2>3, <2>4, <2>5 DEF Loaders
    <2>7. SentIsStored' /\ DoneIsWhole'
      BY <1>2, <1>6, <2>4, <2>6, AwayFromLoad
    <2> QED BY <1>1, <1>3, <1>6, <2>4, <2>6, <2>7 DEF Inv, TypeOK, Loaders, Phases, FaultsType
  <1>5. CASE ~Retryable(error)
    <2>1. Throw
      BY <1>5 DEF WriteFails
    <2>2. loader' \in Loaders /\ loader'.phase \notin Loading /\ failed' \subseteq History /\ UNCHANGED <<done, retried>>
      BY <1>1, <2>1, ThrowTypes
    <2>3. SentIsStored' /\ DoneIsWhole'
      BY <1>6, <2>2, AwayFromLoad
    <2> QED BY <1>1, <1>3, <1>6, <2>2, <2>3 DEF Inv, TypeOK, Loaders, Phases, FaultsType
  <1> QED BY <1>4, <1>5

LEMMA WaitOverInv == Inv /\ WaitOver => Inv'
  <1> SUFFICES ASSUME Inv, WaitOver PROVE Inv'
    OBVIOUS
  <1>1. TypeOK /\ loader \in Loaders /\ UNCHANGED <<node, stored, faults>>
    BY LoaderTyped DEF Inv, WaitOver, Unchanged
  <1>2. CASE loader.phase = "waitNode" /\ ~node.up
    <2>1. loader' \in Loaders /\ loader'.phase \notin Loading /\ failed' \subseteq History /\ UNCHANGED <<done, retried>>
      BY <1>1, <1>2, ThrowTypes DEF WaitOver
    <2>2. SentIsStored' /\ DoneIsWhole'
      BY <1>1, <2>1, AwayFromLoad
    <2> QED BY <1>1, <2>1, <2>2 DEF Inv, TypeOK, Loaders, Phases
  <1>3. CASE ~(loader.phase = "waitNode" /\ ~node.up)
    <2>1. loader' = [loader EXCEPT !.phase = "write"] /\ UNCHANGED <<done, failed, retried>>
      BY <1>3 DEF WaitOver
    <2>2. loader' \in Loaders /\ UNCHANGED <<loader.batch, loader.history>>
      BY <1>1, <2>1 DEF Loaders, Phases
    <2>3. SentIsStored' /\ DoneIsWhole'
      BY <1>1, <2>1, <2>2, AwayFromLoad DEF WaitOver, Loading
    <2> QED BY <1>1, <2>1, <2>2, <2>3 DEF Inv, TypeOK, Loaders, Phases
  <1> QED BY <1>2, <1>3

LEMMA ReconnectInv == Inv /\ Reconnect => Inv'
  <1> SUFFICES ASSUME Inv, Reconnect PROVE Inv'
    OBVIOUS
  <1>1. TypeOK /\ loader \in Loaders /\ UNCHANGED <<node, stored, faults, done>>
    BY LoaderTyped DEF Inv, Reconnect, Unchanged
  <1>2. loader' \in Loaders /\ loader'.phase \notin Loading
    <2>1. CASE node.up
      <3>1. loader' = [loader EXCEPT !.phase = "extract", !.try = 2] /\ 2 \in 1 .. 2
        BY <2>1 DEF Reconnect
      <3> QED BY <1>1, <3>1 DEF Loaders, Phases, Loading
    <2>2. CASE ~node.up
      BY <1>1, <2>2, NextHistoryTypes DEF Reconnect, Loaders, Phases, Loading
    <2> QED BY <2>1, <2>2
  <1>3. failed' \subseteq History /\ retried' \subseteq History
    <2>1. loader.history \in History
      BY <1>1 DEF Loaders
    <2> QED BY <1>1, <2>1 DEF Reconnect, TypeOK
  <1>4. SentIsStored' /\ DoneIsWhole'
    BY <1>1, <1>2, AwayFromLoad
  <1> QED BY <1>1, <1>2, <1>3, <1>4 DEF Inv, TypeOK, Loaders, Phases

(* Before a load, and while a slow write runs, nothing is sent. *)
LEMMA QuietInv ==
    ASSUME Inv, Verify \/ DrainRestart \/ Drained \/ SkipGuard \/ StartLoad \/ SlowWrite
    PROVE  Inv'
  <1>1. TypeOK' /\ loader \in Loaders
    BY QuietTypes, NodeTypes, LoaderTyped DEF Inv
  <1>2. UNCHANGED <<stored, done>>
    BY DEF Verify, DrainRestart, Drained, SkipGuard, StartLoad, SlowWrite, Unchanged
  <1>3. loader'.phase \notin Loading \/ loader'.batch = 1 \/
             (loader.phase \in Loading /\ UNCHANGED <<loader.batch, loader.history>>)
    <2>1. CASE Verify
      BY <1>1, <2>1 DEF Verify, Loading, Loaders
    <2>2. CASE DrainRestart \/ Drained \/ SkipGuard
      <3>1. loader'.phase \in {"drain", "drained", "extract"}
        <4>1. CASE DrainRestart
          BY <1>1, <4>1 DEF DrainRestart, Loaders
        <4>2. CASE Drained
          BY <1>1, <4>2 DEF Drained, Loaders
        <4>3. CASE SkipGuard
          BY <1>1, <4>3 DEF SkipGuard, Loaders
        <4> QED BY <2>2, <4>1, <4>2, <4>3
      <3> QED BY <3>1 DEF Loading
    <2>3. CASE StartLoad
      BY <1>1, <2>3 DEF StartLoad, Loading, Loaders
    <2>4. CASE SlowWrite
      BY <1>1, <2>4 DEF SlowWrite, Loading, Loaders
    <2> QED BY <2>1, <2>2, <2>3, <2>4
  <1> QED BY <1>1, <1>2, <1>3, AwayFromLoad DEF Inv

(* The clock moves no batch, and a crash at most lands one. *)
LEMMA OutsideInv ==
    ASSUME Inv, Crash \/ Tick
    PROVE  Inv'
  <1>1. TypeOK' /\ loader \in Loaders
    BY NodeTypes, LoaderTyped DEF Inv
  <1>2. stored \subseteq stored' /\ UNCHANGED <<done, loader.phase, loader.batch, loader.history>>
    <2>1. CASE Tick
      BY <1>1, <2>1 DEF Tick, Loaders
    <2>2. CASE Crash
      <3>1. stored \subseteq Merged(loader.history, loader.batch)
        BY <1>1, MergedGrows DEF Inv, Loaders
      <3> QED BY <2>2, <3>1 DEF Crash, Unanswered
    <2> QED BY <2>1, <2>2
  <1> QED BY <1>1, <1>2 DEF Inv, SentIsStored, DoneIsWhole

LEMMA NextInv == Inv /\ [Next]_vars => Inv'
  <1> SUFFICES ASSUME Inv, [Next]_vars PROVE Inv'
    OBVIOUS
  <1>1. CASE WriteAck
    BY <1>1, AckInv
  <1>2. CASE WriteFailure
    BY <1>2, FailInv DEF WriteFailure
  <1>3. CASE WaitOver
    BY <1>3, WaitOverInv
  <1>4. CASE Reconnect
    BY <1>4, ReconnectInv
  <1>5. CASE Verify \/ DrainRestart \/ Drained \/ SkipGuard \/ StartLoad \/ SlowWrite
    BY <1>5, QuietInv
  <1>6. CASE Crash \/ Tick
    BY <1>6, OutsideInv
  <1>7. CASE Exit \/ UNCHANGED vars
    BY <1>7 DEF Exit, vars, Inv, TypeOK, SentIsStored, DoneIsWhole
  <1> QED BY <1>1, <1>2, <1>3, <1>4, <1>5, <1>6, <1>7 DEF Next, Step

LEMMA Invariance == Spec => []Inv
  BY InitInv, NextInv, PTL DEF Spec

(* The variables of the loader keep their types: no attempt is numbered beyond    *)
(* the last and no sleep is longer than the longest of writeWithRetry or of the   *)
(* drain (bolt.ts, cli.ts).                                                       *)
THEOREM TypeCorrect == Spec => []TypeOK
  <1>1. Inv => TypeOK
    BY DEF Inv
  <1> QED BY <1>1, Invariance, PTL

(* The exit code tells the truth about what was ingested: a history that is       *)
(* counted as done has every batch in the store, whatever crashed meanwhile.      *)
THEOREM DoneHistoriesAreWhole == Spec => []DoneIsWhole
  <1>1. Inv => DoneIsWhole
    BY DEF Inv
  <1> QED BY <1>1, Invariance, PTL

----
(* One crash costs no history. The argument is a budget of ticks: the sleeps a    *)
(* load has left, of this try and of the second one, outlast what is left of the  *)
(* dead node's lease, and the first sleep outlasts its restart.                   *)

(* The histories the loop has passed are done or given up. *)
Accounted ==
    \A h \in History : h < loader.history \/ loader.phase = "end" => h \in done \cup failed

LEMMA PassedIsAccounted ==
    ASSUME TypeOK, Accounted, NextHistory, loader.history \in done' \cup failed',
           done \subseteq done', failed \subseteq failed', loader.phase # "end"
    PROVE  Accounted'
  <1>1. loader \in Loaders /\ loader.history \in Nat
    BY LoaderTyped DEF Loaders, History
  <1>2. \A h \in History : h <= loader.history => h \in done' \cup failed'
    <2> SUFFICES ASSUME NEW h \in History, h <= loader.history PROVE h \in done' \cup failed'
      OBVIOUS
    <2>1. h = loader.history \/ h < loader.history
      BY <1>1 DEF History
    <2> QED BY <2>1 DEF Accounted
  <1>3. \A h \in History : h < loader'.history \/ loader'.phase = "end" => h <= loader.history
    BY <1>1, Bounds DEF NextHistory, Loaders, History
  <1> QED BY <1>2, <1>3 DEF Accounted

LEMMA AccountedKept == Inv /\ Accounted /\ [Next]_vars => Accounted'
  <1> SUFFICES ASSUME Inv, Accounted, [Next]_vars PROVE Accounted'
    OBVIOUS
  <1>1. TypeOK /\ loader \in Loaders
    BY LoaderTyped DEF Inv
  <1>2. ASSUME loader'.history = loader.history, loader'.phase = "end" => loader.phase = "end",
               UNCHANGED <<done, failed>>
        PROVE  Accounted'
    BY <1>2 DEF Accounted
  <1>3. ASSUME Throw, loader.phase \in Loading PROVE Accounted'
    <2>1. CASE loader.try = 1
      BY <1>1, <1>2, <1>3, <2>1 DEF Throw, Loaders
    <2>2. CASE loader.try # 1
      BY <1>1, <1>3, <2>2, PassedIsAccounted DEF Throw, Loading
    <2> QED BY <2>1, <2>2
  <1>4. CASE WriteAck
    <2>1. CASE loader.batch = NodeBatches + EdgeBatches
      BY <1>1, <1>4, <2>1, PassedIsAccounted DEF WriteAck
    <2>2. CASE loader.batch # NodeBatches + EdgeBatches
      BY <1>1, <1>2, <1>4, <2>2 DEF WriteAck, Loaders
    <2> QED BY <2>1, <2>2
  <1>5. ASSUME NEW error \in {"nodeDown", "leaseShadow", "timedOut", "other"}, WriteFails(error)
        PROVE  Accounted'
    <2>1. loader.phase \in Loading
      BY <1>5 DEF WriteFails, WriteError, Loading
    <2>2. CASE Retryable(error)
      <3> DEFINE next == IF error = "nodeDown" THEN "waitNode" ELSE "wait"
      <3>1. /\ loader' = [loader EXCEPT !.phase = next, !.timer = Backoff(error, loader.attempt),
                                        !.attempt = @ + 1]
            /\ UNCHANGED <<done, failed>>
        BY <1>5, <2>2 DEF WriteFails
      <3>2. next # "end"
        OBVIOUS
      <3> HIDE DEF next
      <3> QED BY <1>1, <1>2, <3>1, <3>2 DEF Loaders
    <2>3. CASE ~Retryable(error)
      BY <1>3, <1>5, <2>1, <2>3 DEF WriteFails
    <2> QED BY <2>2, <2>3
  <1>6. CASE WaitOver
    <2>1. CASE loader.phase = "waitNode" /\ ~node.up
      BY <1>3, <1>6, <2>1 DEF WaitOver, Loading
    <2>2. CASE ~(loader.phase = "waitNode" /\ ~node.up)
      BY <1>1, <1>2, <1>6, <2>2 DEF WaitOver, Loaders
    <2> QED BY <2>1, <2>2
  <1>7. CASE Reconnect
    <2>1. CASE node.up
      BY <1>1, <1>2, <1>7, <2>1 DEF Reconnect, Loaders
    <2>2. CASE ~node.up
      BY <1>1, <1>7, <2>2, PassedIsAccounted DEF Reconnect
    <2> QED BY <2>1, <2>2
  <1>8. CASE Verify
    BY <1>1, <1>2, <1>8 DEF Verify, Loaders
  <1>9. CASE DrainRestart \/ Drained \/ SkipGuard
    <2>1. CASE DrainRestart
      BY <1>1, <1>2, <2>1 DEF DrainRestart, Loaders
    <2>2. CASE Drained
      BY <1>1, <1>2, <2>2 DEF Drained, Loaders
    <2>3. CASE SkipGuard
      BY <1>1, <1>2, <2>3 DEF SkipGuard, Loaders
    <2> QED BY <1>9, <2>1, <2>2, <2>3
  <1>10. CASE StartLoad \/ SlowWrite \/ Tick
    <2>1. CASE StartLoad
      BY <1>1, <1>2, <2>1 DEF StartLoad, Loaders
    <2>2. CASE SlowWrite
      BY <1>1, <1>2, <2>2 DEF SlowWrite, Loaders
    <2>3. CASE Tick
      BY <1>1, <1>2, <2>3 DEF Tick, Loaders
    <2> QED BY <1>10, <2>1, <2>2, <2>3
  <1>11. CASE Crash \/ Exit \/ UNCHANGED vars
    BY <1>2, <1>11 DEF Crash, Exit, vars
  <1> QED BY <1>4, <1>5, <1>6, <1>7, <1>8, <1>9, <1>10, <1>11 DEF Next, Step, WriteFailure

(* The sleeps that attempt a still has before it when the lease shadows each one. *)
Left(a) == CASE a = 1 -> 24 [] a = 2 -> 20 [] a = 3 -> 12 [] a = 4 -> 0
(* What the second try adds. *)
Spare == IF loader.try = 1 THEN 24 ELSE 0

(* Before the crash nothing has failed, and only a drain takes the node down. *)
BeforeCrash ==
    faults.crashes = 0 =>
        /\ node.lease = 0 /\ loader.attempt = 1 /\ loader.try = 1
        /\ loader.phase \notin {"wait", "waitNode", "reconnect"}
        /\ node.up \/ loader.phase \in {"drain", "drained", "aborted"}

(* The second try finds the node up and half of the budget spent. *)
SecondTry ==
    loader.try = 2 =>
        /\ loader.phase \notin {"start", "between", "drain", "drained", "reconnect", "waitNode"}
        /\ loader.phase \in {"extract", "write", "wait"} => node.up
        /\ loader.phase = "extract" => node.lease <= 24

(* The lease of the dead node fits the sleeps that are left. *)
Budget ==
    /\ loader.phase = "write" =>
           /\ ~node.up => loader.attempt = 1 /\ loader.try = 1
           /\ node.lease <= Left(loader.attempt) + Spare
    /\ loader.phase = "wait" =>
           /\ node.up
           /\ node.lease <= loader.timer + Left(loader.attempt) + Spare
    /\ loader.phase = "waitNode" =>
           /\ node.restart <= loader.timer
           /\ node.lease <= loader.timer + Left(loader.attempt) + Spare
    /\ loader.phase = "reconnect" => node.up /\ node.lease <= 24

(* A verify() that no retry covers finds the node up: the drain waits for it.     *)
Verified ==
    /\ loader.phase # "aborted"
    /\ loader.phase \in {"start", "drained"} => node.up
    /\ loader.phase = "drain" => node.restart <= loader.timer

Survives ==
    OneCrash => /\ failed = {} /\ loader.phase # "running"
                /\ BeforeCrash /\ SecondTry /\ Budget /\ Verified

(* What the types say of the fields. *)
LEMMA Fields ==
    ASSUME TypeOK
    PROVE  /\ loader = [phase |-> loader.phase, history |-> loader.history, try |-> loader.try,
                        batch |-> loader.batch, attempt |-> loader.attempt, timer |-> loader.timer]
           /\ loader.try \in 1 .. 2 /\ loader.attempt \in {1, 2, 3, 4} /\ loader.timer \in Nat
           /\ node = [up |-> node.up, restart |-> node.restart, lease |-> node.lease]
           /\ node.restart \in Nat /\ node.restart <= RestartTicks
           /\ node.lease \in Nat /\ node.lease <= LeaseTicks
           /\ node.up \in BOOLEAN /\ (node.up <=> node.restart = 0)
           /\ faults = [crashes |-> faults.crashes, unguarded |-> faults.unguarded,
                        timedOut |-> faults.timedOut, other |-> faults.other]
           /\ faults.crashes \in Nat /\ faults.unguarded \in BOOLEAN
           /\ faults.timedOut \in BOOLEAN /\ faults.other \in BOOLEAN
  BY Bounds DEF TypeOK, Attempts, DrainTicks

(* A history that is over leaves a fresh loader. *)
LEMMA FreshLoader ==
    ASSUME TypeOK, NextHistory
    PROVE  \/ loader'.phase = "end" /\ UNCHANGED <<loader.try, loader.attempt>>
           \/ loader'.phase = "between" /\ loader'.try = 1 /\ loader'.attempt = 1
  BY Fields DEF NextHistory

LEMMA OneCrashBefore == TypeOK /\ [Next]_vars /\ OneCrash' => OneCrash /\ faults.crashes <= faults'.crashes
  <1> SUFFICES ASSUME TypeOK, [Next]_vars, OneCrash' PROVE OneCrash /\ faults.crashes <= faults'.crashes
    OBVIOUS
  <1> USE DEF OneCrash
  <1>1. /\ faults = [crashes |-> faults.crashes, unguarded |-> faults.unguarded,
                     timedOut |-> faults.timedOut, other |-> faults.other]
        /\ faults.crashes \in Nat /\ faults.unguarded \in BOOLEAN
        /\ faults.timedOut \in BOOLEAN /\ faults.other \in BOOLEAN
    BY Fields
  <1>2. CASE UNCHANGED faults
    BY <1>1, <1>2
  <1>3. CASE Crash
    BY <1>1, <1>3 DEF Crash
  <1>4. CASE SlowWrite
    BY <1>1, <1>4 DEF SlowWrite
  <1>5. CASE WriteFailure
    BY <1>1, <1>5 DEF WriteFailure, WriteFails
  <1> QED
    BY <1>2, <1>3, <1>4, <1>5
       DEF Next, Step, Exit, vars, Tick, Verify, DrainRestart, Drained, SkipGuard, StartLoad, WriteAck,
           WaitOver, Reconnect, Unchanged

(* The clock: the lease runs out with the sleeps, the restart within the first. *)
LEMMA TickSurvives ==
    ASSUME TypeOK, OneCrash, Survives, Tick
    PROVE  Survives'
  <1>1. /\ loader'.phase = loader.phase /\ loader'.try = loader.try /\ loader'.attempt = loader.attempt
        /\ loader'.timer = Less(loader.timer)
        /\ node'.lease = Less(node.lease) /\ node'.restart = Less(node.restart)
        /\ node'.up = (node.up \/ node.restart = 1)
        /\ UNCHANGED <<failed, faults>>
    BY Fields DEF Tick
  <1>2. loader.phase \in {"wait", "waitNode"} => loader.timer > 0
    BY DEF Tick
  <1>3. loader.phase # "write"
    BY DEF Tick
  <1>4. node.up => node'.up
    BY <1>1, Fields
  <1>5. BeforeCrash' /\ SecondTry'
    BY <1>1, <1>4, Fields DEF Survives, BeforeCrash, SecondTry, Less
  <1>6. Left(loader.attempt) \in Nat /\ Spare \in Nat
    BY Fields DEF Left, Spare
  <1>7. Left(loader'.attempt) = Left(loader.attempt) /\ Spare' = Spare
    BY <1>1 DEF Spare
  <1>8. Budget'
    BY <1>1, <1>2, <1>3, <1>4, <1>6, <1>7, Fields DEF Survives, Budget, Less
  <1>9. Verified'
    BY <1>1, <1>4, Fields DEF Survives, Verified, Less
  <1> QED BY <1>1, <1>5, <1>8, <1>9 DEF Survives

(* The crash, at whatever moment: the whole budget is still there. *)
LEMMA CrashSurvives ==
    ASSUME TypeOK, OneCrash, OneCrash', Survives, Crash, RestartTicks <= 3, LeaseTicks <= 47, TypeOK'
    PROVE  Survives'
  <1>1. faults.crashes = 0 /\ faults'.crashes = 1
    BY Fields DEF Crash, OneCrash, TypeOK
  <1>2. ~node'.up /\ node'.lease <= 47 /\ node'.lease \in Nat
    <2>1. ~node'.up
      BY DEF Crash
    <2>2. node'.lease \in 0 .. LeaseTicks
      BY DEF TypeOK
    <2> QED BY <2>1, <2>2, Bounds
  <1>3. UNCHANGED <<loader, failed>>
    BY DEF Crash
  <1>4. loader.attempt = 1 /\ loader.try = 1 /\ loader.phase \notin {"wait", "waitNode", "reconnect"}
    BY <1>1 DEF Survives, BeforeCrash
  <1>5. BeforeCrash' /\ SecondTry'
    BY <1>1, <1>3, <1>4 DEF BeforeCrash, SecondTry
  <1>6. Budget'
    BY <1>2, <1>3, <1>4 DEF Budget, Left, Spare
  <1>7. Verified'
    <2>1. ~Unguarded
      BY Fields DEF Crash, OneCrash
    <2> QED BY <1>3, <2>1 DEF Survives, Verified, Unguarded
  <1> QED BY <1>3, <1>5, <1>6, <1>7 DEF Survives

(* The loop between two loads, and a batch that is acknowledged. *)
LEMMA LoopSurvives ==
    ASSUME TypeOK, OneCrash, Survives, RestartTicks <= 3, LeaseTicks <= 47,
           Verify \/ DrainRestart \/ Drained \/ SkipGuard \/ StartLoad \/ WriteAck
    PROVE  Survives'
  <1> USE Fields DEF Survives, BeforeCrash, SecondTry, Budget, Verified
  <1>1. CASE Verify
    <2>1. /\ loader'.phase \in {"between", "extract"} /\ node.up
          /\ loader'.try = loader.try /\ loader'.attempt = loader.attempt
          /\ loader.phase \in {"start", "drained"}
      BY <1>1 DEF Verify
    <2>2. UNCHANGED <<node, faults, failed>>
      BY <1>1 DEF Verify, Unchanged
    <2> QED BY <2>1, <2>2
  <1>2. CASE DrainRestart
    <2>1. /\ loader'.phase = "drain" /\ loader'.try = loader.try /\ loader'.attempt = loader.attempt
          /\ loader.phase = "between" /\ node'.lease = 0 /\ loader'.timer = 16
          /\ node'.restart \in 1 .. RestartTicks
          /\ UNCHANGED <<faults, failed>>
      BY <1>2 DEF DrainRestart, DrainTicks
    <2>2. node'.restart <= loader'.timer
      BY <2>1, Bounds
    <2> QED BY <2>1, <2>2
  <1>3. CASE Drained
    <2>1. /\ loader'.phase = "drained" /\ loader'.try = loader.try /\ loader'.attempt = loader.attempt
          /\ loader.phase = "drain" /\ UNCHANGED <<node, faults, failed>>
          /\ node.up \/ loader.timer = 0
      BY <1>3 DEF Drained, Unchanged
    <2>2. node.up
      BY <2>1
    <2> QED BY <2>1, <2>2
  <1>4. CASE SkipGuard
    <2>1. /\ loader'.phase = "extract" /\ loader'.try = loader.try /\ loader'.attempt = loader.attempt
          /\ loader.phase = "between" /\ UNCHANGED <<node, faults, failed>>
      BY <1>4 DEF SkipGuard, Unchanged
    <2> QED BY <2>1
  <1>5. CASE StartLoad
    <2>1. /\ loader'.phase = "write" /\ loader'.try = loader.try /\ loader'.attempt = 1
          /\ loader.phase = "extract" /\ UNCHANGED <<node, faults, failed>>
      BY <1>5 DEF StartLoad, Unchanged
    <2>2. node.lease <= 47
      BY Bounds
    <2>3. Left(1) = 24 /\ Spare' = Spare /\ Spare = IF loader.try = 1 THEN 24 ELSE 0
      BY <2>1 DEF Left, Spare
    <2>4. Budget'
      BY <2>1, <2>2, <2>3
    <2> QED BY <2>1, <2>4
  <1>6. CASE WriteAck
    <2>1. loader.phase = "write" /\ node.up /\ node.lease = 0 /\ UNCHANGED <<node, faults, failed>>
      BY <1>6 DEF WriteAck
    <2>2. CASE loader.batch = NodeBatches + EdgeBatches
      <3>1. \/ loader'.phase = "end" /\ UNCHANGED <<loader.try, loader.attempt>>
            \/ loader'.phase = "between" /\ loader'.try = 1 /\ loader'.attempt = 1
        BY <1>6, <2>2, FreshLoader DEF WriteAck
      <3> QED BY <2>1, <3>1
    <2>3. CASE loader.batch # NodeBatches + EdgeBatches
      <3>1. loader'.phase = "write" /\ loader'.try = loader.try /\ loader'.attempt = 1
        BY <1>6, <2>1, <2>3 DEF WriteAck
      <3> QED BY <2>1, <3>1 DEF Left, Spare
    <2> QED BY <2>2, <2>3
  <1> QED BY <1>1, <1>2, <1>3, <1>4, <1>5, <1>6

(* A write that fails: one sleep less of the budget, and one sleep less of lease. *)
LEMMA FailSurvives ==
    ASSUME TypeOK, OneCrash, OneCrash', Survives, RestartTicks <= 3, LeaseTicks <= 47,
           NEW error \in {"nodeDown", "leaseShadow", "timedOut", "other"}, WriteFails(error)
    PROVE  Survives'
  <1>1. loader.phase = "write" /\ failed = {} /\ WriteError(error)
    BY DEF WriteFails, WriteError, Survives
  <1>2. error \in {"nodeDown", "leaseShadow"}
    <2>1. error # "timedOut"
      BY <1>1 DEF WriteError
    <2>2. error = "other" => faults'.other
      BY DEF WriteFails, TypeOK
    <2> QED BY <2>1, <2>2 DEF OneCrash
  <1>3. faults'.crashes = faults.crashes /\ faults.crashes = 1 /\ UNCHANGED node
    <2>1. faults'.crashes = faults.crashes /\ UNCHANGED node
      BY DEF WriteFails, TypeOK
    <2>2. ~node.up \/ node.lease > 0
      BY <1>1, <1>2 DEF WriteError
    <2>3. faults.crashes # 0
      BY <1>1, <2>2, Fields DEF Survives, BeforeCrash
    <2> QED BY <2>1, <2>3, Fields DEF OneCrash
  <1>4. CASE error = "nodeDown"
    <2>1. ~node.up /\ loader.attempt = 1 /\ loader.try = 1
      BY <1>1, <1>4 DEF WriteError, Survives, Budget
    <2>2. /\ loader'.phase = "waitNode" /\ loader'.try = 1 /\ loader'.attempt = 2 /\ loader'.timer = 3
          /\ UNCHANGED failed
      <3>1. Retryable(error) /\ Backoff(error, 1) = 3
        BY <1>4, <2>1 DEF Retryable, Attempts, Backoff
      <3>2. /\ loader' = [loader EXCEPT !.phase = IF error = "nodeDown" THEN "waitNode" ELSE "wait",
                                        !.timer = Backoff(error, loader.attempt),
                                        !.attempt = @ + 1]
            /\ UNCHANGED failed
        BY <3>1 DEF WriteFails
      <3> QED BY <1>4, <2>1, <3>1, <3>2, Fields
    <2>3. Budget'
      BY <1>3, <2>2, Fields, Bounds DEF Budget, Left, Spare
    <2> QED BY <1>1, <1>3, <2>2, <2>3 DEF Survives, BeforeCrash, SecondTry, Verified
  <1>5. CASE error = "leaseShadow" /\ loader.attempt < Attempts
    <2>1. node.up /\ loader.attempt \in {1, 2, 3}
      BY <1>1, <1>5, Fields DEF WriteError, Attempts
    <2>2. /\ loader'.phase = "wait" /\ loader'.try = loader.try /\ loader'.attempt = loader.attempt + 1
          /\ loader'.timer = 4 * loader.attempt
          /\ UNCHANGED failed
      BY <1>5, Fields DEF WriteFails, Retryable, Backoff
    <2>3. Left(loader.attempt) = 4 * loader.attempt + Left(loader.attempt + 1)
      BY <2>1 DEF Left
    <2>4. node.lease <= Left(loader.attempt) + Spare /\ Spare' = Spare /\ Spare \in Nat
      BY <1>1, <2>2, Fields DEF Survives, Budget, Spare
    <2>5. Left(loader.attempt + 1) \in Nat /\ Left(loader'.attempt) = Left(loader.attempt + 1)
      BY <2>1, <2>2 DEF Left
    <2>6. Budget'
      BY <1>3, <2>1, <2>2, <2>3, <2>4, <2>5, Fields DEF Budget
    <2> QED BY <1>1, <1>3, <2>1, <2>2, <2>6 DEF Survives, BeforeCrash, SecondTry, Verified
  <1>6. CASE error = "leaseShadow" /\ ~(loader.attempt < Attempts)
    <2>1. node.up /\ node.lease > 0 /\ loader.attempt = 4
      BY <1>1, <1>6, Fields DEF WriteError, Attempts
    <2>2. loader.try = 1 /\ node.lease <= 24
      BY <1>1, <2>1, Fields DEF Survives, Budget, Left, Spare
    <2>3. loader'.phase = "reconnect" /\ loader'.try = 1 /\ UNCHANGED failed
      BY <1>6, <2>2, Fields DEF WriteFails, Retryable, Throw
    <2> QED BY <1>1, <1>3, <2>1, <2>2, <2>3 DEF Survives, BeforeCrash, SecondTry, Budget, Verified
  <1> QED BY <1>2, <1>4, <1>5, <1>6

(* The end of a sleep finds the node up, and so does the second try. *)
LEMMA SleptSurvives ==
    ASSUME TypeOK, OneCrash, Survives, WaitOver \/ Reconnect
    PROVE  Survives'
  <1> USE Fields DEF Survives, BeforeCrash, SecondTry, Verified
  <1>1. CASE WaitOver
    <2>1. loader.phase \in {"wait", "waitNode"} /\ loader.timer = 0 /\ UNCHANGED <<node, faults>>
      BY <1>1 DEF WaitOver, Unchanged
    <2>2. node.up
      BY <2>1 DEF Budget
    <2>3. /\ loader'.phase = "write" /\ loader'.try = loader.try /\ loader'.attempt = loader.attempt
          /\ UNCHANGED failed
      BY <1>1, <2>2 DEF WaitOver
    <2>4. Budget'
      <3>1. node.lease <= loader.timer + Left(loader.attempt) + Spare
        BY <2>1 DEF Budget
      <3>2. Left(loader'.attempt) = Left(loader.attempt) /\ Spare' = Spare
        BY <2>3 DEF Spare
      <3>3. Left(loader.attempt) \in Nat /\ Spare \in Nat
        BY DEF Left, Spare
      <3> QED BY <2>1, <2>2, <2>3, <3>1, <3>2, <3>3 DEF Budget
    <2> QED BY <2>1, <2>2, <2>3, <2>4
  <1>2. CASE Reconnect
    <2>1. loader.phase = "reconnect" /\ node.up /\ node.lease <= 24 /\ UNCHANGED <<node, faults>>
      BY <1>2 DEF Reconnect, Unchanged, Budget
    <2>2. loader'.phase = "extract" /\ loader'.try = 2 /\ UNCHANGED failed
      BY <1>2, <2>1 DEF Reconnect
    <2> QED BY <2>1, <2>2 DEF Budget
  <1> QED BY <1>1, <1>2

LEMMA NextSurvives ==
    ASSUME RestartTicks <= 3, LeaseTicks <= 47
    PROVE  Inv /\ Survives /\ [Next]_vars => Survives'
  <1> SUFFICES ASSUME Inv, Survives, [Next]_vars, OneCrash' PROVE Survives'
    BY DEF Survives
  <1>1. TypeOK /\ TypeOK'
    BY NextInv DEF Inv
  <1>2. OneCrash
    BY <1>1, OneCrashBefore
  <1>3. CASE Exit \/ UNCHANGED vars
    BY <1>2, <1>3 DEF Exit, vars, Survives, BeforeCrash, SecondTry, Budget, Spare, Verified
  <1>4. ~SlowWrite
    BY <1>1 DEF SlowWrite, OneCrash, TypeOK
  <1> QED
    BY <1>1, <1>2, <1>3, <1>4, TickSurvives, CrashSurvives, LoopSurvives, FailSurvives, SleptSurvives
       DEF Next, Step, WriteFailure

(* One node killed while a history is extracted or loaded costs the run none, and  *)
(* the run that ends has ingested them all, where the node is back within the      *)
(* first sleep of writeWithRetry (15 s, three ticks) and its lease runs out within *)
(* the sleeps of a load's two tries (15 s, 40 s, 60 s and 20 s, 40 s, 60 s, 47     *)
(* ticks); the deployment's lease of two minutes does. A node killed at one of the *)
(* two verify() that no retry covers (cli.ts, before the loop and after a drain)   *)
(* ends the run, and is left out of OneCrash.                                      *)
THEOREM OneCrashIsSurvived ==
    ASSUME RestartTicks <= 3, LeaseTicks <= 47
    PROVE  Spec => []OneCrashLosesNoHistory
  <1>1. Init => Survives /\ Accounted
    BY Bounds DEF Init, Survives, BeforeCrash, SecondTry, Budget, Verified, Accounted, History
  <1>2. Inv /\ Survives /\ Accounted => OneCrashLosesNoHistory
    BY DEF Inv, TypeOK, Survives, Verified, Accounted, OneCrashLosesNoHistory
  <1>3. Inv /\ Survives /\ [Next]_vars => Survives'
    BY NextSurvives
  <1> QED BY <1>1, <1>2, <1>3, AccountedKept, Invariance, PTL DEF Spec

----------------------------------------------------------------------------
(* The harness. What a project's answers file never holds, for any number of      *)
(* questions, commands, crashes and resumptions. The argument: a command only     *)
(* adds a row at the end, and however it ends, what is left is a beginning of     *)
(* what it had added up to. A run asks only what has no good row, and its streak  *)
(* counts at least the rows of its own that end the file and are empty.           *)

Row == [key : Key, run : Nat, status : {"ok", "200", "error"}, empty : BOOLEAN]
Command == [cmd : {"none", "run", "judge"}, todo : SUBSET Nat, streak : 0 .. 2,
            spent : Int, attempt : Int, stuck : BOOLEAN]
File == [rows : Seq(Row), buffer : Seq(Row), torn : BOOLEAN]

TypeInv == proc \in Command /\ answers \in File /\ commands \in Nat

\* What holds of the rows whoever is at work: no row is of a command to come.
NoThree(rows) ==
  \A i \in 1 .. Len(rows) - 2 : ~(\A k \in i .. i + 2 : rows[k].empty /\ rows[k].run = rows[i].run)
NoTwice(rows) ==
  \A i, j \in DOMAIN rows : Good(rows[i]) /\ Good(rows[j]) /\ rows[i].key = rows[j].key => i = j
Sound(rows) ==
  /\ \A i \in DOMAIN rows : rows[i].run <= commands
  /\ NoThree(rows)
  /\ NoTwice(rows)

\* The row at i is an empty one of the command at work.
Blank(rows, i) == rows[i].empty /\ rows[i].run = commands

\* What a run knows of the rows.
StreakCounts(rows) ==
  /\ Len(rows) >= 1 /\ Blank(rows, Len(rows)) => proc.streak >= 1
  /\ Len(rows) >= 2 /\ Blank(rows, Len(rows)) /\ Blank(rows, Len(rows) - 1) => proc.streak >= 2
AsksTheRest(rows) ==
  /\ proc.todo \subseteq Key
  /\ \A i \in DOMAIN rows : Good(rows[i]) => rows[i].key \notin proc.todo

HarnessInv ==
  /\ TypeInv
  /\ Sound(Rows)
  /\ proc.cmd = "run" => StreakCounts(Rows) /\ AsksTheRest(Rows)
  /\ proc.cmd # "run" => answers.buffer = <<>>

----------------------------------------------------------------------------
(* Sequences of rows *)

\* What is left when the first rows of the buffer were written.
LEMMA WrittenPart ==
  ASSUME NEW s \in Seq(Row), NEW t \in Seq(Row), NEW k \in 0 .. Len(t)
  PROVE  LET left == s \o SubSeq(t, 1, k)
         IN  /\ SubSeq(t, 1, k) \in Seq(Row) /\ left \in Seq(Row)
             /\ Len(left) \in Nat /\ Len(left) <= Len(s \o t) /\ Len(s \o t) \in Nat
             /\ \A i \in 1 .. Len(left) : left[i] = (s \o t)[i]
  <1> DEFINE u == SubSeq(t, 1, k)
  <1>1. u \in Seq(Row) /\ Len(u) = k /\ \A i \in 1 .. k : u[i] = t[i]
    OBVIOUS
  <1>2. s \o u \in Seq(Row) /\ Len(s \o u) = Len(s) + k
    BY <1>1
  <1>3. Len(s \o t) = Len(s) + Len(t) /\ Len(s) \in Nat /\ Len(t) \in Nat
    OBVIOUS
  <1>4. ASSUME NEW i \in 1 .. Len(s) + k PROVE (s \o u)[i] = (s \o t)[i]
    <2>1. CASE i <= Len(s)
      BY <2>1, <1>1, <1>3
    <2>2. CASE i > Len(s)
      <3>1. i - Len(s) \in 1 .. k
        BY <2>2, <1>3
      <3>2. (s \o u)[i] = u[i - Len(s)]
        BY <2>2, <3>1, <1>1, <1>3
      <3>3. (s \o t)[i] = t[i - Len(s)]
        BY <2>2, <3>1, <1>3
      <3> QED BY <3>1, <3>2, <3>3, <1>1
    <2> QED BY <2>1, <2>2, <1>3
  <1> QED BY <1>1, <1>2, <1>3, <1>4

\* A beginning of sound rows is sound.
LEMMA SoundBeginning ==
  ASSUME NEW all \in Seq(Row), NEW left \in Seq(Row), Len(left) <= Len(all),
         \A i \in 1 .. Len(left) : left[i] = all[i], Sound(all)
  PROVE  Sound(left)
  <1>1. Len(left) \in Nat /\ Len(all) \in Nat /\ DOMAIN left = 1 .. Len(left) /\ DOMAIN all = 1 .. Len(all)
    OBVIOUS
  <1>2. \A i \in DOMAIN left : left[i].run <= commands
    BY <1>1 DEF Sound
  <1>3. NoThree(left)
    <2> SUFFICES ASSUME NEW i \in 1 .. Len(left) - 2,
                        \A k \in i .. i + 2 : left[k].empty /\ left[k].run = left[i].run
                 PROVE  FALSE
      BY DEF NoThree
    <2>1. i \in 1 .. Len(all) - 2 /\ left[i] = all[i]
      BY <1>1
    <2>2. \A k \in i .. i + 2 : left[k] = all[k]
      BY <1>1
    <2> QED BY <2>1, <2>2 DEF Sound, NoThree
  <1>4. NoTwice(left)
    BY <1>1 DEF Sound, NoTwice
  <1> QED BY <1>2, <1>3, <1>4 DEF Sound

\* The buffer grows by a row at its end, and so do the rows.
LEMMA GrownRows ==
  ASSUME NEW s \in Seq(Row), NEW t \in Seq(Row), NEW r \in Row
  PROVE  s \o Append(t, r) = Append(s \o t, r)
  <1>1. /\ s \o Append(t, r) \in Seq(Row) /\ Append(s \o t, r) \in Seq(Row)
        /\ Len(s \o Append(t, r)) = Len(s) + Len(t) + 1 /\ Len(Append(s \o t, r)) = Len(s) + Len(t) + 1
    OBVIOUS
  <1>2. \A i \in 1 .. Len(s) + Len(t) + 1 : (s \o Append(t, r))[i] = Append(s \o t, r)[i]
    OBVIOUS
  <1> QED BY <1>1, <1>2, SeqEqual

\* One more row at the end: a key that had no good row, and not the third empty one.
LEMMA SoundGrown ==
  ASSUME TypeInv, NEW rows \in Seq(Row), NEW r \in Row, Sound(rows),
         r.run = commands,
         \A i \in DOMAIN rows : Good(rows[i]) => rows[i].key # r.key,
         ~(r.empty /\ Len(rows) >= 2 /\ Blank(rows, Len(rows)) /\ Blank(rows, Len(rows) - 1))
  PROVE  Sound(Append(rows, r))
  <1> DEFINE n == Len(rows)
             new == Append(rows, r)
  <1>1. /\ n \in Nat /\ DOMAIN rows = 1 .. n /\ DOMAIN new = 1 .. n + 1 /\ Len(new) = n + 1
        /\ new[n + 1] = r /\ \A i \in 1 .. n : new[i] = rows[i]
    OBVIOUS
  <1> HIDE DEF n, new
  <1>2. \A i \in DOMAIN new : new[i].run <= commands
    BY <1>1 DEF Sound, TypeInv
  <1>3. NoThree(new)
    <2> SUFFICES ASSUME NEW i \in 1 .. Len(new) - 2,
                        \A k \in i .. i + 2 : new[k].empty /\ new[k].run = new[i].run
                 PROVE  FALSE
      BY DEF NoThree
    <2>1. CASE i + 2 <= n
      <3>1. i \in 1 .. Len(rows) - 2 /\ \A k \in i .. i + 2 : new[k] = rows[k]
        BY <2>1, <1>1 DEF n
      <3>2. \A k \in i .. i + 2 : rows[k].empty /\ rows[k].run = rows[i].run
        BY <3>1, <1>1
      <3> QED BY <3>1, <3>2 DEF Sound, NoThree
    <2>2. CASE i + 2 > n
      <3>1. i = n - 1 /\ n >= 2
        BY <2>2, <1>1
      <3>2. new[i] = rows[n - 1] /\ new[i + 1] = rows[n] /\ new[i + 2] = r
        BY <3>1, <1>1
      <3>3. /\ new[i].empty /\ new[i + 1].empty /\ new[i + 1].run = new[i].run
            /\ new[i + 2].empty /\ new[i + 2].run = new[i].run
        BY <1>1
      <3> QED BY <3>1, <3>2, <3>3 DEF Blank, n
    <2> QED BY <2>1, <2>2, <1>1
  <1>4. NoTwice(new)
    BY <1>1 DEF Sound, NoTwice
  <1> QED BY <1>2, <1>3, <1>4 DEF Sound, new

----------------------------------------------------------------------------
(* The record of a command *)

\* What a command of the record c begins with.
LEMMA CommandGiven ==
  ASSUME NEW c \in Command, NEW cmd \in {"none", "run", "judge"}, NEW todo \in SUBSET Nat
  PROVE  LET p == [c EXCEPT !.cmd = cmd, !.todo = todo]
         IN  p \in Command /\ p.cmd = cmd /\ p.todo = todo /\ p.streak = c.streak
  BY DEF Command

\* The rest of the record when a reply is charged.
LEMMA ChargedKeeps ==
  ASSUME proc \in Command, NEW cost \in Int
  PROVE  /\ Charged(cost) \in Command /\ Charged(cost).cmd = proc.cmd
         /\ Charged(cost).todo = proc.todo /\ Charged(cost).streak = proc.streak
  <1> DEFINE spent == proc.spent + cost
             stuck == proc.stuck \/ proc.spent + cost > HardCap
             a == [proc EXCEPT !.spent = spent]
             b == [a EXCEPT !.stuck = stuck]
             c == [b EXCEPT !.attempt = 1]
  <1>1. spent \in Int /\ stuck \in BOOLEAN
    BY DEF Command
  <1>2. Charged(cost) = c
    BY Zenon DEF Charged
  <1> HIDE DEF spent, stuck
  <1>3. a \in Command /\ a.cmd = proc.cmd /\ a.todo = proc.todo /\ a.streak = proc.streak
    BY <1>1 DEF Command
  <1> HIDE DEF a
  <1>4. b \in Command /\ b.cmd = a.cmd /\ b.todo = a.todo /\ b.streak = a.streak
    BY <1>1, <1>3 DEF Command
  <1> HIDE DEF b
  <1>5. c \in Command /\ c.cmd = b.cmd /\ c.todo = b.todo /\ c.streak = b.streak
    BY <1>4 DEF Command
  <1> QED BY <1>2, <1>3, <1>4, <1>5, Zenon

LEMMA IdleIsCommand == Idle \in Command /\ Idle.streak = 0 /\ Idle.cmd = "none"
  BY DEF Idle, Command

----------------------------------------------------------------------------
(* Actions *)

LEMMA TypesUnfolded ==
  ASSUME TypeInv
  PROVE  /\ answers.rows \in Seq(Row) /\ answers.buffer \in Seq(Row)
         /\ Rows \in Seq(Row) /\ commands \in Nat
  BY DEF TypeInv, File, Rows

\* Whatever ends a command leaves a beginning of the rows.
LEMMA EndKeepsInv ==
  ASSUME HarnessInv, NEW k \in 0 .. Len(answers.buffer), NEW torn \in BOOLEAN,
         proc' = Idle, commands' = commands,
         answers' = [rows |-> answers.rows \o SubSeq(answers.buffer, 1, k), buffer |-> <<>>, torn |-> torn]
  PROVE  HarnessInv'
  <1> DEFINE left == answers.rows \o SubSeq(answers.buffer, 1, k)
  <1>1. answers.rows \in Seq(Row) /\ answers.buffer \in Seq(Row) /\ Rows \in Seq(Row)
    BY TypesUnfolded DEF HarnessInv
  <1>2. /\ left \in Seq(Row) /\ Len(left) <= Len(Rows) /\ \A i \in 1 .. Len(left) : left[i] = Rows[i]
    BY <1>1, WrittenPart DEF Rows
  <1>3. TypeInv'
    BY <1>2 DEF HarnessInv, TypeInv, Command, File, Idle
  <1>4. Rows' = left
    <2>1. Rows' = left \o <<>>
      BY DEF Rows
    <2> QED BY <2>1, <1>2, ConcatEmptySeq
  <1> HIDE DEF left
  <1>5. Sound(left)
    BY <1>1, <1>2, SoundBeginning DEF HarnessInv
  <1>6. Sound(Rows)'
    BY <1>4, <1>5 DEF Sound, NoThree, NoTwice
  <1> QED BY <1>3, <1>6 DEF HarnessInv, Idle

LEMMA LeaveKeepsInv ==
  ASSUME HarnessInv, Leave, commands' = commands
  PROVE  HarnessInv'
  <1>1. answers.rows \in Seq(Row) /\ answers.buffer \in Seq(Row) /\ answers \in File
    BY TypesUnfolded DEF HarnessInv, TypeInv
  <1>2. Len(answers.buffer) \in 0 .. Len(answers.buffer)
        /\ SubSeq(answers.buffer, 1, Len(answers.buffer)) = answers.buffer
    BY <1>1
  <1>3. answers' = [rows |-> answers.rows \o answers.buffer, buffer |-> <<>>, torn |-> answers.torn]
    BY <1>1 DEF Leave, File
  <1>4. answers.torn \in BOOLEAN
    BY <1>1 DEF File
  <1> QED BY <1>2, <1>3, <1>4, EndKeepsInv DEF Leave

\* Neither the rows nor what a run has to ask and has counted.
LEMMA OtherStepKeepsInv ==
  ASSUME HarnessInv, TypeInv', answers' = answers, commands' = commands,
         proc'.cmd = proc.cmd, proc'.streak = proc.streak,
         proc.cmd = "run" => proc'.todo = proc.todo
  PROVE  HarnessInv'
  <1>1. Rows' = Rows
    BY DEF Rows
  <1>2. Sound(Rows)'
    BY <1>1 DEF HarnessInv, Sound, NoThree, NoTwice
  <1>3. proc.cmd = "run" => (StreakCounts(Rows) /\ AsksTheRest(Rows))'
    BY <1>1 DEF HarnessInv, StreakCounts, AsksTheRest, Blank
  <1> QED BY <1>2, <1>3 DEF HarnessInv

LEMMA StartKeepsInv ==
  ASSUME HarnessInv, StartRun
  PROVE  HarnessInv'
  <1>1. TypeInv'
    <2>1. Key \ CompletedKeys \in SUBSET Nat
      BY DEF Key
    <2>2. proc' \in Command
      BY <2>1, IdleIsCommand, CommandGiven DEF StartRun
    <2> QED BY <2>2 DEF StartRun, HarnessInv, TypeInv
  <1>2. Rows \in Seq(Row) /\ Rows' = Rows /\ answers.rows \in Seq(Row) /\ commands \in Nat
    BY TypesUnfolded DEF HarnessInv, StartRun, Rows
  <1>3. Rows = answers.rows /\ answers.buffer = <<>>
    <2>1. answers.buffer = <<>>
      BY DEF HarnessInv, StartRun, MayGive
    <2> QED BY <2>1, <1>2, ConcatEmptySeq DEF Rows
  <1>4. commands' = commands + 1 /\ \A i \in DOMAIN Rows : Rows[i].run \in Nat /\ Rows[i].run <= commands
    <2>1. \A i \in DOMAIN Rows : Rows[i] \in Row
      BY <1>2
    <2> QED BY <2>1 DEF StartRun, HarnessInv, Sound, Row
  <1>5. Sound(Rows)'
    <2>1. \A i \in DOMAIN Rows : Rows[i].run <= commands'
      BY <1>4, <1>2
    <2> QED BY <2>1, <1>2 DEF HarnessInv, Sound, NoThree, NoTwice
  <1>6. StreakCounts(Rows)'
    <2>1. \A i \in DOMAIN Rows : Rows[i].run # commands'
      BY <1>4, <1>2
    <2>2. \A i \in 1 .. Len(Rows) : ~(Blank(Rows, i))'
      BY <2>1, <1>2 DEF Blank
    <2> QED BY <2>2, <1>2 DEF StreakCounts
  <1>7. AsksTheRest(Rows)'
    <2>1. \A i \in DOMAIN Rows : Good(Rows[i]) => Rows[i].key \in CompletedKeys
      BY <1>2, <1>3 DEF CompletedKeys, Good, Range
    <2>2. proc'.todo = Key \ CompletedKeys
      BY IdleIsCommand DEF StartRun, Command
    <2> QED BY <2>1, <2>2, <1>2 DEF AsksTheRest, Good
  <1>8. proc'.cmd = "run"
    BY IdleIsCommand DEF StartRun, Command
  <1> QED BY <1>1, <1>5, <1>6, <1>7, <1>8 DEF HarnessInv

LEMMA StartJudgeKeepsInv ==
  ASSUME HarnessInv, StartJudge
  PROVE  HarnessInv'
  <1>1. PICK left \in SUBSET DOMAIN answers.rows : proc' = [Idle EXCEPT !.cmd = "judge", !.todo = left]
    BY DEF StartJudge
  <1>2. answers.rows \in Seq(Row) /\ commands \in Nat /\ commands' = commands + 1 /\ answers' = answers
        /\ Rows \in Seq(Row)
    BY TypesUnfolded DEF HarnessInv, StartJudge
  <1>3. TypeInv'
    <2>1. left \in SUBSET Nat
      BY <1>1, <1>2
    <2>2. proc' \in Command
      BY <2>1, <1>1, IdleIsCommand, CommandGiven
    <2> QED BY <2>2, <1>2 DEF HarnessInv, TypeInv
  <1>4. proc'.cmd = "judge" /\ answers'.buffer = <<>>
    BY <1>1, <1>2, IdleIsCommand DEF HarnessInv, StartJudge, MayGive, Command
  <1>5. \A i \in DOMAIN Rows : Rows[i].run <= commands'
    <2>1. \A i \in DOMAIN Rows : Rows[i] \in Row
      BY <1>2
    <2> QED BY <2>1, <1>2 DEF HarnessInv, Sound, Row
  <1>6. Sound(Rows)'
    BY <1>2, <1>5 DEF HarnessInv, Sound, Rows, NoThree, NoTwice
  <1> QED BY <1>3, <1>4, <1>6 DEF HarnessInv

\* A row of the run: the streak sees every empty row that ends the file.
LEMMA AnsweredKeepsInv ==
  ASSUME HarnessInv, proc.cmd = "run", Working, NEW key \in proc.todo,
         NEW status \in {"ok", "200", "error"}, NEW empty \in BOOLEAN, NEW abstained \in BOOLEAN,
         Answered(key, status, empty, abstained), commands' = commands
  PROVE  HarnessInv'
  <1> DEFINE streak == StreakAfter(empty, abstained)
             p == IF Paying THEN Charged(1) ELSE proc
             r == [key |-> key, run |-> commands, status |-> status, empty |-> empty /\ ~abstained]
  <1>1. p \in Command /\ p.cmd = proc.cmd /\ p.streak = proc.streak /\ p.todo = proc.todo
    BY ChargedKeeps DEF HarnessInv, TypeInv
  <1> HIDE DEF p
  <1>2. CASE p.stuck
    <2>1. proc' = p /\ answers' = answers
      BY <1>2 DEF Answered, p
    <2>2. TypeInv'
      BY <2>1, <1>1 DEF HarnessInv, TypeInv, Command
    <2> QED BY <2>1, <2>2, <1>1, OtherStepKeepsInv
  <1>3. CASE ~p.stuck /\ Tripped(streak)
    BY <1>3, LeaveKeepsInv DEF Answered, p
  <1>4. CASE ~p.stuck /\ ~Tripped(streak)
    <2>1. /\ proc' = [p EXCEPT !.todo = @ \ {key}, !.streak = streak]
          /\ answers' = [answers EXCEPT !.buffer = Append(@, r)]
      BY <1>4 DEF Answered, p
    <2>2. answers.rows \in Seq(Row) /\ answers.buffer \in Seq(Row) /\ Rows \in Seq(Row) /\ commands \in Nat
      BY TypesUnfolded DEF HarnessInv
    <2>3. r \in Row /\ r.run = commands /\ r.key = key /\ (r.empty <=> empty /\ ~abstained)
      <3>1. key \in Key
        BY DEF HarnessInv, AsksTheRest
      <3>2. (empty /\ ~abstained) \in BOOLEAN
        OBVIOUS
      <3> QED BY <2>2, <3>1, <3>2 DEF Row
    <2>4. streak \in 0 .. 2 /\ (r.empty => streak = proc.streak + 1)
      <3>1. proc.streak \in 0 .. 2
        BY DEF HarnessInv, TypeInv, Command
      <3>2. r.empty <=> empty /\ ~abstained
        BY Zenon
      <3>3. CASE empty /\ ~abstained
        BY <1>4, <3>1, <3>3 DEF StreakAfter, Tripped
      <3>4. CASE ~(empty /\ ~abstained)
        BY <3>2, <3>4 DEF StreakAfter
      <3> QED BY <3>3, <3>4
    <2> HIDE DEF r, streak
    <2>5. /\ proc' \in Command /\ proc'.cmd = "run" /\ proc'.streak = streak
          /\ proc'.todo = proc.todo \ {key}
      BY <2>1, <2>4, <1>1 DEF Command
    <2>6. answers' \in File /\ answers'.rows = answers.rows /\ answers'.buffer = Append(answers.buffer, r)
      <3>1. Append(answers.buffer, r) \in Seq(Row) /\ answers \in File
        BY <2>2, <2>3 DEF HarnessInv, TypeInv
      <3> QED BY <2>1, <3>1 DEF File
    <2>7. Rows' = Append(Rows, r)
      <3>1. Rows' = answers.rows \o Append(answers.buffer, r)
        BY <2>6 DEF Rows
      <3> QED BY <3>1, <2>2, <2>3, GrownRows DEF Rows
    <2>9. Sound(Append(Rows, r))
      <3>1. \A i \in DOMAIN Rows : Good(Rows[i]) => Rows[i].key # r.key
        BY <2>3 DEF HarnessInv, AsksTheRest
      <3>2. ~(r.empty /\ Len(Rows) >= 2 /\ Blank(Rows, Len(Rows)) /\ Blank(Rows, Len(Rows) - 1))
        BY <2>4 DEF HarnessInv, StreakCounts, TypeInv, Command
      <3> QED BY <2>2, <2>3, <2>3, <3>1, <3>2, SoundGrown DEF HarnessInv
    <2>10. Sound(Rows)'
      BY <2>7, <2>9 DEF Sound, NoThree, NoTwice
    <2>11. /\ Len(Rows) \in Nat /\ Len(Rows') = Len(Rows) + 1 /\ DOMAIN Rows' = 1 .. Len(Rows) + 1
           /\ DOMAIN Rows = 1 .. Len(Rows)
           /\ Rows'[Len(Rows) + 1] = r /\ \A i \in 1 .. Len(Rows) : Rows'[i] = Rows[i]
      BY <2>2, <2>3, <2>7
    <2>12. StreakCounts(Rows)'
      <3>1. r.empty => streak >= 1
        BY <2>4 DEF HarnessInv, TypeInv, Command
      <3>2. ASSUME r.empty, Len(Rows) >= 1, Blank(Rows, Len(Rows)) PROVE streak >= 2
        <4>1. proc.streak >= 1 /\ proc.streak \in 0 .. 2
          BY <3>2 DEF HarnessInv, StreakCounts, TypeInv, Command
        <4> QED BY <4>1, <3>2, <2>4
      <3>3. \A i \in 1 .. Len(Rows) : (Blank(Rows, i))' <=> Blank(Rows, i)
        BY <2>11 DEF Blank
      <3>4. Len(Rows) >= 1 => Len(Rows) \in 1 .. Len(Rows)
        BY <2>11
      <3> QED BY <3>1, <3>2, <3>3, <3>4, <2>5, <2>11 DEF StreakCounts, Blank
    <2>13. AsksTheRest(Rows)'
      BY <2>5, <2>3, <2>11 DEF HarnessInv, AsksTheRest, Good
    <2> QED BY <2>2, <2>5, <2>6, <2>10, <2>12, <2>13 DEF HarnessInv, TypeInv
  <1> QED BY <1>2, <1>3, <1>4

LEMMA HarnessInitInv == HarnessInit => HarnessInv
  <1> SUFFICES ASSUME HarnessInit PROVE HarnessInv
    OBVIOUS
  <1>1. TypeInv
    BY DEF HarnessInit, TypeInv, Command, File, Idle
  <1>2. Rows = <<>>
    BY DEF HarnessInit, Rows
  <1>3. Sound(Rows)
    BY <1>2 DEF Sound, NoThree, NoTwice
  <1> QED BY <1>1, <1>3 DEF HarnessInv, HarnessInit, Idle

LEMMA StepInv == HarnessInv /\ [HarnessNext]_harnessVars => HarnessInv'
  <1> SUFFICES ASSUME HarnessInv, [HarnessNext]_harnessVars PROVE HarnessInv'
    OBVIOUS
  <1>1. CASE StartRun
    BY <1>1, StartKeepsInv
  <1>2. CASE StartJudge
    BY <1>2, StartJudgeKeepsInv
  <1>3. CASE Retry
    <2>1. TypeInv'
      BY <1>3 DEF Retry, HarnessInv, TypeInv, Command
    <2> QED BY <1>3, <2>1, OtherStepKeepsInv DEF Retry, HarnessInv, TypeInv, Command
  <1>4. CASE CallRaises
    BY <1>4, LeaveKeepsInv DEF CallRaises
  <1>5. CASE LlmAnswers
    <2>1. PICK key \in proc.todo, empty \in BOOLEAN : InHand(key) /\ Answered(key, "ok", empty, FALSE)
      BY <1>5 DEF LlmAnswers
    <2> QED BY <1>5, <2>1, AnsweredKeepsInv DEF LlmAnswers
  <1>6. CASE ErrataAnswers
    <2>1. PICK key \in proc.todo :
            \/ \E abstained \in BOOLEAN : Answered(key, "200", abstained, abstained)
            \/ Answered(key, "error", TRUE, FALSE)
      BY <1>6 DEF ErrataAnswers
    <2> QED BY <1>6, <2>1, AnsweredKeepsInv DEF ErrataAnswers
  <1>7. CASE EndRun
    BY <1>7, LeaveKeepsInv DEF EndRun
  <1>8. CASE JudgeRow
    <2>1. PICK i \in proc.todo, cost \in {0, 1} :
            proc' = Charged(cost) \/ proc' = [Charged(cost) EXCEPT !.todo = @ \ {i}]
      BY <1>8 DEF JudgeRow
    <2>2. proc' \in Command /\ proc'.cmd = proc.cmd /\ proc'.streak = proc.streak
      <3>1. /\ Charged(cost) \in Command /\ Charged(cost).cmd = proc.cmd
            /\ Charged(cost).streak = proc.streak
        BY ChargedKeeps DEF HarnessInv, TypeInv
      <3> QED BY <2>1, <3>1 DEF Command
    <2>3. TypeInv'
      BY <1>8, <2>2 DEF JudgeRow, HarnessInv, TypeInv
    <2> QED BY <1>8, <2>2, <2>3, OtherStepKeepsInv DEF JudgeRow
  <1>9. CASE EndJudge
    BY <1>9, LeaveKeepsInv DEF EndJudge
  <1>10. CASE Kill
    <2>1. PICK k \in 0 .. Len(answers.buffer), torn \in BOOLEAN :
            answers' = [rows |-> answers.rows \o SubSeq(answers.buffer, 1, k), buffer |-> <<>>, torn |-> torn]
      <3>1. PICK k \in 0 .. Len(answers.buffer) :
              \E torn \in {FALSE, k < Len(answers.buffer)} :
                answers' = [rows |-> answers.rows \o SubSeq(answers.buffer, 1, k), buffer |-> <<>>, torn |-> torn]
        BY <1>10, Zenon DEF Kill
      <3>2. {FALSE, k < Len(answers.buffer)} \subseteq BOOLEAN
        OBVIOUS
      <3> QED BY <3>1, <3>2, Zenon
    <2> QED BY <1>10, <2>1, EndKeepsInv DEF Kill
  <1>11. CASE Rest \/ UNCHANGED harnessVars
    <2>1. UNCHANGED <<proc, answers, commands>>
      BY <1>11 DEF Rest, harnessVars
    <2>2. TypeInv'
      BY <2>1 DEF HarnessInv, TypeInv
    <2> QED BY <2>1, <2>2, OtherStepKeepsInv
  <1> QED
    BY <1>1, <1>2, <1>3, <1>4, <1>5, <1>6, <1>7, <1>8, <1>9, <1>10, <1>11 DEF HarnessNext, CommandStep

----------------------------------------------------------------------------
\* No question is answered and paid for again once its answer is in the file,
\* however the runs of cli.py end.
THEOREM AnswersAreUnique == HarnessSpec => []NoAnswerTwice
  <1>1. HarnessInv => NoAnswerTwice
    BY DEF HarnessInv, Sound, NoTwice, NoAnswerTwice
  <1> QED BY <1>1, HarnessInitInv, StepInv, PTL DEF HarnessSpec

\* The breaker of cli.py: no run writes a third empty row after two others.
THEOREM BreakerHolds == HarnessSpec => []NoThreeEmpties
  <1>1. HarnessInv => NoThreeEmpties
    BY DEF HarnessInv, Sound, NoThree, NoThreeEmpties
  <1> QED BY <1>1, HarnessInitInv, StepInv, PTL DEF HarnessSpec

----------------------------------------------------------------------------
(* Folds *)

\* A set of natural numbers has a least one.
LEMMA LeastNat ==
  ASSUME NEW T, T \subseteq Nat, T # {}
  PROVE  \E m \in T : \A n \in T : m <= n
  <1> DEFINE Under == OpToRel(<, Nat)
  <1>1. IsWellFoundedOn(Under, Nat)
    BY NatLessThanWellFounded
  <1>2. \A m, n \in Nat : <<n, m>> \in Under <=> n < m
    BY DEF OpToRel
  <1> HIDE DEF Under
  <1>3. \E m \in T : \A n \in T : ~ (<<n, m>> \in Under)
    BY <1>1, WFMin
  <1> QED
    <2>1. PICK m \in T : \A n \in T : ~ (<<n, m>> \in Under)
      BY <1>3
    <2>2. \A n \in T : ~(n < m)
      BY <1>2, <2>1
    <2> QED BY <2>2

\* What holds of 0, and of k whenever of k - 1, holds up to n.
LEMMA UpTo ==
  ASSUME NEW n \in Nat, NEW H, 0 \in H, \A k \in 1..n : k - 1 \in H => k \in H
  PROVE  \A k \in 0..n : k \in H
  <1> DEFINE T == {k \in 0..n : k \notin H}
  <1> SUFFICES ASSUME T # {} PROVE FALSE
    OBVIOUS
  <1>1. PICK m \in T : \A k \in T : m <= k
    <2>1. T \subseteq Nat
      OBVIOUS
    <2> HIDE DEF T
    <2> QED BY <2>1, LeastNat
  <1>2. m \in 1..n /\ m - 1 \in 0..n /\ m - 1 \notin T
    BY <1>1
  <1> QED BY <1>1, <1>2

\* The last position of a set, and those before it.
LEMMA LastOfSet ==
  ASSUME NEW n \in Nat, NEW s \in SUBSET (1..n), s # {}
  PROVE  /\ Max(s) \in s /\ \A k \in s : k <= Max(s)
         /\ s \ {Max(s)} \in SUBSET (1..n)
         /\ s \ {Max(s)} \subseteq 1..Max(s) - 1
  <1> DEFINE T == {n - k : k \in s}
  <1>1. T \subseteq Nat /\ T # {}
    OBVIOUS
  <1>2. PICK t \in T : \A u \in T : t <= u
    BY <1>1, LeastNat
  <1>3. PICK x \in s : t = n - x
    BY <1>2
  <1>4. \A k \in s : k <= x
    <2> TAKE k \in s
    <2>1. n - k \in T /\ k \in 1..n /\ x \in 1..n
      OBVIOUS
    <2>2. n - x <= n - k
      BY <1>2, <1>3, <2>1
    <2> QED BY <2>1, <2>2
  <1>5. \A k \in s : x >= k
    BY <1>4
  <1> DEFINE top(y) == \A k \in s : y >= k
  <1>6. Max(s) = CHOOSE y \in s : top(y)
    BY DEF Max
  <1>7. top(x)
    BY <1>5
  <1>8. (CHOOSE y \in s : top(y)) \in s /\ top(CHOOSE y \in s : top(y))
    <2> HIDE DEF top
    <2> QED BY <1>7
  <1>9. Max(s) \in s /\ \A k \in s : Max(s) >= k
    BY <1>6, <1>8
  <1> DEFINE y == Max(s)
  <1>10. y \in Int /\ y \in s /\ \A k \in s : y >= k /\ k \in Int /\ k >= 1
    <2>1. \A k \in s : k \in Int /\ k >= 1
      OBVIOUS
    <2> QED BY <1>9, <2>1
  <1> HIDE DEF y
  <1>11. \A k \in s : k <= y
    BY <1>10
  <1>12. s \ {y} \subseteq 1..y - 1
    BY <1>10
  <1> QED BY <1>10, <1>11, <1>12 DEF y

\* The last of the first k positions is k.
LEMMA LastOfPrefix ==
  ASSUME NEW n \in Nat, NEW k \in 1..n
  PROVE  /\ 1..k \in SUBSET (1..n) /\ 1..k # {} /\ Max(1..k) = k
         /\ (1..k) \ {k} = 1..k - 1
  <1>1. 1..k \in SUBSET (1..n) /\ k \in 1..k
    OBVIOUS
  <1>2. Max(1..k) \in 1..k /\ \A j \in 1..k : j <= Max(1..k)
    BY <1>1, LastOfSet
  <1> QED BY <1>1, <1>2

\* The function FoldLeft defines on the sets of positions, and what it goes
\* through from the first position to the last.
FoldsOn(g, n, A, base, step) ==
  /\ g \in [SUBSET (1..n) -> A]
  /\ \A s \in SUBSET (1..n) : g[s] = IF s = {} THEN base ELSE step[g[s \ {Max(s)}]][Max(s)]
Unfolds(h, n, A, base, step) ==
  /\ h[{}] = base
  /\ \A s \in SUBSET (1..n) : s # {} /\ h[s \ {Max(s)}] \in A =>
       h[s] = step[h[s \ {Max(s)}]][Max(s)]
RunsTo(run, last, n, A, base, step) ==
  /\ run \in [0..n -> A] /\ run[0] = base /\ run[n] = last
  /\ \A k \in 1..n : run[k] = step[run[k - 1]][k]

\* A fold by a total step is defined.
LEMMA FoldExists ==
  ASSUME NEW n \in Nat, NEW A, NEW base \in A, NEW step \in [A -> [1..n -> A]]
  PROVE  \E g : FoldsOn(g, n, A, base, step)
  <1> DEFINE Is(k, g) == \A s \in SUBSET (1..k) :
               g[s] = IF s = {} THEN base ELSE step[g[s \ {Max(s)}]][Max(s)]
             H == {k \in 0..n : \E g \in [SUBSET (1..k) -> A] : Is(k, g)}
  <1>1. 0 \in H
    <2> DEFINE g == [s \in SUBSET (1..0) |-> base]
    <2>1. \A s \in SUBSET (1..0) : s = {}
      OBVIOUS
    <2>2. g \in [SUBSET (1..0) -> A]
      OBVIOUS
    <2>3. Is(0, g)
      BY <2>1
    <2>4. \E f \in [SUBSET (1..0) -> A] : Is(0, f)
      <3> HIDE DEF Is, g
      <3> QED BY <2>2, <2>3
    <2>5. 0 \in 0..n
      OBVIOUS
    <2> HIDE DEF Is, g
    <2> QED BY <2>4, <2>5
  <1>2. ASSUME NEW k \in 1..n, k - 1 \in H
        PROVE  k \in H
    <2>1. PICK f \in [SUBSET (1..k - 1) -> A] : Is(k - 1, f)
      BY <1>2
    <2> DEFINE g == [s \in SUBSET (1..k) |->
                       IF k \in s THEN step[f[s \ {k}]][k] ELSE f[s]]
    <2>2. \A s \in SUBSET (1..k) : IF k \in s THEN s \ {k} \in SUBSET (1..k - 1)
                                   ELSE s \in SUBSET (1..k - 1)
      OBVIOUS
    <2>3. ASSUME NEW s \in SUBSET (1..k) PROVE g[s] \in A
      <3>1. CASE k \in s
        <4>1. f[s \ {k}] \in A
          BY <2>1, <2>2, <3>1
        <4> QED BY <3>1, <4>1
      <3>2. CASE k \notin s
        BY <2>1, <2>2, <3>2
      <3> QED BY <3>1, <3>2
    <2>4. g \in [SUBSET (1..k) -> A]
      BY <2>3
    <2>5. ASSUME NEW s \in SUBSET (1..k)
          PROVE  g[s] = IF s = {} THEN base ELSE step[g[s \ {Max(s)}]][Max(s)]
      <3>1. CASE k \in s
        <4>1. Max(s) = k
          <5>1. Max(s) \in s /\ k <= Max(s)
            BY <3>1, LastOfSet
          <5>2. Max(s) \in 1..k
            BY <5>1
          <5> HIDE DEF g
          <5> QED BY <5>1, <5>2
        <4>2. g[s \ {k}] = f[s \ {k}]
          BY <2>2, <3>1
        <4> QED BY <3>1, <4>1, <4>2
      <3>2. CASE s = {}
        BY <2>1, <2>2, <3>2
      <3>3. CASE k \notin s /\ s # {}
        <4>1. Max(s) \in s /\ s \ {Max(s)} \in SUBSET (1..k)
          BY <3>3, LastOfSet
        <4>2. g[s] = f[s] /\ g[s \ {Max(s)}] = f[s \ {Max(s)}]
          BY <3>3, <4>1
        <4>3. f[s] = step[f[s \ {Max(s)}]][Max(s)]
          BY <2>1, <2>2, <3>3
        <4> QED BY <3>3, <4>2, <4>3
      <3> QED BY <3>1, <3>2, <3>3
    <2>6. Is(k, g)
      BY <2>5
    <2> HIDE DEF Is, g
    <2> QED BY <2>4, <2>6
  <1>3. n \in H
    <2> HIDE DEF H
    <2>1. \A k \in 1..n : k - 1 \in H => k \in H
      BY <1>2
    <2>2. \A k \in 0..n : k \in H
      BY <1>1, <2>1, UpTo
    <2> QED BY <2>2
  <1>4. PICK g \in [SUBSET (1..n) -> A] : Is(n, g)
    BY <1>3
  <1> QED BY <1>4 DEF FoldsOn

\* And is reached element by element.
LEMMA FoldRuns ==
  ASSUME NEW n \in Nat, NEW A, NEW base \in A, NEW step \in [A -> [1..n -> A]], NEW h,
         Unfolds(h, n, A, base, step)
  PROVE  \E run : RunsTo(run, h[1..n], n, A, base, step)
  <1> DEFINE run == [k \in 0..n |-> h[1..k]]
             H == {k \in 0..n : h[1..k] \in A}
  <1>1. h[1..0] = base
    <2>1. 1..0 = {}
      OBVIOUS
    <2> QED BY <2>1 DEF Unfolds
  <1>2. ASSUME NEW k \in 1..n, h[1..k - 1] \in A
        PROVE  h[1..k] = step[h[1..k - 1]][k] /\ h[1..k] \in A
    <2>1. 1..k \in SUBSET (1..n) /\ 1..k # {} /\ Max(1..k) = k /\ (1..k) \ {k} = 1..k - 1
      BY LastOfPrefix
    <2>2. h[1..k] = step[h[1..k - 1]][k]
      BY <1>2, <2>1 DEF Unfolds
    <2> QED BY <1>2, <2>2
  <1>3. \A k \in 0..n : k \in H
    <2>1. 0 \in H
      BY <1>1
    <2>2. \A k \in 1..n : k - 1 \in H => k \in H
      <3> SUFFICES ASSUME NEW k \in 1..n, k - 1 \in H PROVE k \in H
        OBVIOUS
      <3>1. h[1..k - 1] \in A /\ k \in 0..n
        OBVIOUS
      <3>2. h[1..k] \in A
        BY <1>2, <3>1
      <3> QED BY <3>1, <3>2
    <2> HIDE DEF H
    <2> QED BY <2>1, <2>2, UpTo
  <1>4. run \in [0..n -> A]
    BY <1>3
  <1>5. \A k \in 1..n : run[k] = step[run[k - 1]][k]
    BY <1>2, <1>3
  <1>6. run[0] = base /\ run[n] = h[1..n]
    BY <1>1
  <1> QED BY <1>4, <1>5, <1>6 DEF RunsTo

----------------------------------------------------------------------------
(* Sets in line, and sequences one after the other *)

\* A function on 1..n is a sequence.
LEMMA FunctionIsSeq ==
  ASSUME NEW S, NEW n \in Nat, NEW f \in [1..n -> S]
  PROVE  f \in Seq(S) /\ Len(f) = n /\ DOMAIN f = 1..n
  OBVIOUS

\* What stands in one of two sequences stands in both together.
LEMMA ConcatHas ==
  ASSUME NEW E, NEW s \in Seq(E), NEW t \in Seq(E)
  PROVE  /\ s \o t \in Seq(E)
         /\ \A k \in 1..Len(s) : \E p \in 1..Len(s \o t) : (s \o t)[p] = s[k]
         /\ \A k \in 1..Len(t) : \E p \in 1..Len(s \o t) : (s \o t)[p] = t[k]
  <1>1. Len(s) \in Nat /\ Len(t) \in Nat /\ s \o t \in Seq(E) /\ Len(s \o t) = Len(s) + Len(t)
    BY ConcatProperties
  <1>2. \A k \in 1..Len(s) : k \in 1..Len(s \o t) /\ (s \o t)[k] = s[k]
    BY <1>1, ConcatProperties
  <1>3. \A k \in 1..Len(t) : Len(s) + k \in 1..Len(s \o t) /\ (s \o t)[Len(s) + k] = t[k]
    BY <1>1, ConcatProperties
  <1> QED BY <1>1, <1>2, <1>3

\* Sequences over E, one after the other, are a sequence over E, with every
\* element of theirs.
LEMMA FlatType ==
  ASSUME NEW E, NEW seqs \in Seq(Seq(E))
  PROVE  /\ FlattenSeq(seqs) \in Seq(E)
         /\ \A j \in 1..Len(seqs) : \A k \in 1..Len(seqs[j]) :
              \E p \in 1..Len(FlattenSeq(seqs)) : FlattenSeq(seqs)[p] = seqs[j][k]
  <1> DEFINE n == Len(seqs)
             Is(m, f) == \A i \in 1..m : f[i] = IF i = 1 THEN seqs[1] ELSE f[i - 1] \o seqs[i]
             H == {m \in 0..n : \E f \in [1..m -> Seq(E)] : Is(m, f)}
  <1>1. n \in Nat /\ \A i \in 1..n : seqs[i] \in Seq(E)
    OBVIOUS
  <1>2. CASE n = 0
    <2>1. seqs = <<>>
      BY <1>2
    <2> QED BY <2>1 DEF FlattenSeq
  <1>3. CASE n # 0
    <2>1. 0 \in H
      <3>1. [i \in 1..0 |-> <<>>] \in [1..0 -> Seq(E)] /\ 0 \in 0..n
        BY <1>1
      <3>2. Is(0, [i \in 1..0 |-> <<>>])
        OBVIOUS
      <3> HIDE DEF Is
      <3> QED BY <3>1, <3>2
    <2>2. ASSUME NEW m \in 1..n, m - 1 \in H PROVE m \in H
      <3>1. PICK f \in [1..m - 1 -> Seq(E)] : Is(m - 1, f)
        BY <2>2
      <3> DEFINE last == IF m = 1 THEN seqs[1] ELSE f[m - 1] \o seqs[m]
                 g == [i \in 1..m |-> IF i = m THEN last ELSE f[i]]
      <3>2. last \in Seq(E)
        <4>1. CASE m = 1
          BY <1>1, <4>1
        <4>2. CASE m # 1
          <5>1. m - 1 \in 1..m - 1
            BY <4>2, <1>1
          <5>2. f[m - 1] \in Seq(E) /\ seqs[m] \in Seq(E)
            BY <1>1, <5>1, <3>1
          <5> QED BY <4>2, <5>2
        <4> QED BY <4>1, <4>2
      <3>3. g \in [1..m -> Seq(E)]
        <4>1. \A i \in 1..m : g[i] \in Seq(E)
          <5> TAKE i \in 1..m
          <5> HIDE DEF last
          <5>1. i # m => i \in 1..m - 1
            BY <1>1
          <5> QED BY <5>1, <3>1, <3>2
        <4> HIDE DEF last
        <4> QED BY <4>1
      <3>4. \A i \in 1..m : g[i] = IF i = 1 THEN seqs[1] ELSE g[i - 1] \o seqs[i]
        <4> TAKE i \in 1..m
        <4>1. CASE i = m
          <5>1. m # 1 => m - 1 \in 1..m /\ m - 1 # m
            BY <1>1
          <5>2. m # 1 => g[m - 1] = f[m - 1]
            BY <5>1
          <5>3. g[m] = last
            BY <1>1
          <5> QED BY <4>1, <5>2, <5>3
        <4>2. CASE i # m
          <5>1. i \in 1..m - 1
            BY <4>2, <1>1
          <5>2. f[i] = IF i = 1 THEN seqs[1] ELSE f[i - 1] \o seqs[i]
            BY <3>1, <5>1
          <5>3. i # 1 => i - 1 \in 1..m /\ i - 1 # m
            BY <5>1, <1>1
          <5>4. g[i] = f[i] /\ (i # 1 => g[i - 1] = f[i - 1])
            <6> HIDE DEF last
            <6> QED BY <4>2, <5>3
          <5> HIDE DEF g
          <5> QED BY <5>2, <5>4
        <4> QED BY <4>1, <4>2
      <3>5. Is(m, g)
        BY <3>4
      <3>6. m \in 0..n
        BY <1>1
      <3>7. \E h \in [1..m -> Seq(E)] : Is(m, h)
        <4> HIDE DEF Is, g, last
        <4> QED BY <3>3, <3>5
      <3> HIDE DEF Is, g, last, n
      <3> QED BY <3>6, <3>7
    <2>3. n \in H
      <3> HIDE DEF H, n
      <3>1. \A m \in 1..n : m - 1 \in H => m \in H
        BY <2>2
      <3>2. \A m \in 0..n : m \in H
        BY <1>1, <2>1, <3>1, UpTo
      <3> QED BY <1>1, <3>2
    <2>4. PICK f \in [1..n -> Seq(E)] : Is(n, f)
      BY <2>3
    <2> DEFINE eq(h) == h = [i \in 1..n |-> IF i = 1 THEN seqs[i] ELSE h[i - 1] \o seqs[i]]
               flat == CHOOSE h : eq(h)
    <2>5. eq(f)
      <3>1. f = [i \in 1..n |-> f[i]]
        BY <2>4
      <3>2. \A i \in 1..n : f[i] = IF i = 1 THEN seqs[i] ELSE f[i - 1] \o seqs[i]
        BY <2>4
      <3> HIDE DEF n
      <3> QED BY <3>1, <3>2
    <2>6. eq(flat)
      <3> HIDE DEF eq
      <3> QED BY <2>5
    <2>7. \A i \in 1..n : flat[i] = IF i = 1 THEN seqs[i] ELSE flat[i - 1] \o seqs[i]
      <3> HIDE DEF flat, n
      <3> QED BY <2>6
    <2>8. FlattenSeq(seqs) = flat[n]
      BY <1>3 DEF FlattenSeq
    <2> DEFINE Has(f2, j) == \A k \in 1..Len(seqs[j]) : \E p \in 1..Len(f2) : f2[p] = seqs[j][k]
               G == {i \in 0..n : i = 0 \/ (flat[i] \in Seq(E) /\ \A j \in 1..i : Has(flat[i], j))}
    <2>9. \A i \in 0..n : i \in G
      <3>1. 0 \in G
        BY <1>1
      <3>2. ASSUME NEW i \in 1..n, i - 1 \in G PROVE i \in G
        <4> HIDE DEF flat, n, Has
        <4>1. CASE i = 1
          <5>1. flat[i] = seqs[i]
            BY <2>7, <4>1
          <5>2. 1..i = {i}
            BY <4>1
          <5>3. Has(flat[i], i)
            BY <5>1 DEF Has
          <5>4. \A j \in 1..i : Has(flat[i], j)
            BY <5>2, <5>3
          <5>5. flat[i] \in Seq(E) /\ i \in 0..n
            BY <1>1, <5>1
          <5> QED BY <5>4, <5>5
        <4>2. CASE i # 1
          <5>1. flat[i - 1] \in Seq(E) /\ \A j \in 1..i - 1 : Has(flat[i - 1], j)
            BY <3>2, <4>2
          <5>2. flat[i] = flat[i - 1] \o seqs[i]
            BY <2>7, <4>2
          <5>3. /\ flat[i] \in Seq(E)
                /\ \A k \in 1..Len(flat[i - 1]) : \E p \in 1..Len(flat[i]) : flat[i][p] = flat[i - 1][k]
                /\ Has(flat[i], i)
            <6>1. flat[i - 1] \in Seq(E) /\ seqs[i] \in Seq(E)
              BY <1>1, <5>1
            <6> DEFINE s == flat[i - 1]
                       t == seqs[i]
            <6>2. /\ s \o t \in Seq(E)
                  /\ \A k \in 1..Len(s) : \E p \in 1..Len(s \o t) : (s \o t)[p] = s[k]
                  /\ \A k \in 1..Len(t) : \E p \in 1..Len(s \o t) : (s \o t)[p] = t[k]
              <7>1. s \in Seq(E) /\ t \in Seq(E)
                BY <6>1
              <7> HIDE DEF s, t
              <7> QED BY <7>1, ConcatHas
            <6> QED BY <5>2, <6>2 DEF Has
          <5>4. ASSUME NEW j \in 1..i PROVE Has(flat[i], j)
            <6>1. CASE j = i
              BY <5>3, <6>1
            <6>2. CASE j # i
              <7>1. Has(flat[i - 1], j)
                BY <5>1, <6>2
              <7> QED BY <5>3, <7>1 DEF Has
            <6> QED BY <6>1, <6>2
          <5> QED BY <5>3, <5>4
        <4> QED BY <4>1, <4>2
      <3> HIDE DEF G, n
      <3>3. \A i \in 1..n : i - 1 \in G => i \in G
        BY <3>2
      <3> QED BY <1>1, <3>1, <3>3, UpTo
    <2>10. n \in 0..n /\ n # 0
      BY <1>1, <1>3
    <2>11. flat[n] \in Seq(E) /\ \A j \in 1..n : Has(flat[n], j)
      BY <2>9, <2>10
    <2>12. FlattenSeq(seqs) \in Seq(E) /\ \A j \in 1..n : Has(FlattenSeq(seqs), j)
      <3> HIDE DEF flat, n, Has
      <3> QED BY <2>8, <2>11
    <2> HIDE DEF flat
    <2> QED BY <2>12
  <1> QED BY <1>2, <1>3

\* A run is what it is.
LEMMA RunsAreOne ==
  ASSUME NEW n \in Nat, NEW A, NEW base, NEW step, NEW r, NEW x, NEW s, NEW y,
         RunsTo(r, x, n, A, base, step), RunsTo(s, y, n, A, base, step)
  PROVE  x = y
  <1> DEFINE H == {k \in 0..n : r[k] = s[k]}
  <1>1. 0 \in H
    BY DEF RunsTo
  <1>2. \A k \in 1..n : k - 1 \in H => k \in H
    <2> SUFFICES ASSUME NEW k \in 1..n, k - 1 \in H PROVE k \in H
      OBVIOUS
    <2>1. r[k - 1] = s[k - 1] /\ k \in 0..n
      OBVIOUS
    <2>2. r[k] = step[r[k - 1]][k] /\ s[k] = step[s[k - 1]][k]
      BY DEF RunsTo
    <2> QED BY <2>1, <2>2
  <1>3. \A k \in 0..n : k \in H
    <2> HIDE DEF H
    <2> QED BY <1>1, <1>2, UpTo
  <1>4. r[n] = s[n]
    BY <1>3
  <1> QED BY <1>4 DEF RunsTo

----------------------------------------------------------------------------
(* The calendar *)

Month == 1..12

\* The number of the day before the first of a month.
MonthStart(y, m) ==
  365 * (y - 1) + (y - 1) \div 4 - (y - 1) \div 100 + (y - 1) \div 400
      + Elapsed[m] + (IF m > 2 /\ Leap(y) THEN 1 ELSE 0)

\* A month has 28 to 31 days, and only February's depend on the year.
LEMMA MonthLengths ==
  ASSUME NEW y \in Int, NEW m \in Month
  PROVE  /\ DaysInMonth(y, m) \in 28..31
         /\ m # 2 => DaysInMonth(y, m) = DaysInMonth(1, m)
         /\ DaysInMonth(y, 2) = IF Leap(y) THEN 29 ELSE 28
  BY DEF DaysInMonth

\* The days before each month of a common year,
LEMMA ElapsedIs ==
  /\ Elapsed[1] = 0 /\ Elapsed[2] = 31 /\ Elapsed[3] = 59 /\ Elapsed[4] = 90
  /\ Elapsed[5] = 120 /\ Elapsed[6] = 151 /\ Elapsed[7] = 181 /\ Elapsed[8] = 212
  /\ Elapsed[9] = 243 /\ Elapsed[10] = 273 /\ Elapsed[11] = 304 /\ Elapsed[12] = 334
  BY DEF Elapsed

\* which grow by the length of the month.
LEMMA ElapsedSteps ==
  ASSUME NEW m \in 1..11
  PROVE  Elapsed[m] \in Int /\ Elapsed[m + 1] = Elapsed[m] + DaysInMonth(1, m)
  <1>1. ~Leap(1)
    BY DEF Leap
  <1>2. m \in {1, 2, 3, 4, 5, 6, 7, 8, 9, 10, 11}
    OBVIOUS
  <1>3. CASE m \in {1, 2, 3, 4}
    BY <1>1, <1>3, ElapsedIs DEF DaysInMonth
  <1>4. CASE m \in {5, 6, 7, 8}
    BY <1>1, <1>4, ElapsedIs DEF DaysInMonth
  <1>5. CASE m \in {9, 10, 11}
    BY <1>1, <1>5, ElapsedIs DEF DaysInMonth
  <1> QED BY <1>2, <1>3, <1>4, <1>5

\* They are fewer than a year has.
LEMMA ElapsedType == \A m \in Month : Elapsed[m] \in 0..334
  <1> SUFFICES ASSUME NEW m \in Month PROVE Elapsed[m] \in 0..334
    OBVIOUS
  <1>1. m \in {1, 2, 3, 4, 5, 6, 7, 8, 9, 10, 11, 12}
    BY DEF Month
  <1> QED BY <1>1, ElapsedIs

\* A day is so many days into its month.
LEMMA DayIs ==
  ASSUME NEW t, t.y \in Int, t.m \in Month, t.d \in Int
  PROVE  MonthStart(t.y, t.m) \in Int /\ DayNumber(t) = MonthStart(t.y, t.m) + t.d
  <1>1. Elapsed[t.m] \in Int
    BY ElapsedType
  <1> QED BY <1>1 DEF DayNumber, MonthStart

\* Months start on a day.
LEMMA StartIsInt == \A y \in Int, m \in Month : MonthStart(y, m) \in Int
  BY ElapsedType DEF MonthStart

\* Within a year each month starts where the one before it ends.
LEMMA MonthFollows ==
  ASSUME NEW y \in Int, NEW m \in 1..11
  PROVE  MonthStart(y, m + 1) = MonthStart(y, m) + DaysInMonth(y, m)
  <1>1. m \in Month /\ m + 1 \in Month
    BY DEF Month
  <1>2. Elapsed[m + 1] = Elapsed[m] + DaysInMonth(1, m) /\ Elapsed[m] \in Int
    BY ElapsedSteps
  <1>3. DaysInMonth(1, 2) = 28
    BY DEF DaysInMonth, Leap
  <1>4. DaysInMonth(y, m) \in 28..31 /\ (m # 2 => DaysInMonth(y, m) = DaysInMonth(1, m))
    BY <1>1, MonthLengths
  <1>5. DaysInMonth(y, 2) = IF Leap(y) THEN 29 ELSE 28
    BY DEF DaysInMonth
  <1> DEFINE base == 365 * (y - 1) + (y - 1) \div 4 - (y - 1) \div 100 + (y - 1) \div 400
  <1>6. base \in Int
    OBVIOUS
  <1>7. /\ MonthStart(y, m) = base + Elapsed[m] + (IF m > 2 /\ Leap(y) THEN 1 ELSE 0)
        /\ MonthStart(y, m + 1) = base + Elapsed[m + 1] + (IF m + 1 > 2 /\ Leap(y) THEN 1 ELSE 0)
    BY DEF MonthStart
  <1> HIDE DEF base
  <1>8. CASE m = 2
    BY <1>2, <1>3, <1>5, <1>6, <1>7, <1>8
  <1>9. CASE m # 2
    BY <1>2, <1>4, <1>6, <1>7, <1>9
  <1> QED BY <1>8, <1>9

\* And a year starts where the year before it ends: every fourth year is one day
\* longer, but every hundredth is not, but every four hundredth is.
LEMMA YearFollows ==
  ASSUME NEW y \in Int
  PROVE  MonthStart(y + 1, 1) = MonthStart(y, 12) + DaysInMonth(y, 12)
  <1>1. MonthStart(y + 1, 1) = 365 * y + y \div 4 - y \div 100 + y \div 400
    BY ElapsedIs DEF MonthStart
  <1>2. MonthStart(y, 12) = 365 * (y - 1) + (y - 1) \div 4 - (y - 1) \div 100 + (y - 1) \div 400
                              + 334 + (IF Leap(y) THEN 1 ELSE 0)
    BY ElapsedIs DEF MonthStart
  <1>3. DaysInMonth(y, 12) = 31
    BY DEF DaysInMonth
  <1>4. y \div 4 = (y - 1) \div 4 + (IF y % 4 = 0 THEN 1 ELSE 0)
    OBVIOUS
  <1>5. y \div 100 = (y - 1) \div 100 + (IF y % 100 = 0 THEN 1 ELSE 0)
    OBVIOUS
  <1>6. y \div 400 = (y - 1) \div 400 + (IF y % 400 = 0 THEN 1 ELSE 0)
    OBVIOUS
  <1>7. y % 400 = 0 => y % 100 = 0
    OBVIOUS
  <1>8. y % 100 = 0 => y % 4 = 0
    OBVIOUS
  <1> DEFINE a == (y - 1) \div 4   b == (y - 1) \div 100   c == (y - 1) \div 400
             p == y % 4 = 0   q == y % 100 = 0   r == y % 400 = 0
  <1>9. /\ MonthStart(y + 1, 1) = 365 * y + (a + (IF p THEN 1 ELSE 0)) - (b + (IF q THEN 1 ELSE 0))
                                    + (c + (IF r THEN 1 ELSE 0))
        /\ MonthStart(y, 12) = 365 * (y - 1) + a - b + c + 334 + (IF Leap(y) THEN 1 ELSE 0)
        /\ Leap(y) <=> (p /\ (~q \/ r))
        /\ (r => q) /\ (q => p)
    BY <1>1, <1>2, <1>4, <1>5, <1>6, <1>7, <1>8 DEF Leap
  <1>10. a \in Int /\ b \in Int /\ c \in Int
    OBVIOUS
  <1> HIDE DEF a, b, c, p, q, r
  <1> QED BY <1>3, <1>9, <1>10

\* Later months start later.
LEMMA MonthsAreInOrder ==
  ASSUME NEW y \in Int, NEW m \in Month, NEW z \in Int, NEW n \in Month,
         y * 12 + m < z * 12 + n
  PROVE  MonthStart(y, m) + DaysInMonth(y, m) <= MonthStart(z, n)
  <1>1. DaysInMonth(y, m) \in 28..31
    BY MonthLengths
  <1>2. CASE y = z
    <2>1. m < n
      BY <1>2 DEF Month
    <2> DEFINE base == 365 * (y - 1) + (y - 1) \div 4 - (y - 1) \div 100 + (y - 1) \div 400
               leap == IF Leap(y) THEN 1 ELSE 0
    <2>2. \A k \in Month : MonthStart(y, k) = base + Elapsed[k] + (IF k > 2 THEN leap ELSE 0)
      BY DEF MonthStart
    <2>3. base \in Int /\ leap \in 0..1
      OBVIOUS
    <2> HIDE DEF base, leap
    <2>4. m \in 1..11 /\ m + 1 \in Month
      BY <2>1 DEF Month
    <2>5. MonthStart(y, m + 1) = MonthStart(y, m) + DaysInMonth(y, m)
      BY <2>4, MonthFollows
    <2>6. Elapsed[m + 1] <= Elapsed[n]
      <3>1. \A j, k \in {1, 2, 3, 4, 5, 6, 7, 8, 9, 10, 11, 12} : j <= k => Elapsed[j] <= Elapsed[k]
        BY ElapsedIs
      <3> QED BY <2>1, <2>4, <3>1 DEF Month
    <2>7. MonthStart(y, m + 1) <= MonthStart(y, n)
      <3>1. m + 1 <= n /\ m \in Int /\ n \in Int /\ Elapsed[m + 1] \in Int /\ Elapsed[n] \in Int
        <4>1. Elapsed[m + 1] \in Int /\ Elapsed[n] \in Int
          <5>1. \A k \in Month : Elapsed[k] \in Int
            BY ElapsedType
          <5> QED BY <2>4, <5>1
        <4> QED BY <2>1, <2>4, <4>1 DEF Month
      <3> QED BY <2>2, <2>3, <2>4, <2>6, <3>1
    <2> QED BY <1>2, <2>5, <2>7
  <1>3. CASE y < z
    <2>1. MonthStart(y, m) + DaysInMonth(y, m) <= MonthStart(y, 12) + DaysInMonth(y, 12)
      <3>1. CASE m = 12
        <4>1. MonthStart(y, m) \in Int
          BY StartIsInt
        <4> QED BY <1>1, <3>1, <4>1
      <3>2. CASE m # 12
        <4>1. m \in 1..11 /\ 12 \in Month
          BY <3>2 DEF Month
        <4> DEFINE base == 365 * (y - 1) + (y - 1) \div 4 - (y - 1) \div 100 + (y - 1) \div 400
                   leap == IF Leap(y) THEN 1 ELSE 0
        <4>2. \A k \in Month : MonthStart(y, k) = base + Elapsed[k] + (IF k > 2 THEN leap ELSE 0)
          BY DEF MonthStart
        <4>3. base \in Int /\ leap \in 0..1 /\ Elapsed[12] = 334 /\ Elapsed[m] \in Int
          BY ElapsedIs, ElapsedType
        <4> HIDE DEF base, leap
        <4>4. Elapsed[m] <= 304
          <5>1. \A j \in {1, 2, 3, 4, 5, 6, 7, 8, 9, 10, 11} : Elapsed[j] <= 304
            BY ElapsedIs
          <5> QED BY <4>1, <5>1
        <4>5. DaysInMonth(y, 12) = 31
          BY DEF DaysInMonth
        <4>6. MonthStart(y, m) <= base + Elapsed[m] + leap /\ MonthStart(y, 12) = base + 334 + leap
          BY <4>1, <4>2, <4>3 DEF Month
        <4>7. MonthStart(y, m) \in Int
          BY StartIsInt
        <4> QED BY <1>1, <4>3, <4>4, <4>5, <4>6, <4>7
      <3> QED BY <3>1, <3>2
    <2>2. MonthStart(y, 12) + DaysInMonth(y, 12) = MonthStart(y + 1, 1)
      BY YearFollows
    <2>3. MonthStart(y + 1, 1) <= MonthStart(z, 1)
      <3> DEFINE p == y   q == z - 1
      <3>1. /\ MonthStart(y + 1, 1) = 365 * p + p \div 4 - p \div 100 + p \div 400
            /\ MonthStart(z, 1) = 365 * q + q \div 4 - q \div 100 + q \div 400
        BY ElapsedIs DEF MonthStart
      <3>2. p \in Int /\ q \in Int /\ p <= q
        BY <1>3
      <3> HIDE DEF p, q
      <3>3. /\ 4 * (p \div 4) <= p /\ p < 4 * (p \div 4) + 4
            /\ 4 * (q \div 4) <= q /\ q < 4 * (q \div 4) + 4
            /\ 100 * (p \div 100) <= p /\ p < 100 * (p \div 100) + 100
            /\ 100 * (q \div 100) <= q /\ q < 100 * (q \div 100) + 100
            /\ 400 * (p \div 400) <= p /\ p < 400 * (p \div 400) + 400
            /\ 400 * (q \div 400) <= q /\ q < 400 * (q \div 400) + 400
        BY <3>2
      <3>4. CASE p = q
        BY <3>1, <3>2, <3>4
      <3>5. CASE p < q
        <4> DEFINE a == p \div 4  b == p \div 100  c == p \div 400
                   d == q \div 4  e == q \div 100  f == q \div 400
        <4>1. a \in Int /\ b \in Int /\ c \in Int /\ d \in Int /\ e \in Int /\ f \in Int
          BY <3>2
        <4>2. 365 * p + a - b + c <= 365 * q + d - e + f
          <5> HIDE DEF a, b, c, d, e, f
          <5>1. /\ 4 * a <= p /\ p < 4 * a + 4 /\ 4 * d <= q /\ q < 4 * d + 4
                /\ 100 * b <= p /\ p < 100 * b + 100 /\ 100 * e <= q /\ q < 100 * e + 100
                /\ 400 * c <= p /\ p < 400 * c + 400 /\ 400 * f <= q /\ q < 400 * f + 400
            BY <3>3 DEF a, b, c, d, e, f
          <5> QED BY <3>2, <3>5, <4>1, <5>1
        <4> QED BY <3>1, <4>2
      <3> QED BY <3>2, <3>4, <3>5
    <2>4. MonthStart(z, 1) <= MonthStart(z, n)
      <3> DEFINE base == 365 * (z - 1) + (z - 1) \div 4 - (z - 1) \div 100 + (z - 1) \div 400
      <3>1. base \in Int
        OBVIOUS
      <3>2. /\ MonthStart(z, 1) = base
            /\ MonthStart(z, n) = base + Elapsed[n] + (IF n > 2 /\ Leap(z) THEN 1 ELSE 0)
        BY ElapsedIs DEF MonthStart
      <3> HIDE DEF base
      <3>3. Elapsed[n] \in 0..334
        BY ElapsedType
      <3> QED BY <3>1, <3>2, <3>3
    <2>5. /\ MonthStart(y, m) \in Int /\ MonthStart(y, 12) \in Int /\ MonthStart(y + 1, 1) \in Int
          /\ MonthStart(z, 1) \in Int /\ MonthStart(z, n) \in Int /\ DaysInMonth(y, 12) \in Int
      BY StartIsInt DEF Month, DaysInMonth
    <2> QED BY <1>1, <2>1, <2>2, <2>3, <2>4, <2>5
  <1>4. ~(z < y)
    BY DEF Month
  <1> QED BY <1>2, <1>3, <1>4

\* The parts of a date are numbers.
LEMMA DateIsInt == ASSUME NEW t, IsDate(t) PROVE t.y \in Int /\ t.m \in Int /\ t.m \in Month /\ t.d \in Int /\ t.d \in 1..31
  <1>1. DaysInMonth(t.y, t.m) \in 28..31
    BY MonthLengths DEF IsDate, Month
  <1> QED BY <1>1 DEF IsDate, Month

\* addMonthsClamped goes to the month that is so many months away, and to its end at most.
LEMMA ClampedIs ==
  ASSUME NEW t, IsDate(t), NEW n \in Int
  PROVE  LET u == AddMonthsClamped(t, n)
         IN  /\ IsDate(u) /\ u.s = 0 /\ u = Instant(DateOf(u), 0) /\ u.y * 12 + u.m = t.y * 12 + t.m + n
             /\ u.d = IF t.d > DaysInMonth(u.y, u.m) THEN DaysInMonth(u.y, u.m) ELSE t.d
  <1> DEFINE total == t.y * 12 + t.m - 1 + n
             y == total \div 12
             m == (total % 12) + 1
             d == IF t.d < DaysInMonth(y, m) THEN t.d ELSE DaysInMonth(y, m)
  <1>1. t.y \in Int /\ t.m \in Int /\ t.d \in 1..31
    BY DateIsInt
  <1>2. total \in Int
    BY <1>1
  <1>3. y \in Int /\ m \in Month /\ y * 12 + m = total + 1
    <2> HIDE DEF total
    <2> QED BY <1>2 DEF Month
  <1>4. AddMonthsClamped(t, n) = [y |-> y, m |-> m, d |-> d, s |-> 0]
    BY DEF AddMonthsClamped, Instant
  <1>5. total + 1 = t.y * 12 + t.m + n
    BY <1>1
  <1>6. DaysInMonth(y, m) \in 28..31
    BY <1>3, MonthLengths
  <1> HIDE DEF total, y, m
  <1>7. d \in 1..DaysInMonth(y, m) /\ d = IF t.d > DaysInMonth(y, m) THEN DaysInMonth(y, m) ELSE t.d
    BY <1>1, <1>6
  <1> HIDE DEF d
  <1> QED BY <1>3, <1>4, <1>5, <1>7 DEF IsDate, Month, Instant, DateOf

\* Only the day counts.
LEMMA SameDaySameMonths ==
  ASSUME NEW t, NEW x, x.y = t.y, x.m = t.m, x.d = t.d, NEW n
  PROVE  AddMonthsClamped(x, n) = AddMonthsClamped(t, n)
  <1> DEFINE Goes(y, m, d) ==
               LET month == y * 12 + m - 1 + n
                   z == month \div 12
                   w == (month % 12) + 1
                   last == DaysInMonth(z, w)
               IN  Instant([y |-> z, m |-> w, d |-> IF d < last THEN d ELSE last], 0)
  <1>1. AddMonthsClamped(x, n) = Goes(x.y, x.m, x.d) /\ AddMonthsClamped(t, n) = Goes(t.y, t.m, t.d)
    BY DEF AddMonthsClamped
  <1> HIDE DEF Goes
  <1> QED BY <1>1

\* addMonthsIso gets to the same day, if its year can be read back.
LEMMA AddMonthsIs ==
  ASSUME NEW t, IsDate(t), NEW n \in Int
  PROVE  LET u == AddMonthsClamped(t, n)
         IN  AddMonths(t, n) = IF u.y \in FourDigits THEN DateOf(u) ELSE Unreadable
  <1> DEFINE total == t.y * 12 + (t.m - 1) + n
             y == total \div 12
             m == (total % 12) + 1
             d == IF t.d > DaysInMonth(y, m) THEN DaysInMonth(y, m) ELSE t.d
             e == IF t.d < DaysInMonth(y, m) THEN t.d ELSE DaysInMonth(y, m)
  <1>1. t.y \in Int /\ t.m \in Int /\ t.d \in 1..31
    BY DateIsInt
  <1>2. t.y * 12 + t.m - 1 + n = total /\ total \in Int
    BY <1>1
  <1>3. AddMonthsClamped(t, n) = [y |-> y, m |-> m, d |-> e, s |-> 0]
    <2> HIDE DEF total
    <2> QED BY <1>2 DEF AddMonthsClamped, Instant
  <1>4. AddMonths(t, n) = FmtIso([y |-> y, m |-> m, d |-> d])
    BY DEF AddMonths
  <1>5. y \in Int /\ m \in Month
    <2> HIDE DEF total
    <2> QED BY <1>2 DEF Month
  <1> HIDE DEF total, y, m
  <1>6. DaysInMonth(y, m) \in 28..31
    BY <1>5, MonthLengths
  <1>7. d = e
    BY <1>1, <1>6
  <1> HIDE DEF d, e
  <1> QED BY <1>3, <1>4, <1>7 DEF FmtIso, DateOf

\* Days are ordered like their dates.
LEMMA LaterMonthLaterDay ==
  ASSUME NEW t, IsDate(t), NEW u, IsDate(u), t.y * 12 + t.m < u.y * 12 + u.m
  PROVE  DayNumber(t) < DayNumber(u)
  <1>1. MonthStart(t.y, t.m) + DaysInMonth(t.y, t.m) <= MonthStart(u.y, u.m)
    BY MonthsAreInOrder, DateIsInt
  <1>2. /\ DayNumber(t) = MonthStart(t.y, t.m) + t.d /\ MonthStart(t.y, t.m) \in Int
        /\ DayNumber(u) = MonthStart(u.y, u.m) + u.d /\ MonthStart(u.y, u.m) \in Int
    BY DayIs, DateIsInt
  <1>3. t.d \in 1..DaysInMonth(t.y, t.m) /\ u.d \in Int /\ u.d >= 1 /\ DaysInMonth(t.y, t.m) \in Int
    <2>1. DaysInMonth(t.y, t.m) \in Int
      BY MonthLengths DEF IsDate, Month
    <2> QED BY <2>1, DateIsInt DEF IsDate, Month
  <1> QED BY <1>1, <1>2, <1>3

\* In one month, the days count.
LEMMA SameMonthIs ==
  ASSUME NEW t, IsDate(t), NEW u, IsDate(u), t.y * 12 + t.m = u.y * 12 + u.m
  PROVE  /\ t.y = u.y /\ t.m = u.m
         /\ DayNumber(t) \in Int /\ DayNumber(u) \in Int
         /\ DayNumber(u) - DayNumber(t) = u.d - t.d
  <1>1. t.y = u.y /\ t.m = u.m
    BY DateIsInt DEF Month
  <1>2. /\ DayNumber(t) = MonthStart(t.y, t.m) + t.d /\ MonthStart(t.y, t.m) \in Int
        /\ DayNumber(u) = MonthStart(u.y, u.m) + u.d /\ MonthStart(u.y, u.m) \in Int
    BY DayIs, DateIsInt
  <1> QED BY <1>1, <1>2, DateIsInt

\* The month after next of twelve is in the next year.
LEMMA NextMonthIs ==
  ASSUME NEW t, IsDate(t), NEW u, IsDate(u), t.y * 12 + t.m + 1 = u.y * 12 + u.m
  PROVE  /\ DayNumber(t) \in Int /\ DayNumber(u) \in Int
         /\ DayNumber(u) - DayNumber(t) = DaysInMonth(t.y, t.m) - t.d + u.d
  <1>0. /\ t.y \in Int /\ t.m \in Int /\ 1 <= t.m /\ t.m <= 12 /\ t.d \in Int
        /\ u.y \in Int /\ u.m \in Int /\ 1 <= u.m /\ u.m <= 12 /\ u.d \in Int
    BY DateIsInt DEF Month
  <1>1. \/ u.y = t.y /\ u.m = t.m + 1 /\ t.m \in 1..11
        \/ u.y = t.y + 1 /\ u.m = 1 /\ t.m = 12
    <2> DEFINE ty == t.y  tm == t.m  uy == u.y  um == u.m
    <2>1. ty \in Int /\ tm \in Int /\ uy \in Int /\ um \in Int /\ 1 <= tm /\ tm <= 12 /\ 1 <= um /\ um <= 12
      BY <1>0
    <2>2. ty * 12 + tm + 1 = uy * 12 + um
      OBVIOUS
    <2> HIDE DEF ty, tm, uy, um
    <2>3. CASE tm = 12
      <3>1. (ty + 1) * 12 + 1 = uy * 12 + um
        BY <2>1, <2>2, <2>3
      <3>2. uy = ty + 1 /\ um = 1
        BY <2>1, <3>1
      <3> QED BY <2>3, <3>2 DEF ty, tm, uy, um
    <2>4. CASE tm < 12
      <3>1. ty = uy /\ um = tm + 1 /\ tm \in 1..11
        BY <2>1, <2>2, <2>4
      <3> QED BY <3>1 DEF ty, tm, uy, um
    <2> QED BY <2>1, <2>3, <2>4
  <1>2. MonthStart(u.y, u.m) = MonthStart(t.y, t.m) + DaysInMonth(t.y, t.m)
    BY <1>0, <1>1, MonthFollows, YearFollows
  <1>3. /\ DayNumber(t) = MonthStart(t.y, t.m) + t.d /\ MonthStart(t.y, t.m) \in Int
        /\ DayNumber(u) = MonthStart(u.y, u.m) + u.d /\ MonthStart(u.y, u.m) \in Int
    BY DayIs, DateIsInt
  <1>4. DaysInMonth(t.y, t.m) \in Int
    BY MonthLengths DEF IsDate, Month
  <1> QED BY <1>0, <1>2, <1>3, <1>4

\* A date has a day number.
LEMMA DayIsInt == ASSUME NEW t, IsDate(t) PROVE DayNumber(t) \in Int
  BY DayIs, DateIsInt

\* An instant is a date with a time.
LEMMA InstantIs ==
  ASSUME NEW t, IsDate(t)
  PROVE  IsInstant(Instant(t, 0)) /\ DayNumber(Instant(t, 0)) = DayNumber(t)
  BY DEF Instant, IsInstant, IsDate, DayNumber

\* The span between two instants is so many whole months and fewer days than
\* would make another one, and it ends where it should (calendarDelta).  Of a year
\* below 100 Date.UTC makes one of the 20th century; no such date is published.
THEOREM SpansAreExact ==
  ASSUME NEW a, NEW b, IsInstant(a), IsInstant(b), ~Before(b, a)
  PROVE  LET c == CalendarDelta(a, b)
             n == c.years * 12 + c.months
         IN  /\ n \in Nat /\ c.days \in 0..30
             /\ DayNumber(AddMonthsClamped(a, n)) + c.days = DayNumber(b)
  <1> DEFINE apart == MonthsApart(a, b)
             back == apart > 0 /\ Before(b, AddMonthsClamped(a, apart))
             months == IF back THEN apart - 1 ELSE apart
             days == IF months <= 0 THEN DayDelta(a, b) ELSE DayDelta(AddMonthsClamped(a, months), b)
             e(n) == AddMonthsClamped(a, n)
  <1>0. IsDate(a) /\ IsDate(b) /\ a.s \in 0..1 /\ b.s \in 0..1
    BY DEF IsInstant, Instant
  <1>1. /\ a.y \in Int /\ a.m \in Int /\ a.d \in 1..31 /\ b.y \in Int /\ b.m \in Int /\ b.d \in 1..31
        /\ DayNumber(a) \in Int /\ DayNumber(b) \in Int
    BY <1>0, DateIsInt, DayIsInt
  <1>2. DayNumber(a) <= DayNumber(b)
    BY <1>0, <1>1 DEF Before
  <1>3. apart \in Nat /\ a.y * 12 + a.m + apart = b.y * 12 + b.m
    <2>1. ~(b.y * 12 + b.m < a.y * 12 + a.m)
      BY <1>0, <1>1, <1>2, LaterMonthLaterDay
    <2> QED BY <1>1, <2>1 DEF MonthsApart
  <1>4. CalendarDelta(a, b) = [years |-> months \div 12, months |-> months % 12, days |-> days]
    BY DEF CalendarDelta, Delta
  <1> HIDE DEF apart
  <1>5. months \in Nat
    BY <1>3
  <1> DEFINE Clamped(n) ==
               /\ IsDate(e(n)) /\ DayNumber(AddMonthsClamped(a, n)) = DayNumber(e(n))
               /\ AddMonthsClamped(a, n).s = 0
               /\ e(n).y * 12 + e(n).m = a.y * 12 + a.m + n
               /\ e(n).d = IF a.d > DaysInMonth(e(n).y, e(n).m) THEN DaysInMonth(e(n).y, e(n).m) ELSE a.d
               /\ DayNumber(e(n)) \in Int /\ DaysInMonth(e(n).y, e(n).m) \in 28..31 /\ e(n).d \in 1..31
  <1>6. ASSUME NEW n \in Int PROVE Clamped(n)
    <2>1. /\ IsDate(e(n)) /\ e(n).s = 0 /\ e(n).y * 12 + e(n).m = a.y * 12 + a.m + n
          /\ e(n).d = IF a.d > DaysInMonth(e(n).y, e(n).m) THEN DaysInMonth(e(n).y, e(n).m) ELSE a.d
      BY <1>0, ClampedIs
    <2> HIDE DEF e
    <2>2. /\ DayNumber(e(n)) \in Int /\ DaysInMonth(e(n).y, e(n).m) \in 28..31 /\ e(n).d \in 1..31
      BY <2>1, DayIsInt, DateIsInt, MonthLengths DEF IsDate, Month
    <2>3. AddMonthsClamped(a, n) = e(n)
      BY DEF e
    <2>4. DayNumber(AddMonthsClamped(a, n)) = DayNumber(e(n)) /\ AddMonthsClamped(a, n).s = 0
      BY <2>1, <2>3
    <2> QED BY <2>1, <2>2, <2>4
  <1> HIDE DEF e
  <1>7. Clamped(0) /\ Clamped(apart) /\ Clamped(apart - 1) /\ Clamped(months)
    <2>1. 0 \in Int /\ apart \in Int /\ apart - 1 \in Int /\ months \in Int
      BY <1>3, <1>5
    <2> HIDE DEF Clamped, months
    <2> QED BY <1>6, <2>1
  <1>8. days = DayNumber(b) - DayNumber(e(months))
    <2>1. CASE months = 0
      <3>1. e(0).y * 12 + e(0).m = a.y * 12 + a.m
        BY <1>1, <1>7
      <3>2. DayNumber(e(0)) - DayNumber(a) = e(0).d - a.d /\ e(0).y = a.y /\ e(0).m = a.m
        <4>1. IsDate(e(0))
          BY <1>7
        <4> QED BY <1>0, <3>1, <4>1, SameMonthIs
      <3>3. a.d <= DaysInMonth(a.y, a.m) /\ DaysInMonth(a.y, a.m) \in 28..31
        BY <1>0, MonthLengths DEF IsDate, Month
      <3>4. e(0).d = a.d
        BY <1>1, <1>7, <3>2, <3>3
      <3>5. DayNumber(e(0)) = DayNumber(a)
        BY <1>1, <1>7, <3>2, <3>4
      <3> QED BY <2>1, <3>5 DEF DayDelta
    <2>2. CASE months # 0
      <3>1. ~(months <= 0)
        <4> HIDE DEF months
        <4> QED BY <1>5, <2>2
      <3>2. days = DayDelta(AddMonthsClamped(a, months), b)
        BY <3>1
      <3> QED BY <1>7, <3>2 DEF DayDelta
    <2> QED BY <2>1, <2>2
  <1>9. b.d \in 1..DaysInMonth(b.y, b.m) /\ DaysInMonth(b.y, b.m) \in 28..31
    BY <1>0, MonthLengths DEF IsDate, Month
  <1>10. IsDate(e(apart)) /\ e(apart).y * 12 + e(apart).m = b.y * 12 + b.m
    BY <1>3, <1>7
  <1>11. DayNumber(b) - DayNumber(e(apart)) = b.d - e(apart).d /\ b.y = e(apart).y /\ b.m = e(apart).m
    BY <1>0, <1>10, SameMonthIs
  <1>12. ASSUME ~back PROVE days \in 0..30
    <2>1. months = apart
      BY <1>12
    <2>2. DayNumber(b) >= DayNumber(e(apart))
      <3>1. CASE apart > 0
        <4>1. ~Before(b, AddMonthsClamped(a, apart))
          BY <1>12, <3>1
        <4> QED BY <1>1, <1>7, <4>1 DEF Before
      <3>2. CASE apart = 0
        BY <1>1, <1>2, <1>7, <1>8, <2>1, <3>2 DEF DayDelta
      <3> QED BY <1>3, <3>1, <3>2
    <2>3. e(apart).d \in 1..31 /\ DayNumber(e(apart)) \in Int
      BY <1>7
    <2>4. days = b.d - e(apart).d
      BY <1>8, <1>11, <2>1
    <2>5. days >= 0
      BY <1>1, <1>11, <2>2, <2>3, <2>4
    <2> HIDE DEF days
    <2> QED BY <1>1, <2>3, <2>4, <2>5
  <1>13. ASSUME back PROVE days \in 0..30
    <2>1. months = apart - 1
      BY <1>13
    <2>2. DayNumber(b) <= DayNumber(e(apart)) /\ (DayNumber(b) = DayNumber(e(apart)) => b.s < 0)
      <3>1. Before(b, AddMonthsClamped(a, apart))
        BY <1>13
      <3> QED BY <1>1, <1>7, <3>1 DEF Before
    <2>3. DayNumber(e(apart)) \in Int /\ e(apart).d \in 1..31
      BY <1>7
    <2>4. DayNumber(b) < DayNumber(e(apart))
      BY <1>0, <1>1, <2>2, <2>3
    <2>5. b.d < e(apart).d
      BY <1>1, <1>11, <2>3, <2>4
    <2> DEFINE p == e(apart - 1)
    <2>6. /\ IsDate(p) /\ p.y * 12 + p.m = a.y * 12 + a.m + (apart - 1)
          /\ p.d = IF a.d > DaysInMonth(p.y, p.m) THEN DaysInMonth(p.y, p.m) ELSE a.d
          /\ p.d \in 1..31 /\ DaysInMonth(p.y, p.m) \in 28..31
      BY <1>7
    <2>7. e(apart).d <= a.d
      <3>1. /\ e(apart).d = IF a.d > DaysInMonth(b.y, b.m) THEN DaysInMonth(b.y, b.m) ELSE a.d
        BY <1>7, <1>11
      <3> QED BY <1>1, <1>9, <2>3, <3>1
    <2> HIDE DEF p
    <2>8. p.y * 12 + p.m + 1 = b.y * 12 + b.m
      <3>1. p.y \in Int /\ p.m \in Int
        BY <2>6, DateIsInt
      <3>2. /\ p.y * 12 + p.m = a.y * 12 + a.m + (apart - 1)
            /\ a.y * 12 + a.m + apart = b.y * 12 + b.m
        BY <1>3, <2>6
      <3>3. a.y * 12 + a.m \in Int /\ p.y * 12 + p.m \in Int /\ apart \in Int
        BY <1>1, <1>3, <3>1
      <3> QED BY <3>2, <3>3
    <2>9. DayNumber(b) - DayNumber(p) = DaysInMonth(p.y, p.m) - p.d + b.d
      BY <1>0, <2>6, <2>8, NextMonthIs
    <2>10. days = DaysInMonth(p.y, p.m) - p.d + b.d
      BY <1>8, <2>1, <2>9 DEF p
    <2> HIDE DEF days, months
    <2>11. CASE a.d > DaysInMonth(p.y, p.m)
      BY <1>1, <2>3, <2>5, <2>6, <2>10, <2>11
    <2>12. CASE a.d <= DaysInMonth(p.y, p.m)
      BY <1>1, <2>3, <2>5, <2>6, <2>7, <2>10, <2>12
    <2> QED BY <1>1, <2>6, <2>11, <2>12
  <1>14. days \in 0..30
    BY <1>12, <1>13
  <1>15. DayNumber(e(months)) \in Int
    BY <1>7
  <1> HIDE DEF months, days
  <1>16. (months \div 12) * 12 + (months % 12) = months
    <2>1. months \in Int
      BY <1>5
    <2> QED BY <2>1
  <1>17. DayNumber(e(months)) + days = DayNumber(b)
    BY <1>1, <1>8, <1>15
  <1> QED BY <1>4, <1>5, <1>14, <1>16, <1>17 DEF e

\* A date so many months away is so many months away by the calendar of the
\* answer, up to the days that clamping takes.
LEMMA MonthsAreGivenBack ==
  ASSUME NEW t, IsDate(t), NEW n \in Int
  PROVE  LET at == Instant(t, 0)
             e == AddMonthsClamped(t, n)
             c == IF Before(e, at) THEN CalendarDelta(e, at) ELSE CalendarDelta(at, e)
         IN  c.years * 12 + c.months = (IF n < 0 THEN -n ELSE n) /\ c.days \in 0..3
  <1> DEFINE at == Instant(t, 0)
             u == AddMonthsClamped(t, n)
             e == u
             c == IF Before(e, at) THEN CalendarDelta(e, at) ELSE CalendarDelta(at, e)
  <1>1. /\ t.y \in Int /\ t.m \in Int /\ t.m \in Month /\ t.d \in 1..31
        /\ t.d <= DaysInMonth(t.y, t.m) /\ DaysInMonth(t.y, t.m) \in 28..31
    <2>1. DaysInMonth(t.y, t.m) \in 28..31
      BY MonthLengths DEF IsDate, Month
    <2> QED BY <2>1, DateIsInt DEF IsDate, Month
  <1>2. /\ IsDate(u) /\ u.s = 0 /\ u = Instant(DateOf(u), 0) /\ u.y * 12 + u.m = t.y * 12 + t.m + n
        /\ u.d = IF t.d > DaysInMonth(u.y, u.m) THEN DaysInMonth(u.y, u.m) ELSE t.d
    BY ClampedIs
  <1> HIDE DEF u
  <1>3. u.y \in Int /\ u.m \in Int /\ u.m \in Month /\ u.d \in 1..31 /\ DaysInMonth(u.y, u.m) \in 28..31
    BY <1>2, DateIsInt, MonthLengths
  <1>4. /\ at.y = t.y /\ at.m = t.m /\ at.d = t.d /\ at.s = 0
        /\ e.y = u.y /\ e.m = u.m /\ e.d = u.d /\ e.s = 0
        /\ DayNumber(at) = DayNumber(t) /\ DayNumber(e) = DayNumber(u)
        /\ DayNumber(t) \in Int /\ DayNumber(u) \in Int
        /\ IsDate(at) /\ IsDate(e) /\ IsInstant(at) /\ IsInstant(e)
    <2>1. /\ at.y = t.y /\ at.m = t.m /\ at.d = t.d /\ at.s = 0
          /\ e.y = u.y /\ e.m = u.m /\ e.d = u.d /\ e.s = 0
      BY <1>2 DEF Instant
    <2>2. IsInstant(at) /\ DayNumber(at) = DayNumber(t) /\ IsInstant(e) /\ DayNumber(e) = DayNumber(u)
      <3>1. IsInstant(u)
        BY <1>2 DEF IsInstant, Instant, DateOf
      <3> QED BY <3>1, InstantIs
    <2>3. DayNumber(t) \in Int /\ DayNumber(u) \in Int
      BY <1>2, DayIsInt
    <2> QED BY <2>1, <2>2, <2>3 DEF IsInstant, Instant
  <1>5. ASSUME n >= 0
        PROVE  c.years * 12 + c.months = (IF n < 0 THEN -n ELSE n) /\ c.days \in 0..3
    <2>1. DayNumber(t) <= DayNumber(u)
      <3>1. CASE n > 0
        <4>1. t.y * 12 + t.m < u.y * 12 + u.m
          BY <1>1, <1>2, <1>3, <3>1
        <4>2. DayNumber(t) < DayNumber(u)
          BY <1>2, <4>1, LaterMonthLaterDay
        <4> QED BY <1>4, <4>2
      <3>2. CASE n = 0
        <4>1. t.y * 12 + t.m = u.y * 12 + u.m
          BY <1>1, <1>2, <1>3, <3>2
        <4>2. DayNumber(u) - DayNumber(t) = u.d - t.d /\ t.y = u.y /\ t.m = u.m
          BY <1>2, <4>1, SameMonthIs
        <4>3. u.d = t.d
          BY <1>1, <1>2, <4>2
        <4> QED BY <1>3, <1>4, <4>2, <4>3
      <3> QED BY <1>5, <3>1, <3>2
    <2>2. ~Before(e, at)
      BY <1>4, <2>1 DEF Before
    <2>3. c = Delta(at, e)
      BY <2>2 DEF CalendarDelta
    <2>4. MonthsApart(at, e) = n
      <3>1. (u.y - t.y) * 12 + (u.m - t.m) = n
        <4> DEFINE p == t.y   q == t.m   r == u.y   k == u.m
        <4>1. p \in Int /\ q \in Int /\ r \in Int /\ k \in Int /\ r * 12 + k = p * 12 + q + n
          BY <1>1, <1>2, <1>3
        <4> HIDE DEF p, q, r, k
        <4>2. (r - p) * 12 + (k - q) = n
          BY <4>1
        <4> QED BY <4>2 DEF p, q, r, k
      <3> QED BY <1>4, <3>1 DEF MonthsApart
    <2>5. AddMonthsClamped(at, n) = u
      BY <1>4, SameDaySameMonths DEF u
    <2>6. ~Before(e, AddMonthsClamped(at, n))
      <3>1. AddMonthsClamped(at, n) = e
        BY <2>5
      <3> QED BY <1>4, <3>1 DEF Before
    <2>7. c.years = n \div 12 /\ c.months = n % 12
          /\ c.days = IF n <= 0 THEN DayDelta(at, e) ELSE DayDelta(e, e)
      BY <2>3, <2>4, <2>5, <2>6 DEF Delta
    <2>8. (n \div 12) * 12 + (n % 12) = n
      OBVIOUS
    <2>9. DayDelta(e, e) = 0
      BY <1>4 DEF DayDelta
    <2>10. n = 0 => DayDelta(at, e) = 0
      <3> SUFFICES ASSUME n = 0 PROVE DayDelta(at, e) = 0
        OBVIOUS
      <3>1. t.y * 12 + t.m = u.y * 12 + u.m
        BY <1>1, <1>2, <1>3
      <3>2. DayNumber(u) - DayNumber(t) = u.d - t.d /\ t.y = u.y /\ t.m = u.m
        BY <1>2, <3>1, SameMonthIs
      <3>3. u.d = t.d
        BY <1>1, <1>2, <3>2
      <3> QED BY <1>3, <1>4, <3>2, <3>3 DEF DayDelta
    <2>11. c.days = 0
      BY <1>5, <2>7, <2>9, <2>10
    <2> HIDE DEF c
    <2>12. c.years * 12 + c.months = n
      BY <2>7, <2>8
    <2>13. c.years * 12 + c.months = (IF n < 0 THEN -n ELSE n) /\ c.days \in 0..3
      BY <1>5, <2>11, <2>12
    <2> QED BY <2>13
  <1>6. ASSUME n < 0
        PROVE  c.years * 12 + c.months = (IF n < 0 THEN -n ELSE n) /\ c.days \in 0..3
    <2>1. DayNumber(u) < DayNumber(t)
      <3>1. u.y * 12 + u.m < t.y * 12 + t.m
        BY <1>1, <1>2, <1>3, <1>6
      <3> QED BY <1>2, <3>1, LaterMonthLaterDay
    <2>2. Before(e, at) /\ ~Before(at, e)
      BY <1>4, <2>1 DEF Before
    <2>3. c = Delta(e, at)
      BY <2>2 DEF CalendarDelta
    <2>4. MonthsApart(e, at) = -n /\ -n > 0
      <3>1. (t.y - u.y) * 12 + (t.m - u.m) = -n
        <4>1. t.y \in Int /\ t.m \in Int /\ u.y \in Int /\ u.m \in Int
          BY <1>1, <1>3
        <4>2. u.y * 12 + u.m = t.y * 12 + t.m + n
          BY <1>2
        <4> DEFINE p == t.y   q == t.m   r == u.y   s == u.m
        <4>3. p \in Int /\ q \in Int /\ r \in Int /\ s \in Int /\ r * 12 + s = p * 12 + q + n
          BY <4>1, <4>2
        <4> HIDE DEF p, q, r, s
        <4>4. (p - r) * 12 + (q - s) = -n
          BY <4>3
        <4> QED BY <4>4 DEF p, q, r, s
      <3> QED BY <1>4, <1>6, <3>1 DEF MonthsApart
    <2> DEFINE w == AddMonthsClamped(e, -n)
    <2>5. /\ IsDate(w) /\ w.s = 0 /\ w.y * 12 + w.m = u.y * 12 + u.m + (-n)
          /\ w.d = IF u.d > DaysInMonth(w.y, w.m) THEN DaysInMonth(w.y, w.m) ELSE u.d
      <3>1. -n \in Int
        OBVIOUS
      <3>2. /\ IsDate(w) /\ w.s = 0 /\ w.y * 12 + w.m = e.y * 12 + e.m + (-n)
            /\ w.d = IF e.d > DaysInMonth(w.y, w.m) THEN DaysInMonth(w.y, w.m) ELSE e.d
        <4> HIDE DEF e
        <4> QED BY <1>4, <3>1, ClampedIs DEF w
      <3> QED BY <1>4, <3>2
    <2> HIDE DEF w
    <2>6. w.y \in Int /\ w.m \in Int /\ w.d \in 1..31
      BY <2>5, DateIsInt
    <2>7. w.y * 12 + w.m = t.y * 12 + t.m
      BY <1>1, <1>2, <1>3, <2>5, <2>6
    <2>8. /\ w.y = t.y /\ w.m = t.m /\ DayNumber(w) \in Int
          /\ DayNumber(t) - DayNumber(w) = t.d - w.d
      BY <2>5, <2>7, SameMonthIs
    <2>9. u.d <= t.d /\ t.d - u.d <= 3
      BY <1>1, <1>2, <1>3
    <2>10. w.d = u.d
      BY <1>1, <1>3, <2>5, <2>8, <2>9
    <2>11. DayNumber(AddMonthsClamped(e, -n)) = DayNumber(w) /\ AddMonthsClamped(e, -n).s = 0
      BY <2>5 DEF w
    <2>12. ~Before(at, AddMonthsClamped(e, -n))
      <3>1. DayNumber(w) <= DayNumber(t)
        BY <1>1, <1>3, <1>4, <2>6, <2>8, <2>9, <2>10
      <3> QED BY <1>4, <2>8, <2>11, <3>1 DEF Before
    <2>13. -n \in Int /\ ~(-n <= 0)
      BY <1>6
    <2>14. c.years = (-n) \div 12 /\ c.months = (-n) % 12 /\ c.days = DayDelta(AddMonthsClamped(e, -n), at)
      BY <2>3, <2>4, <2>12, <2>13 DEF Delta
    <2>15. ((-n) \div 12) * 12 + ((-n) % 12) = -n
      OBVIOUS
    <2>16. c.days = t.d - u.d
      BY <1>4, <2>8, <2>10, <2>11, <2>14 DEF DayDelta
    <2> HIDE DEF c
    <2>17. c.years * 12 + c.months = -n /\ c.days \in 0..3
      BY <1>1, <1>3, <2>9, <2>14, <2>15, <2>16
    <2>18. c.years * 12 + c.months = (IF n < 0 THEN -n ELSE n) /\ c.days \in 0..3
      BY <1>6, <2>17
    <2> QED BY <2>18
  <1>7. n >= 0 \/ n < 0
    OBVIOUS
  <1>8. c.years * 12 + c.months = (IF n < 0 THEN -n ELSE n) /\ c.days \in 0..3
    BY <1>5, <1>6, <1>7
  <1> QED BY <1>8 DEF u

YearStart(y) == MonthStart(y, 1)

\* A year starts 365 or 366 days after the one before it.
LEMMA YearLengths ==
  ASSUME NEW y \in Int
  PROVE  /\ YearStart(y) \in Int
         /\ YearStart(y + 1) - YearStart(y) \in 365..366
         /\ YearStart(y + 1) = MonthStart(y, 12) + DaysInMonth(y, 12)
  <1> DEFINE base == 365 * (y - 1) + (y - 1) \div 4 - (y - 1) \div 100 + (y - 1) \div 400
  <1>1. base \in Int
    OBVIOUS
  <1>2. /\ YearStart(y) = base
        /\ MonthStart(y, 12) = base + 334 + (IF Leap(y) THEN 1 ELSE 0)
    BY ElapsedIs DEF MonthStart, YearStart
  <1>3. YearStart(y + 1) = MonthStart(y, 12) + DaysInMonth(y, 12)
    BY YearFollows DEF YearStart
  <1>4. DaysInMonth(y, 12) = 31
    BY DEF DaysInMonth
  <1> HIDE DEF base
  <1> QED BY <1>1, <1>2, <1>3, <1>4

\* A day of a year is a day of one of its months.
LEMMA DayIsInAMonth ==
  ASSUME NEW y \in Int, NEW k \in Int, YearStart(y) < k, k <= YearStart(y + 1)
  PROVE  \E m \in Month : MonthStart(y, m) < k /\ k <= MonthStart(y, m) + DaysInMonth(y, m)
  <1> SUFFICES ASSUME \A m \in Month : ~(MonthStart(y, m) < k /\ k <= MonthStart(y, m) + DaysInMonth(y, m))
               PROVE  FALSE
    OBVIOUS
  <1>1. \A m \in Month : MonthStart(y, m) \in Int /\ DaysInMonth(y, m) \in Int
    BY StartIsInt, MonthLengths
  <1>2. ASSUME NEW m \in 1..11, MonthStart(y, m) < k PROVE MonthStart(y, m + 1) < k
    <2>1. m \in Month
      BY DEF Month
    <2>2. MonthStart(y, m + 1) = MonthStart(y, m) + DaysInMonth(y, m)
      BY MonthFollows
    <2>3. ~(k <= MonthStart(y, m) + DaysInMonth(y, m)) /\ MonthStart(y, m) \in Int /\ DaysInMonth(y, m) \in Int
      BY <1>1, <1>2, <2>1
    <2> QED BY <2>2, <2>3
  <1>3. \A m \in 1..11 : MonthStart(y, m) < k => MonthStart(y, m + 1) < k
    BY <1>2
  <1>4. MonthStart(y, 1) < k
    BY DEF YearStart
  <1>5. MonthStart(y, 2) < k
    BY <1>3, <1>4
  <1>6. MonthStart(y, 3) < k
    BY <1>3, <1>5
  <1>7. MonthStart(y, 4) < k
    BY <1>3, <1>6
  <1>8. MonthStart(y, 5) < k
    BY <1>3, <1>7
  <1>9. MonthStart(y, 6) < k
    BY <1>3, <1>8
  <1>10. MonthStart(y, 7) < k
    BY <1>3, <1>9
  <1>11. MonthStart(y, 8) < k
    BY <1>3, <1>10
  <1>12. MonthStart(y, 9) < k
    BY <1>3, <1>11
  <1>13. MonthStart(y, 10) < k
    BY <1>3, <1>12
  <1>14. MonthStart(y, 11) < k
    BY <1>3, <1>13
  <1>15. MonthStart(y, 12) < k
    BY <1>3, <1>14
  <1>16. k <= MonthStart(y, 12) + DaysInMonth(y, 12)
    BY YearLengths
  <1> QED BY <1>15, <1>16 DEF Month

\* So many years are at least so many times 365 days.
LEMMA YearsAreLong ==
  ASSUME NEW y \in Int, NEW r \in Nat
  PROVE  YearStart(y) \in Int /\ YearStart(y + r) \in Int /\ YearStart(y) + 365 * r <= YearStart(y + r)
  <1> DEFINE H == {k \in 0..r : YearStart(y) + 365 * k <= YearStart(y + k)}
  <1>1. \A z \in Int : YearStart(z) \in Int /\ YearStart(z + 1) - YearStart(z) \in 365..366
    BY YearLengths
  <1>2. 0 \in H
    <2>1. y + 0 = y
      OBVIOUS
    <2> QED BY <1>1, <2>1
  <1>3. ASSUME NEW k \in 1..r, k - 1 \in H PROVE k \in H
    <2>1. y + (k - 1) \in Int /\ (y + (k - 1)) + 1 = y + k
      OBVIOUS
    <2>2. /\ YearStart(y + (k - 1)) \in Int /\ YearStart(y) \in Int /\ YearStart(y + k) \in Int
          /\ YearStart(y + k) - YearStart(y + (k - 1)) \in 365..366
      BY <1>1, <2>1
    <2>3. YearStart(y) + 365 * (k - 1) <= YearStart(y + (k - 1))
      BY <1>3
    <2>4. YearStart(y) + 365 * k <= YearStart(y + k)
      BY <2>2, <2>3
    <2> QED BY <2>4
  <1>4. \A k \in 1..r : k - 1 \in H => k \in H
    <2> HIDE DEF H
    <2> QED BY <1>3
  <1>5. r \in H
    <2> HIDE DEF H
    <2>1. \A k \in 0..r : k \in H
      BY <1>2, <1>4, UpTo
    <2> QED BY <2>1
  <1> QED BY <1>1, <1>5

\* addDaysIso finds the day that is so many days away, whatever its year.
LEMMA DayIsFound ==
  ASSUME NEW t, IsDate(t), NEW n \in Int
  PROVE  \E u : IsDate(u) /\ DayNumber(u) = DayNumber(t) + n /\ AddDays(t, n) = FmtIso(u)
  <1> DEFINE reach == (IF n < 0 THEN -n ELSE n) \div 365 + 1
             S == [y : t.y - reach..t.y + reach, m : 1..12, d : 1..31]
             k == DayNumber(t) + n
             Y == t.y
  <1>1. Y \in Int /\ t.m \in Month /\ t.d \in 1..DaysInMonth(Y, t.m) /\ DayNumber(t) \in Int /\ k \in Int
    BY DateIsInt, DayIsInt DEF IsDate, Month
  <1>r. reach \in Nat /\ reach > 0 /\ n < 365 * reach /\ -n < 365 * reach
    OBVIOUS
  <1> HIDE DEF reach
  <1>2. /\ YearStart(Y) \in Int /\ YearStart(Y + 1) \in Int
        /\ YearStart(Y + 1) - YearStart(Y) \in 365..366
    <2> HIDE DEF Y
    <2>1. Y + 1 \in Int
      BY <1>1
    <2> QED BY <1>1, <2>1, YearLengths
  <1>3. YearStart(Y) < DayNumber(t) /\ DayNumber(t) <= YearStart(Y + 1)
    <2>1. DayNumber(t) = MonthStart(Y, t.m) + t.d /\ MonthStart(Y, t.m) \in Int /\ t.d \in Int
      BY DayIs, DateIsInt
    <2>2. DaysInMonth(Y, t.m) \in 28..31 /\ DaysInMonth(Y, 1) \in 28..31 /\ DaysInMonth(Y, 12) \in 28..31
      BY <1>1, MonthLengths DEF Month
    <2>3. MonthStart(Y, 1) <= MonthStart(Y, t.m)
      <3>1. CASE t.m = 1
        BY <2>1, <3>1
      <3>2. CASE t.m # 1
        <4>1. Y * 12 + 1 < Y * 12 + t.m /\ 1 \in Month
          BY <1>1, <3>2 DEF Month
        <4>2. MonthStart(Y, 1) + DaysInMonth(Y, 1) <= MonthStart(Y, t.m)
          BY <1>1, <4>1, MonthsAreInOrder
        <4> QED BY <1>2, <2>1, <2>2, <4>2 DEF YearStart
      <3> QED BY <3>1, <3>2
    <2>4. MonthStart(Y, t.m) + DaysInMonth(Y, t.m) <= YearStart(Y + 1)
      <3>1. Y + 1 \in Int /\ 1 \in Month /\ Y * 12 + t.m < (Y + 1) * 12 + 1
        BY <1>1 DEF Month
      <3> QED BY <1>1, <3>1, MonthsAreInOrder DEF YearStart
    <2> QED BY <1>1, <1>2, <2>1, <2>2, <2>3, <2>4 DEF YearStart
  <1>4. \E y \in Y - reach..Y + reach : YearStart(y) < k /\ k <= YearStart(y + 1)
    <2> HIDE DEF Y
    <2> DEFINE from == Y - reach
               T == {r \in Nat : k <= YearStart(from + r + 1)}
    <2>1. from \in Int /\ from + reach = Y /\ from + (2 * reach) + 1 = (Y + 1) + reach /\ 2 * reach \in Nat
      BY <1>1, <1>r
    <2> HIDE DEF from
    <2>2. YearStart(from) \in Int /\ YearStart(from) + 365 * reach <= YearStart(Y)
      BY <1>r, <2>1, YearsAreLong
    <2>3. YearStart(from) < k
      BY <1>1, <1>r, <1>2, <1>3, <2>2
    <2>4. /\ YearStart((Y + 1) + reach) \in Int
          /\ YearStart(Y + 1) + 365 * reach <= YearStart((Y + 1) + reach)
      <3>1. Y + 1 \in Int
        BY <1>1
      <3> QED BY <1>r, <3>1, YearsAreLong
    <2>5. k <= YearStart((Y + 1) + reach)
      BY <1>1, <1>r, <1>2, <1>3, <2>4
    <2>6. 2 * reach \in T
      <3> HIDE DEF k
      <3> QED BY <2>1, <2>5
    <2>7. PICK r \in T : \A q \in T : r <= q
      <3> HIDE DEF k
      <3>1. T \subseteq Nat /\ T # {}
        BY <2>6
      <3> HIDE DEF T
      <3> QED BY <3>1, LeastNat
    <2>8. r \in Nat /\ r <= 2 * reach /\ k <= YearStart(from + r + 1)
      BY <2>6, <2>7
    <2>9. from + r \in Y - reach..Y + reach
      BY <1>1, <1>r, <2>1, <2>8
    <2>10. YearStart(from + r) < k
      <3>1. CASE r = 0
        <4>1. from + r = from
          BY <2>1, <3>1
        <4> QED BY <2>3, <4>1
      <3>2. CASE r # 0
        <4>1. r - 1 \in Nat /\ from + (r - 1) + 1 = from + r
          BY <2>1, <2>8, <3>2
        <4>2. r - 1 \notin T
          <5> HIDE DEF T
          <5> QED BY <2>7, <2>8, <4>1
        <4>3. ~(k <= YearStart(from + r))
          <5> HIDE DEF k
          <5> QED BY <4>1, <4>2
        <4>4. from + r \in Int
          BY <2>1, <2>8
        <4>5. YearStart(from + r) \in Int
          BY <4>4, YearLengths
        <4> QED BY <1>1, <4>3, <4>5
      <3> QED BY <3>1, <3>2
    <2> HIDE DEF k
    <2> QED BY <2>8, <2>9, <2>10
  <1>5. PICK y \in Y - reach..Y + reach : YearStart(y) < k /\ k <= YearStart(y + 1)
    BY <1>4
  <1>6. y \in Int
    BY <1>1, <1>r, <1>5
  <1>7. PICK m \in Month : MonthStart(y, m) < k /\ k <= MonthStart(y, m) + DaysInMonth(y, m)
    BY <1>1, <1>5, <1>6, DayIsInAMonth
  <1> DEFINE d == k - MonthStart(y, m)   u == [y |-> y, m |-> m, d |-> d]
  <1>8. d \in 1..DaysInMonth(y, m) /\ DaysInMonth(y, m) \in 28..31 /\ MonthStart(y, m) \in Int
    <2>1. DaysInMonth(y, m) \in 28..31 /\ MonthStart(y, m) \in Int
      BY <1>6, MonthLengths, StartIsInt
    <2> QED BY <1>1, <1>7, <2>1
  <1>9. u \in S /\ u.d <= DaysInMonth(u.y, u.m) /\ DayNumber(u) = k
    <2>1. u.y = y /\ u.m = m /\ u.d = d
      OBVIOUS
    <2>2. DayNumber(u) = MonthStart(y, m) + d
      <3>1. u.y \in Int /\ u.m \in Month /\ u.d \in Int
        BY <1>6, <1>8
      <3> HIDE DEF u, d
      <3> QED BY <2>1, <3>1, DayIs
    <2>3. d \in 1..31
      BY <1>8
    <2>4. u \in S
      <3>1. y \in t.y - reach..t.y + reach /\ m \in 1..12 /\ d \in 1..31
        BY <1>5, <2>3 DEF Month
      <3> HIDE DEF d
      <3> QED BY <3>1
    <2> HIDE DEF u, S
    <2> QED BY <1>1, <1>8, <2>1, <2>2, <2>4
  <1> HIDE DEF u, d
  <1> DEFINE w == CHOOSE v \in S : v.d <= DaysInMonth(v.y, v.m) /\ DayNumber(v) = k
  <1>10. w \in S /\ w.d <= DaysInMonth(w.y, w.m) /\ DayNumber(w) = k
    <2>1. w = CHOOSE v \in S : v.d <= DaysInMonth(v.y, v.m) /\ DayNumber(v) = k
      OBVIOUS
    <2> HIDE DEF w, S, k
    <2> QED BY <1>9, <2>1
  <1>f. AddDays(t, n) = FmtIso(w)
    BY DEF AddDays, reach
  <1> HIDE DEF w
  <1>11. w.y \in Int /\ w.m \in Month /\ w.d \in 1..31
    BY <1>1, <1>r, <1>10 DEF Month
  <1>12. DaysInMonth(w.y, w.m) \in 28..31
    BY <1>11, MonthLengths
  <1>13. IsDate(w)
    BY <1>10, <1>11, <1>12 DEF IsDate, Month
  <1> QED BY <1>10, <1>13, <1>f

\* The days of the years of four digits.
FirstDay == [y |-> 1000, m |-> 1, d |-> 1]
LastDay == [y |-> 9999, m |-> 12, d |-> 31]

\* They are the days from the first of them to the last.
LEMMA FourDigitDays ==
  ASSUME NEW u, IsDate(u)
  PROVE  u.y \in FourDigits <=> DayNumber(u) \in DayNumber(FirstDay)..DayNumber(LastDay)
  <1>1. IsDate(FirstDay) /\ IsDate(LastDay)
    BY DEF IsDate, FirstDay, LastDay, DaysInMonth
  <1>2. FirstDay.y * 12 + FirstDay.m = 12001 /\ LastDay.y * 12 + LastDay.m = 120000
        /\ FirstDay.d = 1 /\ LastDay.d = 31
    BY DEF FirstDay, LastDay
  <1>3. DayNumber(u) \in Int /\ DayNumber(FirstDay) \in Int /\ DayNumber(LastDay) \in Int
    BY <1>1, DayIsInt
  <1> DEFINE p == u.y * 12 + u.m
  <1>4. p \in Int /\ u.d \in 1..31 /\ (u.y \in FourDigits <=> 12001 <= p /\ p <= 120000)
    <2> DEFINE y == u.y   m == u.m
    <2>1. y \in Int /\ m \in 1..12 /\ u.d \in 1..31
      BY DateIsInt DEF Month
    <2>2. p = y * 12 + m
      OBVIOUS
    <2> HIDE DEF y, m, p
    <2>3. y \in 1000..9999 <=> 12001 <= y * 12 + m /\ y * 12 + m <= 120000
      BY <2>1
    <2>4. u.y \in FourDigits <=> y \in 1000..9999
      BY DEF FourDigits, y
    <2>5. p \in Int
      BY <2>1, <2>2
    <2> QED BY <2>1, <2>2, <2>3, <2>4, <2>5
  <1> HIDE DEF FirstDay, LastDay
  <1>5. CASE p < 12001
    <2>1. DayNumber(u) < DayNumber(FirstDay)
      BY <1>1, <1>2, <1>5, LaterMonthLaterDay
    <2> QED BY <1>3, <1>4, <1>5, <2>1
  <1>6. CASE p > 120000
    <2>1. DayNumber(LastDay) < DayNumber(u)
      BY <1>1, <1>2, <1>4, <1>6, LaterMonthLaterDay
    <2> QED BY <1>3, <1>4, <1>6, <2>1
  <1>7. CASE 12001 <= p /\ p <= 120000
    <2>1. DayNumber(FirstDay) <= DayNumber(u)
      <3>1. CASE p = 12001
        <4>1. DayNumber(u) - DayNumber(FirstDay) = u.d - 1
          BY <1>1, <1>2, <3>1, SameMonthIs
        <4> QED BY <1>3, <1>4, <4>1
      <3>2. CASE p # 12001
        <4>1. 12001 < p
          BY <1>4, <1>7, <3>2
        <4>2. DayNumber(FirstDay) < DayNumber(u)
          BY <1>1, <1>2, <4>1, LaterMonthLaterDay
        <4> QED BY <1>3, <4>2
      <3> QED BY <3>1, <3>2
    <2>2. DayNumber(u) <= DayNumber(LastDay)
      <3>1. CASE p = 120000
        <4>1. DayNumber(LastDay) - DayNumber(u) = 31 - u.d
          BY <1>1, <1>2, <3>1, SameMonthIs
        <4> QED BY <1>3, <1>4, <4>1
      <3>2. CASE p # 120000
        <4>1. p < 120000
          BY <1>4, <1>7, <3>2
        <4>2. DayNumber(u) < DayNumber(LastDay)
          BY <1>1, <1>2, <4>1, LaterMonthLaterDay
        <4> QED BY <1>3, <4>2
      <3> QED BY <3>1, <3>2
    <2> QED BY <1>3, <1>4, <1>7, <2>1, <2>2
  <1> QED BY <1>4, <1>5, <1>6, <1>7

\* addDaysIso gets to the day so many days away, if its year can be read back.
LEMMA AddDaysIs ==
  ASSUME NEW t, IsDate(t), NEW n \in Int
  PROVE  LET k == DayNumber(t) + n
             u == AddDays(t, n)
         IN  IF k \in DayNumber(FirstDay)..DayNumber(LastDay)
             THEN IsDate(u) /\ u.y \in FourDigits /\ DayNumber(u) = k
             ELSE u = Unreadable
  <1>1. PICK u : IsDate(u) /\ DayNumber(u) = DayNumber(t) + n /\ AddDays(t, n) = FmtIso(u)
    BY DayIsFound
  <1>2. u.y \in FourDigits <=> DayNumber(u) \in DayNumber(FirstDay)..DayNumber(LastDay)
    BY <1>1, FourDigitDays
  <1> QED BY <1>1, <1>2 DEF FmtIso

----------------------------------------------------------------------------
(* The typed pass *)

\* A finite set that L orders totally and strictly stands in one line.
LEMMA LinedIs ==
  ASSUME NEW S, IsFiniteSet(S), NEW R,
         \A a \in S : <<a, a>> \notin R,
         \A a, b \in S : a = b \/ <<a, b>> \in R \/ <<b, a>> \in R,
         \A a, b, c \in S : <<a, b>> \in R /\ <<b, c>> \in R => <<a, c>> \in R
  PROVE  /\ Cardinality(S) \in Nat
         /\ Lined(S, R) \in Seq(S) /\ Len(Lined(S, R)) = Cardinality(S)
         /\ \A x \in S : \E k \in 1..Len(Lined(S, R)) : Lined(S, R)[k] = x
         /\ \A i, j \in 1..Len(Lined(S, R)) : i < j => <<Lined(S, R)[i], Lined(S, R)[j]>> \in R
  <1> DEFINE n == Cardinality(S)
             Below(x) == {y \in S : y = x \/ <<y, x>> \in R}
             rank == [x \in S |-> Cardinality(Below(x))]
             line == Lined(S, R)
  <1>1. n \in Nat
    BY FS_CardinalityType
  <1>2. \A x \in S : x \in Below(x) /\ Below(x) \subseteq S
    OBVIOUS
  <1>3. \A x \in S : IsFiniteSet(Below(x)) /\ rank[x] \in 1..n
    <2> SUFFICES ASSUME NEW x \in S PROVE IsFiniteSet(Below(x)) /\ rank[x] \in 1..n
      OBVIOUS
    <2> DEFINE U == Below(x)
    <2>1. x \in U /\ U \in SUBSET S
      OBVIOUS
    <2>2. rank[x] = Cardinality(U)
      OBVIOUS
    <2> HIDE DEF U, rank
    <2>3. IsFiniteSet(U) /\ Cardinality(U) <= n
      BY <2>1, FS_Subset
    <2>4. Cardinality(U) \in Nat /\ Cardinality(U) # 0
      BY <2>1, <2>3, FS_CardinalityType, FS_EmptySet
    <2>5. Cardinality(U) \in 1..n
      BY <1>1, <2>3, <2>4
    <2> QED BY <2>2, <2>3, <2>5 DEF U
  <1>4. \A a, b \in S : <<a, b>> \in R => rank[a] < rank[b]
    <2> SUFFICES ASSUME NEW a \in S, NEW b \in S, <<a, b>> \in R PROVE rank[a] < rank[b]
      OBVIOUS
    <2> DEFINE A == Below(a)
               B == Below(b)
    <2>1. A \in SUBSET B
      OBVIOUS
    <2>2. b \in B /\ b \notin A
      <3>1. b # a /\ <<b, a>> \notin R
        OBVIOUS
      <3> QED BY <3>1
    <2>3. rank[a] = Cardinality(A) /\ rank[b] = Cardinality(B)
      OBVIOUS
    <2>4. IsFiniteSet(A) /\ IsFiniteSet(B) /\ rank[a] \in 1..n /\ rank[b] \in 1..n
      BY <1>3
    <2> HIDE DEF A, B, rank
    <2>5. Cardinality(A) <= Cardinality(B) /\ Cardinality(A) # Cardinality(B)
      BY <2>1, <2>2, <2>4, FS_Subset
    <2> QED BY <1>1, <2>3, <2>4, <2>5
  <1>5. rank \in [S -> 1..n]
    BY <1>3
  <1> HIDE DEF rank
  <1>6. \A a, b \in S : rank[a] = rank[b] => a = b
    <2> SUFFICES ASSUME NEW a \in S, NEW b \in S, rank[a] = rank[b], a # b PROVE FALSE
      OBVIOUS
    <2>1. rank[a] \in 1..n /\ rank[b] \in 1..n
      BY <1>5
    <2>2. rank[a] < rank[b] \/ rank[b] < rank[a]
      BY <1>4
    <2> QED BY <2>1, <2>2
  <1>7. rank \in Surjection(S, 1..n)
    <2>1. rank \in Injection(S, 1..n)
      BY <1>5, <1>6 DEF Injection, IsInjective
    <2>2. IsFiniteSet(1..n) /\ Cardinality(1..n) = n
      BY <1>1, FS_Interval
    <2> QED BY <2>1, <2>2, FS_Injection
  <1>8. \A k \in 1..n : \E x \in S : rank[x] = k
    BY <1>7 DEF Surjection
  <1> DEFINE at(k, x) == Cardinality(Below(x)) = k
  <1>9. line = [k \in 1..n |-> CHOOSE x \in S : at(k, x)]
    BY DEF Lined
  <1>a. \A x \in S : at(rank[x], x)
    BY DEF rank
  <1>b. \A k \in Int : \A x \in S : at(k, x) => rank[x] = k
    BY DEF rank
  <1> HIDE DEF n, at, line
  <1>10. \A k \in 1..n : line[k] \in S /\ rank[line[k]] = k
    <2> TAKE k \in 1..n
    <2>1. \E x \in S : at(k, x)
      BY <1>8, <1>a
    <2>2. line[k] \in S /\ at(k, line[k])
      BY <1>9, <2>1
    <2> QED BY <1>b, <2>2
  <1>11. line \in [1..n -> S]
    BY <1>9, <1>10
  <1>12. line \in Seq(S) /\ Len(line) = n
    BY <1>1, <1>11, FunctionIsSeq
  <1>13. \A x \in S : \E k \in 1..n : line[k] = x
    <2> TAKE x \in S
    <2>1. rank[x] \in 1..n
      BY <1>5
    <2>2. line[rank[x]] = x
      <3> DEFINE z == line[rank[x]]
      <3>1. z \in S /\ rank[z] = rank[x]
        BY <2>1, <1>10
      <3> HIDE DEF z
      <3>2. z = x
        BY <3>1, <1>6
      <3> QED BY <3>2 DEF z
    <2> QED BY <2>1, <2>2
  <1>14. \A i, j \in 1..n : i < j => <<line[i], line[j]>> \in R
    <2> SUFFICES ASSUME NEW i \in 1..n, NEW j \in 1..n, i < j PROVE <<line[i], line[j]>> \in R
      OBVIOUS
    <2>1. line[i] \in S /\ line[j] \in S /\ rank[line[i]] = i /\ rank[line[j]] = j
      BY <1>10
    <2>2. line[i] # line[j]
      BY <2>1
    <2>3. <<line[j], line[i]>> \in R => rank[line[j]] < rank[line[i]]
      BY <1>4, <2>1
    <2>4. ~(j < i)
      OBVIOUS
    <2> QED BY <2>1, <2>2, <2>3, <2>4
  <1> QED BY <1>1, <1>12, <1>13, <1>14 DEF n, line

\* The matches of one family, from left to right, are those that were found.
LEMMA InOrderIs ==
  ASSUME NEW spans, Found(spans), NEW family
  PROVE  InOrder(spans, family) \in Seq(Matches(spans, family))
  <1> DEFINE S == Matches(spans, family)
             R == LeftToRight(S)
  <1>1. S \in SUBSET spans /\ \A s \in S : s.from \in Nat /\ s.family = family /\ ~s.code
    BY DEF Matches, Found
  <1>2. IsFiniteSet(S)
    BY <1>1, FS_Subset DEF Found
  <1>3. \A a, b \in S : <<a, b>> \in R <=> a.from < b.from
    BY DEF LeftToRight
  <1>4. \A a, b \in S : a = b \/ a.from # b.from
    BY <1>1 DEF Found
  <1> HIDE DEF S, R
  <1>5. /\ \A a \in S : <<a, a>> \notin R
        /\ \A a, b \in S : a = b \/ <<a, b>> \in R \/ <<b, a>> \in R
    BY <1>1, <1>3, <1>4
  <1>6. \A a, b, c \in S : <<a, b>> \in R /\ <<b, c>> \in R => <<a, c>> \in R
    BY <1>1, <1>3
  <1>7. Lined(S, R) \in Seq(S)
    BY <1>2, <1>5, <1>6, LinedIs
  <1> QED BY <1>7 DEF InOrder, S, R

\* What a turn can say: one claim for each stretch outside code, and items.
SpanClaims(spans, anchor) == {ClaimOf(s, anchor) : s \in {x \in spans : ~x.code}}
Scan(spans, anchor) == [taken : SUBSET spans, out : Seq(SpanClaims(spans, anchor)), full : BOOLEAN]

\* A match adds its claim at most.
LEMMA OnMatchIs ==
  ASSUME NEW spans, NEW anchor, NEW a \in Scan(spans, anchor), NEW s \in spans, ~s.code
  PROVE  OnMatch(a, s, anchor) \in Scan(spans, anchor)
  <1>1. ClaimOf(s, anchor) \in SpanClaims(spans, anchor)
    BY DEF SpanClaims
  <1> DEFINE C == SpanClaims(spans, anchor)
  <1>2. CASE a.full \/ Overlaps(a.taken, s)
    BY <1>2 DEF OnMatch
  <1>3. CASE ~(a.full \/ Overlaps(a.taken, s))
    <2>1. a.taken \in SUBSET spans /\ a.out \in Seq(C)
      BY DEF Scan
    <2>2. a.taken \union {s} \in SUBSET spans
      BY <2>1
    <2>3. Append(a.out, ClaimOf(s, anchor)) \in Seq(C)
      BY <1>1, <2>1, AppendProperties
    <2> DEFINE full == Len(a.out) + 1 >= MaxClaimsPerTurn
    <2>4. full \in BOOLEAN
      OBVIOUS
    <2>5. OnMatch(a, s, anchor) = [taken |-> a.taken \union {s},
                                   out |-> Append(a.out, ClaimOf(s, anchor)), full |-> full]
      BY <1>3 DEF OnMatch
    <2> HIDE DEF C, full
    <2> QED BY <2>2, <2>3, <2>4, <2>5 DEF Scan, C
  <1> QED BY <1>2, <1>3

\* A scan of one family adds claims of that family's matches only.
LEMMA ScannedIs ==
  ASSUME NEW spans, Found(spans), NEW anchor, NEW family, NEW acc \in Scan(spans, anchor)
  PROVE  Scanned(acc, spans, family, anchor) \in Scan(spans, anchor)
  <1> DEFINE A == Scan(spans, anchor)
             base == [acc EXCEPT !.full = FALSE]
             seq == InOrder(spans, family)
             n == Len(seq)
             step == [a \in A |-> [k \in 1..n |-> OnMatch(a, seq[k], anchor)]]
             eq(h) == h = [s \in SUBSET (1..n) |->
                             IF s = {} THEN base
                             ELSE OnMatch(h[s \ {Max(s)}], seq[Max(s)], anchor)]
             fold == CHOOSE h : eq(h)
  <1>1. base \in A
    BY DEF Scan
  <1>2. n \in Nat /\ DOMAIN seq = 1..n /\ \A k \in 1..n : seq[k] \in spans /\ ~seq[k].code
    <2>1. seq \in Seq(Matches(spans, family))
      BY InOrderIs
    <2> HIDE DEF seq
    <2> QED BY <2>1 DEF Matches
  <1>3. Scanned(acc, spans, family, anchor) = fold[1..n]
    BY <1>2 DEF Scanned, FoldLeft, MapThenFoldSet
  <1> HIDE DEF A, base, seq, n
  <1>4. step \in [A -> [1..n -> A]]
    <2>1. \A a \in A, k \in 1..n : OnMatch(a, seq[k], anchor) \in A
      BY <1>2, OnMatchIs DEF A
    <2> QED BY <2>1
  <1>5. PICK g : FoldsOn(g, n, A, base, step)
    <2> HIDE DEF step
    <2> QED BY <1>1, <1>2, <1>4, FoldExists
  <1>6. \A s \in SUBSET (1..n) : s # {} =>
           Max(s) \in 1..n /\ s \ {Max(s)} \in SUBSET (1..n)
    BY <1>2, LastOfSet
  <1>7. eq(g)
    <2> SUFFICES ASSUME NEW s \in SUBSET (1..n), s # {}
                 PROVE  step[g[s \ {Max(s)}]][Max(s)] = OnMatch(g[s \ {Max(s)}], seq[Max(s)], anchor)
      BY <1>5 DEF FoldsOn
    <2>1. g[s \ {Max(s)}] \in A /\ Max(s) \in 1..n
      BY <1>5, <1>6 DEF FoldsOn
    <2> QED BY <2>1
  <1>8. eq(fold)
    <2> HIDE DEF eq
    <2> QED BY <1>7
  <1>9. Unfolds(fold, n, A, base, step)
    <2> HIDE DEF fold
    <2> QED BY <1>6, <1>8 DEF Unfolds
  <1>10. \E run : RunsTo(run, fold[1..n], n, A, base, step)
    <2> HIDE DEF step, fold
    <2> QED BY <1>1, <1>2, <1>4, <1>9, FoldRuns
  <1>11. fold[1..n] \in A
    <2> HIDE DEF step, fold
    <2>1. n \in 0..n
      BY <1>2
    <2> QED BY <1>10, <2>1 DEF RunsTo
  <1> QED BY <1>3, <1>11 DEF A

\* The items of the lists of n lines, and what the scan of them holds.
Item(n) == [index : Nat, line : 1..n]
ListScan(n) == [lists : Seq(Seq(Item(n))), items : Seq(Item(n)), bullets : Nat, gap : Nat]
NoLists == [lists |-> <<>>, items |-> NoList, bullets |-> 0, gap |-> 0]

\* Closing a list adds it or drops it.
LEMMA FlushedIs ==
  ASSUME NEW n \in Nat, NEW a \in ListScan(n)
  PROVE  LET f == Flushed(a)
         IN  /\ f \in ListScan(n)
             /\ f.lists = IF Len(a.items) >= 2 THEN Append(a.lists, a.items) ELSE a.lists
             /\ f.items = <<>> /\ f.bullets = 0 /\ f.gap = a.gap
  <1> DEFINE lists == IF Len(a.items) >= 2 THEN Append(a.lists, a.items) ELSE a.lists
  <1>1. a.lists \in Seq(Seq(Item(n))) /\ a.items \in Seq(Item(n))
    BY DEF ListScan
  <1>2. lists \in Seq(Seq(Item(n)))
    BY <1>1, AppendProperties
  <1>3. <<>> \in Seq(Item(n))
    OBVIOUS
  <1>4. Flushed(a) = [a EXCEPT !.lists = lists, !.items = <<>>, !.bullets = 0]
    BY DEF Flushed, NoList
  <1> DEFINE LS == Seq(Seq(Item(n)))
             IS == Seq(Item(n))
             f == Flushed(a)
  <1>5. a \in [lists : LS, items : IS, bullets : Nat, gap : Nat]
    BY DEF ListScan
  <1> HIDE DEF lists, LS, IS, f
  <1>6. f \in [lists : LS, items : IS, bullets : Nat, gap : Nat]
    <2>1. lists \in LS /\ <<>> \in IS
      BY <1>2, <1>3 DEF LS, IS
    <2>2. f = [a EXCEPT !.lists = lists, !.items = <<>>, !.bullets = 0]
      BY <1>4 DEF f
    <2> QED BY <1>5, <2>1, <2>2
  <1>7. f.lists = lists /\ f.items = <<>> /\ f.bullets = 0 /\ f.gap = a.gap
    BY <1>4, <1>5 DEF f
  <1> QED BY <1>6, <1>7 DEF lists, f, LS, IS, ListScan

\* An item is added to the list that is open.
LEMMA OnItemIs ==
  ASSUME NEW n \in Nat, NEW a \in ListScan(n), NEW i \in 1..n, NEW line \in ListLine
  PROVE  LET f == OnItem(a, line, i)
             bullets == IF line.kind = "bullet" THEN a.bullets + 1 ELSE a.bullets
             item == [index |-> IF line.kind = "bullet" THEN bullets ELSE line.n, line |-> i]
         IN  /\ f \in ListScan(n) /\ item \in Item(n)
             /\ f.lists = a.lists /\ f.items = Append(a.items, item)
             /\ f.bullets = bullets /\ f.gap = 0
  <1> DEFINE bullets == IF line.kind = "bullet" THEN a.bullets + 1 ELSE a.bullets
             item == [index |-> IF line.kind = "bullet" THEN bullets ELSE line.n, line |-> i]
             items == Append(a.items, item)
  <1>1. bullets \in Nat /\ line.n \in Nat /\ a.items \in Seq(Item(n))
    BY DEF ListScan, ListLine
  <1>2. item \in Item(n)
    BY <1>1 DEF Item
  <1>3. OnItem(a, line, i) = [a EXCEPT !.gap = 0, !.bullets = bullets, !.items = items]
    BY DEF OnItem
  <1>4. items \in Seq(Item(n))
    <2> HIDE DEF item
    <2> QED BY <1>1, <1>2, AppendProperties
  <1> DEFINE LS == Seq(Seq(Item(n)))
             IS == Seq(Item(n))
             f == OnItem(a, line, i)
  <1>5. a \in [lists : LS, items : IS, bullets : Nat, gap : Nat]
    BY DEF ListScan
  <1> HIDE DEF bullets, item, items, LS, IS, f
  <1>6. f \in [lists : LS, items : IS, bullets : Nat, gap : Nat]
    <2>1. items \in IS
      BY <1>4 DEF IS
    <2>2. f = [a EXCEPT !.gap = 0, !.bullets = bullets, !.items = items]
      BY <1>3 DEF f
    <2> QED BY <1>1, <1>5, <2>1, <2>2
  <1>7. f.lists = a.lists /\ f.items = items /\ f.bullets = bullets /\ f.gap = 0
    BY <1>3, <1>5 DEF f
  <1> QED BY <1>2, <1>6, <1>7 DEF bullets, item, items, f, LS, IS, ListScan

\* Each line leaves a scan as it should be.
LEMMA OnLineIs ==
  ASSUME NEW n \in Nat, NEW a \in ListScan(n), NEW i \in 1..n, NEW line \in ListLine
  PROVE  OnLine(a, line, i) \in ListScan(n)
  <1>1. CASE line.kind \in {"bullet", "number"}
    <2>1. OnItem(a, line, i) \in ListScan(n)
      BY OnItemIs
    <2> QED BY <1>1, <2>1 DEF OnLine
  <1>2. CASE line.kind = "blank"
    <2> DEFINE b == [a EXCEPT !.gap = @ + 1]
    <2>1. b \in ListScan(n)
      <3>1. a.gap + 1 \in Nat
        BY DEF ListScan
      <3> QED BY <3>1 DEF ListScan
    <2>2. OnBlank(a) = IF GapEnds(b.gap) THEN Flushed(b) ELSE b
      BY DEF OnBlank
    <2> HIDE DEF b
    <2>3. OnBlank(a) \in ListScan(n)
      BY <2>1, <2>2, FlushedIs
    <2> QED BY <1>2, <2>3 DEF OnLine
  <1>3. CASE line.kind = "text"
    <2> DEFINE b == Flushed(a)
    <2>1. b \in ListScan(n)
      BY FlushedIs
    <2> HIDE DEF b
    <2>2. [b EXCEPT !.gap = 0] \in ListScan(n)
      BY <2>1 DEF ListScan
    <2>3. OnText(a) \in ListScan(n)
      BY <2>2 DEF OnText, b
    <2> QED BY <1>3, <2>3 DEF OnLine
  <1> QED BY <1>1, <1>2, <1>3 DEF ListLine

\* The scan of the lists goes from line to line.
ScansLines(run, lines) ==
  LET n == Len(lines)
  IN  /\ run \in [0..n -> ListScan(n)] /\ run[0] = NoLists
      /\ \A k \in 1..n : run[k] = OnLine(run[k - 1], lines[k], k)
      /\ ParseLists(lines) = Flushed(run[n]).lists

\* parseLists goes from line to line.
LEMMA ParseListsRuns ==
  ASSUME NEW lines \in Seq(ListLine)
  PROVE  \E run : ScansLines(run, lines)
  <1> DEFINE n == Len(lines)
             A == ListScan(n)
             base == NoLists
             seq == [i \in DOMAIN lines |-> i]
             step == [a \in A |-> [k \in 1..n |-> OnLine(a, lines[k], k)]]
             eq(h) == h = [s \in SUBSET (1..n) |->
                             IF s = {} THEN base
                             ELSE OnLine(h[s \ {Max(s)}], lines[seq[Max(s)]], seq[Max(s)])]
             fold == CHOOSE h : eq(h)
  <1>1. n \in Nat /\ DOMAIN lines = 1..n /\ \A k \in 1..n : lines[k] \in ListLine
    OBVIOUS
  <1>2. base \in A
    <2>1. <<>> \in Seq(Item(n)) /\ <<>> \in Seq(Seq(Item(n)))
      OBVIOUS
    <2> HIDE DEF n
    <2> QED BY <2>1 DEF NoLists, NoList, ListScan
  <1>3. ParseLists(lines) = Flushed(fold[1..n]).lists
    <2>1. DOMAIN seq = 1..n
      BY <1>1
    <2>2. FoldLeft(LAMBDA a, i : OnLine(a, lines[i], i), base, seq) = fold[1..n]
      BY <1>1, <2>1 DEF FoldLeft, MapThenFoldSet
    <2> HIDE DEF fold
    <2> QED BY <2>2 DEF ParseLists, NoLists
  <1>s. \A k \in 1..n : seq[k] = k
    BY <1>1
  <1> HIDE DEF A, base, n, seq
  <1>4. step \in [A -> [1..n -> A]]
    <2>1. \A a \in A, k \in 1..n : OnLine(a, lines[k], k) \in A
      BY <1>1, OnLineIs DEF A
    <2> QED BY <2>1
  <1>5. PICK g : FoldsOn(g, n, A, base, step)
    <2> HIDE DEF step
    <2> QED BY <1>1, <1>2, <1>4, FoldExists
  <1>6. \A s \in SUBSET (1..n) : s # {} =>
           Max(s) \in 1..n /\ s \ {Max(s)} \in SUBSET (1..n)
    BY <1>1, LastOfSet
  <1>7. eq(g)
    <2> SUFFICES ASSUME NEW s \in SUBSET (1..n), s # {}
                 PROVE  step[g[s \ {Max(s)}]][Max(s)] = OnLine(g[s \ {Max(s)}], lines[seq[Max(s)]], seq[Max(s)])
      BY <1>5 DEF FoldsOn
    <2>1. g[s \ {Max(s)}] \in A /\ Max(s) \in 1..n
      BY <1>5, <1>6 DEF FoldsOn
    <2> QED BY <1>s, <2>1
  <1>8. eq(fold)
    <2> HIDE DEF eq
    <2> QED BY <1>7
  <1>9. Unfolds(fold, n, A, base, step)
    <2>1. fold[{}] = base
      <3> HIDE DEF fold
      <3> QED BY <1>8
    <2>2. ASSUME NEW s \in SUBSET (1..n), s # {}, fold[s \ {Max(s)}] \in A
          PROVE  fold[s] = step[fold[s \ {Max(s)}]][Max(s)]
      <3> HIDE DEF fold
      <3>1. Max(s) \in 1..n /\ seq[Max(s)] = Max(s)
        BY <1>6, <1>s, <2>2
      <3>2. fold[s] = OnLine(fold[s \ {Max(s)}], lines[seq[Max(s)]], seq[Max(s)])
        BY <1>8, <2>2
      <3> QED BY <2>2, <3>1, <3>2
    <2> HIDE DEF fold, step
    <2> QED BY <2>1, <2>2 DEF Unfolds
  <1>10. PICK run : RunsTo(run, fold[1..n], n, A, base, step)
    <2> HIDE DEF step, fold
    <2> QED BY <1>1, <1>2, <1>4, <1>9, FoldRuns
  <1>11. \A k \in 1..n : run[k] = OnLine(run[k - 1], lines[k], k)
    <2> SUFFICES ASSUME NEW k \in 1..n PROVE run[k] = OnLine(run[k - 1], lines[k], k)
      OBVIOUS
    <2>1. run[k] = step[run[k - 1]][k] /\ run[k - 1] \in A
      <3>1. k - 1 \in 0..n
        BY <1>1
      <3> HIDE DEF step
      <3> QED BY <1>10, <3>1 DEF RunsTo
    <2> QED BY <2>1
  <1>12. run \in [0..n -> A] /\ run[0] = base /\ run[n] = fold[1..n]
    <2> HIDE DEF step, fold
    <2> QED BY <1>10 DEF RunsTo
  <1> HIDE DEF fold
  <1>13. ScansLines(run, lines)
    BY <1>3, <1>11, <1>12 DEF ScansLines, A, base, n
  <1> QED BY <1>13

\* Lists are sequences of items.
LEMMA ParseListsIs ==
  ASSUME NEW lines \in Seq(ListLine)
  PROVE  ParseLists(lines) \in Seq(Seq(Item(Len(lines))))
  <1> DEFINE n == Len(lines)
  <1>1. n \in Nat
    OBVIOUS
  <1>2. PICK run : ScansLines(run, lines)
    BY ParseListsRuns
  <1>3. run[n] \in ListScan(n) /\ ParseLists(lines) = Flushed(run[n]).lists
    BY <1>1, <1>2 DEF ScansLines
  <1> HIDE DEF n
  <1>4. Flushed(run[n]) \in ListScan(n)
    BY <1>1, <1>3, FlushedIs
  <1>5. Flushed(run[n]).lists \in Seq(Seq(Item(n)))
    BY <1>4 DEF ListScan
  <1> QED BY <1>3, <1>5 DEF n

ItemClaims(n) ==
  [family : {"list_item"}, words : {{}}, value : Item(n), sentence : Int, date : {NoDate}]

\* Every list item becomes a claim without a date.
LEMMA ListClaimsIs ==
  ASSUME NEW n \in Nat, NEW lists \in Seq(Seq(Item(n)))
  PROVE  ListClaims(lists) \in Seq(ItemClaims(n))
  <1> DEFINE E == ItemClaims(n)
             size(l) == IF Len(lists[l]) < MaxListItems THEN Len(lists[l]) ELSE MaxListItems
             rec(l, i) == [family |-> "list_item", words |-> {}, value |-> lists[l][i],
                           sentence |-> -lists[l][i].line, date |-> NoDate]
             one(l) == [i \in 1..size(l) |-> rec(l, i)]
             seqs == [l \in DOMAIN lists |-> one(l)]
  <1>1. ASSUME NEW l \in 1..Len(lists) PROVE one(l) \in Seq(E)
    <2>1. lists[l] \in Seq(Item(n)) /\ Len(lists[l]) \in Nat /\ MaxListItems \in Nat
      BY TypedAssumption
    <2>2. size(l) \in Nat /\ size(l) <= Len(lists[l])
      BY <2>1
    <2>3. ASSUME NEW i \in 1..size(l) PROVE rec(l, i) \in E
      <3>1. i \in 1..Len(lists[l])
        BY <2>1, <2>2
      <3>2. lists[l][i] \in Item(n)
        BY <2>1, <3>1
      <3>3. -lists[l][i].line \in Int
        BY <3>2 DEF Item
      <3> QED BY <3>2, <3>3 DEF ItemClaims
    <2> HIDE DEF size, rec, E
    <2>4. one(l) \in [1..size(l) -> E]
      BY <2>3
    <2> HIDE DEF one
    <2> QED BY <2>2, <2>4, FunctionIsSeq
  <1>2. DOMAIN lists = 1..Len(lists) /\ Len(lists) \in Nat
    OBVIOUS
  <1>3. seqs \in Seq(Seq(E))
    <2> HIDE DEF one, E
    <2> QED BY <1>1, <1>2
  <1>4. ListClaims(lists) = FlattenSeq(seqs)
    BY DEF ListClaims
  <1> HIDE DEF seqs, E
  <1>5. FlattenSeq(seqs) \in Seq(E)
    BY <1>3, FlatType
  <1> QED BY <1>4, <1>5 DEF E

\* What a turn can say.
TurnClaims(turn, anchor) == SpanClaims(turn.spans, anchor) \union ItemClaims(Len(turn.lines))

\* A turn yields claims of its matches and of its lists.
LEMMA FromTurnIs ==
  ASSUME NEW turn, Found(turn.spans), turn.lines \in Seq(ListLine), NEW anchor
  PROVE  FromTurn(turn, anchor) \in Seq(TurnClaims(turn, anchor))
  <1> DEFINE spans == turn.spans
             A == Scan(spans, anchor)
             base == [taken |-> {}, out |-> <<>>, full |-> FALSE]
             seq == Families
             n == 5
             step == [a \in A |-> [k \in 1..n |-> Scanned(a, spans, seq[k], anchor)]]
             eq(h) == h = [s \in SUBSET (1..n) |->
                             IF s = {} THEN base
                             ELSE Scanned(h[s \ {Max(s)}], spans, seq[Max(s)], anchor)]
             fold == CHOOSE h : eq(h)
             scanned == FoldLeft(LAMBDA a, family : Scanned(a, spans, family, anchor), base, seq)
  <1>1. n \in Nat /\ DOMAIN seq = 1..n
    BY DEF Families
  <1>2. base \in A
    BY DEF Scan
  <1>3. scanned = fold[1..n]
    BY <1>1 DEF FoldLeft, MapThenFoldSet
  <1> HIDE DEF A, base, n, seq, scanned
  <1>4. step \in [A -> [1..n -> A]]
    <2>1. \A a \in A, k \in 1..n : Scanned(a, spans, seq[k], anchor) \in A
      BY <1>1, ScannedIs DEF A
    <2> QED BY <2>1
  <1>5. PICK g : FoldsOn(g, n, A, base, step)
    <2> HIDE DEF step
    <2> QED BY <1>1, <1>2, <1>4, FoldExists
  <1>6. \A s \in SUBSET (1..n) : s # {} =>
           Max(s) \in 1..n /\ s \ {Max(s)} \in SUBSET (1..n)
    BY <1>1, LastOfSet
  <1>7. eq(g)
    <2> SUFFICES ASSUME NEW s \in SUBSET (1..n), s # {}
                 PROVE  step[g[s \ {Max(s)}]][Max(s)] = Scanned(g[s \ {Max(s)}], spans, seq[Max(s)], anchor)
      BY <1>5 DEF FoldsOn
    <2>1. g[s \ {Max(s)}] \in A /\ Max(s) \in 1..n
      BY <1>5, <1>6 DEF FoldsOn
    <2> QED BY <2>1
  <1>8. eq(fold)
    <2> HIDE DEF eq
    <2> QED BY <1>7
  <1>9. Unfolds(fold, n, A, base, step)
    <2> HIDE DEF fold
    <2> QED BY <1>6, <1>8 DEF Unfolds
  <1>10. PICK run : RunsTo(run, fold[1..n], n, A, base, step)
    <2> HIDE DEF step, fold
    <2> QED BY <1>1, <1>2, <1>4, <1>9, FoldRuns
  <1>11. fold[1..n] \in A
    <2> HIDE DEF step, fold
    <2>1. n \in 0..n
      BY <1>1
    <2> QED BY <1>10, <2>1 DEF RunsTo
  <1> DEFINE C == TurnClaims(turn, anchor)
             said == scanned.out
             items == ListClaims(ParseLists(turn.lines))
  <1>12. said \in Seq(C)
    <2>1. said \in Seq(SpanClaims(spans, anchor))
      BY <1>3, <1>11 DEF A, Scan
    <2>2. SpanClaims(spans, anchor) \subseteq C
      BY DEF TurnClaims
    <2> HIDE DEF C, said
    <2> QED BY <2>1, <2>2, SeqMonotonic
  <1>13. items \in Seq(C)
    <2>1. Len(turn.lines) \in Nat /\ ParseLists(turn.lines) \in Seq(Seq(Item(Len(turn.lines))))
      BY ParseListsIs
    <2>2. items \in Seq(ItemClaims(Len(turn.lines)))
      BY <2>1, ListClaimsIs
    <2>3. ItemClaims(Len(turn.lines)) \subseteq C
      BY DEF TurnClaims
    <2> HIDE DEF C, items
    <2> QED BY <2>2, <2>3, SeqMonotonic
  <1>14. FromTurn(turn, anchor) = Upto(said \o items, MaxClaimsPerTurn)
    BY DEF FromTurn, scanned, base, seq
  <1> HIDE DEF said, items, C, scanned
  <1> DEFINE all == said \o items
  <1>15. all \in Seq(C) /\ MaxClaimsPerTurn \in Nat
    BY <1>12, <1>13, TypedAssumption
  <1> HIDE DEF all
  <1>16. Upto(all, MaxClaimsPerTurn) \in Seq(C)
    <2>1. CASE Len(all) <= MaxClaimsPerTurn
      BY <1>15, <2>1 DEF Upto
    <2>2. CASE ~(Len(all) <= MaxClaimsPerTurn)
      <3>1. \A i \in 1..MaxClaimsPerTurn : all[i] \in C
        BY <1>15, <2>2
      <3>2. SubSeq(all, 1, MaxClaimsPerTurn) \in Seq(C)
        BY <1>15, <3>1, SubSeqProperties
      <3> QED BY <2>2, <3>2 DEF Upto
    <2> QED BY <2>1, <2>2
  <1> QED BY <1>14, <1>16 DEF C, all

\* Of claims that say the same the first is kept.
LEMMA DeduplicatedIs ==
  ASSUME NEW C, NEW cs \in Seq(C)
  PROVE  Deduplicated(cs) \in Seq(C)
  <1> DEFINE first == {i \in DOMAIN cs : \A j \in 1..i - 1 : ~SameFact(cs[j], cs[i])}
             R == {p \in first \X first : p[1] < p[2]}
             kept == Lined(first, R)
  <1>1. first \in SUBSET (1..Len(cs)) /\ Len(cs) \in Nat
    OBVIOUS
  <1>2. IsFiniteSet(first)
    <2>1. IsFiniteSet(1..Len(cs))
      BY FS_Interval
    <2> HIDE DEF first
    <2> QED BY <1>1, <2>1, FS_Subset
  <1>3. Deduplicated(cs) = [k \in DOMAIN kept |-> cs[kept[k]]]
    BY DEF Deduplicated
  <1> HIDE DEF first
  <1>4. \A a \in first : a \in Int
    BY <1>1
  <1>5. \A a, b \in first : <<a, b>> \in R <=> a < b
    OBVIOUS
  <1> HIDE DEF R
  <1>6. /\ \A a \in first : <<a, a>> \notin R
        /\ \A a, b \in first : a = b \/ <<a, b>> \in R \/ <<b, a>> \in R
        /\ \A a, b, c \in first : <<a, b>> \in R /\ <<b, c>> \in R => <<a, c>> \in R
    BY <1>4, <1>5
  <1>7. kept \in Seq(first)
    BY <1>2, <1>6, LinedIs
  <1> HIDE DEF kept
  <1>8. DOMAIN kept = 1..Len(kept) /\ Len(kept) \in Nat /\ \A k \in 1..Len(kept) : kept[k] \in 1..Len(cs)
    <2>1. DOMAIN kept = 1..Len(kept) /\ Len(kept) \in Nat /\ \A k \in 1..Len(kept) : kept[k] \in first
      BY <1>7
    <2> QED BY <1>1, <2>1
  <1>9. \A k \in 1..Len(kept) : cs[kept[k]] \in C
    BY <1>8
  <1> QED BY <1>3, <1>8, <1>9
----------------------------------------------------------------------------
(* What is read *)

ClaimFrom(t, x) ==
  [family |-> x.family, words |-> x.words, value |-> x.value,
   event |-> EventOf(x, history[t].at), turn |-> t, sentence |-> x.sentence]
ClaimsOfTurn(t) == {ClaimFrom(t, x) : x \in TurnClaims(history[t], DateOf(history[t].at))}
ReadClaims == UNION {ClaimsOfTurn(t) : t \in 1..read}

Reading ==
  /\ history \in Transcript /\ Len(history) \in Nat /\ DOMAIN history = 1..Len(history)
  /\ read \in 0..Len(history)
  /\ claims \in Seq(ReadClaims)

\* A turn of a transcript is what MaterialAssumption says.
LEMMA TurnIs ==
  ASSUME history \in Transcript
  PROVE  /\ Len(history) \in Nat /\ DOMAIN history = 1..Len(history)
         /\ \A t \in 1..Len(history) :
              /\ history[t].at = Undated \/ (IsInstant(history[t].at) /\ history[t].at.y \in FourDigits)
              /\ Found(history[t].spans) /\ history[t].lines \in Seq(ListLine)
  <1>1. history \in Seq(Range(history))
    BY MaterialAssumption
  <1>2. Len(history) \in Nat /\ DOMAIN history = 1..Len(history)
        /\ \A t \in 1..Len(history) : history[t] \in Range(history)
    BY <1>1
  <1> QED BY <1>2, MaterialAssumption

\* A turn that is read leaves claims of turns that were read.
LEMMA ReadTurnIs ==
  ASSUME Reading, ReadTurn
  PROVE  Reading'
  <1> DEFINE turn == history[read + 1]
             anchor == DateOf(turn.at)
             C == TurnClaims(turn, anchor)
             found == Deduplicated(FromTurn(turn, anchor))
             more == [i \in DOMAIN found |-> ClaimFrom(read + 1, found[i])]
  <1>1. read + 1 \in 1..Len(history) /\ read \in Nat
    <2>1. Len(history) \in Nat /\ read \in 0..Len(history) /\ read < Len(history)
      BY DEF Reading, ReadTurn
    <2> QED BY <2>1
  <1>2. Found(turn.spans) /\ turn.lines \in Seq(ListLine)
    BY <1>1, TurnIs DEF Reading
  <1>3. claims' = claims \o more /\ read' = read + 1 /\ history' = history
    BY DEF ReadTurn, ClaimFrom
  <1>4. found \in Seq(C)
    <2> HIDE DEF C, anchor
    <2>1. FromTurn(turn, anchor) \in Seq(TurnClaims(turn, anchor))
      BY <1>2, FromTurnIs
    <2> QED BY <2>1, DeduplicatedIs DEF C
  <1>5. ClaimsOfTurn(read + 1) = {ClaimFrom(read + 1, x) : x \in C}
    BY DEF ClaimsOfTurn
  <1> HIDE DEF found, C, turn
  <1>6. DOMAIN found = 1..Len(found) /\ Len(found) \in Nat /\ \A i \in 1..Len(found) : found[i] \in C
    BY <1>4
  <1>7. more \in Seq(ClaimsOfTurn(read + 1))
    <2> DEFINE D == ClaimsOfTurn(read + 1)
    <2>1. \A i \in 1..Len(found) : ClaimFrom(read + 1, found[i]) \in D
      BY <1>5, <1>6
    <2> HIDE DEF D
    <2>2. more \in [1..Len(found) -> D]
      BY <1>6, <2>1
    <2> HIDE DEF more
    <2> QED BY <1>6, <2>2, FunctionIsSeq DEF D
  <1> HIDE DEF more
  <1> DEFINE R == UNION {ClaimsOfTurn(t) : t \in 1..read + 1}
  <1>8. ReadClaims' = R
    <2>1. \A t : ClaimsOfTurn(t)' = ClaimsOfTurn(t)
      BY <1>3 DEF ClaimsOfTurn, ClaimFrom
    <2>2. ReadClaims' = UNION {ClaimsOfTurn(t)' : t \in 1..read + 1}
      BY <1>3 DEF ReadClaims
    <2> QED BY <2>1, <2>2
  <1>9. ReadClaims \subseteq R /\ ClaimsOfTurn(read + 1) \subseteq R
    <2>1. \A t \in 1..read : t \in 1..read + 1
      BY <1>1
    <2>2. read + 1 \in 1..read + 1
      BY <1>1
    <2> QED BY <2>1, <2>2 DEF ReadClaims
  <1>10. claims \in Seq(R) /\ more \in Seq(R)
    <2> HIDE DEF R
    <2> QED BY <1>7, <1>9, SeqMonotonic DEF Reading
  <1>11. claims' \in Seq(R)
    <2> HIDE DEF R
    <2> QED BY <1>3, <1>10, ConcatProperties
  <1> HIDE DEF R
  <1> QED BY <1>1, <1>3, <1>8, <1>11 DEF Reading

----------------------------------------------------------------------------
(* When it happened *)

\* A day that exists is neither no date nor an unreadable one.
LEMMA DatesAreDates ==
  /\ \A u : IsDate(u) => u # NoDate /\ u # Unreadable /\ u # Undated
  /\ NoDate # Unreadable /\ ~IsDate(Undated)
  <1>1. NoDate.m = 0 /\ Unreadable.m = 0 /\ Undated.m = 0 /\ NoDate.y # Unreadable.y
    BY DEF NoDate, Unreadable, Undated, Instant
  <1>2. \A u : IsDate(u) => u.m # 0
    BY DEF IsDate
  <1> QED BY <1>1, <1>2

\* A phrase of months leads to the day the calendar of the answer leads to.
LEMMA MonthsShift ==
  ASSUME NEW t, IsDate(t), NEW n \in Int, NEW unit \in DOMAIN InMonths
  PROVE  LET v == AddMonthsClamped(t, n * InMonths[unit])
             u == Shift(t, n, unit)
         IN  /\ n * InMonths[unit] \in Int /\ IsDate(v) /\ v = Instant(DateOf(v), 0)
             /\ IF v.y \in FourDigits THEN u = DateOf(v) /\ IsDate(u) ELSE u = Unreadable
  <1> DEFINE k == n * InMonths[unit]   v == AddMonthsClamped(t, k)
  <1>1. \/ unit = "month" /\ k = n * 1
        \/ unit = "year" /\ k = n * 12
        \/ unit = "decade" /\ k = n * 120
    BY DEF InMonths
  <1>2. k \in Int
    BY <1>1
  <1>3. Shift(t, n, unit) = AddMonths(t, k)
    <2>1. n * 1 = n
      OBVIOUS
    <2> HIDE DEF k
    <2> QED BY <1>1, <2>1 DEF Shift
  <1> HIDE DEF k
  <1>4. IsDate(v) /\ v = Instant(DateOf(v), 0)
    BY <1>2, ClampedIs
  <1>5. AddMonths(t, k) = IF v.y \in FourDigits THEN DateOf(v) ELSE Unreadable
    BY <1>2, AddMonthsIs
  <1>6. IsDate(DateOf(v))
    <2> HIDE DEF v
    <2> QED BY <1>4 DEF IsDate, DateOf
  <1> QED BY <1>2, <1>3, <1>4, <1>5, <1>6 DEF k

\* A phrase of days leads so many days away.
LEMMA DaysShift ==
  ASSUME NEW t, IsDate(t), t.y \in FourDigits, NEW n \in Int, NEW unit \in DOMAIN InDays
  PROVE  LET k == DayNumber(t) + n * InDays[unit]
             u == Shift(t, n, unit)
         IN  /\ DayNumber(t) \in Int /\ n * InDays[unit] \in Int
             /\ IF k \in DayNumber(FirstDay)..DayNumber(LastDay)
                THEN IsDate(u) /\ DayNumber(u) = k ELSE u = Unreadable
  <1> DEFINE k == n * InDays[unit]
  <1>1. \/ unit = "hour" /\ k = n * 0
        \/ unit = "day" /\ k = n * 1
        \/ unit = "week" /\ k = n * 7
    BY DEF InDays
  <1>2. k \in Int /\ DayNumber(t) \in Int
    BY <1>1, DayIsInt
  <1>3. CASE unit = "hour"
    <2>1. k = 0 /\ Shift(t, n, unit) = t
      BY <1>1, <1>3 DEF Shift
    <2>2. DayNumber(t) \in DayNumber(FirstDay)..DayNumber(LastDay)
      BY FourDigitDays
    <2>3. DayNumber(t) + k = DayNumber(t)
      BY <1>2, <2>1
    <2> QED BY <1>2, <2>1, <2>2, <2>3
  <1>4. CASE unit # "hour"
    <2>1. Shift(t, n, unit) = AddDays(t, k)
      <3>1. n * 1 = n
        OBVIOUS
      <3> HIDE DEF k
      <3> QED BY <1>1, <1>4, <3>1 DEF Shift
    <2> HIDE DEF k
    <2>2. LET d == DayNumber(t) + k
              u == AddDays(t, k)
          IN  IF d \in DayNumber(FirstDay)..DayNumber(LastDay)
              THEN IsDate(u) /\ u.y \in FourDigits /\ DayNumber(u) = d
              ELSE u = Unreadable
      BY <1>2, AddDaysIs
    <2> QED BY <1>2, <2>1, <2>2 DEF k
  <1> QED BY <1>3, <1>4

\* Phrases resolve to a day that exists, or to one that cannot be read back.
LEMMA ShiftIs ==
  ASSUME NEW t, IsDate(t), t.y \in FourDigits, NEW n \in Int, NEW unit \in Units
  PROVE  IsDate(Shift(t, n, unit)) \/ Shift(t, n, unit) = Unreadable
  <1>1. unit \in DOMAIN InMonths \/ unit \in DOMAIN InDays
    BY DEF Units, InMonths, InDays
  <1>2. CASE unit \in DOMAIN InMonths
    BY <1>2, MonthsShift
  <1>3. CASE unit \in DOMAIN InDays
    BY <1>3, DaysShift
  <1> QED BY <1>1, <1>2, <1>3

\* The date of an instant is its day.
LEMMA DateOfInstant ==
  ASSUME NEW a, IsInstant(a)
  PROVE  /\ IsDate(DateOf(a)) /\ DateOf(a) # NoDate /\ DateOf(a).y = a.y /\ a # Undated
         /\ DayNumber(DateOf(a)) = DayNumber(a) /\ DayNumber(a) \in Int
  <1>1. IsDate(a) /\ DateOf(a).y = a.y /\ DateOf(a).m = a.m /\ DateOf(a).d = a.d
    BY DEF IsInstant, DateOf
  <1>2. IsDate(DateOf(a)) /\ DayNumber(DateOf(a)) = DayNumber(a)
    BY <1>1 DEF IsDate, DayNumber
  <1>3. DayNumber(a) \in Int
    BY <1>1, DayIsInt
  <1> QED BY <1>1, <1>2, <1>3, DatesAreDates

\* Each claim has the date of its phrase, or else that of its session.
LEMMA ClaimIs ==
  ASSUME history \in Transcript, NEW t \in 1..Len(history), NEW c \in ClaimsOfTurn(t)
  PROVE  LET at == history[t].at
         IN  /\ c.turn = t
             /\ c.event = Undated \/ IsInstant(c.event)
             /\ c.family = "money" => c.value \in [amount : Int, currency : STRING]
             /\ c.family = "relative_time" /\ c.value.exact /\ at # Undated =>
                  /\ IsDate(DateOf(at)) /\ at.y \in FourDigits
                  /\ c.value.count \in Int /\ c.value.unit \in Units
                  /\ LET u == Shift(DateOf(at), c.value.count, c.value.unit)
                     IN  c.event = IF u = Unreadable THEN Undated ELSE Instant(u, 0)
  <1> DEFINE at == history[t].at
             anchor == DateOf(at)
             spans == history[t].spans
  <1>1. (at = Undated \/ (IsInstant(at) /\ at.y \in FourDigits)) /\ Found(spans)
    BY TurnIs
  <1>2. PICK x \in TurnClaims(history[t], anchor) : c = ClaimFrom(t, x)
    BY DEF ClaimsOfTurn
  <1>3. c.family = x.family /\ c.value = x.value /\ c.event = EventOf(x, at) /\ c.turn = t
    BY <1>2 DEF ClaimFrom
  <1>4. at = Undated => anchor = NoDate
    BY DEF Undated, DateOf, Instant, NoDate
  <1>5. at # Undated => IsDate(anchor) /\ anchor # NoDate /\ anchor.y = at.y /\ at.y \in FourDigits
    BY <1>1, DateOfInstant
  <1>6. CASE x \in ItemClaims(Len(history[t].lines))
    <2>1. x.family = "list_item" /\ x.date = NoDate
      BY <1>6 DEF ItemClaims
    <2> QED BY <1>1, <1>3, <2>1 DEF EventOf
  <1>7. CASE x \in SpanClaims(spans, anchor)
    <2>1. PICK s \in spans : ~s.code /\ x = ClaimOf(s, anchor)
      BY <1>7 DEF SpanClaims
    <2>2. ValueFits(s)
      BY <1>1 DEF Found
    <2>3. /\ x.family = s.family /\ x.value = s.value
          /\ x.date = CASE s.family = "date" -> ResolveAbsolute(s.value)
                        [] s.family = "relative_time" -> ResolveRelative(s.value, anchor)
                        [] OTHER -> NoDate
      BY <2>1 DEF ClaimOf
    <2> HIDE DEF at, anchor
    <2>4. CASE s.family = "date"
      <3> DEFINE w == s.value
      <3>1. w \in [y : Nat, m : Nat, d : Nat] /\ x.date = ResolveAbsolute(w)
        BY <2>2, <2>3, <2>4 DEF ValueFits
      <3>2. x.date = NoDate \/ x.date = Unreadable \/ (x.date = w /\ IsDate(w))
        <4>1. CASE 0 \notin {w.y, w.m, w.d} /\ w.m <= 12 /\ w.d <= DaysInMonth(w.y, w.m)
          <5>1. w.y \in Int /\ w.m \in 1..12 /\ w.d \in Nat \ {0}
            <6> DEFINE y == w.y   m == w.m   d == w.d
            <6>1. y \in Nat /\ m \in Nat /\ d \in Nat
              BY <3>1
            <6>2. m # 0 /\ d # 0 /\ m <= 12
              BY <4>1
            <6> HIDE DEF y, m, d
            <6>3. y \in Int /\ m \in 1..12 /\ d \in Nat \ {0}
              BY <6>1, <6>2
            <6> QED BY <6>3 DEF y, m, d
          <5>2. DaysInMonth(w.y, w.m) \in Int
            <6>1. w.m \in Month /\ w.y \in Int
              BY <5>1 DEF Month
            <6>2. DaysInMonth(w.y, w.m) \in 28..31
              BY <6>1, MonthLengths
            <6> QED BY <6>2
          <5>3. IsDate(w)
            BY <4>1, <5>1, <5>2 DEF IsDate
          <5> QED BY <3>1, <4>1, <5>3 DEF ResolveAbsolute, FmtIso
        <4>2. CASE ~(0 \notin {w.y, w.m, w.d} /\ w.m <= 12 /\ w.d <= DaysInMonth(w.y, w.m))
          BY <3>1, <4>2 DEF ResolveAbsolute
        <4> QED BY <4>1, <4>2
      <3>3. c.event = at \/ c.event = Undated \/ IsInstant(c.event)
        <4>1. CASE x.date = NoDate
          BY <1>3, <4>1 DEF EventOf
        <4>2. CASE x.date = Unreadable
          BY <1>3, <4>2, DatesAreDates DEF EventOf
        <4>3. CASE IsDate(x.date)
          <5>1. x.date # NoDate /\ x.date # Unreadable
            BY <4>3, DatesAreDates
          <5>2. c.event = Instant(x.date, 0)
            BY <1>3, <5>1 DEF EventOf
          <5> QED BY <4>3, <5>2, InstantIs
        <4> QED BY <3>2, <4>1, <4>2, <4>3
      <3> QED BY <1>1, <1>3, <2>3, <2>4, <3>3 DEF at
    <2>5. CASE s.family = "relative_time"
      <3> DEFINE p == s.value
      <3>1. /\ p.count \in Int /\ p.unit \in Units /\ p.exact \in BOOLEAN
            /\ x.date = ResolveRelative(p, anchor)
        BY <2>2, <2>3, <2>5 DEF ValueFits
      <3>2. CASE anchor = NoDate \/ ~p.exact
        <4>1. c.event = at
          BY <1>3, <3>1, <3>2, DatesAreDates DEF ResolveRelative, EventOf
        <4>2. p.exact => at = Undated
          BY <1>4, <1>5, <3>2
        <4> QED BY <1>1, <1>3, <2>3, <2>5, <4>1, <4>2 DEF at
      <3>3. CASE ~(anchor = NoDate \/ ~p.exact)
        <4>1. IsDate(anchor) /\ anchor.y \in FourDigits /\ at.y \in FourDigits
          BY <1>4, <1>5, <3>3
        <4> DEFINE u == Shift(anchor, p.count, p.unit)
        <4>2. x.date = u
          BY <3>1, <3>3 DEF ResolveRelative
        <4>3. IsDate(u) \/ u = Unreadable
          BY <3>1, <4>1, ShiftIs
        <4> HIDE DEF u
        <4>4. CASE IsDate(u)
          <5>1. u # NoDate /\ u # Unreadable
            BY <4>4, DatesAreDates
          <5>2. c.event = Instant(u, 0) /\ IsInstant(c.event)
            BY <1>3, <4>2, <4>4, <5>1, InstantIs DEF EventOf
          <5> QED BY <1>3, <2>3, <2>5, <3>1, <4>1, <5>1, <5>2 DEF u, anchor, at
        <4>5. CASE u = Unreadable
          <5>1. c.event = Undated
            BY <1>3, <4>2, <4>5, DatesAreDates DEF EventOf
          <5> QED BY <1>3, <2>3, <2>5, <3>1, <4>1, <4>5, <5>1 DEF u, anchor, at
        <4> QED BY <4>3, <4>4, <4>5
      <3> QED BY <3>2, <3>3
    <2>6. CASE s.family \notin {"date", "relative_time"}
      <3>1. c.event = at
        BY <1>3, <2>3, <2>6, DatesAreDates DEF EventOf
      <3>2. c.family = "money" => c.value \in [amount : Int, currency : STRING]
        BY <1>3, <2>2, <2>3 DEF ValueFits
      <3> QED BY <1>1, <1>3, <2>3, <2>6, <3>1, <3>2 DEF at
    <2> QED BY <2>4, <2>5, <2>6
  <1> QED BY <1>2, <1>6, <1>7 DEF TurnClaims

\* Every claim is one of a turn that was read.
LEMMA RangeOfClaims ==
  ASSUME Reading
  PROVE  /\ DOMAIN claims = 1..Len(claims) /\ Len(claims) \in Nat
         /\ \A i \in DOMAIN claims : claims[i] \in ReadClaims
         /\ \A c \in Range(claims) : \E t \in 1..Len(history) : c \in ClaimsOfTurn(t)
  <1>1. DOMAIN claims = 1..Len(claims) /\ Len(claims) \in Nat /\ \A i \in DOMAIN claims : claims[i] \in ReadClaims
    BY DEF Reading
  <1>2. \A c \in Range(claims) : c \in ReadClaims
    BY <1>1 DEF Range
  <1>3. 1..read \subseteq 1..Len(history)
    BY DEF Reading
  <1> QED BY <1>1, <1>2, <1>3 DEF ReadClaims

\* A phrase that was resolved is given back.
LEMMA AgesAreAsSaid ==
  ASSUME Reading, NEW c \in Range(claims), NEW at, at = Instant(DateOf(history[c.turn].at), 0),
         c.family = "relative_time", c.value.exact, at # Undated
  PROVE  IF c.event = Undated THEN OutOfYears(c, at) ELSE AgeIsAsSaid(c, at)
  <1>1. PICK t \in 1..Len(history) : c \in ClaimsOfTurn(t)
    BY RangeOfClaims
  <1> DEFINE d == DateOf(history[c.turn].at)
             n == c.value.count
             unit == c.value.unit
             u == Shift(d, n, unit)
             away == IF Before(c.event, at) THEN CalendarDelta(c.event, at) ELSE CalendarDelta(at, c.event)
             size == IF n < 0 THEN -n ELSE n
  <1>2. history \in Transcript
    BY DEF Reading
  <1>3. /\ IsDate(d) /\ d.y \in FourDigits /\ n \in Int /\ unit \in Units
        /\ c.event = IF u = Unreadable THEN Undated ELSE Instant(u, 0)
    <2>1. c.turn = t
      BY <1>1, <1>2, ClaimIs
    <2>2. history[t].at # Undated
      <3> SUFFICES ASSUME history[t].at = Undated PROVE FALSE
        OBVIOUS
      <3>1. d = NoDate
        BY <2>1 DEF Undated, DateOf, Instant, NoDate
      <3>2. Instant(d, 0) = Undated
        BY <3>1 DEF Undated
      <3> QED BY <3>2
    <2>3. d.y = history[t].at.y
      BY <2>1 DEF DateOf
    <2> QED BY <1>1, <1>2, <2>1, <2>2, <2>3, ClaimIs
  <1>4. at = Instant(d, 0)
    OBVIOUS
  <1> HIDE DEF d, u
  <1>5. at.y = d.y /\ at.m = d.m /\ at.d = d.d /\ DayNumber(at) = DayNumber(d) /\ IsInstant(at)
    BY <1>3, <1>4, InstantIs DEF Instant
  <1>6. unit \in DOMAIN InMonths \/ unit \in DOMAIN InDays
    BY <1>3 DEF Units, InMonths, InDays
  <1>7. DOMAIN InMonths \intersect DOMAIN InDays = {}
    BY DEF InMonths, InDays
  <1>8. CASE unit \in DOMAIN InMonths
    <2> DEFINE k == n * InMonths[unit]
               v == AddMonthsClamped(d, k)
    <2>1. /\ k \in Int /\ IsDate(v) /\ v = Instant(DateOf(v), 0)
          /\ IF v.y \in FourDigits THEN u = DateOf(v) /\ IsDate(u) ELSE u = Unreadable
      BY <1>3, <1>8, MonthsShift DEF u
    <2>2. AddMonthsClamped(at, k) = v
      BY <1>5, SameDaySameMonths
    <2>3. (IF k < 0 THEN -k ELSE k) = size * InMonths[unit]
      <3>1. InMonths[unit] \in {1, 12, 120}
        BY <1>8 DEF InMonths
      <3> DEFINE i == InMonths[unit]
      <3>2. i \in {1, 12, 120} /\ k = n * i
        BY <3>1
      <3> HIDE DEF i, k
      <3>3. (IF k < 0 THEN -k ELSE k) = size * i
        <4>1. CASE i = 1
          BY <1>3, <3>2, <4>1
        <4>2. CASE i = 12
          BY <1>3, <3>2, <4>2
        <4>3. CASE i = 120
          BY <1>3, <3>2, <4>3
        <4> QED BY <3>2, <4>1, <4>2, <4>3
      <3> QED BY <3>3 DEF i
    <2>4. CASE v.y \in FourDigits
      <3>1. u = DateOf(v) /\ IsDate(u)
        BY <2>1, <2>4
      <3>2. c.event = v /\ c.event # Undated
        BY <1>3, <2>1, <3>1, DatesAreDates
      <3>3. MonthsIn(away) = (IF k < 0 THEN -k ELSE k) /\ away.days \in 0..3
        <4> HIDE DEF k
        <4> QED BY <1>3, <1>4, <2>1, <3>2, MonthsAreGivenBack DEF MonthsIn
      <3>4. MonthsIn(away) = size * InMonths[unit] /\ away.days \in 0..3
        BY <2>3, <3>3
      <3>5. AgeIsAsSaid(c, at)
        BY <1>7, <1>8, <3>4 DEF AgeIsAsSaid
      <3> QED BY <3>2, <3>5
    <2>5. CASE v.y \notin FourDigits
      <3>1. u = Unreadable
        BY <2>1, <2>5
      <3>2. c.event = Undated
        BY <1>3, <3>1
      <3>3. AddMonthsClamped(at, k).y \notin FourDigits
        BY <2>2, <2>5
      <3>4. OutOfYears(c, at)
        BY <1>8, <3>3 DEF OutOfYears
      <3> QED BY <3>2, <3>4
    <2> QED BY <2>4, <2>5
  <1>9. CASE unit \in DOMAIN InDays
    <2> DEFINE k == DayNumber(d) + n * InDays[unit]
               span == DayNumber(FirstDay)..DayNumber(LastDay)
    <2>1. /\ DayNumber(d) \in Int /\ n * InDays[unit] \in Int
          /\ IF k \in span THEN IsDate(u) /\ DayNumber(u) = k ELSE u = Unreadable
      BY <1>3, <1>9, DaysShift DEF u
    <2>2. CASE k \in span
      <3>1. IsDate(u) /\ DayNumber(u) = k
        BY <2>1, <2>2
      <3>2. c.event = Instant(u, 0) /\ c.event # Undated /\ DayNumber(c.event) = k
        <4>1. u # Unreadable
          BY <3>1, DatesAreDates
        <4>2. c.event = Instant(u, 0)
          BY <1>3, <4>1
        <4>3. IsInstant(c.event) /\ DayNumber(c.event) = DayNumber(u)
          BY <3>1, <4>2, InstantIs
        <4> QED BY <3>1, <4>2, <4>3, DateOfInstant
      <3>3. DayDelta(at, c.event) = n * InDays[unit]
        BY <1>5, <2>1, <3>2 DEF DayDelta
      <3>4. AgeIsAsSaid(c, at)
        BY <1>7, <1>9, <3>3 DEF AgeIsAsSaid
      <3> QED BY <3>2, <3>4
    <2>3. CASE k \notin span
      <3>1. u = Unreadable
        BY <2>1, <2>3
      <3>2. c.event = Undated
        BY <1>3, <3>1
      <3>3. DayNumber(at) + n * InDays[unit] \notin span
        BY <1>5, <2>3
      <3>4. OutOfYears(c, at)
        BY <1>9, <3>3 DEF OutOfYears, FirstDay, LastDay
      <3> QED BY <3>2, <3>4
    <2> QED BY <2>2, <2>3
  <1> QED BY <1>6, <1>8, <1>9

----------------------------------------------------------------------------
(* The timeline *)

\* What is retrieved are claims.
Windowed == window \in Seq(Range(claims))

\* So every one of them is a claim of a turn that was read.
LEMMA RangeOfWindow ==
  ASSUME Reading, Windowed
  PROVE  /\ DOMAIN window = 1..Len(window) /\ Len(window) \in Nat
         /\ \A c \in Range(window) : \E t \in 1..Len(history) : c \in ClaimsOfTurn(t)
  <1>1. DOMAIN window = 1..Len(window) /\ Len(window) \in Nat /\ \A i \in DOMAIN window : window[i] \in Range(claims)
    BY DEF Windowed
  <1>2. \A c \in Range(window) : c \in Range(claims)
    BY <1>1 DEF Range
  <1> QED BY <1>1, <1>2, RangeOfClaims

\* A claim is dated by an instant or not at all, and its rank is that of its instant.
LEMMA EventsAreTimed ==
  ASSUME Reading, Windowed, NEW i \in DOMAIN window
  PROVE  /\ Rank(window[i].event) \in Int
         /\ Dated(window[i].event) =>
              /\ IsInstant(window[i].event) /\ DayNumber(window[i].event) \in Int
              /\ window[i].event.s \in 0..1
              /\ Rank(window[i].event)
                   = 3 * (DayNumber(window[i].event) - DayNumber([y |-> 1970, m |-> 1, d |-> 1]))
                     + window[i].event.s
  <1> DEFINE e == window[i].event
             epoch == [y |-> 1970, m |-> 1, d |-> 1]
  <1>1. e = Undated \/ IsInstant(e)
    <2>1. window[i] \in Range(window)
      BY DEF Range
    <2>2. PICK t \in 1..Len(history) : window[i] \in ClaimsOfTurn(t)
      BY <2>1, RangeOfWindow
    <2> QED BY <2>2, ClaimIs DEF Reading
  <1>0. DayNumber(epoch) \in Int
    <2>1. IsDate(epoch)
      BY DEF IsDate, DaysInMonth
    <2> HIDE DEF epoch
    <2> QED BY <2>1, DayIsInt
  <1>r. Rank(e) = IF e = Undated THEN -1 ELSE 3 * (DayNumber(e) - DayNumber(epoch)) + e.s
    BY DEF Rank
  <1> HIDE DEF e, epoch
  <1>2. CASE e = Undated
    <2>1. Rank(e) = -1 /\ ~Dated(e)
      BY <1>2, <1>r DEF Dated
    <2> QED BY <2>1 DEF e
  <1>3. CASE e # Undated
    <2>1. IsInstant(e) /\ DayNumber(e) \in Int /\ e.s \in 0..1
      BY <1>1, <1>3, DateOfInstant DEF IsInstant
    <2>2. Rank(e) = 3 * (DayNumber(e) - DayNumber(epoch)) + e.s
      BY <1>3, <1>r
    <2>3. Rank(e) \in Int
      BY <1>0, <2>1, <2>2
    <2> QED BY <2>1, <2>2, <2>3 DEF e, epoch
  <1> QED BY <1>2, <1>3

\* Claims stand in one line by time.
LEMMA TimeOrders ==
  ASSUME Reading, Windowed, NEW S \in SUBSET DOMAIN window
  PROVE  /\ IsFiniteSet(S)
         /\ \A a \in S : <<a, a>> \notin InTime(S)
         /\ \A a, b \in S : a = b \/ <<a, b>> \in InTime(S) \/ <<b, a>> \in InTime(S)
         /\ \A a, b, c \in S : <<a, b>> \in InTime(S) /\ <<b, c>> \in InTime(S) => <<a, c>> \in InTime(S)
  <1> DEFINE r(i) == Rank(window[i].event)
  <1>1. \A i \in S : i \in Int /\ r(i) \in Int
    BY RangeOfWindow, EventsAreTimed
  <1>2. IsFiniteSet(S)
    <2>1. IsFiniteSet(DOMAIN window)
      BY RangeOfWindow, FS_Interval
    <2> QED BY <2>1, FS_Subset
  <1>3. \A a, b \in S : <<a, b>> \in InTime(S) <=> r(a) < r(b) \/ (r(a) = r(b) /\ a < b)
    BY DEF InTime, Earlier
  <1> HIDE DEF r
  <1>4. \A a, b, c \in S : <<a, b>> \in InTime(S) /\ <<b, c>> \in InTime(S) => <<a, c>> \in InTime(S)
    <2> SUFFICES ASSUME NEW a \in S, NEW b \in S, NEW c \in S,
                        <<a, b>> \in InTime(S), <<b, c>> \in InTime(S)
                 PROVE  <<a, c>> \in InTime(S)
      OBVIOUS
    <2> QED BY <1>1, <1>3
  <1>5. /\ \A a \in S : <<a, a>> \notin InTime(S)
        /\ \A a, b \in S : a = b \/ <<a, b>> \in InTime(S) \/ <<b, a>> \in InTime(S)
    BY <1>1, <1>3
  <1> QED BY <1>2, <1>4, <1>5

\* The rows of a timeline are dated, none before the one above it.
LEMMA PlacedIs ==
  ASSUME Reading, Windowed
  PROVE  /\ Placed \in Seq(DatedLeads) /\ Len(Placed) \in Nat
         /\ \A k \in 1..Len(Placed) :
              /\ IsInstant(window[Placed[k]].event) /\ DayNumber(window[Placed[k]].event) \in Int
         /\ \A i, j \in 1..Len(Placed) : i < j =>
              ~Before(window[Placed[j]].event, window[Placed[i]].event)
  <1> DEFINE S == DatedLeads
             R == InTime(S)
             e(k) == window[Placed[k]].event
             day0 == DayNumber([y |-> 1970, m |-> 1, d |-> 1])
  <1>0. day0 \in Int
    <2> DEFINE epoch == [y |-> 1970, m |-> 1, d |-> 1]
    <2>1. IsDate(epoch)
      BY DEF IsDate, DaysInMonth
    <2> HIDE DEF epoch
    <2>2. DayNumber(epoch) \in Int
      BY <2>1, DayIsInt
    <2> QED BY <2>2 DEF epoch
  <1>1. S \in SUBSET DOMAIN window /\ \A i \in S : Dated(window[i].event)
    BY DEF DatedLeads, Leads
  <1> HIDE DEF S
  <1>2. /\ Placed \in Seq(S)
        /\ \A i, j \in 1..Len(Placed) : i < j => <<Placed[i], Placed[j]>> \in R
    <2>1. Placed = Lined(S, R)
      BY DEF Placed, S
    <2>2. /\ IsFiniteSet(S)
          /\ \A a \in S : <<a, a>> \notin R
          /\ \A a, b \in S : a = b \/ <<a, b>> \in R \/ <<b, a>> \in R
          /\ \A a, b, c \in S : <<a, b>> \in R /\ <<b, c>> \in R => <<a, c>> \in R
      BY <1>1, TimeOrders
    <2> HIDE DEF R
    <2> QED BY <2>1, <2>2, LinedIs
  <1>3. \A k \in 1..Len(Placed) : Placed[k] \in S /\ Placed[k] \in DOMAIN window
    BY <1>1, <1>2
  <1>4. \A k \in 1..Len(Placed) :
          /\ IsInstant(e(k)) /\ DayNumber(e(k)) \in Int /\ e(k).s \in 0..1
          /\ Rank(e(k)) = 3 * (DayNumber(e(k)) - day0) + e(k).s
    BY <1>1, <1>3, EventsAreTimed
  <1>5. ASSUME NEW i \in 1..Len(Placed), NEW j \in 1..Len(Placed), i < j
        PROVE  ~Before(e(j), e(i))
    <2>1. Rank(e(i)) <= Rank(e(j))
      <3>1. Earlier(Placed[i], Placed[j])
        BY <1>2, <1>5 DEF InTime
      <3>2. Rank(e(i)) \in Int /\ Rank(e(j)) \in Int
        BY <1>3, EventsAreTimed
      <3>3. Rank(e(i)) < Rank(e(j)) \/ Rank(e(i)) = Rank(e(j))
        BY <3>1 DEF Earlier
      <3> HIDE DEF e
      <3> QED BY <3>2, <3>3
    <2> DEFINE x == DayNumber(e(i))   y == DayNumber(e(j))   p == e(i).s   q == e(j).s
    <2>2. x \in Int /\ y \in Int /\ p \in 0..1 /\ q \in 0..1 /\ 3 * (x - day0) + p <= 3 * (y - day0) + q
      BY <1>4, <2>1
    <2> HIDE DEF x, y, p, q, day0
    <2>3. ~(y < x \/ (y = x /\ q < p))
      BY <1>0, <2>2
    <2> QED BY <2>3 DEF Before, x, y, p, q
  <1>6. Len(Placed) \in Nat
    BY <1>2
  <1> QED BY <1>2, <1>4, <1>5, <1>6 DEF S

\* Gaps from one day to the next add up to the days between first and last.
LEMMA GapsAddUp ==
  ASSUME NEW n \in Nat, n >= 1, NEW rows, DOMAIN rows = 1..n, NEW day \in [1..n -> Int],
         \A k \in 1..n : rows[k].gap = IF k = 1 THEN 0 ELSE day[k] - day[k - 1]
  PROVE  GapsOf(rows) = day[n] - day[1]
  <1> DEFINE A == Int
             base == 0
             step == [a \in A |-> [k \in 1..n |-> a + rows[k].gap]]
             eq(h) == h = [s \in SUBSET (1..n) |->
                             IF s = {} THEN base ELSE h[s \ {Max(s)}] + rows[Max(s)].gap]
             fold == CHOOSE h : eq(h)
  <1>1. GapsOf(rows) = fold[1..n]
    BY DEF GapsOf, FoldLeft, MapThenFoldSet
  <1>2. \A k \in 1..n : rows[k].gap \in Int
    <2> SUFFICES ASSUME NEW k \in 1..n PROVE rows[k].gap \in Int
      OBVIOUS
    <2>1. k = 1 \/ k - 1 \in 1..n
      OBVIOUS
    <2> QED BY <2>1
  <1>3. step \in [A -> [1..n -> A]]
    BY <1>2
  <1>4. base \in A
    OBVIOUS
  <1>6. \A s \in SUBSET (1..n) : s # {} =>
           Max(s) \in 1..n /\ s \ {Max(s)} \in SUBSET (1..n)
    BY LastOfSet
  <1>5. PICK g : FoldsOn(g, n, A, base, step)
    <2> HIDE DEF step, A, base
    <2> QED BY <1>3, <1>4, FoldExists
  <1>7. eq(g)
    <2> SUFFICES ASSUME NEW s \in SUBSET (1..n), s # {}
                 PROVE  step[g[s \ {Max(s)}]][Max(s)] = g[s \ {Max(s)}] + rows[Max(s)].gap
      BY <1>5 DEF FoldsOn
    <2>1. g[s \ {Max(s)}] \in A /\ Max(s) \in 1..n
      BY <1>5, <1>6 DEF FoldsOn
    <2> QED BY <2>1
  <1>8. eq(fold)
    <2> HIDE DEF eq
    <2> QED BY <1>7
  <1>9. Unfolds(fold, n, A, base, step)
    <2> HIDE DEF fold
    <2> QED BY <1>6, <1>8 DEF Unfolds
  <1>10. PICK run : RunsTo(run, fold[1..n], n, A, base, step)
    <2> HIDE DEF step, fold, A, base
    <2> QED BY <1>3, <1>4, <1>9, FoldRuns
  <1>11. run \in [0..n -> Int] /\ run[0] = 0 /\ run[n] = fold[1..n]
    <2> HIDE DEF step, fold
    <2> QED BY <1>10 DEF RunsTo
  <1>12. \A k \in 1..n : run[k] = run[k - 1] + rows[k].gap
    <2> SUFFICES ASSUME NEW k \in 1..n PROVE run[k] = run[k - 1] + rows[k].gap
      OBVIOUS
    <2>1. run[k] = step[run[k - 1]][k]
      <3> HIDE DEF step, fold
      <3> QED BY <1>10 DEF RunsTo
    <2>2. run[k - 1] \in Int
      BY <1>11
    <2> QED BY <2>1, <2>2
  <1> HIDE DEF fold, step
  <1> DEFINE H == {k \in 0..n : k = 0 \/ run[k] = day[k] - day[1]}
  <1>13. ASSUME NEW k \in 1..n, k - 1 \in H PROVE k \in H
    <2>1. CASE k = 1
      <3>1. run[1] = run[0] + rows[1].gap /\ rows[1].gap = 0 /\ day[1] \in Int
        BY <1>12, <2>1
      <3>2. run[1] = day[1] - day[1]
        BY <1>11, <3>1
      <3> QED BY <2>1, <3>2
    <2>2. CASE k # 1
      <3>1. k - 1 \in 1..n /\ run[k - 1] = day[k - 1] - day[1]
        BY <1>13, <2>2
      <3>2. run[k] = run[k - 1] + rows[k].gap /\ rows[k].gap = day[k] - day[k - 1]
        BY <1>12, <2>2
      <3>3. day[k] \in Int /\ day[k - 1] \in Int /\ day[1] \in Int
        BY <3>1
      <3>4. run[k] = day[k] - day[1]
        BY <3>1, <3>2, <3>3
      <3> QED BY <3>4
    <2> QED BY <2>1, <2>2
  <1>14. n \in H
    <2>1. 0 \in H
      OBVIOUS
    <2> HIDE DEF H
    <2>2. \A k \in 1..n : k - 1 \in H => k \in H
      BY <1>13
    <2>3. \A k \in 0..n : k \in H
      BY <2>1, <2>2, UpTo
    <2> QED BY <2>3
  <1> QED BY <1>1, <1>11, <1>14

\* A timeline adds up: from its first date forward, and from gap to gap.
LEMMA TimelinesAddUp ==
  ASSUME Reading, Windowed, NEW asked, IsInstant(asked), NEW t \in Timeline(asked)
  PROVE  SpanAddsUp(t)
  <1> DEFINE event(k) == window[Placed[k]].event
             last == Len(Placed)
             row(k) == [event |-> event(k),
                        gap |-> IF k = 1 THEN 0 ELSE DayDelta(event(k - 1), event(k)),
                        age |-> DayDelta(event(k), asked)]
             rows == [k \in 1..last |-> row(k)]
             day == [k \in 1..last |-> DayNumber(event(k))]
  <1>1. /\ last \in Nat /\ last >= 2
        /\ t.rows = rows /\ t.days = DayDelta(event(1), event(last))
        /\ t.calendar = CalendarDelta(event(1), event(last))
    <2>1. last \in Nat
      BY PlacedIs
    <2>2. ~(last < 2) /\ t = [rows |-> rows, undated |-> Cardinality(Leads) - last,
                              days |-> DayDelta(event(1), event(last)),
                              calendar |-> CalendarDelta(event(1), event(last))]
      BY DEF Timeline
    <2> HIDE DEF last, event, rows
    <2> QED BY <2>1, <2>2
  <1>2. \A k \in 1..last : IsInstant(event(k)) /\ DayNumber(event(k)) \in Int
    BY PlacedIs
  <1>3. ~Before(event(last), event(1))
    BY <1>1, PlacedIs
  <1>4. DayNumber(asked) \in Int
    BY DateOfInstant
  <1> HIDE DEF event, last
  <1>5. 1 \in 1..last /\ last \in 1..last
    BY <1>1
  <1>6. rows[1].event = event(1) /\ rows[last].event = event(last) /\ Len(rows) = last
    <2>1. Len(rows) = last
      BY <1>1
    <2> QED BY <1>5, <2>1
  <1>7. day \in [1..last -> Int]
    BY <1>2
  <1>8. GapsOf(rows) = day[last] - day[1]
    <2>1. DOMAIN rows = 1..last
      OBVIOUS
    <2>2. \A k \in 1..last : rows[k].gap = IF k = 1 THEN 0 ELSE day[k] - day[k - 1]
      <3> SUFFICES ASSUME NEW k \in 1..last, k # 1 PROVE rows[k].gap = day[k] - day[k - 1]
        OBVIOUS
      <3>1. k - 1 \in 1..last
        BY <1>1
      <3> QED BY <3>1 DEF DayDelta
    <2>3. last \in Nat /\ last >= 1
      BY <1>1
    <2> HIDE DEF rows, day
    <2> QED BY <1>7, <2>1, <2>2, <2>3, GapsAddUp
  <1>9. \A k \in 1..last : rows[k].age + DayDelta(event(1), rows[k].event) = rows[1].age
    <2> SUFFICES ASSUME NEW k \in 1..last
                 PROVE  rows[k].age + DayDelta(event(1), rows[k].event) = rows[1].age
      OBVIOUS
    <2> DEFINE x == DayNumber(event(1))  y == DayNumber(event(k))  z == DayNumber(asked)
    <2>1. x \in Int /\ y \in Int /\ z \in Int
      BY <1>2, <1>4, <1>5
    <2>2. rows[k].age = z - y /\ rows[1].age = z - x /\ DayDelta(event(1), rows[k].event) = y - x
      BY <1>5 DEF DayDelta
    <2> HIDE DEF x, y, z, rows
    <2> QED BY <2>1, <2>2
  <1> DEFINE c == CalendarDelta(event(1), event(last))
             n == c.years * 12 + c.months
  <1>10. c.days \in 0..30 /\ DayNumber(AddMonthsClamped(event(1), n)) + c.days = DayNumber(event(last))
    BY <1>2, <1>3, <1>5, SpansAreExact
  <1>11. DayDelta(event(1), event(last)) = GapsOf(rows)
    BY <1>5, <1>8 DEF DayDelta
  <1>12. DOMAIN rows = 1..last
    OBVIOUS
  <1> HIDE DEF rows, c
  <1> QED BY <1>1, <1>6, <1>9, <1>10, <1>11, <1>12 DEF SpanAddsUp, MonthsIn, c

----------------------------------------------------------------------------
(* Lists of lines *)

----------------------------------------------------------------------------
(* Lists *)

\* Items are places of lines.
LEMMA ItemsAre ==
  ASSUME NEW lines \in Seq(ListLine)
  PROVE  /\ Len(lines) \in Nat /\ DOMAIN lines = 1..Len(lines)
         /\ Items(lines) \subseteq 1..Len(lines) /\ \A i \in Items(lines) : i \in Nat
         /\ \A i \in 1..Len(lines) : lines[i] \in ListLine
  BY DEF Items

\* To belong to one list is an equivalence.
LEMMA JoinedIs ==
  ASSUME NEW lines \in Seq(ListLine), NEW i \in Items(lines), NEW j \in Items(lines), NEW m \in Items(lines),
         i <= j, j <= m
  PROVE  Joined(lines, i, m) <=> Joined(lines, i, j) /\ Joined(lines, j, m)
  <1>1. i \in Nat /\ j \in Nat /\ m \in Nat /\ \A k \in Items(lines) : k \in Nat
    BY ItemsAre
  <1> DEFINE near(a, b) == b - a <= 2 /\ \A k \in a + 1..b - 1 : lines[k].kind = "blank"
             step(a, b) == a < b /\ {k \in Items(lines) : a < k /\ k < b} = {}
             within(x, y) == {k \in Items(lines) : x <= k /\ k <= y}
  <1>2. \A x, y : Joined(lines, x, y) <=> \A a, b \in within(x, y) : step(a, b) => near(a, b)
    BY DEF Joined
  <1>3. within(i, j) \subseteq within(i, m) /\ within(j, m) \subseteq within(i, m)
    <2>1. ASSUME NEW k \in Items(lines), i <= k, k <= j PROVE i <= k /\ k <= m
      BY <1>1, <2>1
    <2>2. ASSUME NEW k \in Items(lines), j <= k, k <= m PROVE i <= k /\ k <= m
      BY <1>1, <2>2
    <2> QED BY <2>1, <2>2
  <1>4. ASSUME NEW a \in within(i, m), NEW b \in within(i, m), step(a, b)
        PROVE  (a \in within(i, j) /\ b \in within(i, j)) \/ (a \in within(j, m) /\ b \in within(j, m))
    <2>1. ~(a < j /\ j < b)
      BY <1>4
    <2>2. a \in Nat /\ b \in Nat /\ a < b
      BY <1>1, <1>4
    <2> QED BY <1>1, <2>1, <2>2
  <1> HIDE DEF near, step, within
  <1>5. Joined(lines, i, m) => Joined(lines, i, j) /\ Joined(lines, j, m)
    BY <1>2, <1>3
  <1>6. Joined(lines, i, j) /\ Joined(lines, j, m) => Joined(lines, i, m)
    BY <1>2, <1>4
  <1> QED BY <1>5, <1>6

\* The list of an item, and its neighbours in it.
LEMMA ListOfIs ==
  ASSUME NEW lines \in Seq(ListLine), NEW i \in Items(lines)
  PROVE  /\ i \in ListOf(lines, i) /\ ListOf(lines, i) \subseteq Items(lines)
         /\ \A j \in ListOf(lines, i) : ListOf(lines, j) = ListOf(lines, i)
  <1> DEFINE J(a, b) == Joined(lines, a, b)
             I == Items(lines)
  <1>1. \A k \in I : k \in Nat
    BY ItemsAre
  <1>2. \A a, b, c \in I : a <= b /\ b <= c => (J(a, c) <=> J(a, b) /\ J(b, c))
    BY JoinedIs
  <1>3. J(i, i)
    BY <1>1 DEF Joined
  <1>4. \A a, b \in I : b \in ListOf(lines, a) <=> IF a <= b THEN J(a, b) ELSE J(b, a)
    BY DEF ListOf
  <1>5. \A a : ListOf(lines, a) \subseteq I
    BY DEF ListOf
  <1> HIDE DEF J, I
  <1>6. i \in I
    BY DEF I
  <1>7. i \in ListOf(lines, i)
    BY <1>1, <1>3, <1>4, <1>6
  <1>8. ASSUME NEW a \in I, NEW b \in I, NEW c \in I, b \in ListOf(lines, a)
        PROVE  c \in ListOf(lines, a) => c \in ListOf(lines, b)
    <2>1. a \in Nat /\ b \in Nat /\ c \in Nat
      BY <1>1
    <2> QED BY <1>2, <1>4, <1>8, <2>1
  <1>9. \A a, b \in I : b \in ListOf(lines, a) => a \in ListOf(lines, b)
    BY <1>1, <1>4
  <1>10. ASSUME NEW j \in ListOf(lines, i) PROVE ListOf(lines, j) = ListOf(lines, i)
    <2>1. j \in I /\ i \in ListOf(lines, j)
      BY <1>5, <1>6, <1>9
    <2>2. \A c \in I : c \in ListOf(lines, i) <=> c \in ListOf(lines, j)
      BY <1>6, <1>8, <2>1
    <2> QED BY <1>5, <2>2
  <1> QED BY <1>5, <1>7, <1>10 DEF I

\* An item after at most one blank line belongs to the list before it.
LEMMA NextItemJoins ==
  ASSUME NEW lines \in Seq(ListLine), NEW m \in Items(lines), NEW k \in Items(lines), m < k, k - m <= 2,
         \A j \in m + 1..k - 1 : lines[j].kind = "blank"
  PROVE  k \in ListOf(lines, m)
  <1>1. m \in Nat /\ k \in Nat /\ \A i \in Items(lines) : i \in Nat /\ lines[i].kind # "blank"
    BY ItemsAre DEF Items
  <1>2. \A i \in Items(lines) : m <= i /\ i <= k => i = m \/ i = k
    <2> SUFFICES ASSUME NEW i \in Items(lines), m < i, i < k PROVE FALSE
      BY <1>1
    <2>1. i \in m + 1..k - 1
      BY <1>1
    <2> QED BY <1>1, <2>1
  <1>3. Joined(lines, m, k)
    <2> SUFFICES ASSUME NEW a \in Items(lines), NEW b \in Items(lines), m <= a, a <= k, m <= b, b <= k, a < b
                 PROVE  b - a <= 2 /\ \A j \in a + 1..b - 1 : lines[j].kind = "blank"
      BY DEF Joined
    <2>1. a = m /\ b = k
      BY <1>1, <1>2
    <2> QED BY <2>1
  <1> QED BY <1>1, <1>3 DEF ListOf

\* Two lines without an item, or one that is not blank, end a list.
LEMMA GapEndsList ==
  ASSUME NEW lines \in Seq(ListLine), NEW m \in Items(lines), NEW k \in 1..Len(lines), m < k,
         \A j \in m + 1..k : j \notin Items(lines),
         k - m >= 2 \/ lines[k].kind # "blank",
         NEW i \in Items(lines), i <= m, NEW j \in Items(lines), k < j
  PROVE  j \notin ListOf(lines, i)
  <1>1. m \in Nat /\ k \in Nat /\ i \in Nat /\ j \in Nat /\ \A b \in Items(lines) : b \in Nat
    BY ItemsAre
  <1> SUFFICES ASSUME Joined(lines, i, j) PROVE FALSE
    BY <1>1 DEF ListOf
  <1> DEFINE T == {b \in Items(lines) : m < b}
  <1>2. j \in T /\ T \subseteq Nat
    <2>1. m < j
      BY <1>1
    <2> QED BY <1>1, <2>1
  <1>3. PICK b \in T : \A c \in T : b <= c
    <2> HIDE DEF T
    <2> QED BY <1>2, LeastNat
  <1>4. b \in Items(lines) /\ m < b /\ b <= j /\ b \in Nat
    BY <1>1, <1>2, <1>3
  <1>5. b > k
    <2> SUFFICES ASSUME b <= k PROVE FALSE
      BY <1>1, <1>4
    <2>1. b \in m + 1..k
      BY <1>1, <1>4
    <2> QED BY <1>4, <2>1
  <1>6. {c \in Items(lines) : m < c /\ c < b} = {}
    <2> SUFFICES ASSUME NEW c \in Items(lines), m < c, c < b PROVE FALSE
      OBVIOUS
    <2>1. c \in T
      OBVIOUS
    <2>2. b <= c /\ c \in Nat
      BY <1>1, <1>3, <2>1
    <2> QED BY <1>4, <2>2
  <1>7. i <= m /\ m <= j /\ i <= b /\ b <= j
    BY <1>1, <1>4
  <1>8. b - m <= 2 /\ \A c \in m + 1..b - 1 : lines[c].kind = "blank"
    BY <1>4, <1>6, <1>7 DEF Joined
  <1>9. k \in m + 1..b - 1 /\ ~(k - m >= 2)
    BY <1>1, <1>4, <1>5, <1>8
  <1> QED BY <1>8, <1>9

\* After k lines: the list that is open, and those that are closed.
Bullets(lines, S) == {j \in S : lines[j].kind = "bullet"}
Numbered(lines, list) == \A q \in DOMAIN list : list[q].index = Place(lines, list[q].line)
ItemsUpTo(lines, k) == Items(lines) \intersect (1..k)
OpenIs(lines, k, a) ==
  LET open == LinesOf(a.items)
  IN  /\ open \subseteq ItemsUpTo(lines, k)
      /\ Len(a.items) = Cardinality(open)
      /\ a.bullets = Cardinality(Bullets(lines, open))
      /\ \A i \in open : ListOf(lines, i) \intersect (1..k) = open
      /\ Numbered(lines, a.items)
GapIs(lines, k, a) ==
  LET open == LinesOf(a.items)
  IN  open # {} => \E m \in open : a.gap = k - m /\ a.gap <= 1
                                   /\ \A j \in m + 1..k : lines[j].kind = "blank"
LongLists(lines, S) == {ListOf(lines, i) : i \in {j \in S : Cardinality(ListOf(lines, j)) >= 2}}
ClosedAre(lines, k, open, lists) ==
  /\ \A i \in ItemsUpTo(lines, k) \ open : ListOf(lines, i) \subseteq 1..k
  /\ {LinesOf(lists[l]) : l \in DOMAIN lists} = LongLists(lines, ItemsUpTo(lines, k) \ open)
  /\ \A l \in DOMAIN lists : Numbered(lines, lists[l])
ScannedTo(lines, k, a) ==
  /\ a \in ListScan(Len(lines)) /\ OpenIs(lines, k, a) /\ GapIs(lines, k, a)
  /\ ClosedAre(lines, k, LinesOf(a.items), a.lists)

\* Between lists, nothing is open.
LEMMA NothingOpen ==
  ASSUME NEW lines, NEW k, NEW a, a.items = <<>>, a.bullets = 0
  PROVE  OpenIs(lines, k, a) /\ GapIs(lines, k, a) /\ LinesOf(a.items) = {}
  <1>1. LinesOf(a.items) = {} /\ DOMAIN a.items = {} /\ Len(a.items) = 0
    BY DEF LinesOf
  <1>2. Bullets(lines, {}) = {}
    BY DEF Bullets
  <1> QED BY <1>1, <1>2, FS_EmptySet DEF OpenIs, GapIs, Numbered

\* An open list that is complete is closed.
LEMMA ListCloses ==
  ASSUME NEW lines \in Seq(ListLine), NEW k \in 0..Len(lines), NEW a \in ListScan(Len(lines)),
         OpenIs(lines, k, a), ClosedAre(lines, k, LinesOf(a.items), a.lists),
         \A i \in LinesOf(a.items) : ListOf(lines, i) = LinesOf(a.items)
  PROVE  ClosedAre(lines, k, {}, Flushed(a).lists)
  <1> DEFINE n == Len(lines)
             open == LinesOf(a.items)
             S == ItemsUpTo(lines, k)
             lists == Flushed(a).lists
             L(i) == ListOf(lines, i)
  <1>1. n \in Nat /\ a.lists \in Seq(Seq(Item(n))) /\ a.items \in Seq(Item(n)) /\ Len(a.items) \in Nat
    BY ItemsAre DEF ListScan
  <1>2. lists = IF Len(a.items) >= 2 THEN Append(a.lists, a.items) ELSE a.lists
    BY <1>1, FlushedIs
  <1>3. open \subseteq S /\ Len(a.items) = Cardinality(open) /\ \A i \in open : L(i) = open
    BY DEF OpenIs
  <1>4. S \subseteq 1..k /\ S \subseteq Items(lines)
    BY DEF ItemsUpTo
  <1>5. \A i \in S \ {} : L(i) \subseteq 1..k
    BY <1>3, <1>4 DEF ClosedAre
  <1>6. {LinesOf(a.lists[l]) : l \in DOMAIN a.lists} = LongLists(lines, S \ open)
    BY DEF ClosedAre
  <1>7. CASE Len(a.items) >= 2
    <2>1. lists = Append(a.lists, a.items)
      BY <1>2, <1>7
    <2> HIDE DEF lists
    <2>2. /\ DOMAIN a.lists = 1..Len(a.lists) /\ Len(a.lists) \in Nat
          /\ DOMAIN lists = 1..Len(a.lists) + 1
          /\ \A l \in DOMAIN a.lists : lists[l] = a.lists[l]
          /\ lists[Len(a.lists) + 1] = a.items
      BY <1>1, <2>1, AppendProperties
    <2>3. DOMAIN lists = DOMAIN a.lists \union {Len(a.lists) + 1}
      BY <2>2
    <2>4. {LinesOf(lists[l]) : l \in DOMAIN lists} = LongLists(lines, S \ open) \union {open}
      <3>1. \A l \in DOMAIN lists : LinesOf(lists[l]) \in {LinesOf(a.lists[p]) : p \in DOMAIN a.lists} \union {open}
        BY <2>2, <2>3
      <3>2. \A p \in DOMAIN a.lists : \E l \in DOMAIN lists : LinesOf(a.lists[p]) = LinesOf(lists[l])
        BY <2>2, <2>3
      <3>3. \E l \in DOMAIN lists : open = LinesOf(lists[l])
        BY <2>2, <2>3
      <3> DEFINE X == {LinesOf(lists[l]) : l \in DOMAIN lists}
                 Y == {LinesOf(a.lists[p]) : p \in DOMAIN a.lists}
      <3>4. X \subseteq Y \union {open}
        BY <3>1
      <3>5. Y \subseteq X /\ open \in X
        BY <3>2, <3>3
      <3>6. Y = LongLists(lines, S \ open)
        BY <1>6
      <3> HIDE DEF open, X, Y
      <3>7. X = LongLists(lines, S \ open) \union {open}
        BY <3>4, <3>5, <3>6
      <3> QED BY <3>7 DEF X
    <2>5. Cardinality(open) >= 2 /\ open # {}
      <3>1. Cardinality(open) >= 2
        BY <1>3, <1>7
      <3> HIDE DEF open
      <3>2. open = {} => Cardinality(open) = 0
        BY FS_EmptySet
      <3> QED BY <3>1, <3>2
    <2> HIDE DEF open
    <2>6. LongLists(lines, S \ {}) = LongLists(lines, S \ open) \union {open}
      BY <1>3, <2>5 DEF LongLists
    <2>7. \A l \in DOMAIN lists : Numbered(lines, lists[l])
      BY <2>2, <2>3 DEF ClosedAre, OpenIs
    <2> HIDE DEF S
    <2> QED BY <1>5, <2>4, <2>6, <2>7 DEF ClosedAre, S, lists
  <1>8. CASE ~(Len(a.items) >= 2)
    <2>1. lists = a.lists
      BY <1>2, <1>8
    <2>2. \A i \in open : ~(Cardinality(L(i)) >= 2)
      BY <1>3, <1>8
    <2> HIDE DEF open, lists
    <2>3. LongLists(lines, S \ {}) = LongLists(lines, S \ open)
      BY <1>3, <2>2 DEF LongLists
    <2>4. \A l \in DOMAIN lists : Numbered(lines, lists[l])
      BY <2>1 DEF ClosedAre
    <2> HIDE DEF S
    <2> QED BY <1>5, <1>6, <2>1, <2>3, <2>4 DEF ClosedAre, S, lists
  <1> QED BY <1>7, <1>8

\* An item continues the list that is open, or opens one.
LEMMA ItemIsScanned ==
  ASSUME NEW lines \in Seq(ListLine), NEW k \in 1..Len(lines), NEW a, ScannedTo(lines, k - 1, a),
         k \in Items(lines)
  PROVE  ScannedTo(lines, k, OnItem(a, lines[k], k))
  <1> DEFINE n == Len(lines)
             open == LinesOf(a.items)
             f == OnItem(a, lines[k], k)
             all == LinesOf(f.items)
             bullets == IF lines[k].kind = "bullet" THEN a.bullets + 1 ELSE a.bullets
             item == [index |-> IF lines[k].kind = "bullet" THEN bullets ELSE lines[k].n, line |-> k]
             I(j) == ItemsUpTo(lines, j)
             L(i) == ListOf(lines, i)
  <1>1. n \in Nat /\ lines[k] \in ListLine /\ k \in Nat /\ k - 1 \in Nat /\ \A i \in Items(lines) : i \in Nat
    BY ItemsAre
  <1>2. a \in ListScan(n) /\ a.items \in Seq(Item(n)) /\ Len(a.items) \in Nat /\ a.bullets \in Nat
    BY DEF ScannedTo, ListScan
  <1>3. /\ f \in ListScan(n) /\ item \in Item(n)
        /\ f.lists = a.lists /\ f.items = Append(a.items, item) /\ f.bullets = bullets /\ f.gap = 0
    BY <1>1, <1>2, OnItemIs
  <1> HIDE DEF f
  <1>4. /\ DOMAIN a.items = 1..Len(a.items) /\ Len(f.items) = Len(a.items) + 1
        /\ DOMAIN f.items = DOMAIN a.items \union {Len(a.items) + 1}
        /\ \A q \in DOMAIN a.items : f.items[q] = a.items[q]
        /\ f.items[Len(a.items) + 1] = item
    <2>1. /\ DOMAIN a.items = 1..Len(a.items) /\ DOMAIN f.items = 1..Len(f.items)
          /\ Len(f.items) = Len(a.items) + 1
          /\ \A q \in DOMAIN a.items : f.items[q] = a.items[q]
          /\ f.items[Len(a.items) + 1] = item
      <3> HIDE DEF item
      <3> QED BY <1>2, <1>3, AppendProperties
    <2> HIDE DEF item
    <2> QED BY <1>2, <2>1
  <1>5. all = open \union {k}
    <2>1. \A q \in DOMAIN f.items : f.items[q].line \in open \union {k}
      BY <1>4 DEF LinesOf
    <2>2. k \in all /\ \A q \in DOMAIN a.items : a.items[q].line \in all
      BY <1>4 DEF LinesOf
    <2> QED BY <2>1, <2>2 DEF LinesOf
  <1>6. /\ open \subseteq I(k - 1) /\ Len(a.items) = Cardinality(open)
        /\ a.bullets = Cardinality(Bullets(lines, open))
        /\ \A i \in open : L(i) \intersect (1..k - 1) = open
        /\ Numbered(lines, a.items)
        /\ open # {} => \E m \in open : a.gap = k - 1 - m /\ a.gap <= 1
                                        /\ \A j \in m + 1..k - 1 : lines[j].kind = "blank"
    BY DEF ScannedTo, OpenIs, GapIs
  <1>7. I(k) = I(k - 1) \union {k} /\ k \notin I(k - 1) /\ I(k - 1) \subseteq 1..k - 1
    BY <1>1 DEF ItemsUpTo
  <1> HIDE DEF open, all, item
  <1>8. IsFiniteSet(open) /\ k \notin open
    <2>1. open \in SUBSET (1..n)
      BY <1>1, <1>6, <1>7
    <2>2. IsFiniteSet(1..n)
      BY <1>1, FS_Interval
    <2> QED BY <1>6, <1>7, <2>1, <2>2, FS_Subset
  <1>9. Len(f.items) = Cardinality(all)
    BY <1>4, <1>5, <1>6, <1>8, FS_AddElement
  <1>10. bullets = Cardinality(Bullets(lines, all))
    <2>1. IsFiniteSet(Bullets(lines, open)) /\ k \notin Bullets(lines, open)
      <3>1. Bullets(lines, open) \in SUBSET open
        BY DEF Bullets
      <3> QED BY <1>8, <3>1, FS_Subset
    <2>2. CASE lines[k].kind = "bullet"
      <3>1. Bullets(lines, all) = Bullets(lines, open) \union {k}
        BY <1>5, <2>2 DEF Bullets
      <3> QED BY <1>6, <2>1, <2>2, <3>1, FS_AddElement
    <2>3. CASE lines[k].kind # "bullet"
      <3>1. Bullets(lines, all) = Bullets(lines, open)
        BY <1>5, <2>3 DEF Bullets
      <3> QED BY <1>6, <2>3, <3>1
    <2> QED BY <2>2, <2>3
  <1>11. L(k) \intersect (1..k) = all /\ \A i \in open : L(i) = L(k)
    <2>1. k \in L(k) /\ L(k) \subseteq Items(lines) /\ \A j \in L(k) : L(j) = L(k)
      BY ListOfIs
    <2>2. CASE open = {}
      <3>1. ASSUME NEW j \in L(k), j \in 1..k - 1 PROVE FALSE
        <4>1. j \in I(k - 1) \ open /\ k \in L(j)
          BY <2>1, <2>2, <3>1 DEF ItemsUpTo
        <4>2. k \in 1..k - 1
          BY <4>1 DEF ScannedTo, ClosedAre, open
        <4> QED BY <1>1, <4>2
      <3>2. \A j \in 1..k : j \in 1..k - 1 \/ j = k
        BY <1>1
      <3> QED BY <1>1, <1>5, <2>1, <2>2, <3>1, <3>2
    <2>3. CASE open # {}
      <3>1. PICK m \in open : a.gap = k - 1 - m /\ a.gap <= 1
                              /\ \A j \in m + 1..k - 1 : lines[j].kind = "blank"
        BY <1>6, <2>3
      <3>2. m \in Items(lines) /\ m \in 1..k - 1 /\ L(m) \intersect (1..k - 1) = open
        BY <1>6, <1>7 DEF ItemsUpTo
      <3>3. m < k /\ k - m <= 2
        BY <1>1, <3>1, <3>2
      <3>4. k \in L(m)
        BY <3>1, <3>2, <3>3, NextItemJoins
      <3>5. L(k) = L(m) /\ \A i \in L(m) : L(i) = L(m)
        BY <3>2, <3>4, ListOfIs
      <3>6. 1..k = (1..k - 1) \union {k}
        BY <1>1
      <3> HIDE DEF L
      <3> QED BY <1>5, <2>1, <3>2, <3>5, <3>6
    <2> QED BY <2>2, <2>3
  <1>12. \A i \in all : L(i) \intersect (1..k) = all
    BY <1>5, <1>11
  <1>13. Numbered(lines, f.items)
    <2>1. item.index = Place(lines, k)
      <3>1. CASE lines[k].kind = "bullet"
        <4>1. {j \in L(k) : j <= k /\ lines[j].kind = "bullet"} = Bullets(lines, all)
          <5>1. \A j \in L(k) : j \in Nat /\ (j <= k <=> j \in 1..k)
            <6>1. \A j \in L(k) : j \in Items(lines)
              BY ListOfIs
            <6>2. \A j \in Items(lines) : j \in 1..n
              BY ItemsAre
            <6>3. \A j \in 1..n : j \in Nat /\ (j <= k <=> j \in 1..k)
              BY <1>1
            <6> HIDE DEF L, n
            <6> QED BY <6>1, <6>2, <6>3 DEF L, n
          <5> QED BY <1>11, <5>1 DEF Bullets
        <4> QED BY <1>10, <3>1, <4>1 DEF Place, item
      <3>2. CASE lines[k].kind # "bullet"
        BY <3>2 DEF Place, item
      <3> QED BY <3>1, <3>2
    <2>2. item.line = k
      BY DEF item
    <2> QED BY <1>4, <1>6, <2>1, <2>2 DEF Numbered
  <1>14. all \subseteq I(k)
    BY <1>5, <1>6, <1>7
  <1>15. OpenIs(lines, k, f) /\ GapIs(lines, k, f)
    <2>1. k \in all /\ 0 = k - k /\ \A j \in k + 1..k : lines[j].kind = "blank"
      BY <1>1, <1>5
    <2>2. f.gap = k - k /\ f.gap <= 1
      BY <1>1, <1>3
    <2> QED BY <1>3, <1>9, <1>10, <1>12, <1>13, <1>14, <2>1, <2>2 DEF OpenIs, GapIs, all
  <1>16. I(k) \ all = I(k - 1) \ open
    BY <1>5, <1>7
  <1>17. ClosedAre(lines, k, all, f.lists)
    <2>1. ClosedAre(lines, k - 1, open, f.lists)
      BY <1>3 DEF ScannedTo, open
    <2>2. 1..k - 1 \subseteq 1..k
      BY <1>1
    <2> QED BY <1>16, <2>1, <2>2 DEF ClosedAre
  <1> QED BY <1>3, <1>15, <1>17 DEF ScannedTo, all, f

\* A line that is no item keeps the list open or closes it.
LEMMA NoItemIsScanned ==
  ASSUME NEW lines \in Seq(ListLine), NEW k \in 1..Len(lines), NEW a, ScannedTo(lines, k - 1, a),
         k \notin Items(lines)
  PROVE  OpenIs(lines, k, a) /\ ClosedAre(lines, k, LinesOf(a.items), a.lists)
  <1> DEFINE open == LinesOf(a.items)
  <1>1. k \in Nat /\ 1..k = (1..k - 1) \union {k}
    OBVIOUS
  <1>2. ItemsUpTo(lines, k) = ItemsUpTo(lines, k - 1)
    BY <1>1 DEF ItemsUpTo
  <1>3. open \subseteq ItemsUpTo(lines, k) /\ open \subseteq Items(lines)
    BY <1>2 DEF ScannedTo, OpenIs, ItemsUpTo
  <1>4. ASSUME NEW i \in open PROVE ListOf(lines, i) \intersect (1..k) = open
    <2>1. ListOf(lines, i) \intersect (1..k - 1) = open
      BY DEF ScannedTo, OpenIs
    <2>2. ListOf(lines, i) \subseteq Items(lines)
      BY DEF ListOf
    <2> HIDE DEF open
    <2> QED BY <1>1, <2>1, <2>2
  <1>5. OpenIs(lines, k, a)
    BY <1>3, <1>4 DEF ScannedTo, OpenIs
  <1>6. ClosedAre(lines, k, open, a.lists)
    <2>1. \A i \in ItemsUpTo(lines, k) \ open : ListOf(lines, i) \subseteq 1..k
      BY <1>1, <1>2 DEF ScannedTo, ClosedAre
    <2> QED BY <1>2, <2>1 DEF ScannedTo, ClosedAre
  <1> QED BY <1>5, <1>6

\* A second blank line, or text, completes the open list.
LEMMA ListIsComplete ==
  ASSUME NEW lines \in Seq(ListLine), NEW k \in 1..Len(lines), NEW a, ScannedTo(lines, k - 1, a),
         k \notin Items(lines), lines[k].kind # "blank" \/ a.gap >= 1,
         NEW i \in LinesOf(a.items)
  PROVE  ListOf(lines, i) = LinesOf(a.items)
  <1> DEFINE open == LinesOf(a.items)
  <1>1. k \in Nat /\ \A j \in Items(lines) : j \in Nat
    BY ItemsAre
  <1>2. ListOf(lines, i) \intersect (1..k) = open /\ open \subseteq Items(lines)
    BY NoItemIsScanned DEF OpenIs, ItemsUpTo
  <1>3. PICK m \in open : a.gap = k - 1 - m /\ a.gap <= 1 /\ \A j \in m + 1..k - 1 : lines[j].kind = "blank"
    BY DEF ScannedTo, GapIs
  <1>4. i \in open
    OBVIOUS
  <1>5. open \subseteq 1..k - 1
    BY DEF ScannedTo, OpenIs, ItemsUpTo
  <1> HIDE DEF open
  <1>6. m \in Items(lines) /\ m \in Nat /\ m < k /\ i \in Items(lines) /\ i \in 1..k - 1
    BY <1>1, <1>2, <1>3, <1>4, <1>5
  <1>7. \A j \in m + 1..k : j \notin Items(lines)
    <2>1. \A j \in m + 1..k : j \in m + 1..k - 1 \/ j = k
      BY <1>1, <1>6
    <2> QED BY <1>3, <2>1 DEF Items
  <1>8. i <= m
    <2> SUFFICES ASSUME m < i PROVE FALSE
      BY <1>1, <1>6
    <2>1. i \in m + 1..k
      BY <1>1, <1>6
    <2> QED BY <1>6, <1>7, <2>1
  <1>9. k - m >= 2 \/ lines[k].kind # "blank"
    BY <1>1, <1>3, <1>6
  <1>10. ASSUME NEW j \in ListOf(lines, i) PROVE j \in 1..k
    <2>1. j \in Items(lines)
      BY DEF ListOf
    <2>2. ~(k < j)
      BY <1>6, <1>7, <1>8, <1>9, <2>1, <1>10, GapEndsList
    <2>3. j \in 1..Len(lines)
      BY <2>1, ItemsAre
    <2> QED BY <1>1, <2>2, <2>3
  <1>11. ListOf(lines, i) = open
    BY <1>2, <1>10
  <1> QED BY <1>11 DEF open

\* What the scan has seen are the lists up to the line it read.
LEMMA LineIsScanned ==
  ASSUME NEW lines \in Seq(ListLine), NEW k \in 1..Len(lines), NEW a, ScannedTo(lines, k - 1, a)
  PROVE  ScannedTo(lines, k, OnLine(a, lines[k], k))
  <1> DEFINE n == Len(lines)
             open == LinesOf(a.items)
             line == lines[k]
  <1>1. n \in Nat /\ k \in Nat /\ line \in ListLine /\ a \in ListScan(n) /\ k \in 0..n /\ k \in DOMAIN lines
    BY ItemsAre DEF ScannedTo
  <1>2. CASE line.kind \in {"bullet", "number"}
    <2>1. k \in Items(lines)
      BY <1>1, <1>2 DEF Items
    <2> QED BY <1>2, <2>1, ItemIsScanned DEF OnLine
  <1>3. CASE line.kind = "blank"
    <2>1. k \notin Items(lines)
      BY <1>3 DEF Items
    <2> DEFINE b == [a EXCEPT !.gap = @ + 1]
    <2>2. /\ b \in ListScan(n) /\ b.gap = a.gap + 1 /\ b.items = a.items
          /\ b.bullets = a.bullets /\ b.lists = a.lists /\ a.gap \in Nat
      <3>1. a.gap + 1 \in Nat /\ a.gap \in Nat
        BY <1>1 DEF ListScan
      <3> DEFINE LS == Seq(Seq(Item(n)))
                 IS == Seq(Item(n))
      <3>2. a \in [lists : LS, items : IS, bullets : Nat, gap : Nat]
        BY <1>1 DEF ListScan
      <3> HIDE DEF LS, IS
      <3>3. /\ b \in [lists : LS, items : IS, bullets : Nat, gap : Nat]
            /\ b.gap = a.gap + 1 /\ b.items = a.items /\ b.bullets = a.bullets /\ b.lists = a.lists
        BY <3>1, <3>2
      <3> HIDE DEF b
      <3> QED BY <3>1, <3>3 DEF LS, IS, ListScan
    <2>3. OnLine(a, line, k) = IF b.gap > 1 THEN Flushed(b) ELSE b
      BY <1>3 DEF OnLine, OnBlank, GapEnds
    <2> HIDE DEF b
    <2>4. OpenIs(lines, k, b) /\ ClosedAre(lines, k, open, b.lists) /\ LinesOf(b.items) = open
      <3>1. OpenIs(lines, k, a) /\ ClosedAre(lines, k, open, a.lists)
        BY <2>1, NoItemIsScanned
      <3> QED BY <2>2, <3>1 DEF OpenIs
    <2>5. CASE b.gap > 1
      <3> DEFINE f == Flushed(b)
      <3>1. f \in ListScan(n) /\ f.items = <<>> /\ f.bullets = 0
        BY <1>1, <2>2, FlushedIs
      <3>2. a.gap >= 1
        BY <2>2, <2>5
      <3>3. \A i \in open : ListOf(lines, i) = open
        BY <2>1, <3>2, ListIsComplete
      <3>4. ClosedAre(lines, k, {}, f.lists)
        <4>1. ClosedAre(lines, k, LinesOf(b.items), b.lists) /\ \A i \in LinesOf(b.items) : ListOf(lines, i) = LinesOf(b.items)
          BY <2>4, <3>3
        <4> QED BY <1>1, <2>2, <2>4, <4>1, ListCloses
      <3> HIDE DEF f
      <3>5. OpenIs(lines, k, f) /\ GapIs(lines, k, f) /\ LinesOf(f.items) = {}
        BY <3>1, NothingOpen
      <3>6. ScannedTo(lines, k, f)
        BY <3>1, <3>4, <3>5 DEF ScannedTo
      <3> QED BY <2>3, <2>5, <3>6 DEF f
    <2>6. CASE ~(b.gap > 1)
      <3>1. GapIs(lines, k, b)
        <4> SUFFICES ASSUME open # {}
                     PROVE  \E m \in open : b.gap = k - m /\ b.gap <= 1
                                            /\ \A j \in m + 1..k : lines[j].kind = "blank"
          BY <2>4 DEF GapIs
        <4>1. PICK m \in open : a.gap = k - 1 - m /\ \A j \in m + 1..k - 1 : lines[j].kind = "blank"
          BY DEF ScannedTo, GapIs
        <4>2. m \in 1..k - 1
          BY DEF ScannedTo, OpenIs, ItemsUpTo
        <4>3. b.gap = k - m /\ b.gap <= 1
          BY <1>1, <2>2, <2>6, <4>1, <4>2
        <4>4. \A j \in m + 1..k : j \in m + 1..k - 1 \/ j = k
          BY <1>1, <4>2
        <4> HIDE DEF open
        <4> QED BY <1>3, <4>1, <4>3, <4>4
      <3>2. ScannedTo(lines, k, b)
        BY <2>2, <2>4, <3>1 DEF ScannedTo
      <3> QED BY <2>3, <2>6, <3>2
    <2> QED BY <2>5, <2>6
  <1>4. CASE line.kind = "text"
    <2>1. k \notin Items(lines)
      BY <1>4 DEF Items
    <2>2. OpenIs(lines, k, a) /\ ClosedAre(lines, k, open, a.lists)
      BY <2>1, NoItemIsScanned
    <2>3. \A i \in open : ListOf(lines, i) = open
      BY <1>4, <2>1, ListIsComplete
    <2> DEFINE f == Flushed(a)
               g == [f EXCEPT !.gap = 0]
    <2>4. f \in ListScan(n) /\ f.items = <<>> /\ f.bullets = 0
      BY <1>1, FlushedIs
    <2>5. ClosedAre(lines, k, {}, f.lists)
      BY <1>1, <2>2, <2>3, ListCloses
    <2> HIDE DEF f
    <2>6. g \in ListScan(n) /\ g.items = <<>> /\ g.bullets = 0 /\ g.lists = f.lists
      <3> DEFINE LS == Seq(Seq(Item(n)))
                 IS == Seq(Item(n))
      <3>1. f \in [lists : LS, items : IS, bullets : Nat, gap : Nat]
        BY <2>4 DEF ListScan
      <3> HIDE DEF LS, IS
      <3>2. /\ g \in [lists : LS, items : IS, bullets : Nat, gap : Nat]
            /\ g.items = f.items /\ g.bullets = f.bullets /\ g.lists = f.lists
        BY <3>1
      <3> HIDE DEF g
      <3> QED BY <2>4, <3>2 DEF LS, IS, ListScan
    <2>7. OnLine(a, line, k) = g
      BY <1>4 DEF OnLine, OnText, f
    <2> HIDE DEF g
    <2>8. OpenIs(lines, k, g) /\ GapIs(lines, k, g) /\ LinesOf(g.items) = {}
      BY <2>6, NothingOpen
    <2>9. ScannedTo(lines, k, g)
      BY <2>5, <2>6, <2>8 DEF ScannedTo
    <2> QED BY <2>7, <2>9
  <1> QED BY <1>1, <1>2, <1>3, <1>4 DEF ListLine

\* parseLists finds the runs of at least two items, for any lines.
LEMMA ListsAreRuns ==
  ASSUME NEW lines \in Seq(ListLine)
  PROVE  RunsAreListed(lines)
  <1> DEFINE n == Len(lines)
  <1>1. PICK run : ScansLines(run, lines)
    BY ParseListsRuns
  <1>2. /\ n \in Nat /\ run \in [0..n -> ListScan(n)] /\ run[0] = NoLists
        /\ \A k \in 1..n : run[k] = OnLine(run[k - 1], lines[k], k)
        /\ ParseLists(lines) = Flushed(run[n]).lists
    BY <1>1, ItemsAre DEF ScansLines
  <1> DEFINE H == {k \in 0..n : ScannedTo(lines, k, run[k])}
  <1>3. 0 \in H
    <2>1. run[0] \in ListScan(n) /\ run[0].items = <<>> /\ run[0].bullets = 0 /\ run[0].lists = <<>>
      BY <1>2 DEF NoLists, NoList
    <2>2. OpenIs(lines, 0, run[0]) /\ GapIs(lines, 0, run[0]) /\ LinesOf(run[0].items) = {}
      BY <2>1, NothingOpen
    <2>3. ItemsUpTo(lines, 0) = {} /\ DOMAIN run[0].lists = {}
      BY <2>1 DEF ItemsUpTo
    <2>4. ClosedAre(lines, 0, {}, run[0].lists)
      BY <2>3 DEF ClosedAre, LongLists
    <2>5. ScannedTo(lines, 0, run[0])
      BY <2>1, <2>2, <2>4 DEF ScannedTo
    <2> QED BY <1>2, <2>5
  <1>4. ASSUME NEW k \in 1..n, k - 1 \in H PROVE k \in H
    <2>1. ScannedTo(lines, k - 1, run[k - 1])
      BY <1>4
    <2>2. ScannedTo(lines, k, run[k])
      BY <1>2, <2>1, LineIsScanned
    <2> QED BY <1>2, <2>2
  <1>5. ScannedTo(lines, n, run[n])
    <2> HIDE DEF H, n
    <2>1. \A k \in 1..n : k - 1 \in H => k \in H
      BY <1>4
    <2>2. \A k \in 0..n : k \in H
      BY <1>2, <1>3, <2>1, UpTo
    <2>3. n \in H
      BY <1>2, <2>2
    <2> QED BY <2>3 DEF H
  <1> DEFINE open == LinesOf(run[n].items)
             lists == Flushed(run[n]).lists
  <1>6. ItemsUpTo(lines, n) = Items(lines)
    BY ItemsAre DEF ItemsUpTo
  <1>7. \A i \in open : ListOf(lines, i) = open
    <2> SUFFICES ASSUME NEW i \in open PROVE ListOf(lines, i) = open
      OBVIOUS
    <2>1. ListOf(lines, i) \intersect (1..n) = open
      BY <1>5 DEF ScannedTo, OpenIs
    <2>2. ListOf(lines, i) \subseteq 1..n
      BY ItemsAre DEF ListOf
    <2> HIDE DEF open, n
    <2> QED BY <2>1, <2>2
  <1>8. ClosedAre(lines, n, {}, lists)
    <2>1. n \in 0..n
      BY <1>2
    <2> QED BY <1>5, <1>7, <2>1, ListCloses DEF ScannedTo
  <1> HIDE DEF lists, n
  <1>9. lists = ParseLists(lines)
    BY <1>2 DEF lists
  <1>10. {LinesOf(lists[l]) : l \in DOMAIN lists} = LongLists(lines, Items(lines))
    BY <1>6, <1>8 DEF ClosedAre
  <1>11. \A l \in DOMAIN lists : \A k \in DOMAIN lists[l] :
           lists[l][k].index = Place(lines, lists[l][k].line)
    BY <1>8 DEF ClosedAre, Numbered
  <1> QED BY <1>9, <1>10, <1>11 DEF RunsAreListed, LongLists

----------------------------------------------------------------------------
(* Totals *)

\* The entries that an item could be about.
Hit(entries, item) == {e \in DOMAIN entries : item \intersect entries[e].words # {}}

MatchStates(entries, I) == [used : SUBSET DOMAIN entries, matched : Seq(DOMAIN entries), unmatched : Seq(I)]
MatchStep(entries, items, I) ==
  [a \in MatchStates(entries, I) |-> [k \in 1..Len(items) |-> OnNamed(entries, a, items[k])]]
NoMatch == [used |-> {}, matched |-> <<>>, unmatched |-> <<>>]

\* An item takes one of the entries that could be about it, if there is one.
LEMMA BestIs ==
  ASSUME NEW entries, NEW N \in Nat, DOMAIN entries = 1..N, NEW used, NEW item,
         IsFiniteSet(item), used \intersect Hit(entries, item) = {},
         \A e \in Hit(entries, item) : item \subseteq entries[e].words
  PROVE  /\ Best(entries, used, item) \subseteq Hit(entries, item)
         /\ Hit(entries, item) # {} => Best(entries, used, item) # {}
  <1> DEFINE U == Hit(entries, item)
             size == Cardinality(item)
             cover(e) == Cover(item, entries[e])
  <1>1. \A e \in 1..N : item \intersect entries[e].words \in SUBSET item
                        /\ IsFiniteSet(item \intersect entries[e].words)
    <2> TAKE e \in 1..N
    <2> DEFINE x == item \intersect entries[e].words
    <2>1. x \in SUBSET item
      OBVIOUS
    <2> HIDE DEF x
    <2>2. IsFiniteSet(x)
      BY <2>1, FS_Subset
    <2> QED BY <2>1, <2>2 DEF x
  <1>2. size \in Nat
    BY FS_CardinalityType
  <1>3. \A e \in 1..N : cover(e) \in Nat /\ (e \notin U => cover(e) = 0) /\ (e \in U => cover(e) = size)
    <2> SUFFICES ASSUME NEW e \in 1..N
                 PROVE  cover(e) \in Nat /\ (e \notin U => cover(e) = 0) /\ (e \in U => cover(e) = size)
      OBVIOUS
    <2> DEFINE x == item \intersect entries[e].words
    <2>1. IsFiniteSet(x) /\ cover(e) = Cardinality(x)
      BY <1>1 DEF Cover
    <2>2. e \notin U => x = {}
      BY DEF Hit
    <2>3. e \in U => x = item
      BY DEF Hit
    <2> HIDE DEF x, U, cover
    <2>4. Cardinality(x) \in Nat
      BY <2>1, FS_CardinalityType
    <2>5. Cardinality({}) = 0
      BY FS_EmptySet
    <2> QED BY <2>1, <2>2, <2>3, <2>4, <2>5
  <1>4. U \subseteq 1..N /\ U \intersect used = {}
    BY DEF Hit
  <1>5. Open(entries, used) = 1..N \ used
    BY DEF Open
  <1>6. \A e : e \in Best(entries, used, item) <=>
          /\ e \in 1..N \ used
          /\ 2 * cover(e) >= size /\ cover(e) > 0
          /\ \A f \in 1..N \ used : cover(f) < cover(e) \/ (cover(f) = cover(e) /\ e <= f)
    BY <1>5 DEF Best
  <1>7. U # {} => size > 0
    <2> SUFFICES ASSUME U # {} PROVE size # 0
      BY <1>2
    <2>1. item # {}
      BY DEF Hit
    <2> QED BY <2>1, FS_EmptySet
  <1> HIDE DEF U, cover, size
  <1>8. ASSUME NEW e \in Best(entries, used, item) PROVE e \in U
    BY <1>3, <1>6
  <1>9. ASSUME U # {} PROVE Best(entries, used, item) # {}
    <2>0. U \subseteq Nat
      BY <1>4
    <2>1. PICK e \in U : \A f \in U : e <= f
      BY <1>9, <2>0, LeastNat
    <2>2. e \in 1..N \ used /\ cover(e) = size /\ size > 0
      BY <1>3, <1>4, <1>7
    <2>3. \A f \in 1..N \ used : cover(f) < cover(e) \/ (cover(f) = cover(e) /\ e <= f)
      BY <1>2, <1>3, <2>1, <2>2
    <2>4. 2 * cover(e) >= size /\ cover(e) > 0
      BY <1>2, <2>2
    <2> QED BY <1>6, <2>2, <2>3, <2>4
  <1> QED BY <1>8, <1>9 DEF U

Takes(b, m, e) ==
  b.used = m.used \union {e} /\ b.matched = Append(m.matched, e) /\ b.unmatched = m.unmatched

\* An item is left out, left over, or matched with an entry.
LEMMA OnNamedIs ==
  ASSUME NEW entries, NEW I, NEW m \in MatchStates(entries, I), NEW item \in I
  PROVE  /\ OnNamed(entries, m, item) \in MatchStates(entries, I)
         /\ item = {} => OnNamed(entries, m, item) = m
         /\ item # {} /\ Best(entries, m.used, item) = {} =>
              /\ OnNamed(entries, m, item).used = m.used
              /\ OnNamed(entries, m, item).matched = m.matched
              /\ OnNamed(entries, m, item).unmatched = Append(m.unmatched, item)
         /\ item # {} /\ Best(entries, m.used, item) # {} =>
              \E e \in Best(entries, m.used, item) : Takes(OnNamed(entries, m, item), m, e)
  <1> DEFINE U == SUBSET DOMAIN entries
             S == Seq(DOMAIN entries)
             T == Seq(I)
             b == Best(entries, m.used, item)
             e == CHOOSE x \in b : TRUE
  <1>1. MatchStates(entries, I) = [used : U, matched : S, unmatched : T]
    BY DEF MatchStates
  <1>2. m.used \in U /\ m.matched \in S /\ m.unmatched \in T
    BY <1>1
  <1>3. Append(m.unmatched, item) \in T
    BY <1>2
  <1>4. CASE item = {}
    BY <1>4 DEF OnNamed
  <1>5. CASE item # {} /\ b = {}
    <2>1. OnNamed(entries, m, item) = [m EXCEPT !.unmatched = Append(@, item)]
      BY <1>5 DEF OnNamed
    <2> HIDE DEF U, S, T, b
    <2>2. OnNamed(entries, m, item) \in [used : U, matched : S, unmatched : T]
      BY <1>1, <1>3, <2>1
    <2> QED BY <1>1, <1>5, <2>1, <2>2 DEF b
  <1>6. CASE item # {} /\ b # {}
    <2>1. OnNamed(entries, m, item) = [m EXCEPT !.used = @ \union {e}, !.matched = Append(@, e)]
      BY <1>6 DEF OnNamed
    <2>2. e \in b
      <3> HIDE DEF b
      <3> QED BY <1>6
    <2>3. e \in DOMAIN entries
      BY <2>2 DEF Best, Open
    <2> HIDE DEF e
    <2>4. m.used \union {e} \in U /\ Append(m.matched, e) \in S
      BY <1>2, <2>3
    <2> DEFINE u == m.used \union {e}   s == Append(m.matched, e)
    <2>6. OnNamed(entries, m, item) = [m EXCEPT !.used = u, !.matched = s]
      BY <2>1
    <2>7. u \in U /\ s \in S
      BY <2>4
    <2> HIDE DEF U, S, T, b, u, s
    <2>8. m \in [used : U, matched : S, unmatched : T]
      BY <1>1
    <2>9. /\ OnNamed(entries, m, item) \in [used : U, matched : S, unmatched : T]
          /\ OnNamed(entries, m, item).used = u
          /\ OnNamed(entries, m, item).matched = s
          /\ OnNamed(entries, m, item).unmatched = m.unmatched
      BY <2>6, <2>7, <2>8
    <2>5. /\ OnNamed(entries, m, item) \in [used : U, matched : S, unmatched : T]
          /\ OnNamed(entries, m, item).used = m.used \union {e}
          /\ OnNamed(entries, m, item).matched = Append(m.matched, e)
          /\ OnNamed(entries, m, item).unmatched = m.unmatched
      BY <2>9 DEF u, s
    <2>a. Takes(OnNamed(entries, m, item), m, e)
      BY <2>5 DEF Takes
    <2> QED BY <1>1, <1>6, <2>2, <2>5, <2>a DEF b
  <1> QED BY <1>4, <1>5, <1>6

\* Matching goes from item to item.
LEMMA MatchingRuns ==
  ASSUME NEW entries, NEW I, NEW items \in Seq(I), Len(items) >= 2
  PROVE  /\ MatchStep(entries, items, I) \in
              [MatchStates(entries, I) -> [1..Len(items) -> MatchStates(entries, I)]]
         /\ \E run : RunsTo(run, Matching(entries, items), Len(items), MatchStates(entries, I), NoMatch,
                            MatchStep(entries, items, I))
  <1> DEFINE n == Len(items)
             A == MatchStates(entries, I)
             base == NoMatch
             step == MatchStep(entries, items, I)
             eq(h) == h = [s \in SUBSET (1..n) |->
                             IF s = {} THEN base ELSE OnNamed(entries, h[s \ {Max(s)}], items[Max(s)])]
             fold == CHOOSE h : eq(h)
  <1>0. n \in Nat /\ DOMAIN items = 1..n /\ \A k \in 1..n : items[k] \in I
    OBVIOUS
  <1>1. Matching(entries, items) = fold[1..n]
    <2>1. Matching(entries, items) =
            FoldLeft(LAMBDA m, item : OnNamed(entries, m, item), NoMatch, items)
      BY DEF Matching, NoMatch
    <2> QED BY <1>0, <2>1 DEF FoldLeft, MapThenFoldSet
  <1>2. \A a \in A : \A k \in 1..n : OnNamed(entries, a, items[k]) \in A
    BY <1>0, OnNamedIs
  <1>3. step \in [A -> [1..n -> A]]
    <2> HIDE DEF A, n
    <2>1. step = [a \in A |-> [k \in 1..n |-> OnNamed(entries, a, items[k])]]
      BY DEF MatchStep, A, n
    <2> QED BY <1>2, <2>1
  <1>s. \A a \in A : \A k \in 1..n : step[a][k] = OnNamed(entries, a, items[k])
    BY DEF MatchStep
  <1>4. base \in A
    <2> DEFINE U == SUBSET DOMAIN entries   S == Seq(DOMAIN entries)   T == Seq(I)
    <2>1. {} \in U /\ <<>> \in S /\ <<>> \in T
      OBVIOUS
    <2> HIDE DEF U, S, T
    <2>2. base \in [used : U, matched : S, unmatched : T]
      BY <2>1 DEF NoMatch
    <2> QED BY <2>2 DEF MatchStates, U, S, T
  <1> HIDE DEF A, step, base, n
  <1>6. \A s \in SUBSET (1..n) : s # {} =>
           Max(s) \in 1..n /\ s \ {Max(s)} \in SUBSET (1..n)
    BY <1>0, LastOfSet
  <1>5. PICK g : FoldsOn(g, n, A, base, step)
    BY <1>0, <1>3, <1>4, FoldExists
  <1>7. eq(g)
    <2> SUFFICES ASSUME NEW s \in SUBSET (1..n), s # {}
                 PROVE  step[g[s \ {Max(s)}]][Max(s)] = OnNamed(entries, g[s \ {Max(s)}], items[Max(s)])
      BY <1>5 DEF FoldsOn
    <2>1. g[s \ {Max(s)}] \in A /\ Max(s) \in 1..n
      BY <1>5, <1>6 DEF FoldsOn
    <2> QED BY <1>s, <2>1
  <1>8. eq(fold)
    <2> HIDE DEF eq
    <2> QED BY <1>7
  <1>9. Unfolds(fold, n, A, base, step)
    <2> HIDE DEF fold
    <2>1. fold[{}] = base
      BY <1>8
    <2>2. \A s \in SUBSET (1..n) : s # {} => fold[s] = OnNamed(entries, fold[s \ {Max(s)}], items[Max(s)])
      BY <1>8
    <2> HIDE DEF eq
    <2> QED BY <1>6, <1>s, <2>1, <2>2 DEF Unfolds
  <1>10. PICK run : RunsTo(run, fold[1..n], n, A, base, step)
    <2> HIDE DEF fold
    <2> QED BY <1>0, <1>3, <1>4, <1>9, FoldRuns
  <1> HIDE DEF fold
  <1> QED BY <1>1, <1>3, <1>10 DEF A, step, base, n

SumStep(entries, s, c) ==
  [a \in Int |-> [k \in 1..Len(s) |->
     IF entries[s[k]].currency = c THEN a + entries[s[k]].amount ELSE a]]

\* A sum goes from entry to entry.
LEMMA SumRuns ==
  ASSUME NEW entries, NEW N \in Nat, \A e \in 1..N : entries[e].amount \in Int,
         NEW s \in Seq(1..N), NEW c
  PROVE  \E run : RunsTo(run, SumOver(entries, s, c), Len(s), Int, 0, SumStep(entries, s, c))
  <1> DEFINE n == Len(s)
             A == Int
             base == 0
             step == SumStep(entries, s, c)
             eq(h) == h = [S \in SUBSET (1..n) |->
                             IF S = {} THEN base
                             ELSE IF entries[s[Max(S)]].currency = c
                                  THEN h[S \ {Max(S)}] + entries[s[Max(S)]].amount
                                  ELSE h[S \ {Max(S)}]]
             fold == CHOOSE h : eq(h)
  <1>0. n \in Nat /\ DOMAIN s = 1..n /\ \A k \in 1..n : s[k] \in 1..N /\ entries[s[k]].amount \in Int
    OBVIOUS
  <1>1. SumOver(entries, s, c) = fold[1..n]
    BY <1>0 DEF SumOver, FoldLeft, MapThenFoldSet
  <1>3. step \in [A -> [1..n -> A]]
    BY <1>0 DEF SumStep
  <1>s. \A a \in A : \A k \in 1..n :
          step[a][k] = IF entries[s[k]].currency = c THEN a + entries[s[k]].amount ELSE a
    BY DEF SumStep
  <1>4. base \in A
    OBVIOUS
  <1> HIDE DEF A, step, base, n
  <1>6. \A S \in SUBSET (1..n) : S # {} =>
           Max(S) \in 1..n /\ S \ {Max(S)} \in SUBSET (1..n)
    BY <1>0, LastOfSet
  <1>5. PICK g : FoldsOn(g, n, A, base, step)
    BY <1>0, <1>3, <1>4, FoldExists
  <1>7. eq(g)
    <2> SUFFICES ASSUME NEW S \in SUBSET (1..n), S # {}
                 PROVE  step[g[S \ {Max(S)}]][Max(S)] =
                          IF entries[s[Max(S)]].currency = c
                          THEN g[S \ {Max(S)}] + entries[s[Max(S)]].amount
                          ELSE g[S \ {Max(S)}]
      BY <1>5 DEF FoldsOn
    <2>1. g[S \ {Max(S)}] \in A /\ Max(S) \in 1..n
      BY <1>5, <1>6 DEF FoldsOn
    <2> QED BY <1>s, <2>1
  <1>8. eq(fold)
    <2> HIDE DEF eq
    <2> QED BY <1>7
  <1>9. Unfolds(fold, n, A, base, step)
    <2> HIDE DEF fold
    <2>1. fold[{}] = base
      BY <1>8
    <2>2. \A S \in SUBSET (1..n) : S # {} =>
            fold[S] = IF entries[s[Max(S)]].currency = c
                      THEN fold[S \ {Max(S)}] + entries[s[Max(S)]].amount
                      ELSE fold[S \ {Max(S)}]
      BY <1>8
    <2> HIDE DEF eq
    <2> QED BY <1>6, <1>s, <2>1, <2>2 DEF Unfolds
  <1>10. PICK run : RunsTo(run, fold[1..n], n, A, base, step)
    <2> HIDE DEF fold
    <2> QED BY <1>0, <1>3, <1>4, <1>9, FoldRuns
  <1> HIDE DEF fold
  <1> QED BY <1>1, <1>10 DEF A, step, base, n

----------------------------------------------------------------------------
(* Each item takes its price *)

\* How many of the named stand up to k.
Upon(named, k) == Cardinality(named \intersect 1..k)

\* The count grows by one with each that is named.
LEMMA UponIs ==
  ASSUME NEW n \in Nat, NEW named \in SUBSET (1..n)
  PROVE  /\ \A k \in 0..n : Upon(named, k) \in Nat
         /\ Upon(named, 0) = 0 /\ Upon(named, n) = Cardinality(named)
         /\ \A k \in 1..n : Upon(named, k) = IF k \in named THEN Upon(named, k - 1) + 1 ELSE Upon(named, k - 1)
         /\ \A j, k \in 0..n : j <= k => Upon(named, j) <= Upon(named, k)
         /\ \A j \in named : \A k \in 0..n : j <= k => Upon(named, j) \in 1..Upon(named, k)
  <1> DEFINE up(k) == named \intersect 1..k
  <1>1. \A k \in 0..n : IsFiniteSet(up(k)) /\ Upon(named, k) = Cardinality(up(k)) /\ Upon(named, k) \in Nat
    <2> TAKE k \in 0..n
    <2>1. IsFiniteSet(1..k) /\ up(k) \in SUBSET (1..k)
      BY FS_Interval
    <2>2. Upon(named, k) = Cardinality(up(k))
      BY DEF Upon
    <2> HIDE DEF up
    <2> QED BY <2>1, <2>2, FS_Subset, FS_CardinalityType
  <1>2. up(0) = {} /\ up(n) = named
    <2>1. 1..0 = {}
      OBVIOUS
    <2>2. named \intersect 1..n = named
      OBVIOUS
    <2> QED BY <2>1, <2>2
  <1>3. Upon(named, 0) = 0 /\ Upon(named, n) = Cardinality(named)
    <2>1. 0 \in 0..n /\ n \in 0..n
      OBVIOUS
    <2> HIDE DEF up
    <2> QED BY <1>1, <1>2, <2>1, FS_EmptySet
  <1>4. \A k \in 1..n : Upon(named, k) = IF k \in named THEN Upon(named, k - 1) + 1 ELSE Upon(named, k - 1)
    <2> TAKE k \in 1..n
    <2>1. k - 1 \in 0..n /\ k \in 0..n
      OBVIOUS
    <2>2. up(k) = IF k \in named THEN up(k - 1) \union {k} ELSE up(k - 1)
      OBVIOUS
    <2>3. k \notin up(k - 1)
      OBVIOUS
    <2> HIDE DEF up
    <2>4. IsFiniteSet(up(k - 1))
      BY <1>1, <2>1
    <2>5. Cardinality(up(k - 1) \union {k}) = Cardinality(up(k - 1)) + 1
      BY <2>3, <2>4, FS_AddElement
    <2> QED BY <1>1, <2>1, <2>2, <2>5
  <1>5. \A j, k \in 0..n : j <= k => Upon(named, j) <= Upon(named, k)
    <2> SUFFICES ASSUME NEW j \in 0..n, NEW k \in 0..n, j <= k PROVE Upon(named, j) <= Upon(named, k)
      OBVIOUS
    <2>1. up(j) \in SUBSET up(k)
      OBVIOUS
    <2> HIDE DEF up
    <2>2. Cardinality(up(j)) <= Cardinality(up(k))
      BY <1>1, <2>1, FS_Subset
    <2> QED BY <1>1, <2>2
  <1>6. \A j \in named : \A k \in 0..n : j <= k => Upon(named, j) \in 1..Upon(named, k)
    <2> SUFFICES ASSUME NEW j \in named, NEW k \in 0..n, j <= k PROVE Upon(named, j) \in 1..Upon(named, k)
      OBVIOUS
    <2>1. j \in 1..n /\ j \in 0..n /\ j - 1 \in 0..n
      OBVIOUS
    <2>2. Upon(named, j) = Upon(named, j - 1) + 1
      BY <1>4, <2>1
    <2>3. Upon(named, j) <= Upon(named, k) /\ Upon(named, j) \in Nat /\ Upon(named, j - 1) \in Nat /\ Upon(named, k) \in Nat
      BY <1>1, <1>5, <2>1
    <2> QED BY <2>2, <2>3
  <1>7. \A k \in 0..n : Upon(named, k) \in Nat
    BY <1>1
  <1> QED BY <1>3, <1>4, <1>5, <1>6, <1>7

\* Every entry is about one of the named items at most, has all its words and
\* its price.
ArePriced(entries, items, named, price) ==
  /\ \A k \in 1..Len(items) : IsFiniteSet(items[k]) /\ (Hit(entries, items[k]) # {} <=> k \in named)
  /\ \A k \in named : \A e \in Hit(entries, items[k]) :
       /\ items[k] \subseteq entries[e].words
       /\ entries[e].amount = price[k].amount /\ entries[e].currency = price[k].currency
  /\ \A j, k \in named : j # k => Hit(entries, items[j]) \intersect Hit(entries, items[k]) = {}

\* A named item takes one of its own entries, which is still open.
LEMMA ItemIsMatched ==
  ASSUME NEW entries, NEW N \in Nat, DOMAIN entries = 1..N, NEW I, NEW items \in Seq(I),
         NEW named \in SUBSET (1..Len(items)), NEW price, ArePriced(entries, items, named, price),
         NEW k \in 1..Len(items), NEW a \in MatchStates(entries, I),
         \A e \in a.used : \E j \in named : j < k /\ e \in Hit(entries, items[j])
  PROVE  LET b == OnNamed(entries, a, items[k])
         IN  /\ k \in named => \E e \in Hit(entries, items[k]) : Takes(b, a, e)
             /\ k \notin named =>
                  /\ b.used = a.used /\ b.matched = a.matched
                  /\ b.unmatched = IF items[k] # {} THEN Append(a.unmatched, items[k]) ELSE a.unmatched
  <1> DEFINE item == items[k]
             U == Hit(entries, item)
             Bst == Best(entries, a.used, item)
  <1>1. item \in I /\ IsFiniteSet(item) /\ (U # {} <=> k \in named)
    BY DEF ArePriced
  <1>2. \A e \in U : item \subseteq entries[e].words
    BY <1>1 DEF ArePriced
  <1>3. a.used \intersect U = {}
    <2> SUFFICES ASSUME NEW e \in a.used, e \in U PROVE FALSE
      OBVIOUS
    <2>1. PICK j \in named : j < k /\ e \in Hit(entries, items[j])
      OBVIOUS
    <2>2. k \in named /\ j # k
      BY <1>1, <2>1
    <2> QED BY <2>1, <2>2 DEF ArePriced
  <1>4. Bst \subseteq U /\ (U # {} => Bst # {})
    BY <1>1, <1>2, <1>3, BestIs
  <1>5. item = {} => U = {}
    BY DEF Hit
  <1> DEFINE b == OnNamed(entries, a, item)
  <1>6. /\ item = {} => b = a
        /\ item # {} /\ Bst = {} =>
             b.used = a.used /\ b.matched = a.matched /\ b.unmatched = Append(a.unmatched, item)
        /\ item # {} /\ Bst # {} =>
             \E e \in Bst : Takes(b, a, e)
    <2>0. item \in I
      BY <1>1
    <2> HIDE DEF item
    <2>1. item = {} => OnNamed(entries, a, item) = a
      BY <2>0, OnNamedIs
    <2>2. item # {} /\ Best(entries, a.used, item) = {} =>
             /\ OnNamed(entries, a, item).used = a.used
             /\ OnNamed(entries, a, item).matched = a.matched
             /\ OnNamed(entries, a, item).unmatched = Append(a.unmatched, item)
      BY <2>0, OnNamedIs
    <2>3. item # {} /\ Best(entries, a.used, item) # {} =>
             \E e \in Best(entries, a.used, item) : Takes(OnNamed(entries, a, item), a, e)
      BY <2>0, OnNamedIs
    <2> QED BY <2>1, <2>2, <2>3
  <1> HIDE DEF U, Bst, b
  <1>7. CASE k \in named
    <2>1. item # {} /\ Bst # {}
      BY <1>1, <1>4, <1>5, <1>7
    <2> QED BY <1>4, <1>6, <1>7, <2>1 DEF U, b
  <1>8. CASE k \notin named
    <2>1. Bst = {}
      BY <1>1, <1>4, <1>8
    <2> QED BY <1>6, <1>8, <2>1 DEF b
  <1> QED BY <1>7, <1>8

\* After k items, those of them that are named have taken an entry each.
SoFar(m, k, entries, items, named) ==
  /\ \A e \in m.used : \E j \in named : j <= k /\ e \in Hit(entries, items[j])
  /\ Len(m.matched) = Upon(named, k)
  /\ \A j \in named : j <= k =>
       /\ m.matched[Upon(named, j)] \in Hit(entries, items[j])
       /\ m.matched[Upon(named, j)] \in m.used

\* And so the next item.
LEMMA SoFarGoesOn ==
  ASSUME NEW entries, NEW N \in Nat, DOMAIN entries = 1..N, NEW I, NEW items \in Seq(I),
         NEW named \in SUBSET (1..Len(items)), NEW price, ArePriced(entries, items, named, price),
         NEW k \in 1..Len(items), NEW a \in MatchStates(entries, I),
         SoFar(a, k - 1, entries, items, named)
  PROVE  /\ SoFar(OnNamed(entries, a, items[k]), k, entries, items, named)
         /\ OnNamed(entries, a, items[k]).unmatched =
              IF items[k] # {} /\ k \notin named THEN Append(a.unmatched, items[k]) ELSE a.unmatched
  <1> DEFINE b == OnNamed(entries, a, items[k])
             n == Len(items)
             up(j) == Upon(named, j)
             hit(j) == Hit(entries, items[j])
  <1>0. n \in Nat /\ k \in 0..n /\ k - 1 \in 0..n /\ k \in 1..n
    OBVIOUS
  <1>1. \A j \in named : j \in 1..n
    OBVIOUS
  <1>2. \A e \in a.used : \E j \in named : j < k /\ e \in Hit(entries, items[j])
    <2> TAKE e \in a.used
    <2>1. PICK j \in named : j <= k - 1 /\ e \in Hit(entries, items[j])
      BY DEF SoFar
    <2>2. j < k
      BY <1>1, <2>1
    <2> QED BY <2>1, <2>2
  <1>3. /\ k \in named => \E e \in hit(k) : Takes(b, a, e)
        /\ k \notin named =>
             /\ b.used = a.used /\ b.matched = a.matched
             /\ b.unmatched = IF items[k] # {} THEN Append(a.unmatched, items[k]) ELSE a.unmatched
    BY <1>2, ItemIsMatched
  <1>4. a.matched \in Seq(DOMAIN entries)
    BY DEF MatchStates
  <1>5. /\ \A j \in 0..n : up(j) \in Nat
        /\ up(k) = IF k \in named THEN up(k - 1) + 1 ELSE up(k - 1)
        /\ \A j \in named : j <= k - 1 => up(j) \in 1..up(k - 1)
    <2>1. \A j \in 0..n : up(j) \in Nat
      BY <1>0, UponIs
    <2>2. up(k) = IF k \in named THEN up(k - 1) + 1 ELSE up(k - 1)
      BY <1>0, UponIs
    <2>3. \A j \in named : j <= k - 1 => up(j) \in 1..up(k - 1)
      BY <1>0, UponIs
    <2> QED BY <2>1, <2>2, <2>3
  <1>6. /\ \A e \in a.used : \E j \in named : j <= k - 1 /\ e \in hit(j)
        /\ Len(a.matched) = up(k - 1)
        /\ \A j \in named : j <= k - 1 => a.matched[up(j)] \in hit(j) /\ a.matched[up(j)] \in a.used
    BY DEF SoFar
  <1> HIDE DEF b, up, hit, n
  <1>7. CASE k \notin named
    <2>1. \A j \in named : j <= k <=> j <= k - 1
      BY <1>0, <1>1, <1>7
    <2>2. /\ b.used = a.used /\ b.matched = a.matched /\ up(k) = up(k - 1)
          /\ b.unmatched = IF items[k] # {} THEN Append(a.unmatched, items[k]) ELSE a.unmatched
      BY <1>3, <1>5, <1>7
    <2>3. SoFar(b, k, entries, items, named)
      <3>1. \A e \in b.used : \E j \in named : j <= k /\ e \in hit(j)
        BY <1>6, <2>1, <2>2
      <3>2. Len(b.matched) = up(k)
        BY <1>6, <2>2
      <3>3. \A j \in named : j <= k => b.matched[up(j)] \in hit(j) /\ b.matched[up(j)] \in b.used
        BY <1>6, <2>1, <2>2
      <3> QED BY <3>1, <3>2, <3>3 DEF SoFar, hit, up
    <2> QED BY <1>7, <2>2, <2>3 DEF b
  <1>8. CASE k \in named
    <2>1. PICK e \in hit(k) : Takes(b, a, e)
      BY <1>3, <1>8
    <2>2. b.used = a.used \union {e} /\ b.matched = Append(a.matched, e) /\ b.unmatched = a.unmatched
      BY <2>1 DEF Takes
    <2>3. up(k) = up(k - 1) + 1 /\ up(k - 1) \in Nat
      BY <1>0, <1>5, <1>8
    <2>4. Len(b.matched) = up(k) /\ b.matched[up(k)] = e
          /\ \A i \in 1..up(k - 1) : b.matched[i] = a.matched[i]
      <3>1. Len(a.matched) = up(k - 1)
        BY <1>6
      <3> QED BY <1>4, <2>2, <2>3, <3>1
    <2>5. \A j \in named : j <= k => j = k \/ j <= k - 1
      BY <1>0, <1>1
    <2>6. \A j \in named : j <= k - 1 => j <= k
      BY <1>0, <1>1
    <2>7. SoFar(b, k, entries, items, named)
      <3>1. \A f \in b.used : \E j \in named : j <= k /\ f \in hit(j)
        <4> TAKE f \in b.used
        <4>1. CASE f = e
          <5>1. k <= k
            BY <1>0
          <5> QED BY <1>8, <4>1, <5>1
        <4>2. CASE f \in a.used
          BY <1>6, <2>6, <4>2
        <4> QED BY <2>2, <4>1, <4>2
      <3>3. ASSUME NEW j \in named, j <= k
            PROVE  b.matched[up(j)] \in hit(j) /\ b.matched[up(j)] \in b.used
        <4>1. CASE j = k
          BY <2>2, <2>4, <4>1
        <4>2. CASE j <= k - 1
          <5>1. up(j) \in 1..up(k - 1)
            BY <1>5, <4>2
          <5>2. b.matched[up(j)] = a.matched[up(j)]
            BY <2>4, <5>1
          <5> QED BY <1>6, <2>2, <4>2, <5>2
        <4> QED BY <2>5, <3>3, <4>1, <4>2
      <3> QED BY <2>4, <3>1, <3>3 DEF SoFar, hit, up
    <2> QED BY <1>8, <2>2, <2>7 DEF b
  <1> QED BY <1>7, <1>8

PriceStep(n, named, price, c) ==
  [x \in Int |-> [k \in 1..n |->
     IF k \in named /\ price[k].currency = c THEN x + price[k].amount ELSE x]]
LeftStep(items, named, I) ==
  [x \in Seq(I) |-> [k \in 1..Len(items) |->
     IF items[k] # {} /\ k \notin named THEN Append(x, items[k]) ELSE x]]

\* The named items are matched, in their order; the others are left over.
LEMMA MatchingIs ==
  ASSUME NEW entries, NEW N \in Nat, DOMAIN entries = 1..N, NEW I, NEW items \in Seq(I), Len(items) >= 2,
         NEW named \in SUBSET (1..Len(items)), NEW price, ArePriced(entries, items, named, price)
  PROVE  /\ Matching(entries, items) \in MatchStates(entries, I)
         /\ SoFar(Matching(entries, items), Len(items), entries, items, named)
         /\ \E run : RunsTo(run, Matching(entries, items).unmatched, Len(items), Seq(I), <<>>,
                            LeftStep(items, named, I))
  <1> DEFINE n == Len(items)
             A == MatchStates(entries, I)
             step == MatchStep(entries, items, I)
             m == Matching(entries, items)
  <1>0. n \in Nat /\ n \in 0..n /\ \A k \in 1..n : items[k] \in I
    OBVIOUS
  <1>1. PICK run : RunsTo(run, m, n, A, NoMatch, step)
    BY MatchingRuns
  <1>2. run \in [0..n -> A] /\ run[0] = NoMatch /\ run[n] = m /\ \A k \in 1..n : run[k] = step[run[k - 1]][k]
    <2> HIDE DEF A, step, m
    <2> QED BY <1>1 DEF RunsTo
  <1>3. \A k \in 1..n : run[k - 1] \in A /\ run[k] = OnNamed(entries, run[k - 1], items[k])
    <2> TAKE k \in 1..n
    <2>1. run[k - 1] \in A
      BY <1>2
    <2>2. step[run[k - 1]][k] = OnNamed(entries, run[k - 1], items[k])
      BY <2>1 DEF MatchStep
    <2> HIDE DEF step
    <2> QED BY <1>2, <2>1, <2>2
  <1> HIDE DEF step, m
  <1> DEFINE H == {k \in 0..n : SoFar(run[k], k, entries, items, named)}
  <1>4. 0 \in H
    <2>1. \A j \in named : ~(j <= 0)
      BY <1>0
    <2>2. Len(NoMatch.matched) = 0 /\ NoMatch.used = {} /\ Upon(named, 0) = 0
      BY <1>0, UponIs DEF NoMatch
    <2>3. SoFar(NoMatch, 0, entries, items, named)
      BY <2>1, <2>2 DEF SoFar
    <2> QED BY <1>0, <1>2, <2>3
  <1>5. ASSUME NEW k \in 1..n, k - 1 \in H
        PROVE  /\ k \in H
               /\ run[k].unmatched = IF items[k] # {} /\ k \notin named
                                     THEN Append(run[k - 1].unmatched, items[k]) ELSE run[k - 1].unmatched
    <2>1. SoFar(run[k - 1], k - 1, entries, items, named) /\ run[k - 1] \in MatchStates(entries, I)
      BY <1>3, <1>5
    <2> DEFINE a == run[k - 1]
    <2> HIDE DEF a
    <2>2. /\ SoFar(OnNamed(entries, a, items[k]), k, entries, items, named)
          /\ OnNamed(entries, a, items[k]).unmatched =
              IF items[k] # {} /\ k \notin named THEN Append(a.unmatched, items[k]) ELSE a.unmatched
      BY <2>1, SoFarGoesOn DEF a
    <2>3. run[k] = OnNamed(entries, a, items[k]) /\ k \in 0..n
      BY <1>3 DEF a
    <2> QED BY <2>2, <2>3 DEF a
  <1>6. \A k \in 0..n : k \in H
    <2>1. \A k \in 1..n : k - 1 \in H => k \in H
      BY <1>5
    <2> HIDE DEF H
    <2> QED BY <1>0, <1>4, <2>1, UpTo
  <1>7. SoFar(m, n, entries, items, named) /\ m \in MatchStates(entries, I)
    BY <1>0, <1>2, <1>6
  <1> DEFINE left == [k \in 0..n |-> run[k].unmatched]
  <1>8. \A k \in 0..n : run[k].unmatched \in Seq(I)
    BY <1>2 DEF MatchStates
  <1>9. RunsTo(left, m.unmatched, n, Seq(I), <<>>, LeftStep(items, named, I))
    <2>1. left \in [0..n -> Seq(I)]
      BY <1>8
    <2>2. left[0] = <<>> /\ left[n] = m.unmatched
      BY <1>0, <1>2 DEF NoMatch
    <2>3. \A k \in 1..n : left[k] = LeftStep(items, named, I)[left[k - 1]][k]
      <3> TAKE k \in 1..n
      <3>1. k \in 0..n /\ k - 1 \in 0..n
        BY <1>0
      <3>2. LeftStep(items, named, I)[left[k - 1]][k] =
              IF items[k] # {} /\ k \notin named THEN Append(left[k - 1], items[k]) ELSE left[k - 1]
        <4>1. left[k - 1] \in Seq(I)
          BY <2>1, <3>1
        <4> HIDE DEF left
        <4> QED BY <4>1 DEF LeftStep
      <3>3. left[k] = run[k].unmatched /\ left[k - 1] = run[k - 1].unmatched
        BY <3>1
      <3>4. k - 1 \in H
        BY <1>6, <3>1
      <3> HIDE DEF left, H
      <3> QED BY <1>5, <3>2, <3>3, <3>4
    <2> HIDE DEF left
    <2> QED BY <2>1, <2>2, <2>3 DEF RunsTo
  <1> QED BY <1>7, <1>9 DEF m

\* What was matched has the currencies and the sums of the named items.
AddsUp(entries, m, n, named, price, c) ==
  /\ Len(m.matched) = Cardinality(named)
  /\ {entries[e].currency : e \in m.used} = {price[k].currency : k \in named}
  /\ \E run : RunsTo(run, SumOver(entries, m.matched, c), n, Int, 0, PriceStep(n, named, price, c))

\* So each named item is summed once, at its price.
LEMMA MatchedAddUp ==
  ASSUME NEW entries, NEW N \in Nat, DOMAIN entries = 1..N, \A e \in 1..N : entries[e].amount \in Int,
         NEW n \in Nat, NEW I, NEW items \in Seq(I), n = Len(items),
         NEW named \in SUBSET (1..n), NEW price, ArePriced(entries, items, named, price),
         NEW m \in MatchStates(entries, I), SoFar(m, n, entries, items, named), NEW c
  PROVE  AddsUp(entries, m, n, named, price, c)
  <1> DEFINE s == m.matched
             up(k) == Upon(named, k)
             L == Len(s)
             hit(j) == Hit(entries, items[j])
  <1>1. /\ \A k \in 0..n : up(k) \in Nat
        /\ up(0) = 0 /\ up(n) = Cardinality(named)
        /\ \A k \in 1..n : up(k) = IF k \in named THEN up(k - 1) + 1 ELSE up(k - 1)
        /\ \A j, k \in 0..n : j <= k => up(j) <= up(k)
        /\ \A j \in named : \A k \in 0..n : j <= k => up(j) \in 1..up(k)
    BY UponIs
  <1>2. s \in Seq(1..N) /\ L \in Nat /\ m.used \subseteq 1..N
    BY DEF MatchStates
  <1>3. /\ \A e \in m.used : \E j \in named : j <= n /\ e \in hit(j)
        /\ L = up(n)
        /\ \A j \in named : j <= n => s[up(j)] \in hit(j) /\ s[up(j)] \in m.used
    BY DEF SoFar
  <1>4. \A j \in named : j \in 1..n /\ j \in 0..n /\ j <= n
    <2> TAKE j \in named
    <2>1. j \in 1..n
      OBVIOUS
    <2> QED BY <2>1
  <1>5. \A j \in named : \A e \in hit(j) :
           e \in 1..N /\ entries[e].amount = price[j].amount /\ entries[e].currency = price[j].currency
    BY DEF ArePriced, Hit
  <1>6. \A j \in named : price[j].amount \in Int
    <2> TAKE j \in named
    <2>1. s[up(j)] \in hit(j)
      BY <1>3, <1>4
    <2> QED BY <1>5, <2>1
  <1>7. PICK sum : RunsTo(sum, SumOver(entries, s, c), L, Int, 0, SumStep(entries, s, c))
    <2> HIDE DEF s
    <2> QED BY <1>2, SumRuns
  <1> HIDE DEF s, up, L, hit
  <1>8. sum \in [0..L -> Int] /\ sum[0] = 0 /\ sum[L] = SumOver(entries, s, c)
        /\ \A i \in 1..L : sum[i] = SumStep(entries, s, c)[sum[i - 1]][i]
    BY <1>7 DEF RunsTo
  <1>9. \A i \in 1..L :
          sum[i] = IF entries[s[i]].currency = c THEN sum[i - 1] + entries[s[i]].amount ELSE sum[i - 1]
    <2> TAKE i \in 1..L
    <2>1. sum[i - 1] \in Int
      <3>1. i - 1 \in 0..L
        BY <1>2
      <3> QED BY <1>8, <3>1
    <2>2. SumStep(entries, s, c)[sum[i - 1]][i] =
            IF entries[s[i]].currency = c THEN sum[i - 1] + entries[s[i]].amount ELSE sum[i - 1]
      BY <2>1 DEF SumStep, L
    <2> QED BY <1>8, <2>2
  <1> DEFINE due == [k \in 0..n |-> sum[up(k)]]
  <1>10. \A k \in 0..n : up(k) \in 0..L
    <2> TAKE k \in 0..n
    <2>1. k <= n /\ n \in 0..n
      OBVIOUS
    <2>2. up(k) <= up(n)
      BY <1>1, <2>1
    <2> QED BY <1>1, <1>2, <1>3, <2>2
  <1>11. due \in [0..n -> Int]
    BY <1>8, <1>10
  <1>12. due[0] = 0 /\ due[n] = SumOver(entries, s, c)
    <2>1. 0 \in 0..n /\ n \in 0..n
      OBVIOUS
    <2> QED BY <1>1, <1>3, <1>8, <2>1
  <1>13. ASSUME NEW k \in 1..n
         PROVE  due[k] = PriceStep(n, named, price, c)[due[k - 1]][k]
    <2>1. k \in 0..n /\ k - 1 \in 0..n
      OBVIOUS
    <2>2. due[k] = sum[up(k)] /\ due[k - 1] = sum[up(k - 1)] /\ due[k - 1] \in Int
      BY <1>11, <2>1
    <2> HIDE DEF due
    <2>3. PriceStep(n, named, price, c)[due[k - 1]][k] =
            IF k \in named /\ price[k].currency = c THEN due[k - 1] + price[k].amount ELSE due[k - 1]
      BY <2>2 DEF PriceStep
    <2>4. CASE k \notin named
      <3>1. up(k) = up(k - 1)
        BY <1>1, <2>4
      <3> QED BY <2>2, <2>3, <2>4, <3>1
    <2>5. CASE k \in named
      <3>1. up(k) = up(k - 1) + 1 /\ up(k - 1) \in Nat
        BY <1>1, <2>1, <2>5
      <3>2. up(k) \in 1..L /\ up(k) - 1 = up(k - 1)
        BY <1>2, <1>10, <2>1, <3>1
      <3>3. s[up(k)] \in hit(k)
        BY <1>3, <1>4, <2>5
      <3>4. entries[s[up(k)]].amount = price[k].amount /\ entries[s[up(k)]].currency = price[k].currency
        BY <1>5, <2>5, <3>3
      <3>5. sum[up(k)] = IF entries[s[up(k)]].currency = c
                         THEN sum[up(k) - 1] + entries[s[up(k)]].amount ELSE sum[up(k) - 1]
        BY <1>9, <3>2
      <3> QED BY <2>2, <2>3, <2>5, <3>2, <3>4, <3>5
    <2> QED BY <2>4, <2>5
  <1>14. RunsTo(due, SumOver(entries, s, c), n, Int, 0, PriceStep(n, named, price, c))
    <2> HIDE DEF due
    <2> QED BY <1>11, <1>12, <1>13 DEF RunsTo
  <1>15. {entries[e].currency : e \in m.used} = {price[k].currency : k \in named}
    <2>1. ASSUME NEW e \in m.used PROVE \E k \in named : entries[e].currency = price[k].currency
      BY <1>3, <1>5
    <2>2. ASSUME NEW k \in named PROVE \E e \in m.used : entries[e].currency = price[k].currency
      <3>1. s[up(k)] \in hit(k) /\ s[up(k)] \in m.used
        BY <1>3, <1>4
      <3> QED BY <1>5, <3>1
    <2>3. \A e \in m.used : entries[e].currency \in {price[k].currency : k \in named}
      BY <2>1
    <2>4. \A k \in named : price[k].currency \in {entries[e].currency : e \in m.used}
      BY <2>2
    <2> QED BY <2>3, <2>4
  <1> QED BY <1>1, <1>3, <1>14, <1>15 DEF s, L, AddsUp

\* What has one member at most has no two.
LEMMA AtMostOne ==
  ASSUME NEW S, IsFiniteSet(S), Cardinality(S) <= 1
  PROVE  \A x, y \in S : x = y
  <1>1. Cardinality(S) \in Nat
    BY FS_CardinalityType
  <1>2. CASE Cardinality(S) = 0
    BY <1>2, FS_EmptySet
  <1>3. CASE Cardinality(S) = 1
    <2>1. PICK z : S = {z}
      BY <1>3, FS_Singleton
    <2> QED BY <2>1
  <1> QED BY <1>1, <1>2, <1>3

\* The price a claim states.
MoneyClaims == {c \in Range(window) : c.family = "money"}
EntryOf(c) == [amount |-> c.value.amount, currency |-> c.value.currency, words |-> c.words]

\* Every claim stands in the order once.
LEMMA OrderedIs ==
  ASSUME Reading, Windowed
  PROVE  /\ Len(Ordered) \in Nat /\ DOMAIN Ordered = 1..Len(Ordered)
         /\ \A k \in 1..Len(Ordered) : window[Ordered[k]] \in Range(window)
         /\ \A c \in Range(window) : \E k \in 1..Len(Ordered) : window[Ordered[k]] = c
  <1> DEFINE S == DOMAIN window
             R == InTime(S)
             line == Lined(S, R)
  <1>1. /\ IsFiniteSet(S)
        /\ \A a \in S : <<a, a>> \notin R
        /\ \A a, b \in S : a = b \/ <<a, b>> \in R \/ <<b, a>> \in R
        /\ \A a, b, c \in S : <<a, b>> \in R /\ <<b, c>> \in R => <<a, c>> \in R
    BY TimeOrders
  <1>2. Ordered = line
    BY DEF Ordered
  <1>3. Range(window) = {window[i] : i \in S}
    BY DEF Range
  <1>l. line = Lined(S, R)
    OBVIOUS
  <1> HIDE DEF S, R, line
  <1>4. /\ Cardinality(S) \in Nat /\ line \in Seq(S) /\ Len(line) = Cardinality(S)
        /\ \A x \in S : \E k \in 1..Len(line) : line[k] = x
    <2>1. /\ Cardinality(S) \in Nat /\ Lined(S, R) \in Seq(S) /\ Len(Lined(S, R)) = Cardinality(S)
          /\ \A x \in S : \E k \in 1..Len(Lined(S, R)) : Lined(S, R)[k] = x
      BY <1>1, LinedIs
    <2> QED BY <1>l, <2>1
  <1>5. DOMAIN line = 1..Len(line) /\ \A k \in 1..Len(line) : line[k] \in S
    BY <1>4
  <1>6. \A c \in Range(window) : \E k \in 1..Len(line) : window[line[k]] = c
    BY <1>3, <1>4
  <1>7. \A k \in 1..Len(line) : window[line[k]] \in Range(window)
    BY <1>3, <1>5
  <1> QED BY <1>2, <1>4, <1>5, <1>6, <1>7

\* The entries are the prices that were stated.
LEMMA EntriesAre ==
  ASSUME Reading, Windowed
  PROVE  LET entries == EntriesOf(AmountClaims)
         IN  /\ Len(entries) \in Nat /\ DOMAIN entries = 1..Len(entries)
             /\ \A e \in 1..Len(entries) : \E c \in MoneyClaims : entries[e] = EntryOf(c)
             /\ \A c \in MoneyClaims : \E e \in 1..Len(entries) : entries[e] = EntryOf(c)
  <1> DEFINE E == {EntryOf(c) : c \in MoneyClaims}
             n == Len(Ordered)
             at(k) == window[Ordered[k]]
             said(k) == IF at(k).family = "money" THEN <<at(k).value>> ELSE <<>>
             seq(k) == [i \in DOMAIN said(k) |->
                          [amount |-> said(k)[i].amount, currency |-> said(k)[i].currency,
                           words |-> at(k).words]]
             seqs == [k \in 1..n |-> seq(k)]
             entries == EntriesOf(AmountClaims)
  <1>1. /\ n \in Nat /\ DOMAIN Ordered = 1..n
        /\ \A k \in 1..n : at(k) \in Range(window)
        /\ \A c \in Range(window) : \E k \in 1..n : at(k) = c
    BY OrderedIs
  <1>2. AmountClaims = [k \in 1..n |-> [words |-> at(k).words, amounts |-> said(k)]]
    BY <1>1 DEF AmountClaims
  <1>3. entries = FlattenSeq(seqs)
    <2> HIDE DEF at, said, n
    <2>1. DOMAIN AmountClaims = 1..n
          /\ \A k \in 1..n : AmountClaims[k].amounts = said(k) /\ AmountClaims[k].words = at(k).words
      BY <1>2
    <2>2. [k \in DOMAIN AmountClaims |->
             [i \in DOMAIN AmountClaims[k].amounts |->
                [amount |-> AmountClaims[k].amounts[i].amount,
                 currency |-> AmountClaims[k].amounts[i].currency,
                 words |-> AmountClaims[k].words]]] = seqs
      BY <2>1
    <2> QED BY <2>2 DEF EntriesOf
  <1> HIDE DEF at
  <1>4. ASSUME NEW k \in 1..n
        PROVE  /\ at(k).family = "money" =>
                    seq(k) \in Seq(E) /\ Len(seq(k)) = 1 /\ seq(k)[1] = EntryOf(at(k)) /\ at(k) \in MoneyClaims
               /\ seq(k) \in Seq(E)
    <2>1. CASE at(k).family = "money"
      <3>1. at(k) \in MoneyClaims
        BY <1>1, <2>1 DEF MoneyClaims
      <3>2. said(k) = <<at(k).value>>
        BY <2>1
      <3>3. DOMAIN said(k) = 1..1 /\ said(k)[1] = at(k).value
        BY <3>2
      <3> DEFINE x == EntryOf(at(k))
      <3>4. seq(k) = [i \in 1..1 |-> x]
        <4> HIDE DEF said
        <4>1. \A i \in 1..1 : i = 1
          OBVIOUS
        <4> QED BY <3>3, <4>1 DEF EntryOf
      <3>5. x \in E
        BY <3>1
      <3> HIDE DEF x, E, seq
      <3>6. [i \in 1..1 |-> x] \in [1..1 -> E]
        BY <3>5
      <3>7. seq(k) \in Seq(E) /\ Len(seq(k)) = 1
        BY <3>4, <3>6, FunctionIsSeq
      <3>8. seq(k)[1] = x
        BY <3>4
      <3> QED BY <3>1, <3>7, <3>8 DEF x
    <2>2. CASE at(k).family # "money"
      <3>1. said(k) = <<>>
        BY <2>2
      <3>2. DOMAIN said(k) = {}
        BY <3>1
      <3>3. seq(k) = <<>>
        BY <3>2
      <3> HIDE DEF seq, E
      <3> QED BY <2>2, <3>3
    <2> QED BY <2>1, <2>2
  <1> HIDE DEF seq, n
  <1>5. seqs \in Seq(Seq(E)) /\ Len(seqs) = n
    <2> DEFINE SE == Seq(E)
    <2>1. \A k \in 1..n : seq(k) \in SE
      BY <1>4
    <2> HIDE DEF SE
    <2>2. seqs \in [1..n -> SE]
      BY <2>1
    <2> HIDE DEF seqs
    <2>3. seqs \in Seq(SE) /\ Len(seqs) = n
      BY <1>1, <2>2, FunctionIsSeq
    <2> QED BY <2>3 DEF SE
  <1>s. \A k \in 1..n : seqs[k] = seq(k)
    OBVIOUS
  <1> HIDE DEF entries, seqs
  <1>6. /\ entries \in Seq(E)
        /\ \A j \in 1..n : \A k \in 1..Len(seqs[j]) : \E p \in 1..Len(entries) : entries[p] = seqs[j][k]
    <2> HIDE DEF E
    <2> QED BY <1>3, <1>5, FlatType
  <1>7. Len(entries) \in Nat /\ DOMAIN entries = 1..Len(entries) /\ \A e \in 1..Len(entries) : entries[e] \in E
    <2> HIDE DEF E
    <2> QED BY <1>6
  <1>8. ASSUME NEW c \in MoneyClaims PROVE \E e \in 1..Len(entries) : entries[e] = EntryOf(c)
    <2>0. c \in Range(window)
      BY DEF MoneyClaims
    <2>1. PICK k \in 1..n : at(k) = c
      BY <2>0, OrderedIs DEF at, n
    <2>2. at(k).family = "money"
      BY <2>1 DEF MoneyClaims
    <2>3. Len(seqs[k]) = 1 /\ seqs[k][1] = EntryOf(c)
      BY <1>4, <1>s, <2>1, <2>2
    <2>4. 1 \in 1..Len(seqs[k])
      BY <2>3
    <2> HIDE DEF E
    <2> QED BY <1>6, <2>3, <2>4
  <1> QED BY <1>7, <1>8 DEF entries

Priced(items) == DOMAIN PricesOf(items)
PriceOf(item) == CHOOSE v \in Said(item) : TRUE

\* The items that have a price.
LEMMA PricesAre ==
  ASSUME NEW items
  PROVE  /\ Priced(items) = {k \in DOMAIN items : items[k] # {} /\ Said(items[k]) # {}}
         /\ PricesOf(items) = [k \in Priced(items) |-> PriceOf(items[k])]
  BY DEF PricesOf, Priced, PriceOf

\* What was said that an item costs is finitely much, and in some currency.
LEMMA SaidIs ==
  ASSUME Reading, Windowed, NEW item
  PROVE  /\ IsFiniteSet(Said(item))
         /\ \A v \in Said(item) : v.amount \in Int
         /\ Said(item) # {} => PriceOf(item) \in Said(item)
  <1> DEFINE all == {c \in Range(window) : c.family = "money" /\ item \subseteq c.words}
             value == [c \in all |-> c.value]
  <1>1. IsFiniteSet(Range(window))
    <2>1. IsFiniteSet(DOMAIN window)
      BY RangeOfWindow, FS_Interval
    <2> DEFINE f == [i \in DOMAIN window |-> window[i]]
    <2>2. f \in Surjection(DOMAIN window, Range(window))
      BY DEF Surjection, Range
    <2> HIDE DEF f
    <2> QED BY <2>1, <2>2, FS_Surjection
  <1>2. IsFiniteSet(all)
    <2>1. all \in SUBSET Range(window)
      OBVIOUS
    <2> HIDE DEF all
    <2> QED BY <1>1, <2>1, FS_Subset
  <1>3. Said(item) = {value[c] : c \in all}
    BY DEF Said
  <1>4. value \in Surjection(all, Said(item))
    <2> HIDE DEF all
    <2>1. value \in [all -> Said(item)]
      BY <1>3
    <2>2. \A v \in Said(item) : \E c \in all : value[c] = v
      BY <1>3
    <2> HIDE DEF value
    <2> QED BY <2>1, <2>2 DEF Surjection
  <1>5. IsFiniteSet(Said(item))
    <2> HIDE DEF all, value
    <2> QED BY <1>2, <1>4, FS_Surjection
  <1>6. ASSUME NEW v \in Said(item) PROVE v.amount \in Int
    <2>1. PICK c \in Range(window) : c.family = "money" /\ v = c.value
      BY DEF Said
    <2>2. PICK t \in 1..Len(history) : c \in ClaimsOfTurn(t)
      BY RangeOfWindow
    <2>3. c.value \in [amount : Int, currency : STRING]
      BY <2>1, <2>2, ClaimIs DEF Reading
    <2> QED BY <2>1, <2>3
  <1>7. Said(item) # {} => PriceOf(item) \in Said(item)
    BY DEF PriceOf
  <1> QED BY <1>5, <1>6, <1>7

\* Where nothing can be mistaken, the entries give each item its price.
LEMMA ItemsArePriced ==
  ASSUME Reading, Windowed, NEW I, NEW items \in Seq(I), \A k \in 1..Len(items) : IsFiniteSet(items[k]),
         Unmistakable(items)
  PROVE  ArePriced(EntriesOf(AmountClaims), items, Priced(items), PricesOf(items))
  <1> DEFINE entries == EntriesOf(AmountClaims)
             n == Len(items)
             N == Len(entries)
             hit(k) == Hit(entries, items[k])
             named == Priced(items)
  <1>1. /\ N \in Nat /\ DOMAIN entries = 1..N
        /\ \A e \in 1..N : \E c \in MoneyClaims : entries[e] = EntryOf(c)
        /\ \A c \in MoneyClaims : \E e \in 1..N : entries[e] = EntryOf(c)
    BY EntriesAre
  <1> HIDE DEF entries, N
  <1>2. n \in Nat /\ DOMAIN items = 1..n /\ \A k \in 1..n : IsFiniteSet(items[k])
    OBVIOUS
  <1> HIDE DEF n
  <1>3. \A k \in 1..n : k \in named <=> items[k] # {} /\ Said(items[k]) # {}
    BY <1>2, PricesAre
  <1>p. \A k \in named : k \in 1..n
    BY <1>2, PricesAre
  <1>4. \A c \in MoneyClaims : \A k \in 1..n :
          items[k] \subseteq c.words => c.value \in Said(items[k])
    BY DEF MoneyClaims, Said
  <1>5. \A c \in MoneyClaims : EntryOf(c).words = c.words /\ EntryOf(c).amount = c.value.amount
                               /\ EntryOf(c).currency = c.value.currency
    BY DEF EntryOf
  <1>6. ASSUME NEW c \in MoneyClaims
        PROVE  /\ \A j, k \in 1..n : items[j] \intersect c.words # {} /\ items[k] \intersect c.words # {} => j = k
               /\ \A k \in 1..n : items[k] \intersect c.words # {} => items[k] \subseteq c.words
    <2> DEFINE about == About(c, items)
    <2>1. about \in SUBSET (1..n) /\ \A k \in 1..n : k \in about <=> items[k] \intersect c.words # {}
      BY <1>2 DEF About
    <2>2. Cardinality(about) <= 1 /\ \A k \in about : items[k] \subseteq c.words
      BY DEF Unmistakable, MoneyClaims
    <2> HIDE DEF about
    <2>3. IsFiniteSet(1..n)
      BY <1>2, FS_Interval
    <2>4. IsFiniteSet(about)
      BY <2>1, <2>3, FS_Subset
    <2>5. \A j, k \in about : j = k
      BY <2>2, <2>4, AtMostOne
    <2> QED BY <2>1, <2>2, <2>5
  <1>7. ASSUME NEW k \in 1..n, NEW e \in hit(k)
        PROVE  \E c \in MoneyClaims : /\ entries[e] = EntryOf(c) /\ items[k] \intersect c.words # {}
                                      /\ items[k] \subseteq c.words /\ c.value \in Said(items[k])
    <2>1. e \in 1..N /\ items[k] \intersect entries[e].words # {}
      BY <1>1 DEF Hit
    <2>2. PICK c \in MoneyClaims : entries[e] = EntryOf(c)
      BY <1>1, <2>1
    <2>3. items[k] \intersect c.words # {}
      BY <1>5, <2>1, <2>2
    <2>4. items[k] \subseteq c.words
      BY <1>6, <2>3
    <2>5. c.value \in Said(items[k])
      BY <1>4, <2>4
    <2> QED BY <2>2, <2>3, <2>4, <2>5
  <1>8. ASSUME NEW k \in 1..n
        PROVE  hit(k) # {} <=> k \in named
    <2>1. ASSUME hit(k) # {} PROVE k \in named
      <3>1. PICK e \in hit(k) : TRUE
        BY <2>1
      <3>2. Said(items[k]) # {} /\ items[k] # {}
        BY <1>7, <3>1
      <3> QED BY <1>3, <3>2
    <2>2. ASSUME k \in named PROVE hit(k) # {}
      <3>1. items[k] # {} /\ Said(items[k]) # {}
        BY <1>3, <2>2
      <3>2. PICK c \in MoneyClaims : items[k] \subseteq c.words
        BY <3>1 DEF Said, MoneyClaims
      <3>3. PICK e \in 1..N : entries[e] = EntryOf(c)
        BY <1>1
      <3>4. entries[e].words = c.words
        BY <1>5, <3>3
      <3>5. e \in hit(k)
        BY <1>1, <3>1, <3>2, <3>4 DEF Hit
      <3> QED BY <3>5
    <2> QED BY <2>1, <2>2
  <1>9. ASSUME NEW k \in named, NEW e \in hit(k)
        PROVE  /\ items[k] \subseteq entries[e].words
               /\ entries[e].amount = PricesOf(items)[k].amount
               /\ entries[e].currency = PricesOf(items)[k].currency
    <2>1. k \in 1..n
      BY <1>p
    <2>2. PICK c \in MoneyClaims : /\ entries[e] = EntryOf(c) /\ items[k] \subseteq c.words
                                   /\ c.value \in Said(items[k])
      BY <1>7, <2>1
    <2>3. Cardinality(Said(items[k])) <= 1 /\ IsFiniteSet(Said(items[k])) /\ PriceOf(items[k]) \in Said(items[k])
      BY <1>2, <1>3, <2>1, SaidIs DEF Unmistakable
    <2>4. PriceOf(items[k]) = c.value
      BY <2>2, <2>3, AtMostOne
    <2>5. PricesOf(items)[k] = c.value
      BY <2>4, PricesAre
    <2> QED BY <1>5, <2>2, <2>5
  <1>10. ASSUME NEW j \in named, NEW k \in named, j # k
         PROVE  hit(j) \intersect hit(k) = {}
    <2> SUFFICES ASSUME NEW e \in hit(j), e \in hit(k) PROVE FALSE
      OBVIOUS
    <2>1. j \in 1..n /\ k \in 1..n
      BY <1>p
    <2>2. e \in 1..N /\ items[j] \intersect entries[e].words # {} /\ items[k] \intersect entries[e].words # {}
      BY <1>1 DEF Hit
    <2>3. PICK c \in MoneyClaims : entries[e] = EntryOf(c)
      BY <1>1, <2>2
    <2>4. items[j] \intersect c.words # {} /\ items[k] \intersect c.words # {}
      BY <1>5, <2>2, <2>3
    <2> QED BY <1>6, <1>10, <2>1, <2>4
  <1>11. ArePriced(entries, items, named, PricesOf(items))
    <2> HIDE DEF named
    <2>1. \A k \in 1..Len(items) : IsFiniteSet(items[k]) /\ (Hit(entries, items[k]) # {} <=> k \in named)
      BY <1>2, <1>8 DEF n
    <2>2. \A k \in named : \A e \in Hit(entries, items[k]) :
            /\ items[k] \subseteq entries[e].words
            /\ entries[e].amount = PricesOf(items)[k].amount
            /\ entries[e].currency = PricesOf(items)[k].currency
      BY <1>9
    <2>3. \A j, k \in named : j # k => Hit(entries, items[j]) \intersect Hit(entries, items[k]) = {}
      BY <1>10
    <2> QED BY <2>1, <2>2, <2>3 DEF ArePriced
  <1> QED BY <1>11 DEF entries

\* What is due goes from item to item.
LEMMA DueRuns ==
  ASSUME Reading, Windowed, NEW I, NEW items \in Seq(I), NEW c
  PROVE  \E run : RunsTo(run, Due(PricesOf(items), Len(items), c), Len(items), Int, 0,
                         PriceStep(Len(items), Priced(items), PricesOf(items), c))
  <1> DEFINE n == Len(items)
             named == Priced(items)
             prices == PricesOf(items)
             A == Int
             base == 0
             step == PriceStep(n, named, prices, c)
             places == [k \in 1..n |-> k]
             to(x, k) == IF k \in DOMAIN prices /\ prices[k].currency = c THEN x + prices[k].amount ELSE x
             eq(h) == h = [S \in SUBSET (1..n) |->
                             IF S = {} THEN base ELSE to(h[S \ {Max(S)}], places[Max(S)])]
             fold == CHOOSE h : eq(h)
  <1>0. n \in Nat /\ DOMAIN items = 1..n /\ \A k \in 1..n : items[k] \in I
    OBVIOUS
  <1>1. Due(prices, n, c) = fold[1..n]
    <2>1. DOMAIN places = 1..n /\ \A k \in 1..n : places[k] = k
      BY <1>0
    <2>2. Due(prices, n, c) = FoldLeft(LAMBDA x, k : to(x, k), 0, places)
      BY DEF Due
    <2> QED BY <1>0, <2>1, <2>2 DEF FoldLeft, MapThenFoldSet
  <1>p. \A k \in 1..n : places[k] = k
    BY <1>0
  <1>2. DOMAIN prices = named /\ \A k \in named : prices[k].amount \in Int
    <2>1. DOMAIN prices = named
      BY DEF Priced
    <2>2. \A k \in named : prices[k] = PriceOf(items[k]) /\ Said(items[k]) # {}
      BY PricesAre
    <2>3. \A k \in named : PriceOf(items[k]).amount \in Int
      BY <2>2, SaidIs
    <2> HIDE DEF prices, named
    <2> QED BY <2>1, <2>2, <2>3
  <1>3. step \in [A -> [1..n -> A]]
    BY <1>0, <1>2 DEF PriceStep
  <1>s. \A a \in A : \A k \in 1..n : step[a][k] = to(a, k)
    BY <1>2 DEF PriceStep
  <1>4. base \in A
    OBVIOUS
  <1> HIDE DEF A, step, base, n, to, named, prices, places
  <1>6. \A S \in SUBSET (1..n) : S # {} =>
           Max(S) \in 1..n /\ S \ {Max(S)} \in SUBSET (1..n)
    BY <1>0, LastOfSet
  <1>5. PICK g : FoldsOn(g, n, A, base, step)
    BY <1>0, <1>3, <1>4, FoldExists
  <1>7. eq(g)
    <2> SUFFICES ASSUME NEW S \in SUBSET (1..n), S # {}
                 PROVE  step[g[S \ {Max(S)}]][Max(S)] = to(g[S \ {Max(S)}], places[Max(S)])
      BY <1>5 DEF FoldsOn
    <2>1. g[S \ {Max(S)}] \in A /\ Max(S) \in 1..n
      BY <1>5, <1>6 DEF FoldsOn
    <2> QED BY <1>p, <1>s, <2>1
  <1>8. eq(fold)
    <2> HIDE DEF eq
    <2> QED BY <1>7
  <1>9. Unfolds(fold, n, A, base, step)
    <2> HIDE DEF fold
    <2>1. fold[{}] = base
      BY <1>8
    <2>2. \A S \in SUBSET (1..n) : S # {} => fold[S] = to(fold[S \ {Max(S)}], places[Max(S)])
      BY <1>8
    <2> HIDE DEF eq
    <2> QED BY <1>6, <1>p, <1>s, <2>1, <2>2 DEF Unfolds
  <1>10. PICK run : RunsTo(run, fold[1..n], n, A, base, step)
    <2> HIDE DEF fold
    <2> QED BY <1>0, <1>3, <1>4, <1>9, FoldRuns
  <1> HIDE DEF fold
  <1> QED BY <1>1, <1>10 DEF A, step, base, n, named, prices

\* And so does what nobody priced.
LEMMA UnpricedRuns ==
  ASSUME Reading, Windowed, NEW I, NEW items \in Seq(I)
  PROVE  \E run : RunsTo(run, Unpriced(items, Priced(items)), Len(items), Seq(I), <<>>,
                         LeftStep(items, Priced(items), I))
  <1> DEFINE n == Len(items)
             named == Priced(items)
             A == Seq(I)
             base == <<>>
             step == LeftStep(items, named, I)
             places == [k \in DOMAIN items |-> k]
             to(x, k) == IF items[k] # {} /\ k \notin named THEN Append(x, items[k]) ELSE x
             eq(h) == h = [S \in SUBSET (1..n) |->
                             IF S = {} THEN base ELSE to(h[S \ {Max(S)}], places[Max(S)])]
             fold == CHOOSE h : eq(h)
  <1>0. n \in Nat /\ DOMAIN items = 1..n /\ \A k \in 1..n : items[k] \in I
    OBVIOUS
  <1>1. Unpriced(items, named) = fold[1..n]
    <2>1. DOMAIN places = 1..n
      BY <1>0
    <2>2. Unpriced(items, named) = FoldLeft(LAMBDA x, k : to(x, k), <<>>, places)
      BY DEF Unpriced
    <2> QED BY <1>0, <2>1, <2>2 DEF FoldLeft, MapThenFoldSet
  <1>p. \A k \in 1..n : places[k] = k
    BY <1>0
  <1>3. step \in [A -> [1..n -> A]]
    BY <1>0 DEF LeftStep
  <1>s. \A a \in A : \A k \in 1..n : step[a][k] = to(a, k)
    BY DEF LeftStep
  <1>4. base \in A
    OBVIOUS
  <1> HIDE DEF A, step, base, n, to, named, places
  <1>6. \A S \in SUBSET (1..n) : S # {} =>
           Max(S) \in 1..n /\ S \ {Max(S)} \in SUBSET (1..n)
    BY <1>0, LastOfSet
  <1>5. PICK g : FoldsOn(g, n, A, base, step)
    BY <1>0, <1>3, <1>4, FoldExists
  <1>7. eq(g)
    <2> SUFFICES ASSUME NEW S \in SUBSET (1..n), S # {}
                 PROVE  step[g[S \ {Max(S)}]][Max(S)] = to(g[S \ {Max(S)}], places[Max(S)])
      BY <1>5 DEF FoldsOn
    <2>1. g[S \ {Max(S)}] \in A /\ Max(S) \in 1..n
      BY <1>5, <1>6 DEF FoldsOn
    <2> QED BY <1>p, <1>s, <2>1
  <1>8. eq(fold)
    <2> HIDE DEF eq
    <2> QED BY <1>7
  <1>9. Unfolds(fold, n, A, base, step)
    <2> HIDE DEF fold
    <2>1. fold[{}] = base
      BY <1>8
    <2>2. \A S \in SUBSET (1..n) : S # {} => fold[S] = to(fold[S \ {Max(S)}], places[Max(S)])
      BY <1>8
    <2> HIDE DEF eq
    <2> QED BY <1>6, <1>p, <1>s, <2>1, <2>2 DEF Unfolds
  <1>10. PICK run : RunsTo(run, fold[1..n], n, A, base, step)
    <2> HIDE DEF fold
    <2> QED BY <1>0, <1>3, <1>4, <1>9, FoldRuns
  <1> HIDE DEF fold
  <1> QED BY <1>1, <1>10 DEF A, step, base, n, named

\* The total of an answer is that of the items it names.
LEMMA TotalsAddUp ==
  ASSUME Reading, Windowed, NEW I, NEW items \in Seq(I), \A k \in 1..Len(items) : IsFiniteSet(items[k]),
         NEW t, t = Rendered(Totals(AmountClaims, items)),
         t.lines # {}, Len(items) >= 2, Cardinality(Priced(items)) >= 2, Unmistakable(items)
  PROVE  /\ t.totals = {[currency |-> PricesOf(items)[k].currency,
                         sum |-> Due(PricesOf(items), Len(items), PricesOf(items)[k].currency)]
                          : k \in Priced(items)}
         /\ t.missing = Unpriced(items, Priced(items))
  <1> DEFINE entries == EntriesOf(AmountClaims)
             n == Len(items)
             named == Priced(items)
             price == PricesOf(items)
             m == Matching(entries, items)
             T == Totals(AmountClaims, items)
             sums == {[currency |-> entries[e].currency,
                       sum |-> SumOver(entries, m.matched, entries[e].currency)] : e \in m.used}
  <1>1. T.matchedSums = (IF Len(m.matched) < 2 THEN {} ELSE sums) /\ T.unmatched = m.unmatched
    <2>1. T = [byCurrency |-> [c \in Currencies(entries) |-> Distinct(entries, c)],
               matchedSums |-> (IF Len(m.matched) < 2 THEN {} ELSE sums),
               unmatched |-> m.unmatched,
               unsummable |-> Unsummable(AmountClaims)]
      BY DEF Totals
    <2> HIDE DEF T, m, sums, entries
    <2> QED BY <2>1
  <1> HIDE DEF T, sums
  <1>2. t.totals = T.matchedSums /\ t.missing = IF T.matchedSums = {} THEN <<>> ELSE T.unmatched
    <2> DEFINE several == {c \in DOMAIN T.byCurrency : Cardinality(T.byCurrency[c]) >= 2}
    <2>0. t = IF several = {} THEN [lines |-> {}, totals |-> {}, missing |-> <<>>, unsummable |-> 0]
              ELSE [lines |-> {[currency |-> c, amounts |-> T.byCurrency[c]] : c \in several},
                    totals |-> T.matchedSums,
                    missing |-> IF T.matchedSums = {} THEN <<>> ELSE T.unmatched,
                    unsummable |-> T.unsummable]
      BY DEF Rendered, T
    <2> HIDE DEF several
    <2>1. several # {}
      <3> SUFFICES ASSUME several = {} PROVE FALSE
        OBVIOUS
      <3>1. t = [lines |-> {}, totals |-> {}, missing |-> <<>>, unsummable |-> 0]
        BY <2>0
      <3> QED BY <3>1
    <2> DEFINE shown == {[currency |-> c, amounts |-> T.byCurrency[c]] : c \in several}
               miss == IF T.matchedSums = {} THEN <<>> ELSE T.unmatched
    <2>2. t = [lines |-> shown, totals |-> T.matchedSums, missing |-> miss, unsummable |-> T.unsummable]
      BY <2>0, <2>1
    <2> HIDE DEF shown, miss
    <2>3. t.totals = T.matchedSums /\ t.missing = miss
      BY <2>2
    <2> QED BY <2>3 DEF miss
  <1>3. ArePriced(entries, items, named, price)
    BY ItemsArePriced
  <1>4. Len(entries) \in Nat /\ DOMAIN entries = 1..Len(entries)
        /\ \A e \in 1..Len(entries) : entries[e].amount \in Int
    <2>1. Len(entries) \in Nat /\ DOMAIN entries = 1..Len(entries)
          /\ \A e \in 1..Len(entries) : \E c \in MoneyClaims : entries[e] = EntryOf(c)
      BY EntriesAre
    <2>2. \A c \in MoneyClaims : EntryOf(c).amount \in Int
      <3> TAKE c \in MoneyClaims
      <3>1. c.value \in Said({})
        BY DEF Said, MoneyClaims
      <3>2. c.value.amount \in Int
        BY <3>1, SaidIs
      <3> QED BY <3>2 DEF EntryOf
    <2> QED BY <2>1, <2>2
  <1>5. n \in Nat /\ n >= 2 /\ DOMAIN items = 1..n /\ named \in SUBSET (1..n)
    BY PricesAre
  <1> HIDE DEF entries, n, named, price
  <1>6. /\ m \in MatchStates(entries, I) /\ SoFar(m, n, entries, items, named)
        /\ \E run : RunsTo(run, m.unmatched, n, Seq(I), <<>>, LeftStep(items, named, I))
    BY <1>3, <1>4, <1>5, MatchingIs DEF n
  <1> HIDE DEF m
  <1>7. /\ Len(m.matched) = Cardinality(named)
        /\ {entries[e].currency : e \in m.used} = {price[k].currency : k \in named}
        /\ \A c : \E run : RunsTo(run, SumOver(entries, m.matched, c), n, Int, 0, PriceStep(n, named, price, c))
    <2> DEFINE N == Len(entries)
    <2>1. /\ N \in Nat /\ DOMAIN entries = 1..N /\ \A e \in 1..N : entries[e].amount \in Int
          /\ n \in Nat /\ n = Len(items)
      BY <1>4, <1>5 DEF n
    <2> HIDE DEF N
    <2>2. ASSUME NEW c
          PROVE  /\ Len(m.matched) = Cardinality(named)
                 /\ {entries[e].currency : e \in m.used} = {price[k].currency : k \in named}
                 /\ \E run : RunsTo(run, SumOver(entries, m.matched, c), n, Int, 0, PriceStep(n, named, price, c))
      <3>1. m \in MatchStates(entries, I) /\ SoFar(m, n, entries, items, named) /\ named \in SUBSET (1..n)
        BY <1>5, <1>6
      <3>2. AddsUp(entries, m, n, named, price, c)
        BY <1>3, <2>1, <3>1, MatchedAddUp
      <3> QED BY <3>2 DEF AddsUp
    <2> QED BY <2>2
  <1>8. ASSUME NEW c PROVE SumOver(entries, m.matched, c) = Due(price, n, c)
    <2>1. PICK r : RunsTo(r, SumOver(entries, m.matched, c), n, Int, 0, PriceStep(n, named, price, c))
      BY <1>7
    <2>2. PICK s : RunsTo(s, Due(price, n, c), n, Int, 0, PriceStep(n, named, price, c))
      BY DueRuns DEF n, named, price
    <2> QED BY <1>5, <2>1, <2>2, RunsAreOne
  <1>9. m.unmatched = Unpriced(items, named)
    <2>1. PICK r : RunsTo(r, m.unmatched, n, Seq(I), <<>>, LeftStep(items, named, I))
      BY <1>6
    <2>2. PICK s : RunsTo(s, Unpriced(items, named), n, Seq(I), <<>>, LeftStep(items, named, I))
      BY UnpricedRuns DEF n, named
    <2> QED BY <1>5, <2>1, <2>2, RunsAreOne
  <1> DEFINE due(c) == [currency |-> c, sum |-> Due(price, n, c)]
  <1>10. sums = {due(price[k].currency) : k \in named}
    <2>1. sums = {due(entries[e].currency) : e \in m.used}
      BY <1>8 DEF sums
    <2>2. {due(entries[e].currency) : e \in m.used} = {due(c) : c \in {entries[e].currency : e \in m.used}}
      OBVIOUS
    <2>3. {due(price[k].currency) : k \in named} = {due(c) : c \in {price[k].currency : k \in named}}
      OBVIOUS
    <2> QED BY <1>7, <2>1, <2>2, <2>3
  <1>11. ~(Len(m.matched) < 2) /\ named # {}
    <2>1. Cardinality(named) >= 2
      BY DEF named
    <2>2. IsFiniteSet(named)
      <3>1. IsFiniteSet(1..n)
        BY <1>5, FS_Interval
      <3> QED BY <1>5, <3>1, FS_Subset
    <2>3. Cardinality(named) \in Nat
      BY <2>2, FS_CardinalityType
    <2>4. Cardinality({}) = 0
      BY FS_EmptySet
    <2>5. named # {}
      <3> SUFFICES ASSUME named = {} PROVE FALSE
        OBVIOUS
      <3> QED BY <2>1, <2>4
    <2>6. ~(Len(m.matched) < 2)
      <3>1. Len(m.matched) = Cardinality(named)
        BY <1>7
      <3> QED BY <2>1, <2>3, <3>1
    <2> QED BY <2>5, <2>6
  <1>12. sums # {}
    BY <1>10, <1>11
  <1> QED BY <1>1, <1>2, <1>9, <1>10, <1>11, <1>12 DEF named, price, n

----------------------------------------------------------------------------
(* The answers *)

\* An answer is composed when everything has been read, of claims that were
\* read, and what it says adds up.
MaterialInv ==
  /\ Reading /\ Windowed
  /\ read < Len(history) => window = <<>> /\ material = NoMaterial
  /\ \A t \in material.timeline : SpanAddsUp(t)
  /\ NamedItemsAddUp

\* Where nothing was asked nothing is wrong.
LEMMA NothingAddsUp ==
  ASSUME material = NoMaterial
  PROVE  (\A t \in material.timeline : SpanAddsUp(t)) /\ NamedItemsAddUp
  BY DEF NoMaterial, NamedItemsAddUp

\* Nothing is read or asked at first.
LEMMA MaterialStarts == MaterialInit => MaterialInv
  <1> SUFFICES ASSUME MaterialInit PROVE MaterialInv
    OBVIOUS
  <1>1. Len(history) \in Nat /\ DOMAIN history = 1..Len(history)
    BY TurnIs DEF MaterialInit
  <1>2. Reading /\ Windowed
    BY <1>1 DEF MaterialInit, Reading, Windowed
  <1> QED BY <1>2, NothingAddsUp DEF MaterialInit, MaterialInv

\* An answer adds up.
LEMMA AskAddsUp ==
  ASSUME MaterialInv, NEW q \in Question, Ask(q)
  PROVE  MaterialInv'
  <1>1. UNCHANGED <<history, read, claims, window>> /\ read = Len(history)
    <2>1. UNCHANGED <<history, read, claims, window>> /\ window # <<>>
      BY DEF Ask
    <2>2. ~(read < Len(history)) /\ read \in 0..Len(history) /\ Len(history) \in Nat
      BY <2>1 DEF MaterialInv, Reading
    <2> QED BY <2>1, <2>2
  <1>2. Reading /\ Windowed /\ Reading' /\ Windowed' /\ read' = Len(history)'
    BY <1>1 DEF MaterialInv, Reading, ReadClaims, ClaimsOfTurn, ClaimFrom, Windowed
  <1>3. IsInstant(q.asked) /\ q.items \in Seq(Range(q.items))
        /\ \A item \in Range(q.items) : IsFiniteSet(item)
    BY MaterialAssumption
  <1> DEFINE spans == IF q.temporal THEN Timeline(q.asked) ELSE {}
             total == [of |-> q.items, is |-> Rendered(Totals(AmountClaims, q.items))]
             totals == IF q.total THEN {total} ELSE {}
  <1>4. material'.timeline = spans /\ material'.totals = totals
    <2>1. material' = [timeline |-> spans, totals |-> totals]
      BY DEF Ask
    <2> HIDE DEF spans, totals
    <2> QED BY <2>1
  <1>5. \A t \in spans : SpanAddsUp(t)
    BY <1>2, <1>3, TimelinesAddUp
  <1>6. ASSUME NEW t \in totals, t.is.lines # {}, Len(t.of) >= 2, Cardinality(DOMAIN PricesOf(t.of)) >= 2,
               Unmistakable(t.of)
        PROVE  /\ t.is.totals = {[currency |-> PricesOf(t.of)[k].currency,
                                  sum |-> Due(PricesOf(t.of), Len(t.of), PricesOf(t.of)[k].currency)]
                                   : k \in DOMAIN PricesOf(t.of)}
               /\ t.is.missing = Unpriced(t.of, DOMAIN PricesOf(t.of))
    <2> DEFINE items == q.items
               x == Rendered(Totals(AmountClaims, items))
               I == Range(items)
    <2>1. t.of = items /\ t.is = x
      OBVIOUS
    <2>2. items \in Seq(I) /\ \A k \in 1..Len(items) : IsFiniteSet(items[k])
      <3>1. \A k \in 1..Len(items) : items[k] \in I
        BY <1>3
      <3> QED BY <1>3, <3>1
    <2>3. x = Rendered(Totals(AmountClaims, items))
      OBVIOUS
    <2> HIDE DEF items, x, I
    <2>4. x.lines # {} /\ Len(items) >= 2 /\ Cardinality(Priced(items)) >= 2 /\ Unmistakable(items)
      BY <1>6, <2>1 DEF Priced
    <2>5. /\ x.totals = {[currency |-> PricesOf(items)[k].currency,
                          sum |-> Due(PricesOf(items), Len(items), PricesOf(items)[k].currency)]
                           : k \in Priced(items)}
          /\ x.missing = Unpriced(items, Priced(items))
      BY <1>2, <2>2, <2>3, <2>4, TotalsAddUp
    <2> QED BY <2>1, <2>5 DEF Priced
  <1> HIDE DEF spans, totals
  <1>7. \A t \in material'.timeline : SpanAddsUp(t)'
    BY <1>4, <1>5
  <1>8. NamedItemsAddUp'
    <2>1. \A items : PricesOf(items)' = PricesOf(items)
      BY <1>1 DEF PricesOf, Said
    <2>2. \A items : Unmistakable(items)' <=> Unmistakable(items)
      BY <1>1 DEF Unmistakable, Said, About
    <2> QED BY <1>4, <1>6, <2>1, <2>2 DEF NamedItemsAddUp
  <1> QED BY <1>2, <1>7, <1>8 DEF MaterialInv

\* A question retrieves claims, and its answer is yet to come.
LEMMA RetrieveIs ==
  ASSUME MaterialInv, Retrieve
  PROVE  MaterialInv'
  <1>1. UNCHANGED <<history, read, claims>> /\ read = Len(history) /\ material' = NoMaterial
    BY DEF Retrieve
  <1>2. PICK n \in 1..MaterialMax : \E best \in [1..n -> DOMAIN claims] :
          window' = [k \in 1..n |-> claims[best[k]]]
    BY DEF Retrieve
  <1>3. PICK best \in [1..n -> DOMAIN claims] : window' = [k \in 1..n |-> claims[best[k]]]
    BY <1>2
  <1>4. n \in Nat
    BY MaterialAssumption
  <1>5. window' \in Seq(Range(claims))
    <2> DEFINE R == Range(claims)
               w == [k \in 1..n |-> claims[best[k]]]
    <2>1. \A k \in 1..n : claims[best[k]] \in R
      BY DEF Range
    <2> HIDE DEF R
    <2>2. w \in [1..n -> R]
      BY <2>1
    <2> HIDE DEF w
    <2>3. w \in Seq(R)
      BY <1>4, <2>2, FunctionIsSeq
    <2> QED BY <1>3, <2>3 DEF w, R
  <1>6. Reading' /\ Windowed' /\ ~(read' < Len(history)')
    <2>1. Reading'
      BY <1>1 DEF MaterialInv, Reading, ReadClaims, ClaimsOfTurn, ClaimFrom
    <2>2. Range(claims)' = Range(claims)
      BY <1>1 DEF Range
    <2> QED BY <1>1, <1>5, <2>1, <2>2 DEF MaterialInv, Reading, Windowed
  <1>7. (\A t \in material'.timeline : SpanAddsUp(t)') /\ NamedItemsAddUp'
    BY <1>1 DEF NoMaterial, NamedItemsAddUp
  <1> QED BY <1>6, <1>7 DEF MaterialInv

\* No step makes an answer wrong: only a history that is read to its end is asked about.
LEMMA MaterialGoesOn ==
  ASSUME MaterialInv, [MaterialNext]_materialVars
  PROVE  MaterialInv'
  <1>1. CASE ReadTurn
    <2>1. Reading' /\ read < Len(history) /\ UNCHANGED <<history, window, material>>
      BY <1>1, ReadTurnIs DEF MaterialInv, ReadTurn
    <2>2. material' = NoMaterial /\ window' = <<>> /\ Windowed'
      BY <2>1 DEF MaterialInv, Windowed
    <2>3. (\A t \in material'.timeline : SpanAddsUp(t)') /\ NamedItemsAddUp'
      BY <2>2 DEF NoMaterial, NamedItemsAddUp
    <2>4. NoMaterial' = NoMaterial
      BY DEF NoMaterial
    <2> QED BY <2>1, <2>2, <2>3, <2>4 DEF MaterialInv
  <1>r. CASE Retrieve
    BY <1>r, RetrieveIs
  <1>2. CASE \E q \in Question : Ask(q)
    BY <1>2, AskAddsUp
  <1>3. CASE UNCHANGED materialVars
    <2>1. history' = history /\ read' = read /\ claims' = claims /\ window' = window /\ material' = material
      BY <1>3 DEF materialVars
    <2>2. Reading' /\ Windowed'
      BY <2>1 DEF MaterialInv, Reading, ReadClaims, ClaimsOfTurn, ClaimFrom, Windowed
    <2>3. NamedItemsAddUp'
      <3>1. \A items : PricesOf(items)' = PricesOf(items)
        BY <2>1 DEF PricesOf, Said
      <3>2. \A items : Unmistakable(items)' <=> Unmistakable(items)
        BY <2>1 DEF Unmistakable, Said, About
      <3> QED BY <2>1, <3>1, <3>2 DEF MaterialInv, NamedItemsAddUp
    <2>4. \A t \in material'.timeline : SpanAddsUp(t)'
      BY <2>1 DEF MaterialInv
    <2> QED BY <2>1, <2>2, <2>3, <2>4 DEF MaterialInv, NoMaterial
  <1> QED BY <1>1, <1>r, <1>2, <1>3 DEF MaterialNext

\* So it is of every history and every question.
LEMMA MaterialHolds == MaterialSpec => []MaterialInv
  <1>1. MaterialInit => MaterialInv
    BY MaterialStarts
  <1>2. MaterialInv /\ [MaterialNext]_materialVars => MaterialInv'
    BY MaterialGoesOn
  <1> QED BY <1>1, <1>2, PTL DEF MaterialSpec

\* Whatever the transcript, every claim the pass has stored is one that a turn
\* read so far yields (typed.ts), with the time that build.ts gives it: that of
\* its phrase or else of its session, and none where the phrase leads out of
\* the years of four digits, which isoToEpoch does not read back.
THEOREM ClaimsAreRead == MaterialSpec => []Reading
  <1>1. MaterialInv => Reading
    BY DEF MaterialInv
  <1> QED BY <1>1, MaterialHolds, PTL

\* The arithmetic of temporal.ts agrees with that of typed.ts and with itself, for
\* every transcript whose sessions have years of four digits and every offset: a
\* published span (of dates after 1970, no others are published) goes forward
\* whole months and days to its last date, the gaps add up to it, and a phrase
\* that ingestion resolved is as far from its session as it said, unless it
\* leads out of those years and has no time at all.
THEOREM CalendarsAlwaysAgree == MaterialSpec => []CalendarsAgree
  <1>1. MaterialInv => CalendarsAgree
    <2> SUFFICES ASSUME MaterialInv PROVE CalendarsAgree
      OBVIOUS
    <2>1. Reading /\ \A t \in material.timeline : SpanAddsUp(t)
      BY DEF MaterialInv
    <2>2. \A c \in Range(claims) :
            LET at == Instant(DateOf(history[c.turn].at), 0)
            IN  c.family = "relative_time" /\ c.value.exact /\ at # Undated =>
                  IF c.event = Undated THEN OutOfYears(c, at) ELSE AgeIsAsSaid(c, at)
      BY <2>1, AgesAreAsSaid
    <2> QED BY <2>1, <2>2 DEF CalendarsAgree
  <1> QED BY <1>1, MaterialHolds, PTL

\* computeTotals and renderTotals: where nothing can be mistaken, the total of the
\* items a question names has each of their prices once, for any number of
\* claims, amounts and items; the items without a price are named as missing.
THEOREM NamedItemsAlwaysAddUp == MaterialSpec => []NamedItemsAddUp
  <1>1. MaterialInv => NamedItemsAddUp
    BY DEF MaterialInv
  <1> QED BY <1>1, MaterialHolds, PTL

\* parseLists, for every turn that is read: the lists are the runs of two items or
\* more, and each item goes by its number or by its place.
THEOREM ListsAreAlwaysTheRuns == MaterialSpec => []ListsAreTheRuns
  <1>1. MaterialInv => ListsAreTheRuns
    <2> SUFFICES ASSUME MaterialInv, NEW t \in 1..read PROVE RunsAreListed(history[t].lines)
      BY DEF ListsAreTheRuns
    <2>1. t \in 1..Len(history) /\ history \in Transcript
      BY DEF MaterialInv, Reading
    <2>2. history[t].lines \in Seq(ListLine)
      BY <2>1, TurnIs
    <2> QED BY <2>2, ListsAreRuns
  <1> QED BY <1>1, MaterialHolds, PTL
===============================================================================

------------------------------- MODULE Server -------------------------------
(***************************************************************************)
(* The server (server.cpp): one thread per connection that turns requests   *)
(* into entries of write_queue_ and batch_queue_ and waits for the answer,  *)
(* and one writer thread that applies them to the engine, defers what       *)
(* conflicts with a compare-and-swap in progress, drives batch commits and  *)
(* answers a request once the log is synced past it.                        *)
(*                                                                         *)
(* write_queue_mutex_ is held from the evaluation of a wait's predicate to   *)
(* the moment the thread sleeps (pc "nod" and "commitnod"); Stop and        *)
(* checkAndFulfill change what the predicates read without taking it.       *)
(* The engine is what its calls promise: Insert and Delete take the next    *)
(* timestamp, or block while an open batch's gap is used up; an entry is    *)
(* durable once synced_seq passes it.  WritePath and Engine model how.      *)
(* Lookups, scans and compaction requests change nothing here.              *)
(***************************************************************************)
EXTENDS Integers, Sequences, FiniteSets, FiniteSetsExt

CONSTANTS Clients,
          Plans,            \* the ways the clients may send requests: client -> sequence of requests
          Preload,          \* key -> the value the store holds at the start, 0 for none
          KeySize,          \* key -> its size; a value has size 1
          Overhead,         \* the 64 bytes charged for a delete, and added for a batch write
          max_queue_bytes,
          mini_batch_size,
          kMaxCasDeferred,
          Gap,              \* batch_increment_gap
          Word              \* the range of size_t

Keys == DOMAIN KeySize
Sync  == {"write", "delete", "cas"}           \* answered when durable
Async == {"awrite", "adelete"}                \* answered when queued
Ops   == Sync \cup Async \cup {"bput", "begin", "commit", "abort"}

ASSUME ServerAssumption ==
    /\ 0 \notin Clients
    /\ \A p \in Plans : \A c \in Clients :
          p[c] \in Seq([op : Ops, key : Keys, fits : BOOLEAN, value : Nat \ {0}, expected : Nat])
    /\ Preload \in [Keys -> Nat]
    /\ \A k \in Keys : KeySize[k] \in Nat \ {0}
    /\ {Overhead, max_queue_bytes, mini_batch_size, kMaxCasDeferred, Gap} \subseteq Nat \ {0}
    /\ max_queue_bytes < Word

VARIABLES
    plan,             \* client -> its requests, fixed by Init
    h,                \* client -> [pc, at]: its HandleClient thread, at its at-th request
    answer,           \* client -> what its promise was given
    write_queue, batch_queue, deferred_requests,   \* sequences of items [client, n], requests
    pending_writes,                                \* items waiting to be durable
    queue_bytes, batch_queue_bytes,
    batch_commit_pending, batch_commit_requested, commit_finalizing,
    pending_cas,      \* [busy, item, read]
    should_stop,
    writer,           \* [pc, item, mini, commit_mode, drain_count]
    engine,
    \* history
    entered,          \* items in the order write_queue_ took them
    applied,          \* items in the order the engine took them, with their sequence
    answered,         \* items answered OK, and items answered with an error
    excused           \* what has happened that the properties make exceptions of

vars == <<plan, h, answer, write_queue, batch_queue, deferred_requests, pending_writes,
          queue_bytes, batch_queue_bytes, batch_commit_pending, batch_commit_requested,
          commit_finalizing, pending_cas, should_stop, writer, engine,
          entered, applied, answered, excused>>

queues  == <<write_queue, deferred_requests, queue_bytes>>
batchq  == <<batch_queue, batch_queue_bytes>>
commits == <<batch_commit_pending, batch_commit_requested, commit_finalizing>>
history == <<entered, applied, answered, excused>>

Item(c) == [client |-> c, n |-> h[c].at]
Req(x)  == plan[x.client][x.n]
NoItem  == [client |-> 0, n |-> 0]
NoCas   == [busy |-> FALSE, item |-> NoItem, read |-> -1]
Top     == [pc |-> "top", item |-> NoItem, mini |-> <<>>, commit_mode |-> FALSE, drain_count |-> 0]

Init ==
    /\ plan \in Plans
    /\ h = [c \in Clients |-> [pc |-> "recv", at |-> 1]]
    /\ answer = [c \in Clients |-> "none"]
    /\ write_queue = <<>> /\ batch_queue = <<>> /\ deferred_requests = <<>> /\ pending_writes = <<>>
    /\ queue_bytes = 0 /\ batch_queue_bytes = 0
    /\ batch_commit_pending = FALSE /\ batch_commit_requested = FALSE /\ commit_finalizing = FALSE
    /\ pending_cas = NoCas
    /\ should_stop = FALSE
    /\ writer = Top
    /\ engine = [global_ts |-> 1, open |-> FALSE, batch_ts |-> 0, touched |-> FALSE,
                 commit_synced |-> TRUE, unsynced |-> {}, aborted |-> {},
                 versions |-> {[key |-> k, ts |-> 1, value |-> Preload[k], item |-> NoItem] : k \in Keys}]
    /\ entered = <<>> /\ applied = <<>>
    /\ answered = [ok |-> {}, error |-> {}]
    /\ excused = [owner |-> 0, crossed |-> FALSE, raced |-> FALSE, missed |-> {}, stolen |-> FALSE,
                  mischarged |-> FALSE, overtaken |-> {}, switched |-> FALSE]

----------------------------------------------------------------------------
(* The engine, as the server calls it *)

\* What Lookup may return, 0 for nothing: of two entries with one timestamp (a plain
\* write can take batch_ts_) either may be the one it finds.
Visible(e, k) ==
    LET seen == {v \in e.versions : v.key = k /\ v.ts <= e.global_ts /\ v.ts \notin e.aborted}
    IN  {v.value : v \in {w \in seen : \A u \in seen : u.ts <= w.ts}}
            \cup (IF seen = {} THEN {0} ELSE {})

\* Insert and Delete wait on batch_cv_ while this holds.
GapUsedUp(e) == e.open /\ e.global_ts + 1 > e.batch_ts

Insert(e, x, v) ==
    [e EXCEPT !.global_ts = @ + 1, !.unsynced = @ \cup {x},
              !.versions = @ \cup {[key |-> Req(x).key, ts |-> e.global_ts + 1, value |-> v, item |-> x]}]

StartBatch(e) ==
    [e EXCEPT !.batch_ts = e.global_ts + Gap, !.open = TRUE, !.touched = FALSE]

\* The batch writes of a mini-batch: they use batch_ts_ whether or not a batch is open.
\* A moved-from string is empty, so HandleClient marks every one of them a delete.
BatchDelete(e, xs) ==
    [e EXCEPT !.touched = @ \/ xs # <<>>, !.unsynced = @ \cup Range(xs),
              !.versions = @ \cup {[key |-> Req(xs[i]).key, ts |-> e.batch_ts, value |-> 0, item |-> xs[i]] :
                                     i \in DOMAIN xs}]

CommitBatchAsync(e) ==
    [e EXCEPT !.commit_synced = @ /\ ~e.open]

Finalizes(e) == e.open /\ e.commit_synced

CommitBatchFinalize(e) ==
    [e EXCEPT !.global_ts = e.batch_ts + 1, !.open = FALSE, !.commit_synced = TRUE]

\* Mutant: no abort mark.
AbortBatchUnmarked(e) == [e EXCEPT !.open = FALSE]

AbortBatch(e) ==
    IF ~e.open THEN e
    ELSE [e EXCEPT !.open = FALSE, !.aborted = IF e.touched THEN @ \cup {e.batch_ts} ELSE @]

\* The sync worker: synced_seq passes all that has been buffered.
SyncLog ==
    /\ engine.unsynced # {} \/ ~engine.commit_synced
    /\ engine' = [engine EXCEPT !.unsynced = {}, !.commit_synced = TRUE]
    /\ UNCHANGED <<plan, h, answer, queues, batchq, pending_writes, commits, pending_cas,
                   should_stop, writer, history>>

----------------------------------------------------------------------------
(* HandleClient *)

LockFree == \A c \in Clients : h[c].pc \notin {"nod", "commitnod"}

Charge(r) ==
    CASE r.op \in {"write", "awrite"}   -> KeySize[r.key] + 1
      [] r.op \in {"delete", "adelete"} -> Overhead
      [] r.op = "cas"                   -> KeySize[r.key] + 2
      [] r.op = "bput"                  -> KeySize[r.key] + 1 + Overhead

\* What the writer gives back: the sizes of the key and of the value.
Discharge(r) == KeySize[r.key] + (IF r.op \in {"delete", "adelete"} THEN 0 ELSE 1)

HasRoom(r) ==
    ((IF r.op = "bput" THEN batch_queue_bytes ELSE queue_bytes) + Charge(r)) % Word <= max_queue_bytes

\* The thread after it has answered: back to receiving, or out of its loop.
Answered(hc) ==
    [hc EXCEPT !.at = @ + 1, !.pc = IF should_stop THEN "gone" ELSE "recv"]

\* A batch request of a client that did not open the batch.
Crossing(c) == excused.owner # c

\* A request is read from the socket; one that writes goes to wait for room.
Receive(c) ==
    /\ h[c].pc = "recv" /\ h[c].at <= Len(plan[c])
    /\ plan[c][h[c].at].op \in Sync \cup Async \cup {"bput"}
    /\ h' = [h EXCEPT ![c].pc = "room"]
    /\ excused' = [excused EXCEPT !.crossed = @ \/ (plan[c][h[c].at].op = "bput" /\ Crossing(c))]
    /\ UNCHANGED <<plan, answer, queues, batchq, pending_writes, commits, pending_cas,
                   should_stop, writer, engine, entered, applied, answered>>

\* The wait for room: leave on stop, take a place, or be about to sleep.
Enqueue(c) ==
    LET r == plan[c][h[c].at] IN
    /\ h[c].pc = "room" /\ LockFree
    /\ \/ /\ should_stop
          /\ h' = [h EXCEPT ![c].pc = "gone"]
          /\ UNCHANGED <<queues, batchq, history>>
       \/ /\ ~should_stop /\ HasRoom(r) /\ r.op = "bput"
          /\ batch_queue' = Append(batch_queue, Item(c))
          /\ batch_queue_bytes' = (batch_queue_bytes + Charge(r)) % Word
          /\ h' = [h EXCEPT ![c] = Answered(@)]
          /\ UNCHANGED <<queues, history>>
       \/ /\ ~should_stop /\ HasRoom(r) /\ r.op # "bput"
          /\ write_queue' = Append(write_queue, Item(c))
          /\ queue_bytes' = (queue_bytes + Charge(r)) % Word
          /\ h' = [h EXCEPT ![c] = IF r.op \in Async THEN Answered(@) ELSE [@ EXCEPT !.pc = "promise"]]
          /\ entered' = Append(entered, Item(c))
          /\ UNCHANGED <<batchq, deferred_requests, applied, answered, excused>>
       \/ /\ ~should_stop /\ ~HasRoom(r)
          /\ h' = [h EXCEPT ![c].pc = "nod"]
          /\ UNCHANGED <<queues, batchq, history>>
    /\ UNCHANGED <<plan, answer, pending_writes, commits, pending_cas, should_stop, writer, engine>>

\* wait releases the mutex and sleeps.
Sleep(c) ==
    /\ \/ h[c].pc = "nod" /\ h' = [h EXCEPT ![c].pc = "asleep"]
       \/ h[c].pc = "commitnod" /\ h' = [h EXCEPT ![c].pc = "commitsleep"]
    /\ UNCHANGED <<plan, answer, queues, batchq, pending_writes, commits, pending_cas,
                   should_stop, writer, engine, history>>

\* future.get() returns and the answer is sent.
Reply(c) ==
    /\ h[c].pc = "promise" /\ answer[c] # "none"
    /\ h' = [h EXCEPT ![c] = Answered(@)]
    /\ answer' = [answer EXCEPT ![c] = "none"]
    /\ answered' = IF answer[c] = "ok" THEN [answered EXCEPT !.ok = @ \cup {Item(c)}]
                                       ELSE [answered EXCEPT !.error = @ \cup {Item(c)}]
    /\ UNCHANGED <<plan, queues, batchq, pending_writes, commits, pending_cas,
                   should_stop, writer, engine, entered, applied, excused>>

BatchBegin(c) ==
    /\ h[c].pc = "recv" /\ h[c].at <= Len(plan[c]) /\ plan[c][h[c].at].op = "begin"
    /\ engine' = IF engine.open THEN engine ELSE StartBatch(engine)
    /\ excused' = [excused EXCEPT !.owner = IF engine.open THEN @ ELSE c]
    /\ h' = [h EXCEPT ![c] = Answered(@)]
    /\ UNCHANGED <<plan, answer, queues, batchq, pending_writes, commits, pending_cas,
                   should_stop, writer, entered, applied, answered>>

BatchCommit(c) ==
    /\ h[c].pc = "recv" /\ h[c].at <= Len(plan[c]) /\ plan[c][h[c].at].op = "commit"
    /\ LockFree
    /\ batch_commit_pending' = TRUE /\ batch_commit_requested' = TRUE
    /\ h' = [h EXCEPT ![c].pc = "commitwait"]
    /\ excused' = [excused EXCEPT !.crossed = @ \/ Crossing(c)]
    /\ UNCHANGED <<plan, answer, queues, batchq, pending_writes, commit_finalizing, pending_cas,
                   should_stop, writer, engine, entered, applied, answered>>

\* The wait on batch_commit_done_cv_; the answer is OK whatever ended the wait.
CommitWait(c) ==
    /\ h[c].pc = "commitwait" /\ LockFree
    /\ \/ /\ ~batch_commit_pending \/ should_stop
          /\ h' = [h EXCEPT ![c] = Answered(@)]
          /\ answered' = [answered EXCEPT !.ok = @ \cup {Item(c)}]
          /\ excused' = [excused EXCEPT !.owner = IF @ = c THEN 0 ELSE @]
       \/ /\ batch_commit_pending /\ ~should_stop
          /\ h' = [h EXCEPT ![c].pc = "commitnod"]
          /\ UNCHANGED <<answered, excused>>
    /\ UNCHANGED <<plan, answer, queues, batchq, pending_writes, commits, pending_cas,
                   should_stop, writer, engine, entered, applied>>

\* notify_all on write_queue_not_full_cv_.
AllAwake(hs) == [c \in Clients |-> IF hs[c].pc = "asleep" THEN [hs[c] EXCEPT !.pc = "room"] ELSE hs[c]]

\* BatchAbort empties the queue under the mutex ...
AbortClear(c) ==
    /\ h[c].pc = "recv" /\ h[c].at <= Len(plan[c]) /\ plan[c][h[c].at].op = "abort"
    /\ LockFree
    /\ batch_queue' = <<>>
    /\ batch_queue_bytes' =
          (batch_queue_bytes - MapThenSumSet(LAMBDA i : Discharge(Req(batch_queue[i])), DOMAIN batch_queue)) % Word
    /\ batch_commit_pending' = FALSE /\ batch_commit_requested' = FALSE
    /\ h' = AllAwake([h EXCEPT ![c].pc = "abort"])
    /\ excused' = [excused EXCEPT !.crossed = @ \/ Crossing(c)]
    /\ UNCHANGED <<plan, answer, queues, pending_writes, commit_finalizing, pending_cas,
                   should_stop, writer, engine, entered, applied, answered>>

\* ... and aborts in the engine.
AbortEngine(c) ==
    /\ h[c].pc = "abort"
    /\ engine' = AbortBatch(engine)
    /\ h' = [h EXCEPT ![c] = Answered(@)]
    /\ answered' = [answered EXCEPT !.ok = @ \cup {Item(c)}]
    /\ excused' = [excused EXCEPT !.owner = IF @ = c THEN 0 ELSE @, !.raced = @ \/ writer.mini # <<>>,
                                  !.switched = @ \/ (pending_cas.read >= 0 /\ GapUsedUp(engine))]
    /\ UNCHANGED <<plan, answer, queues, batchq, pending_writes, commits, pending_cas,
                   should_stop, writer, entered, applied>>

\* Stop sets the flag and wakes the waiters for room, without the mutex: a thread
\* about to sleep misses it, and waiters for a commit are not woken.
Stop ==
    /\ ~should_stop
    /\ should_stop' = TRUE
    /\ h' = AllAwake(h)
    /\ excused' = [excused EXCEPT !.missed = @ \cup {c \in Clients : h[c].pc \in {"nod", "commitnod", "commitsleep"}}]
    /\ UNCHANGED <<plan, answer, queues, batchq, pending_writes, commits, pending_cas,
                   writer, engine, entered, applied, answered>>

----------------------------------------------------------------------------
(* WriterLoop *)

\* The requests a set_value(true) for the first n pending writes answers: the
\* asynchronous and the batch ones have no future.
Waiting(xs) == {x.client : x \in {y \in xs : Req(y).op \in Sync}}

\* Mutant: not held back by synced_seq.
ResolvedAll(pending, e) == Len(pending)

\* How many of the pending writes the synced sequence has passed.
Resolved(pending, e) == Max({i \in 0..Len(pending) : \A j \in 1..i : pending[j] \notin e.unsynced})

\* checkAndFulfill, with the pending writes, the flag and the engine of the step
\* it ends.
checkAndFulfill(pending, finalizing, e) ==
    LET n     == Resolved(pending, e)
        done  == Waiting({pending[j] : j \in 1..n})
        final == finalizing /\ Finalizes(e)
    IN  /\ pending_writes' = SubSeq(pending, n + 1, Len(pending))
        /\ answer' = [c \in Clients |-> IF c \in done THEN "ok" ELSE answer[c]]
        /\ engine' = IF final THEN CommitBatchFinalize(e) ELSE e
        /\ commit_finalizing' = (finalizing /\ ~final)
        /\ batch_commit_pending' = (batch_commit_pending /\ ~final)
        /\ h' = [c \in Clients |-> IF final /\ h[c].pc = "commitsleep"
                                   THEN [h[c] EXCEPT !.pc = "commitwait"] ELSE h[c]]

\* What that excuses: a waiter about to sleep misses the notification, and a
\* compare-and-swap that has read loses its hold on what the commit makes visible.
FulfillExcuses(finalizing, e) ==
    LET final == finalizing /\ Finalizes(e)
    IN  [excused EXCEPT !.missed = @ \cup {c \in Clients : final /\ h[c].pc = "commitnod"},
                        !.switched = @ \/ (final /\ pending_cas.read >= 0)]

\* The asynchronous lookup of the compare-and-swap.
CasRead ==
    /\ pending_cas.busy /\ pending_cas.read < 0
    /\ \E v \in Visible(engine, Req(pending_cas.item).key) : pending_cas' = [pending_cas EXCEPT !.read = v]
    /\ UNCHANGED <<plan, h, answer, queues, batchq, pending_writes, commits, should_stop,
                   writer, engine, history>>

Matches(x, current) == current # 0 /\ current = Req(x).expected

\* Mutant: put back last first.
RequeuedReversed ==
    write_queue \o [i \in DOMAIN deferred_requests |-> deferred_requests[Len(deferred_requests) + 1 - i]]

Requeued == write_queue \o deferred_requests

\* The lookup is there: swap or fail, and put the deferred requests back.
CasResolve ==
    LET x    == pending_cas.item
        swap == Matches(x, pending_cas.read)
        good == swap /\ Req(x).fits
        e    == Insert(engine, x, Req(x).value)
    IN  /\ writer.pc = "top" /\ pending_cas.busy /\ pending_cas.read >= 0
        /\ LockFree
        /\ good => ~GapUsedUp(engine)
        /\ pending_cas' = NoCas
        /\ write_queue' = Requeued /\ deferred_requests' = <<>>
        /\ IF good
           THEN /\ engine' = e
                /\ pending_writes' = Append(pending_writes, x)
                /\ applied' = Append(applied, x)
                /\ UNCHANGED answer
           ELSE /\ answer' = [answer EXCEPT ![x.client] = "error"]
                /\ UNCHANGED <<engine, pending_writes, applied>>
        /\ excused' = [excused EXCEPT
               !.overtaken = @ \cup {<<deferred_requests[i], write_queue[j]>> :
                                       i \in DOMAIN deferred_requests, j \in DOMAIN write_queue},
               !.switched = FALSE]
        /\ UNCHANGED <<plan, h, queue_bytes, batchq, commits, should_stop, writer, entered, answered>>

\* Mutant: does not wait for a compare-and-swap.
ExitsBusy ==
    should_stop /\ write_queue = <<>> /\ batch_queue = <<>> /\ ~batch_commit_pending

\* The loop's test for the end.
Exits ==
    /\ should_stop /\ write_queue = <<>> /\ batch_queue = <<>>
    /\ ~batch_commit_pending /\ ~pending_cas.busy

\* An iteration that finds no lookup to resolve.  The timed wait that follows changes
\* nothing.
NoResult ==
    /\ writer.pc = "top" /\ ~(pending_cas.busy /\ pending_cas.read >= 0)
    /\ writer' = [writer EXCEPT !.pc = "test"]
    /\ UNCHANGED <<plan, h, answer, queues, batchq, pending_writes, commits, pending_cas,
                   should_stop, engine, history>>

TestStop ==
    /\ writer.pc = "test" /\ LockFree
    /\ writer' = [writer EXCEPT !.pc = IF Exits THEN "exited" ELSE "fulfill"]
    /\ UNCHANGED <<plan, h, answer, queues, batchq, pending_writes, commits, pending_cas,
                   should_stop, engine, history>>

\* checkAndFulfill after the test, and at the end of an iteration that commits.
Fulfill ==
    /\ writer.pc \in {"fulfill", "committed"}
    /\ writer' = [writer EXCEPT !.pc = IF writer.pc = "fulfill" THEN "drain" ELSE "top", !.drain_count = 0]
    /\ checkAndFulfill(pending_writes, commit_finalizing, engine)
    /\ excused' = FulfillExcuses(commit_finalizing, engine)
    /\ UNCHANGED <<plan, queues, batchq, batch_commit_requested, pending_cas, should_stop,
                   entered, applied, answered>>

\* notify_one on write_queue_not_full_cv_, on which waiters for either queue sleep.
Asleep == {c \in Clients : h[c].pc = "asleep"}

\* Mutant: no notification.
NotifyNone == UNCHANGED h

NotifyOne ==
    \/ Asleep = {} /\ UNCHANGED h
    \/ \E c \in Asleep : h' = [h EXCEPT ![c].pc = "room"]

\* It wakes one that must sleep again while another could go on.
Stolen(bytes, batch_bytes) ==
    LET r(c) == plan[c][h[c].at]
        room(c) == ((IF r(c).op = "bput" THEN batch_bytes ELSE bytes) + Charge(r(c))) % Word <= max_queue_bytes
    IN  \E c, d \in Asleep : h'[c].pc = "room" /\ ~room(c) /\ room(d)

\* Mutant: only other compare-and-swaps are kept away.
MustDeferCas(x) == pending_cas.busy /\ Req(x).op = "cas"

MustDefer(x) ==
    pending_cas.busy /\ (Req(x).op = "cas" \/ Req(x).key = Req(pending_cas.item).key)

\* One turn of the loop that drains write_queue_.
DrainEnd ==
    /\ writer.pc = "drain" /\ LockFree
    /\ \/ batch_commit_pending
       \/ write_queue = <<>>
       \/ write_queue # <<>> /\ MustDefer(Head(write_queue)) /\ Len(deferred_requests) >= kMaxCasDeferred
    /\ writer' = [writer EXCEPT !.pc = "trigger"]
    /\ UNCHANGED <<plan, h, answer, queues, batchq, pending_writes, commits, pending_cas,
                   should_stop, engine, history>>

DrainDefer ==
    /\ writer.pc = "drain" /\ LockFree /\ ~batch_commit_pending /\ write_queue # <<>>
    /\ MustDefer(Head(write_queue)) /\ Len(deferred_requests) < kMaxCasDeferred
    /\ deferred_requests' = Append(deferred_requests, Head(write_queue))
    /\ write_queue' = Tail(write_queue)
    /\ UNCHANGED <<plan, h, answer, queue_bytes, batchq, pending_writes, commits, pending_cas,
                   should_stop, writer, engine, history>>

DrainPop ==
    LET x == Head(write_queue)
    IN  /\ writer.pc = "drain" /\ LockFree /\ ~batch_commit_pending /\ write_queue # <<>>
        /\ ~MustDefer(x)
        /\ write_queue' = Tail(write_queue)
        /\ queue_bytes' = (queue_bytes - Discharge(Req(x))) % Word
        /\ NotifyOne
        /\ IF Req(x).op = "cas"
           THEN pending_cas' = [busy |-> TRUE, item |-> x, read |-> -1] /\ UNCHANGED writer
           ELSE writer' = [writer EXCEPT !.pc = "apply", !.item = x] /\ UNCHANGED pending_cas
        /\ excused' = [excused EXCEPT !.mischarged = @ \/ Charge(Req(x)) # Discharge(Req(x)),
                                      !.stolen = @ \/ Stolen(queue_bytes', batch_queue_bytes)]
        /\ UNCHANGED <<plan, answer, batchq, deferred_requests, pending_writes, commits,
                       should_stop, engine, entered, applied, answered>>

\* The engine applies the request, or refuses it by its size.
Apply ==
    LET x == writer.item
        e == Insert(engine, x, IF Req(x).op \in {"delete", "adelete"} THEN 0 ELSE Req(x).value)
        count == writer.drain_count + (IF pending_cas.busy THEN 1 ELSE 0)
    IN  /\ writer.pc = "apply"
        /\ writer' = [writer EXCEPT !.item = NoItem, !.drain_count = count,
                         !.pc = IF pending_cas.busy /\ count >= kMaxCasDeferred THEN "trigger" ELSE "drain"]
        /\ \/ /\ Req(x).fits /\ ~GapUsedUp(engine)
              /\ applied' = Append(applied, x)
              /\ checkAndFulfill(Append(pending_writes, x), commit_finalizing, e)
              /\ excused' = FulfillExcuses(commit_finalizing, e)
           \/ /\ ~Req(x).fits
              /\ UNCHANGED applied
              /\ LET client == Waiting({x})
                 IN  /\ answer' = [c \in Clients |-> IF c \in client THEN "error" ELSE answer[c]]
              /\ UNCHANGED <<h, pending_writes, engine, batch_commit_pending, commit_finalizing, excused>>
        /\ UNCHANGED <<plan, queues, batchq, batch_commit_requested, pending_cas, should_stop,
                       entered, answered>>

\* The test for a mini-batch, and its removal from batch_queue_.
Triggered ==
    \/ Len(batch_queue) >= mini_batch_size
    \/ batch_queue_bytes >= max_queue_bytes \div 2
    \/ batch_commit_requested


MiniLength ==
    IF batch_commit_pending \/ Len(batch_queue) < mini_batch_size THEN Len(batch_queue) ELSE mini_batch_size

Trigger ==
    /\ writer.pc = "trigger" /\ LockFree
    /\ \/ /\ ~Triggered
          /\ writer' = [writer EXCEPT !.pc = "top"]
          /\ UNCHANGED <<h, batchq, excused>>
       \/ /\ Triggered
          /\ writer' = [writer EXCEPT !.pc = "mini", !.commit_mode = batch_commit_pending,
                                      !.mini = SubSeq(batch_queue, 1, MiniLength)]
          /\ batch_queue' = SubSeq(batch_queue, MiniLength + 1, Len(batch_queue))
          /\ batch_queue_bytes' =
                (batch_queue_bytes - MapThenSumSet(LAMBDA i : Discharge(Req(batch_queue[i])), 1..MiniLength)) % Word
          /\ NotifyOne
          /\ excused' = [excused EXCEPT !.mischarged = @ \/ MiniLength > 0,
                                        !.stolen = @ \/ Stolen(queue_bytes, batch_queue_bytes')]
    /\ UNCHANGED <<plan, answer, queues, pending_writes, commits, pending_cas, should_stop,
                   engine, entered, applied, answered>>

\* The batch calls; a refused one ends the iteration without the commit.
Accepted(xs) == SubSeq(xs, 1, Max({i \in 0..Len(xs) : \A j \in 1..i : Req(xs[j]).fits}))

MiniApply ==
    LET xs == Accepted(writer.mini)
        e  == BatchDelete(engine, xs)
    IN  /\ writer.pc = "mini"
        /\ applied' = applied \o xs
        /\ IF xs = writer.mini /\ ~writer.commit_mode
           THEN /\ checkAndFulfill(pending_writes \o xs, commit_finalizing, e)
                /\ excused' = FulfillExcuses(commit_finalizing, e)
           ELSE /\ engine' = e
                /\ pending_writes' = IF xs = writer.mini THEN pending_writes \o xs ELSE pending_writes
                /\ UNCHANGED <<h, answer, batch_commit_pending, commit_finalizing, excused>>
        /\ writer' = IF xs = writer.mini /\ writer.commit_mode THEN [writer EXCEPT !.pc = "commit"] ELSE Top
        /\ UNCHANGED <<plan, queues, batchq, batch_commit_requested, pending_cas, should_stop,
                       entered, answered>>

Commit ==
    /\ writer.pc = "commit"
    /\ engine' = CommitBatchAsync(engine)
    /\ commit_finalizing' = TRUE /\ batch_commit_requested' = FALSE
    /\ writer' = [Top EXCEPT !.pc = "committed"]
    /\ UNCHANGED <<plan, h, answer, queues, batchq, pending_writes, batch_commit_pending,
                   pending_cas, should_stop, history>>

Next ==
    \/ \E c \in Clients :
          \/ Receive(c) \/ Enqueue(c) \/ Sleep(c) \/ Reply(c)
          \/ BatchBegin(c) \/ BatchCommit(c) \/ CommitWait(c) \/ AbortClear(c) \/ AbortEngine(c)
    \/ Stop \/ SyncLog \/ CasRead
    \/ CasResolve \/ NoResult \/ TestStop \/ Fulfill \/ DrainEnd \/ DrainDefer \/ DrainPop \/ Apply
    \/ Trigger \/ MiniApply \/ Commit

Spec == Init /\ [][Next]_vars

\* The writer and the sync worker run, and so does a connection's thread once it has
\* a request; the lookup of a compare-and-swap ends.  Clients need not send, and
\* nobody need call Stop.
Fairness ==
    /\ WF_vars(CasResolve \/ NoResult \/ TestStop \/ Fulfill \/ DrainEnd \/ DrainDefer \/ DrainPop
               \/ Apply \/ Trigger \/ MiniApply \/ Commit)
    /\ WF_vars(SyncLog) /\ WF_vars(CasRead)
    /\ \A c \in Clients : WF_vars(Enqueue(c) \/ Sleep(c) \/ Reply(c) \/ CommitWait(c) \/ AbortEngine(c))

FairSpec == Spec /\ Fairness

----------------------------------------------------------------------------
(* Properties *)

Items == [client : Clients, n : 1..Max({Len(plan[c]) : c \in Clients} \cup {0})]

TypeOK ==
    /\ \A c \in Clients :
          /\ h[c].pc \in {"recv", "room", "nod", "asleep", "promise", "commitwait", "commitnod",
                          "commitsleep", "abort", "gone"}
          /\ h[c].at \in 1..Len(plan[c]) + 1
          /\ answer[c] \in {"none", "ok", "error"}
          \* a promise is only given a value while its future is waited for
          /\ answer[c] # "none" => h[c].pc = "promise"
    /\ Range(write_queue) \cup Range(batch_queue) \cup Range(deferred_requests) \subseteq Items
    /\ queue_bytes \in 0..Word - 1 /\ batch_queue_bytes \in 0..Word - 1
    /\ Len(deferred_requests) <= kMaxCasDeferred
    /\ deferred_requests # <<>> => pending_cas.busy
    /\ writer.pc \in {"top", "test", "fulfill", "drain", "apply", "trigger", "mini", "commit",
                      "committed", "exited"}
    /\ engine.unsynced \subseteq Range(applied)

\* A write, delete or compare-and-swap answered OK (resolved by checkAndFulfill) has
\* been applied and is in the synced part of the log; one answered with an error has
\* not been applied and never will be.
AnswersTruthful ==
    /\ \A x \in answered.ok : Req(x).op \in Sync =>
          x \in Range(applied) \ engine.unsynced
    /\ \A x \in answered.error :
          x \notin Range(applied) \cup Range(write_queue) \cup Range(deferred_requests)

\* A compare-and-swap that swaps does so while its key still has the expected value:
\* the writer keeps every other write of the key away between the lookup and the
\* insert (deferred_requests_).  Excepted, as nothing keeps them away: the commit of a
\* batch between the two, and the abort of one whose timestamp a plain write took (the
\* abort hides that write too).
CasAtomicUnlessBatchEnds ==
    [][(CasResolve /\ engine' # engine) =>
          \/ Req(pending_cas.item).expected \in Visible(engine, Req(pending_cas.item).key)
          \/ excused.switched \/ excused.crossed \/ excused.raced]_vars

\* Writes and deletes of one key are applied in the order write_queue_ took them, unless
\* the earlier one was put back behind the later one when a compare-and-swap ended.
OrderKeptUnlessRequeued ==
    \A i, j \in DOMAIN entered :
        (/\ i < j /\ Req(entered[i]).key = Req(entered[j]).key
         /\ Req(entered[i]).op # "cas" /\ Req(entered[j]).op # "cas"
         /\ \E b \in DOMAIN applied :
               /\ applied[b] = entered[j]
               /\ \/ \E a \in DOMAIN applied : b < a /\ applied[a] = entered[i]
                  \/ entered[i] \in Range(write_queue) \cup Range(deferred_requests))
        => <<entered[i], entered[j]>> \in excused.overtaken

\* The batch writes client c sent after its last "begin" before its n-th request.
BatchOf(c, n) ==
    {[client |-> c, n |-> m] : m \in {k \in 1..n - 1 :
        /\ plan[c][k].op = "bput"
        /\ \A l \in k..n - 1 : plan[c][l].op # "begin"}}


\* No write of an aborted batch is visible.  Excepted: the writer had already taken
\* writes of the batch out of batch_queue_ and applies them after the abort, and
\* batches other clients interfered with.
AbortHiddenUnlessRaced ==
    \A x \in answered.ok :
        (Req(x).op = "abort" /\ ~excused.crossed /\ ~excused.raced) =>
            \A y \in BatchOf(x.client, x.n) : \A v \in engine.versions :
                v.item = y => (v.ts > engine.global_ts \/ v.ts \in engine.aborted)

\* Nobody is left asleep: a waiter for a commit is woken when it is done, and when the
\* writer has drained write_queue_, no thread sleeps that waits for room in it.  Excepted:
\* a waiter for a commit that the notification found between its test and its sleep, a
\* notification taken by a waiter for the other queue, a queue_bytes_ that was charged
\* more or less than it was given back, and commits crossed by other clients.
NoneLeftAsleep ==
    /\ \A c \in Clients :
          h[c].pc = "commitsleep" =>
             batch_commit_pending \/ c \in excused.missed \/ excused.crossed
    /\ (writer.pc = "trigger" /\ write_queue = <<>> /\ deferred_requests = <<>>) =>
          \A c \in Clients :
             (h[c].pc = "asleep" /\ plan[c][h[c].at].op # "bput") =>
                \/ excused.stolen \/ excused.mischarged
                \/ \E d \in Clients : h[d].pc = "room"

\* When the writer has ended after Stop, the only threads still waiting for an answer
\* are those whose write was applied and was not yet durable when it ended.
ExitAnswersAllUnlessUnsynced ==
    writer.pc = "exited" =>
        /\ write_queue = <<>> /\ deferred_requests = <<>>
        /\ \A c \in Clients :
              (h[c].pc = "promise" /\ answer[c] = "none") =>
                 Item(c) \in Range(pending_writes)

\* A commit that a client asked for is finalized, unless Stop comes first: HandleClient waits for
\* batch_commit_pending_ to be reset, and so do the normal writes.
CommitFinalized == (batch_commit_pending /\ ~should_stop) ~> (~batch_commit_pending \/ should_stop)

=============================================================================

------------------------------- MODULE Outbox -------------------------------
(***************************************************************************)
(* The transactional outbox of chat-service and the relay that moves its   *)
(* rows to JetStream (repository/tx.go, repository/outbox.go,              *)
(* events/relay.go, events/events.go, cmd/server/main.go).                 *)
(*                                                                         *)
(* A request handler runs WithTx: it writes its change, inserts one outbox *)
(* row in the same transaction, commits, and then wakes the relay of its   *)
(* own process.  Each process runs one relay goroutine: it sleeps until    *)
(* woken or until a ticker fires, locks a batch of rows (FOR UPDATE SKIP   *)
(* LOCKED), publishes and deletes them one by one and commits.             *)
(*                                                                         *)
(* An outbox id is a number: BIGSERIAL hands it out at the INSERT, so the  *)
(* order of ids is not the order of commits.  The change of a transaction  *)
(* and its event carry the same id.                                        *)
(*                                                                         *)
(* Failures: a statement or a commit of the database fails, a publish      *)
(* fails before or after the broker stored the event, the broker forgets   *)
(* an id (its dedup window passes), a process is killed or shuts down.     *)
(* "faults" counts the failures and "crashes" the kills and the restarts,  *)
(* both bounded.                                                           *)
(***************************************************************************)
EXTENDS Naturals, FiniteSets, Sequences, SequencesExt

CONSTANTS
  Request,      \* handlers that may run at the same time
  Process,      \* chat-service processes, each with its own relay
  MaxId,        \* bound: outbox ids handed out
  MaxFaults,    \* bound: failures of the database, the broker, the window
  MaxCrashes,   \* bound: kills and graceful stops
  BatchSize,    \* relayBatchSize
  None          \* no process

ASSUME BoundsAssumption ==
  /\ MaxId \in Nat
  /\ MaxFaults \in Nat
  /\ MaxCrashes \in Nat
  /\ BatchSize \in Nat \ {0}
  /\ None \notin Process

VARIABLES
  lastId,       \* the outbox_id_seq of the database
  tx,           \* tx[q]: the transaction of handler q
  applied,      \* ids of the changes that are committed
  outbox,       \* ids of the committed rows of the outbox table
  dead,         \* ids the database still locks for sessions that were killed
  relay,        \* relay[p]: the relay goroutine of process p
  wake,         \* wake[p]: the wake channel (capacity 1) holds a token
  stream,       \* CHAT_EVENTS: ids stored by the broker, in its order
  dedup,        \* ids the broker remembers (its dedup window)
  forgotten,    \* history: ids whose window has passed
  before,       \* history: before[e] = changes committed when id e was taken
  faults,
  crashes

dbVars     == <<lastId, applied, outbox, before>>
brokerVars == <<stream, dedup, forgotten>>
bounds     == <<faults, crashes>>
vars == <<lastId, tx, applied, outbox, dead, relay, wake, stream, dedup,
          forgotten, before, faults, crashes>>

Id == 1 .. MaxId

(***************************************************************************)
(* A handler's transaction: "idle", then "open" (BEGIN done), "changed"    *)
(* (the change is written), "enqueued" (the row is inserted) and           *)
(* "committed" (COMMIT answered, onCommit not called yet).                 *)
(***************************************************************************)
IdleTx == [stage |-> "idle", at |-> None, row |-> 0]

TxState == [stage : {"idle", "open", "changed", "enqueued", "committed"},
            at : Process \union {None}, row : 0 .. MaxId]

(***************************************************************************)
(* A relay is "down" (no process), "wait" (in the select of Run), "scan"   *)
(* (about to call RelayOutbox), "publish", "delete" and "commit" inside    *)
(* that call.  todo: locked rows still to be published; done: rows this    *)
(* transaction has deleted; err: publishErr; failed: the last drain ended  *)
(* on an error.                                                            *)
(***************************************************************************)
Fresh(pc) == [pc |-> pc, todo |-> {}, done |-> {}, err |-> FALSE, failed |-> FALSE]

GaveUp == [pc |-> "wait", todo |-> {}, done |-> {}, err |-> FALSE, failed |-> TRUE]

RelayState == [pc : {"down", "wait", "scan", "publish", "delete", "commit"},
               todo : SUBSET Id, done : SUBSET Id,
               err : BOOLEAN, failed : BOOLEAN]

TypeOK ==
  /\ lastId \in 0 .. MaxId
  /\ tx \in [Request -> TxState]
  /\ applied \in SUBSET Id
  /\ outbox \in SUBSET Id
  /\ dead \in SUBSET Id
  /\ relay \in [Process -> RelayState]
  /\ wake \in [Process -> BOOLEAN]
  /\ stream \in Seq(Id)
  /\ dedup \in SUBSET Id
  /\ forgotten \in SUBSET Id
  /\ before \in [Id -> SUBSET Id]
  /\ faults \in 0..MaxFaults
  /\ crashes \in 0..MaxCrashes

Init ==
  /\ lastId = 0
  /\ tx = [q \in Request |-> IdleTx]
  /\ applied = {}
  /\ outbox = {}
  /\ dead = {}
  /\ relay = [p \in Process |-> Fresh("scan")]
  /\ wake = [p \in Process |-> FALSE]
  /\ stream = << >>
  /\ dedup = {}
  /\ forgotten = {}
  /\ before = [e \in Id |-> {}]
  /\ faults = 0
  /\ crashes = 0

Fault == faults < MaxFaults /\ faults' = faults + 1 /\ UNCHANGED crashes
Crash == crashes < MaxCrashes /\ crashes' = crashes + 1 /\ UNCHANGED faults

Up(p) == relay[p].pc # "down"
-----------------------------------------------------------------------------
(***************************************************************************)
(* Request handlers: PostgresChatRepository.WithTx around one change and   *)
(* one EnqueueOutbox.                                                      *)
(***************************************************************************)

\* BEGIN, in whichever running process received the request.
BeginTx(q, p) ==
  /\ tx[q].stage = "idle"
  /\ Up(p)
  /\ lastId < MaxId
  /\ tx' = [tx EXCEPT ![q] = [stage |-> "open", at |-> p, row |-> 0]]
  /\ UNCHANGED <<dbVars, dead, relay, wake, brokerVars, bounds>>

\* The change itself: CreateMessage, AppendMessageEvent, MarkRead, DeleteChat.
WriteChange(q) ==
  /\ tx[q].stage = "open"
  /\ tx' = [tx EXCEPT ![q].stage = "changed"]
  /\ UNCHANGED <<dbVars, dead, relay, wake, brokerVars, bounds>>

\* Mutant: the INSERT runs on the pool connection, outside the transaction.
EnqueueOutsideTx(q) ==
  /\ tx[q].stage = "changed"
  /\ lastId < MaxId
  /\ lastId' = lastId + 1
  /\ tx' = [tx EXCEPT ![q].stage = "enqueued", ![q].row = lastId + 1]
  /\ before' = [before EXCEPT ![lastId + 1] = applied]
  /\ outbox' = outbox \union {lastId + 1}
  /\ UNCHANGED <<applied, dead, relay, wake, brokerVars, bounds>>

\* EnqueueOutbox: the INSERT takes the next id; the row stays private to the
\* transaction.
EnqueueOutbox(q) ==
  /\ tx[q].stage = "changed"
  /\ lastId < MaxId
  /\ lastId' = lastId + 1
  /\ tx' = [tx EXCEPT ![q].stage = "enqueued", ![q].row = lastId + 1]
  /\ before' = [before EXCEPT ![lastId + 1] = applied]
  /\ UNCHANGED <<applied, outbox, dead, relay, wake, brokerVars, bounds>>

\* Mutant: the error of the INSERT is swallowed, the change is committed alone.
CommitWithoutRow(q) ==
  /\ tx[q].stage = "enqueued"
  /\ applied' = applied \union {tx[q].row}
  /\ tx' = [tx EXCEPT ![q].stage = "committed"]
  /\ UNCHANGED <<lastId, before, outbox, dead, relay, wake, brokerVars, bounds>>

\* COMMIT: the change and its row become visible together.
CommitTx(q) ==
  /\ tx[q].stage = "enqueued"
  /\ applied' = applied \union {tx[q].row}
  /\ outbox' = outbox \union {tx[q].row}
  /\ tx' = [tx EXCEPT ![q].stage = "committed"]
  /\ UNCHANGED <<lastId, before, dead, relay, wake, brokerVars, bounds>>

\* A statement or the COMMIT fails, or the caller went away: the deferred
\* Rollback drops the change and the row.  The id is not given back.
RollbackTx(q) ==
  /\ tx[q].stage \in {"open", "changed", "enqueued"}
  /\ Fault
  /\ tx' = [tx EXCEPT ![q] = IdleTx]
  /\ UNCHANGED <<dbVars, dead, relay, wake, brokerVars>>

\* Mutant: the channel has no buffer, so only a relay in its select is woken.
WakeUnbuffered(p) == wake' = [wake EXCEPT ![p] = @ \/ relay[p].pc = "wait"]

\* The token Wake leaves in the channel: none is added to a full channel.
Wake(p) == wake' = [wake EXCEPT ![p] = TRUE]

\* onCommit, after the COMMIT returned: Relay.Wake of this process.
OnCommit(q) ==
  /\ tx[q].stage = "committed"
  /\ Wake(tx[q].at)
  /\ tx' = [tx EXCEPT ![q] = IdleTx]
  /\ UNCHANGED <<dbVars, dead, relay, brokerVars, bounds>>
-----------------------------------------------------------------------------
(***************************************************************************)
(* The relay goroutine: Relay.Run, drain and RelayOutbox.                  *)
(***************************************************************************)

\* Rows a SELECT ... FOR UPDATE SKIP LOCKED of p does not see.
Held(p) == relay[p].todo \union relay[p].done
Locked == dead \union UNION {Held(p) : p \in Process}

\* The first BatchSize rows that are free, in the order of their ids.
IsBatch(B, free) ==
  /\ B \subseteq free
  /\ \A e \in B, f \in free \ B : e < f
  /\ Cardinality(B) <= BatchSize
  /\ Cardinality(B) < BatchSize => B = free

\* select in Run: the wake token.
TakeWake(p) ==
  /\ relay[p].pc = "wait"
  /\ wake[p]
  /\ wake' = [wake EXCEPT ![p] = FALSE]
  /\ relay' = [relay EXCEPT ![p] = Fresh("scan")]
  /\ UNCHANGED <<tx, dbVars, dead, brokerVars, bounds>>

\* Mutant: Run without a ticker.
TickWhenWoken(p) ==
  /\ relay[p].pc = "wait"
  /\ wake[p]
  /\ wake' = [wake EXCEPT ![p] = FALSE]
  /\ relay' = [relay EXCEPT ![p] = Fresh("scan")]
  /\ UNCHANGED <<tx, dbVars, dead, brokerVars, bounds>>

\* select in Run: the ticker, whether or not anything is pending.
Tick(p) ==
  /\ relay[p].pc = "wait"
  /\ relay' = [relay EXCEPT ![p] = Fresh("scan")]
  /\ UNCHANGED <<tx, dbVars, dead, wake, brokerVars, bounds>>

\* BEGIN and the SELECT of RelayOutbox: lock a batch.
LockBatch(p) ==
  /\ relay[p].pc = "scan"
  /\ \E B \in SUBSET (outbox \ Locked) :
       /\ IsBatch(B, outbox \ Locked)
       /\ relay' = [relay EXCEPT ![p].pc = IF B = {} THEN "commit" ELSE "publish",
                                 ![p].todo = B]
  /\ UNCHANGED <<tx, dbVars, dead, wake, brokerVars, bounds>>

\* The rows of a batch are handled in the order of their ids.
IsNext(p, e) == e \in relay[p].todo /\ \A f \in relay[p].todo : e <= f

\* Mutant: every attempt carries a message id of its own.
StoreUnderNewId(e) ==
  /\ stream' = Append(stream, e)
  /\ dedup' = dedup \union {MaxId + Len(stream) + 1}
  /\ UNCHANGED forgotten

\* What the broker does with a message: the id is its Nats-Msg-Id, and an id
\* it remembers is acknowledged without being stored again.
Store(e) ==
  /\ stream' = IF e \in dedup THEN stream ELSE Append(stream, e)
  /\ dedup' = dedup \union {e}
  /\ UNCHANGED forgotten

\* PublishMsg returned an acknowledgement.
Publish(p) ==
  /\ relay[p].pc = "publish"
  /\ \E e \in relay[p].todo : IsNext(p, e) /\ Store(e)
  /\ relay' = [relay EXCEPT ![p].pc = "delete"]
  /\ UNCHANGED <<tx, dbVars, dead, wake, bounds>>

\* Mutant: the error of PublishMsg is ignored.
PublishErrorIgnored(p) ==
  /\ relay[p].pc = "publish"
  /\ Fault
  /\ relay' = [relay EXCEPT ![p].pc = "delete"]
  /\ UNCHANGED <<tx, dbVars, dead, wake, brokerVars>>

\* Mutant: a row that cannot be published is skipped, the rest goes on.
PublishErrorSkips(p) ==
  /\ relay[p].pc = "publish"
  /\ Fault
  /\ \E e \in relay[p].todo :
       /\ IsNext(p, e)
       /\ relay' = [relay EXCEPT
            ![p].pc = IF relay[p].todo = {e} THEN "commit" ELSE "publish",
            ![p].todo = @ \ {e}]
  /\ UNCHANGED <<tx, dbVars, dead, wake, brokerVars>>

\* PublishMsg failed; the broker may have stored the event all the same.  The
\* rest of the batch is left alone and what was deleted so far is committed.
PublishError(p) ==
  /\ relay[p].pc = "publish"
  /\ Fault
  /\ \/ \E e \in relay[p].todo : IsNext(p, e) /\ Store(e)
     \/ UNCHANGED brokerVars
  /\ relay' = [relay EXCEPT ![p].pc = "commit", ![p].err = TRUE]
  /\ UNCHANGED <<tx, dbVars, dead, wake>>

\* DELETE of the row just published, inside the relay's transaction.
DeleteRow(p) ==
  /\ relay[p].pc = "delete"
  /\ \E e \in relay[p].todo :
       /\ IsNext(p, e)
       /\ relay' = [relay EXCEPT
            ![p].pc = IF relay[p].todo = {e} THEN "commit" ELSE "publish",
            ![p].todo = @ \ {e},
            ![p].done = @ \union {e}]
  /\ UNCHANGED <<tx, dbVars, dead, wake, brokerVars, bounds>>

\* COMMIT, then drain: give up on a publish error, go on after a full batch,
\* otherwise go back to the select.
CommitBatch(p) ==
  /\ relay[p].pc = "commit"
  /\ outbox' = outbox \ relay[p].done
  /\ relay' = [relay EXCEPT ![p] =
       IF relay[p].err THEN GaveUp
       ELSE IF Cardinality(relay[p].done) < BatchSize THEN Fresh("wait")
       ELSE Fresh("scan")]
  /\ UNCHANGED <<tx, lastId, applied, before, dead, wake, brokerVars, bounds>>

\* The SELECT, a DELETE or the COMMIT fails: rollback, and drain gives up.
AbortBatch(p) ==
  /\ relay[p].pc \in {"scan", "delete", "commit"}
  /\ Fault
  /\ relay' = [relay EXCEPT ![p] = GaveUp]
  /\ UNCHANGED <<tx, dbVars, dead, wake, brokerVars>>
-----------------------------------------------------------------------------
(***************************************************************************)
(* Processes, the database server and the broker.                          *)
(***************************************************************************)

\* The process is killed.  Its handlers' transactions are lost; the database
\* keeps the row locks of the relay's transaction until it notices.
Kill(p) ==
  /\ Up(p)
  /\ Crash
  /\ tx' = [q \in Request |-> IF tx[q].at = p THEN IdleTx ELSE tx[q]]
  /\ relay' = [relay EXCEPT ![p] = Fresh("down")]
  /\ dead' = dead \union Held(p)
  /\ wake' = [wake EXCEPT ![p] = FALSE]
  /\ UNCHANGED <<dbVars, brokerVars>>

\* SIGTERM: GracefulStop waits for the handlers, then stopRelay cancels the
\* relay's context; a batch in flight is rolled back.
Shutdown(p) ==
  /\ Up(p)
  /\ Crash
  /\ \A q \in Request : tx[q].at # p
  /\ relay' = [relay EXCEPT ![p] = Fresh("down")]
  /\ wake' = [wake EXCEPT ![p] = FALSE]
  /\ UNCHANGED <<tx, dbVars, dead, brokerVars>>

\* The container is started again; Run drains before its first select.
Start(p) ==
  /\ ~Up(p)
  /\ relay' = [relay EXCEPT ![p] = Fresh("scan")]
  /\ UNCHANGED <<tx, dbVars, dead, wake, brokerVars, bounds>>

\* The database gives up the transactions of killed sessions.
ReleaseDead ==
  /\ dead # {}
  /\ dead' = {}
  /\ UNCHANGED <<tx, dbVars, relay, wake, brokerVars, bounds>>

\* The dedup window of e passes.
Forget(e) ==
  /\ e \in dedup
  /\ Fault
  /\ dedup' = dedup \ {e}
  /\ forgotten' = forgotten \union {e}
  /\ UNCHANGED <<tx, dbVars, dead, relay, wake, stream>>
-----------------------------------------------------------------------------
HandlerStep(q) ==
  \/ \E p \in Process : BeginTx(q, p)
  \/ WriteChange(q)
  \/ EnqueueOutbox(q)
  \/ CommitTx(q)
  \/ RollbackTx(q)
  \/ OnCommit(q)

RelayStep(p) ==
  \/ LockBatch(p)
  \/ Publish(p)
  \/ DeleteRow(p)
  \/ CommitBatch(p)

Next ==
  \/ \E q \in Request : HandlerStep(q)
  \/ \E p \in Process :
       \/ RelayStep(p)
       \/ TakeWake(p)
       \/ Tick(p)
       \/ PublishError(p)
       \/ AbortBatch(p)
       \/ Kill(p)
       \/ Shutdown(p)
       \/ Start(p)
  \/ ReleaseDead
  \/ \E e \in Id : Forget(e)

\* The goroutine keeps running, the ticker keeps firing, docker restarts a
\* stopped container and the database notices a closed connection.  Handlers
\* owe nothing: a caller may go away at any time.
Fairness ==
  /\ \A p \in Process :
       /\ WF_vars(RelayStep(p))
       /\ WF_vars(Tick(p))
       /\ WF_vars(Start(p))
  /\ WF_vars(ReleaseDead)

Safe == Init /\ [][Next]_vars

Spec == Safe /\ Fairness
-----------------------------------------------------------------------------
(***************************************************************************)
(* Properties.                                                             *)
(***************************************************************************)

\* No event of a change that was rolled back, or is not durable yet, reaches
\* the broker, and no such row waits for the relay: EnqueueOutbox takes part
\* in the transaction of the change (tx.go, outbox.go).
AnnouncedIsCommitted == ToSet(stream) \union outbox \subseteq applied

\* A committed change is never forgotten: until the broker has stored its
\* event the row is still in the table, whatever fails in between and however
\* the relays of several processes overlap (RelayOutbox deletes a row only
\* after publish succeeded).
NothingLost == applied \subseteq outbox \union ToSet(stream)

\* "JetStream drops a resend of the same event within its dedup window"
\* (relay.go): a retry after a failed commit, a crash or a lost acknowledgement
\* puts no second copy into the stream unless the window passed.
OncePerWindow ==
  \A i, j \in DOMAIN stream :
    i # j /\ stream[i] = stream[j] => stream[i] \in forgotten

\* With one process, and until it is killed, the order in which handlers can observe their
\* commits is kept: an event whose id was taken after another change was
\* committed is stored behind the event of that change, also when publishing
\* fails half way through a batch ("keep this event and the rest (in order)
\* for the next attempt", outbox.go).
CommitOrderKept ==
  crashes = 0 => \A i \in DOMAIN stream :
    before[stream[i]] \subseteq {stream[k] : k \in 1 .. i - 1}

\* Every relay sleeps, nothing failed, no handler is between its COMMIT and its
\* Wake, and a row is free: then some relay has a token waiting, so the row
\* does not have to wait for the ticker (Wake: "that one will pick up the new
\* events too").
NoLostWakeup ==
  /\ \A p \in Process : relay[p].pc = "wait" /\ ~relay[p].failed
  /\ \A q \in Request : tx[q].stage # "committed"
  /\ crashes = 0
  /\ outbox # {}
  => \E p \in Process : wake[p]

\* Rows do not pile up: each one leaves the table in the end (events/relay.go
\* retries on the ticker after any error).
OutboxDrains == \A e \in Id : (e \in outbox) ~> (e \notin outbox)

\* The outbox and its relays keep the promise of ReliableEvents, both its
\* steps and that every committed change is announced in the end.
Promise == INSTANCE ReliableEvents WITH Event <- Id, committed <- applied

KeepsPromise == Promise!Spec
=============================================================================

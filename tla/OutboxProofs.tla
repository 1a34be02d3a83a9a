---------------------------- MODULE OutboxProofs ----------------------------
(***************************************************************************)
(* What holds of the outbox for any number of handlers, processes, ids,    *)
(* failures and kills.                                                     *)
(***************************************************************************)
EXTENDS Outbox, FiniteSetTheorems, TLAPS

\* Ids are handed out once: what is committed was handed out, and the row of an
\* open transaction is neither committed nor the row of another one.
RowsFresh ==
  /\ applied \subseteq 1 .. lastId
  /\ \A q \in Request : tx[q].stage = "enqueued" =>
       /\ tx[q].row \in 1 .. lastId
       /\ tx[q].row \notin applied
       /\ \A r \in Request :
            r # q /\ tx[r].stage = "enqueued" => tx[r].row # tx[q].row

\* A relay works on committed rows only, has deleted only what the broker
\* stored, and is about to delete a row the broker stored.
RelayCorrect(p) ==
  /\ relay[p].todo \subseteq applied
  /\ relay[p].done \subseteq ToSet(stream)
  /\ relay[p].pc = "delete" =>
       \A e \in relay[p].todo : IsNext(p, e) => e \in ToSet(stream)

\* The broker remembers only what it stored, and it has stored nothing that it
\* neither remembers nor has forgotten.
BrokerCorrect ==
  /\ dedup \subseteq ToSet(stream)
  /\ ToSet(stream) \subseteq dedup \union forgotten

IInv ==
  /\ TypeOK
  /\ RowsFresh
  /\ \A p \in Process : RelayCorrect(p)
  /\ BrokerCorrect
  /\ AnnouncedIsCommitted
  /\ NothingLost
  /\ OncePerWindow
-----------------------------------------------------------------------------
\* What one more element does to the contents of a stream.
LEMMA AppendContents ==
  ASSUME NEW S, NEW s \in Seq(S), NEW e \in S
  PROVE  /\ Append(s, e) \in Seq(S)
         /\ ToSet(Append(s, e)) = ToSet(s) \union {e}
         /\ Len(Append(s, e)) = Len(s) + 1
         /\ Append(s, e)[Len(s) + 1] = e
         /\ \A i \in 1 .. Len(s) : Append(s, e)[i] = s[i]
<1> DEFINE t == Append(s, e)
<1>1. /\ t \in Seq(S)
      /\ Len(t) = Len(s) + 1
      /\ t[Len(s) + 1] = e
      /\ \A i \in 1 .. Len(s) : t[i] = s[i]
  OBVIOUS
<1>2. DOMAIN t = DOMAIN s \union {Len(s) + 1} /\ DOMAIN s = 1 .. Len(s)
  BY <1>1
<1>3. ToSet(t) = ToSet(s) \union {e}
  BY <1>1, <1>2 DEF ToSet
<1>4. QED
  BY <1>1, <1>3

\* Storing an event the broker can be asked to store.
LEMMA StoreContents ==
  ASSUME stream \in Seq(Id), dedup \in SUBSET Id, forgotten \in SUBSET Id,
         NEW e \in Id, Store(e)
  PROVE  /\ stream' \in Seq(Id)
         /\ dedup' \in SUBSET Id
         /\ forgotten' \in SUBSET Id
         /\ ToSet(stream') \subseteq ToSet(stream) \union {e}
         /\ ToSet(stream) \subseteq ToSet(stream')
         /\ e \notin dedup => e \in ToSet(stream')
BY AppendContents DEF Store

-----------------------------------------------------------------------------
\* Replacing the stage and the row of a transaction.
LEMMA TxUpdate ==
  ASSUME tx \in [Request -> TxState], NEW q \in Request, NEW row \in 0 .. MaxId,
         NEW stage \in {"idle", "open", "changed", "enqueued", "committed"}
  PROVE  [tx EXCEPT ![q].stage = stage, ![q].row = row] \in [Request -> TxState]
<1> DEFINE f == [tx EXCEPT ![q].stage = stage]
           g == [f EXCEPT ![q].row = row]
<1>1. f \in [Request -> TxState]
  BY DEF TxState
<1>2. g \in [Request -> TxState]
  <2> HIDE DEF f
  <2> QED BY <1>1 DEF TxState
<1>3. g = [tx EXCEPT ![q].stage = stage, ![q].row = row]
  BY Zenon
<1>4. QED
  BY <1>2, <1>3

\* Replacing the batch of a relay.
LEMMA RelayUpdate ==
  ASSUME relay \in [Process -> RelayState], NEW p \in Process,
         NEW todo \in SUBSET Id, NEW done \in SUBSET Id,
         NEW pc \in {"scan", "publish", "delete", "commit"}
  PROVE  /\ [relay EXCEPT ![p].pc = pc, ![p].err = TRUE] \in [Process -> RelayState]
         /\ [relay EXCEPT ![p].pc = pc, ![p].todo = todo] \in [Process -> RelayState]
         /\ [relay EXCEPT ![p].pc = pc, ![p].todo = todo, ![p].done = done]
               \in [Process -> RelayState]
<1> DEFINE f == [relay EXCEPT ![p].pc = pc]
           e == [f EXCEPT ![p].err = TRUE]
           g == [f EXCEPT ![p].todo = todo]
           h == [g EXCEPT ![p].done = done]
<1>1. f \in [Process -> RelayState]
  BY DEF RelayState
<1>2. e \in [Process -> RelayState]
  <2> HIDE DEF f
  <2> QED BY <1>1 DEF RelayState
<1>3. g \in [Process -> RelayState]
  <2> HIDE DEF f
  <2> QED BY <1>1 DEF RelayState
<1>4. h \in [Process -> RelayState]
  <2> HIDE DEF g
  <2> QED BY <1>3 DEF RelayState
<1>5. e = [relay EXCEPT ![p].pc = pc, ![p].err = TRUE]
  BY Zenon
<1>6. g = [relay EXCEPT ![p].pc = pc, ![p].todo = todo]
  BY Zenon
<1>7. h = [relay EXCEPT ![p].pc = pc, ![p].todo = todo, ![p].done = done]
  BY Zenon
<1>8. QED
  BY <1>2, <1>3, <1>4, <1>5, <1>6, <1>7

-----------------------------------------------------------------------------
LEMMA InitType == Init => TypeOK
<1> SUFFICES ASSUME Init PROVE TypeOK
  OBVIOUS
<1>1. stream \in Seq(Id)
  BY DEF Init
<1>2. QED
  BY <1>1, BoundsAssumption
  DEF Init, TypeOK, TxState, IdleTx, RelayState, Fresh, Id

\* A step of a handler keeps the types.
LEMMA HandlerType ==
  ASSUME TypeOK, RowsFresh, NEW q \in Request, HandlerStep(q)
  PROVE  TypeOK'
<1> USE BoundsAssumption DEF TypeOK, TxState, dbVars, brokerVars, bounds, Id
<1>1. ASSUME NEW p \in Process, BeginTx(q, p) PROVE TypeOK'
  <2>1. [stage |-> "open", at |-> p, row |-> 0] \in TxState
    OBVIOUS
  <2>2. tx' \in [Request -> TxState]
    BY <1>1, <2>1 DEF BeginTx
  <2>3. QED
    BY <1>1, <2>2 DEF BeginTx
<1>2. CASE WriteChange(q)
  BY <1>2 DEF WriteChange
<1>3. CASE EnqueueOutbox(q)
  <2>1. lastId + 1 \in Id /\ lastId' \in 0 .. MaxId
    BY <1>3 DEF EnqueueOutbox
  <2>2. tx' \in [Request -> TxState]
    BY <1>3, <2>1, TxUpdate DEF EnqueueOutbox
  <2>3. before' \in [Id -> SUBSET Id]
    BY <1>3, <2>1 DEF EnqueueOutbox
  <2>4. QED
    BY <1>3, <2>1, <2>2, <2>3 DEF EnqueueOutbox
<1>4. CASE CommitTx(q)
  <2>1. tx[q].row \in Id
    BY <1>4 DEF CommitTx, RowsFresh
  <2>2. QED
    BY <1>4, <2>1 DEF CommitTx
<1>5. CASE RollbackTx(q)
  BY <1>5 DEF RollbackTx, Fault, IdleTx
<1>6. CASE OnCommit(q)
  <2>1. wake' \in [Process -> BOOLEAN]
    BY <1>6 DEF OnCommit, Wake
  <2>2. IdleTx \in TxState /\ tx' = [tx EXCEPT ![q] = IdleTx]
    BY <1>6 DEF OnCommit, IdleTx
  <2>3. tx' \in [Request -> TxState]
    BY <2>2
  <2>4. QED
    BY <1>6, <2>1, <2>3 DEF OnCommit
<1>7. QED
  BY <1>1, <1>2, <1>3, <1>4, <1>5, <1>6 DEF HandlerStep
\* A relay state whose batch is empty.
LEMMA FreshType ==
  /\ \A pc \in {"down", "wait", "scan"} : Fresh(pc) \in RelayState
  /\ GaveUp \in RelayState
BY DEF Fresh, GaveUp, RelayState

\* The steps of the relays, the processes and the environment.
RelayAction(p) ==
  \/ RelayStep(p)
  \/ TakeWake(p)
  \/ Tick(p)
  \/ PublishError(p)
  \/ AbortBatch(p)
  \/ Kill(p)
  \/ Shutdown(p)
  \/ Start(p)

\* A step of a relay or of its process keeps the types.
LEMMA RelayType ==
  ASSUME TypeOK, NEW p \in Process, RelayAction(p)
  PROVE  TypeOK'
<1> USE FreshType, BoundsAssumption DEF TypeOK, dbVars, brokerVars, bounds
<1>1. CASE LockBatch(p)
  <2>1. PICK B \in SUBSET (outbox \ Locked), next \in {"commit", "publish"} :
          relay' = [relay EXCEPT ![p].pc = next, ![p].todo = B]
    BY <1>1, Zenon DEF LockBatch
  <2>2. B \in SUBSET Id
    OBVIOUS
  <2>3. relay' \in [Process -> RelayState]
    BY <2>1, <2>2, RelayUpdate
  <2>4. QED
    BY <1>1, <2>3 DEF LockBatch
<1>2. CASE Publish(p)
  <2>1. PICK e \in relay[p].todo : Store(e)
    BY <1>2 DEF Publish
  <2>2. e \in Id
    BY <2>1 DEF RelayState
  <2>3. relay' \in [Process -> RelayState]
    BY <1>2 DEF Publish, RelayState
  <2>4. stream' \in Seq(Id) /\ dedup' \in SUBSET Id /\ forgotten' \in SUBSET Id
    BY <2>1, <2>2, StoreContents, Zenon
  <2>5. QED
    BY <1>2, <2>3, <2>4 DEF Publish
<1>3. CASE DeleteRow(p)
  <2>1. PICK e \in relay[p].todo, next \in {"commit", "publish"} :
          relay' = [relay EXCEPT ![p].pc = next,
                                 ![p].todo = relay[p].todo \ {e},
                                 ![p].done = relay[p].done \union {e}]
    BY <1>3, Zenon DEF DeleteRow
  <2>2. /\ relay[p].todo \ {e} \in SUBSET Id
        /\ relay[p].done \union {e} \in SUBSET Id
    BY DEF RelayState
  <2>3. relay' \in [Process -> RelayState]
    BY <2>1, <2>2, RelayUpdate
  <2>4. QED
    BY <1>3, <2>3 DEF DeleteRow
<1>4. CASE CommitBatch(p)
  <2>1. relay' \in [Process -> RelayState]
    BY <1>4 DEF CommitBatch
  <2>2. QED
    BY <1>4, <2>1 DEF CommitBatch
<1>5. CASE TakeWake(p)
  BY <1>5 DEF TakeWake
<1>6. CASE Tick(p)
  BY <1>6 DEF Tick
<1>7. CASE PublishError(p)
  <2>1. relay' \in [Process -> RelayState]
    BY <1>7, RelayUpdate DEF PublishError
  <2>2. faults' \in 0 .. MaxFaults /\ crashes' = crashes
    BY <1>7 DEF PublishError, Fault
  <2>3. CASE \E e \in relay[p].todo : IsNext(p, e) /\ Store(e)
    <3>1. PICK e \in relay[p].todo : Store(e)
      BY <2>3
    <3>2. e \in Id
      BY <3>1 DEF RelayState
    <3>3. stream' \in Seq(Id) /\ dedup' \in SUBSET Id /\ forgotten' \in SUBSET Id
      BY <3>1, <3>2, StoreContents
    <3>4. QED
      BY <1>7, <2>1, <2>2, <3>3 DEF PublishError
  <2>4. CASE UNCHANGED brokerVars
    BY <1>7, <2>1, <2>2, <2>4 DEF PublishError
  <2>5. QED
    BY <1>7, <2>3, <2>4 DEF PublishError
<1>8. CASE AbortBatch(p)
  BY <1>8 DEF AbortBatch, Fault
<1>9. CASE Kill(p)
  <2>1. tx' \in [Request -> TxState]
    BY <1>9 DEF Kill, IdleTx, TxState
  <2>2. dead' \in SUBSET Id
    BY <1>9 DEF Kill, Held, RelayState
  <2>3. QED
    BY <1>9, <2>1, <2>2 DEF Kill, Crash
<1>10. CASE Shutdown(p)
  BY <1>10 DEF Shutdown, Crash
<1>11. CASE Start(p)
  BY <1>11 DEF Start
<1>12. QED
  BY <1>1, <1>2, <1>3, <1>4, <1>5, <1>6, <1>7, <1>8, <1>9, <1>10, <1>11
  DEF RelayAction, RelayStep
\* A step that leaves the database sequence, the committed ids and the handlers
\* alone keeps the ids fresh.
LEMMA FreshUntouched ==
  ASSUME RowsFresh, UNCHANGED <<lastId, applied, tx>>
  PROVE  RowsFresh'
BY DEF RowsFresh

\* A handler's step keeps the ids fresh.
LEMMA HandlerFresh ==
  ASSUME TypeOK, RowsFresh, NEW q \in Request, HandlerStep(q)
  PROVE  RowsFresh'
<1> USE DEF TypeOK, TxState, RowsFresh, dbVars
<1>1. ASSUME NEW p \in Process, BeginTx(q, p) PROVE RowsFresh'
  BY <1>1 DEF BeginTx
<1>2. CASE WriteChange(q)
  BY <1>2 DEF WriteChange
<1>3. CASE EnqueueOutbox(q)
  <2>1. lastId' = lastId + 1 /\ applied' = applied /\ lastId \in Nat
    BY <1>3, BoundsAssumption DEF EnqueueOutbox
  <2>2. tx'[q].stage = "enqueued" /\ tx'[q].row = lastId + 1
    BY <1>3 DEF EnqueueOutbox
  <2>3. \A r \in Request : r # q => tx'[r] = tx[r]
    BY <1>3 DEF EnqueueOutbox
  <2>4. \A r \in Request : tx'[r].stage = "enqueued" =>
          /\ tx'[r].row \in 1 .. lastId + 1
          /\ tx'[r].row \notin applied
          /\ r # q => tx'[r].row # lastId + 1
    BY <2>1, <2>2, <2>3
  <2>5. applied \subseteq 1 .. lastId + 1
    BY <2>1
  <2>6. \A r, t \in Request :
          tx'[r].stage = "enqueued" /\ tx'[t].stage = "enqueued" /\ r # t
          => tx'[t].row # tx'[r].row
    BY <2>2, <2>3, <2>4
  <2>7. QED
    BY <2>1, <2>4, <2>5, <2>6
<1>4. CASE CommitTx(q)
  <2>1. /\ lastId' = lastId
        /\ tx[q].stage = "enqueued"
        /\ applied' = applied \union {tx[q].row}
        /\ tx'[q].stage = "committed"
        /\ \A r \in Request : r # q => tx'[r] = tx[r]
    BY <1>4 DEF CommitTx
  <2>2. applied' \subseteq 1 .. lastId
    BY <2>1
  <2>3. \A r \in Request : tx'[r].stage = "enqueued" =>
          /\ tx'[r] = tx[r]
          /\ tx'[r].row # tx[q].row
    BY <2>1
  <2>4. QED
    BY <2>1, <2>2, <2>3
<1>5. CASE RollbackTx(q)
  BY <1>5 DEF RollbackTx, IdleTx
<1>6. CASE OnCommit(q)
  BY <1>6 DEF OnCommit, IdleTx
<1>7. QED
  BY <1>1, <1>2, <1>3, <1>4, <1>5, <1>6 DEF HandlerStep

\* A step of a relay or its process keeps the ids fresh.
LEMMA RelayFresh ==
  ASSUME RowsFresh, NEW p \in Process, RelayAction(p)
  PROVE  RowsFresh'
<1>1. CASE Kill(p)
  BY <1>1 DEF Kill, RowsFresh, IdleTx, dbVars
<1>2. CASE ~Kill(p)
  <2>1. UNCHANGED <<lastId, applied, tx>>
    BY <1>2 DEF RelayAction, RelayStep, LockBatch, Publish, DeleteRow, CommitBatch,
       TakeWake, Tick, PublishError, AbortBatch, Shutdown, Start, dbVars
  <2>2. QED
    BY <2>1, FreshUntouched
<1>3. QED
  BY <1>1, <1>2
-----------------------------------------------------------------------------
\* Relays are not disturbed when changes are committed or events are stored.
LEMMA RelayUntouched ==
  ASSUME NEW p \in Process, RelayCorrect(p), relay'[p] = relay[p],
         applied \subseteq applied', ToSet(stream) \subseteq ToSet(stream')
  PROVE  RelayCorrect(p)'
BY DEF RelayCorrect, IsNext

\* A relay without a batch has nothing to answer for.
LEMMA RelayFreshCorrect ==
  ASSUME NEW p \in Process, relay'[p].todo = {}, relay'[p].done = {}
  PROVE  RelayCorrect(p)'
BY DEF RelayCorrect

\* What a handler does to the database and the broker.
LEMMA HandlerEffect ==
  ASSUME NEW q \in Request, HandlerStep(q)
  PROVE  /\ UNCHANGED <<relay, stream, dedup, forgotten, dead>>
         /\ applied \subseteq applied'
         /\ \/ UNCHANGED <<applied, outbox>>
            \/ /\ applied' = applied \union {tx[q].row}
               /\ outbox' = outbox \union {tx[q].row}
BY DEF HandlerStep, BeginTx, WriteChange, EnqueueOutbox, CommitTx, RollbackTx, OnCommit,
   dbVars, brokerVars

LEMMA HandlerInv ==
  ASSUME IInv, NEW q \in Request, HandlerStep(q)
  PROVE  IInv'
<1>1. TypeOK' /\ RowsFresh'
  BY HandlerType, HandlerFresh DEF IInv
<1>2. BrokerCorrect' /\ OncePerWindow'
  BY HandlerEffect DEF IInv, BrokerCorrect, OncePerWindow
<1>3. AnnouncedIsCommitted' /\ NothingLost'
  BY HandlerEffect DEF IInv, AnnouncedIsCommitted, NothingLost
<1>4. ASSUME NEW p \in Process PROVE RelayCorrect(p)'
  BY HandlerEffect, RelayUntouched DEF IInv
<1>5. QED
  BY <1>1, <1>2, <1>3, <1>4 DEF IInv
\* The part of the invariant that speaks of the database and the broker only.
DataInv ==
  /\ BrokerCorrect
  /\ AnnouncedIsCommitted
  /\ NothingLost
  /\ OncePerWindow

\* Storing a committed event, for the first time or once more.
LEMMA StoreInv ==
  ASSUME TypeOK, DataInv, NEW e \in Id, e \in applied, Store(e),
         UNCHANGED <<applied, outbox>>
  PROVE  /\ DataInv'
         /\ e \in ToSet(stream')
         /\ ToSet(stream) \subseteq ToSet(stream')
<1> USE DEF TypeOK
<1>1. CASE e \in dedup
  <2>1. UNCHANGED <<stream, dedup, forgotten>>
    BY <1>1 DEF Store
  <2>2. QED
    BY <1>1, <2>1 DEF DataInv, BrokerCorrect, AnnouncedIsCommitted, NothingLost,
       OncePerWindow
<1>2. CASE e \notin dedup
  <2> DEFINE n == Len(stream)
  <2>1. stream' = Append(stream, e) /\ dedup' = dedup \union {e} /\ forgotten' = forgotten
    BY <1>2 DEF Store
  <2>2. /\ ToSet(stream') = ToSet(stream) \union {e}
        /\ stream' \in Seq(Id)
        /\ Len(stream') = n + 1
        /\ stream'[n + 1] = e
        /\ \A i \in 1 .. n : stream'[i] = stream[i]
    BY <2>1, AppendContents
  <2>3. BrokerCorrect' /\ AnnouncedIsCommitted' /\ NothingLost'
    BY <2>1, <2>2 DEF DataInv, BrokerCorrect, AnnouncedIsCommitted, NothingLost
  <2>4. \A i \in 1 .. n : stream[i] = e => e \in forgotten
    BY <1>2 DEF DataInv, BrokerCorrect, ToSet
  <2>5. OncePerWindow'
    <3>1. DOMAIN stream = 1 .. n /\ DOMAIN stream' = 1 .. n + 1 /\ n \in Nat
      BY <2>2
    <3>2. \A i, j \in 1 .. n :
            i # j /\ stream[i] = stream[j] => stream[i] \in forgotten
      BY <3>1 DEF DataInv, OncePerWindow
    <3>3. \A i \in 1 .. n + 1 : i \in 1 .. n \/ i = n + 1
      BY <3>1
    <3>4. \A i, j \in 1 .. n + 1 :
            i # j /\ stream'[i] = stream'[j] => stream'[i] \in forgotten
      BY <2>2, <2>4, <3>2, <3>3
    <3>5. QED
      BY <2>1, <3>1, <3>4 DEF OncePerWindow
  <2>6. QED
    BY <2>2, <2>3, <2>5 DEF DataInv
<1>3. QED
  BY <1>1, <1>2

LEMMA DataUntouched ==
  ASSUME DataInv, UNCHANGED <<applied, outbox, stream, dedup, forgotten>>
  PROVE  DataInv'
BY DEF DataInv, BrokerCorrect, AnnouncedIsCommitted, NothingLost, OncePerWindow

\* The relay's own part and the data it works on, after a step of the relay.
LEMMA RelayInv ==
  ASSUME IInv, NEW p \in Process, RelayAction(p)
  PROVE  DataInv' /\ \A r \in Process : RelayCorrect(r)'
<1> USE DEF dbVars, brokerVars
<1>a. TypeOK /\ DataInv /\ \A r \in Process : RelayCorrect(r)
  BY DEF IInv, DataInv
<1>b. ASSUME applied' = applied, ToSet(stream) \subseteq ToSet(stream'),
             \A r \in Process : r # p => relay'[r] = relay[r],
             RelayCorrect(p)'
      PROVE  \A r \in Process : RelayCorrect(r)'
  BY <1>a, <1>b, RelayUntouched
<1>c. \A r \in Process : r # p => relay'[r] = relay[r]
  BY <1>a DEF TypeOK, RelayAction, RelayStep, LockBatch, Publish, DeleteRow,
     CommitBatch, TakeWake, Tick, PublishError, AbortBatch, Kill, Shutdown, Start
<1>1. CASE LockBatch(p)
  <2>1. PICK B \in SUBSET (outbox \ Locked) :
          relay' = [relay EXCEPT ![p].pc = IF B = {} THEN "commit" ELSE "publish",
                                 ![p].todo = B]
    BY <1>1 DEF LockBatch
  <2>2. UNCHANGED <<applied, outbox, stream, dedup, forgotten>>
    BY <1>1 DEF LockBatch
  <2>3. /\ relay'[p].todo = B
        /\ relay'[p].done = relay[p].done
        /\ relay'[p].pc # "delete"
    BY <1>a, <2>1 DEF TypeOK, RelayState
  <2>4. B \subseteq applied
    BY <1>a DEF DataInv, AnnouncedIsCommitted
  <2>5. RelayCorrect(p)'
    BY <1>a, <2>2, <2>3, <2>4 DEF RelayCorrect
  <2>6. QED
    BY <1>a, <1>b, <1>c, <2>1, <2>2, <2>5, DataUntouched
<1>2. CASE Publish(p)
  <2>1. PICK e \in relay[p].todo : IsNext(p, e) /\ Store(e)
    BY <1>2 DEF Publish
  <2>2. e \in Id /\ e \in applied
    BY <1>a, <2>1 DEF TypeOK, RelayState, RelayCorrect
  <2>3. UNCHANGED <<applied, outbox>>
    BY <1>2 DEF Publish
  <2>4. DataInv' /\ e \in ToSet(stream') /\ ToSet(stream) \subseteq ToSet(stream')
    BY <1>a, <2>1, <2>2, <2>3, StoreInv
  <2>5. relay' = [relay EXCEPT ![p].pc = "delete"]
    BY <1>2 DEF Publish
  <2>6. relay'[p].todo = relay[p].todo /\ relay'[p].done = relay[p].done
    BY <1>a, <2>5 DEF TypeOK, RelayState
  <2>7. \A f \in relay[p].todo : (\A g \in relay[p].todo : f <= g) => f = e
    BY <1>a, <2>1 DEF IsNext, TypeOK, RelayState, Id
  <2>8. RelayCorrect(p)'
    BY <1>a, <2>3, <2>4, <2>6, <2>7 DEF RelayCorrect, IsNext
  <2>9. QED
    BY <1>b, <1>c, <2>3, <2>4, <2>5, <2>8
<1>3. CASE DeleteRow(p)
  <2>1. PICK e \in relay[p].todo, next \in {"commit", "publish"} :
          /\ IsNext(p, e)
          /\ relay' = [relay EXCEPT ![p].pc = next,
                                    ![p].todo = relay[p].todo \ {e},
                                    ![p].done = relay[p].done \union {e}]
    BY <1>3, Zenon DEF DeleteRow
  <2>2. relay[p].pc = "delete" /\ UNCHANGED <<applied, outbox, stream, dedup, forgotten>>
    BY <1>3 DEF DeleteRow
  <2>3. /\ relay'[p].todo = relay[p].todo \ {e}
        /\ relay'[p].done = relay[p].done \union {e}
        /\ relay'[p].pc # "delete"
    BY <1>a, <2>1 DEF TypeOK, RelayState
  <2>4. RelayCorrect(p)'
    BY <1>a, <2>1, <2>2, <2>3 DEF RelayCorrect
  <2>5. QED
    BY <1>a, <1>b, <1>c, <2>1, <2>2, <2>4, DataUntouched
<1>4. CASE CommitBatch(p)
  <2>1. PICK s \in {GaveUp, Fresh("wait"), Fresh("scan")} :
          relay' = [relay EXCEPT ![p] = s]
    BY <1>4 DEF CommitBatch
  <2>2. /\ outbox' = outbox \ relay[p].done
        /\ UNCHANGED <<applied, stream, dedup, forgotten>>
    BY <1>4 DEF CommitBatch
  <2>3. RelayCorrect(p)'
    BY <1>a, <2>1, RelayFreshCorrect DEF TypeOK, Fresh, GaveUp
  <2>4. DataInv'
    BY <1>a, <2>2 DEF DataInv, BrokerCorrect, AnnouncedIsCommitted, NothingLost,
       OncePerWindow, RelayCorrect
  <2>5. QED
    BY <1>b, <1>c, <2>1, <2>2, <2>3, <2>4
<1>5. CASE PublishError(p)
  <2>1. relay' = [relay EXCEPT ![p].pc = "commit", ![p].err = TRUE]
    BY <1>5 DEF PublishError
  <2>2. /\ relay'[p].todo = relay[p].todo
        /\ relay'[p].done = relay[p].done
        /\ relay'[p].pc # "delete"
    BY <1>a, <2>1 DEF TypeOK, RelayState
  <2>3. UNCHANGED <<applied, outbox>>
    BY <1>5 DEF PublishError
  <2>4. DataInv' /\ ToSet(stream) \subseteq ToSet(stream')
    <3>1. CASE UNCHANGED brokerVars
      BY <1>a, <2>3, <3>1, DataUntouched
    <3>2. ASSUME NEW e \in relay[p].todo, Store(e)
          PROVE  DataInv' /\ ToSet(stream) \subseteq ToSet(stream')
      <4>1. e \in Id /\ e \in applied
        BY <1>a DEF TypeOK, RelayState, RelayCorrect
      <4>2. QED
        BY <1>a, <2>3, <3>2, <4>1, StoreInv
    <3>3. QED
      BY <1>5, <3>1, <3>2 DEF PublishError
  <2>5. RelayCorrect(p)'
    BY <1>a, <2>2, <2>3, <2>4 DEF RelayCorrect
  <2>6. QED
    BY <1>b, <1>c, <2>1, <2>3, <2>4, <2>5
<1>6. CASE TakeWake(p) \/ Tick(p) \/ AbortBatch(p) \/ Kill(p) \/ Shutdown(p) \/ Start(p)
  <2>1. PICK s \in {GaveUp, Fresh("down"), Fresh("scan")} :
          relay' = [relay EXCEPT ![p] = s]
    BY <1>6 DEF TakeWake, Tick, AbortBatch, Kill, Shutdown, Start
  <2>2. UNCHANGED <<applied, outbox, stream, dedup, forgotten>>
    BY <1>6 DEF TakeWake, Tick, AbortBatch, Kill, Shutdown, Start
  <2>3. RelayCorrect(p)'
    BY <1>a, <2>1, RelayFreshCorrect DEF TypeOK, Fresh, GaveUp
  <2>4. QED
    BY <1>a, <1>b, <1>c, <2>1, <2>2, <2>3, DataUntouched
<1>7. QED
  BY <1>1, <1>2, <1>3, <1>4, <1>5, <1>6 DEF RelayAction, RelayStep
-----------------------------------------------------------------------------
LEMMA InitInv == Init => IInv
<1> SUFFICES ASSUME Init PROVE IInv
  OBVIOUS
<1>1. ToSet(stream) = {} /\ DOMAIN stream = {}
  BY DEF Init, ToSet
<1>2. TypeOK
  BY InitType
<1>3. RowsFresh /\ \A p \in Process : RelayCorrect(p)
  BY DEF Init, RowsFresh, RelayCorrect, IdleTx, Fresh
<1>4. QED
  BY <1>1, <1>2, <1>3 DEF Init, IInv, BrokerCorrect, AnnouncedIsCommitted, NothingLost,
     OncePerWindow

\* The database gives up a dead session, or the broker forgets an id.
LEMMA EnvironmentInv ==
  ASSUME IInv, ReleaseDead \/ \E e \in Id : Forget(e)
  PROVE  IInv'
<1> USE BoundsAssumption DEF dbVars, brokerVars, bounds
<1>1. UNCHANGED <<lastId, tx, applied, outbox, before, relay, wake, stream>>
  BY DEF ReleaseDead, Forget
<1>2. TypeOK'
  BY DEF IInv, TypeOK, ReleaseDead, Forget, Fault
<1>3. RowsFresh' /\ \A p \in Process : RelayCorrect(p)'
  BY <1>1, FreshUntouched, RelayUntouched DEF IInv, TypeOK
<1>4. AnnouncedIsCommitted' /\ NothingLost'
  BY <1>1 DEF IInv, AnnouncedIsCommitted, NothingLost
<1>5. BrokerCorrect' /\ OncePerWindow'
  BY <1>1 DEF IInv, BrokerCorrect, OncePerWindow, ReleaseDead, Forget
<1>6. QED
  BY <1>2, <1>3, <1>4, <1>5 DEF IInv

LEMMA NextInv == IInv /\ [Next]_vars => IInv'
<1> SUFFICES ASSUME IInv, [Next]_vars PROVE IInv'
  OBVIOUS
<1>1. ASSUME NEW q \in Request, HandlerStep(q) PROVE IInv'
  BY <1>1, HandlerInv
<1>2. ASSUME NEW p \in Process, RelayAction(p) PROVE IInv'
  BY <1>2, RelayInv, RelayType, RelayFresh DEF IInv, DataInv
<1>3. CASE UNCHANGED vars
  <2>1. TypeOK'
    BY <1>3 DEF vars, IInv, TypeOK
  <2>2. RowsFresh' /\ DataInv'
    BY <1>3, FreshUntouched, DataUntouched DEF vars, IInv, DataInv
  <2>3. \A p \in Process : RelayCorrect(p)'
    BY <1>3, RelayUntouched DEF vars, IInv
  <2>4. QED
    BY <2>1, <2>2, <2>3 DEF IInv, DataInv
<1>4. QED
  BY <1>1, <1>2, <1>3, EnvironmentInv DEF Next, RelayAction

\* The inductive invariant holds in every reachable state.
LEMMA Invariance == Safe => []IInv
BY InitInv, NextInv, PTL DEF Safe

\* Every variable keeps its type.
THEOREM TypeCorrect == Safe => []TypeOK
BY Invariance, PTL DEF IInv

\* No event of an uncommitted or rolled back change reaches CHAT_EVENTS or waits
\* in the table, however many handlers, relays, failures and kills there are.
THEOREM OnlyCommittedAnnounced == Safe => []AnnouncedIsCommitted
BY Invariance, PTL DEF IInv

\* The row of a committed change stays in the table until the broker has stored
\* its event.
THEOREM NoEventLost == Safe => []NothingLost
BY Invariance, PTL DEF IInv

\* A second copy of an event is stored only after its dedup window passed.
THEOREM NoDuplicateInWindow == Safe => []OncePerWindow
BY Invariance, PTL DEF IInv
-----------------------------------------------------------------------------
(***************************************************************************)
(* The outbox implements ReliableEvents.                                   *)
(***************************************************************************)

LEMMA PromiseStep == IInv /\ [Next]_vars => [Promise!Next]_(Promise!vars)
<1> SUFFICES ASSUME IInv, [Next]_vars PROVE Promise!Next \/ UNCHANGED <<applied, stream>>
  BY DEF Promise!vars
<1> USE DEF dbVars, brokerVars
<1>1. ASSUME NEW q \in Request, HandlerStep(q)
      PROVE  Promise!Next \/ UNCHANGED <<applied, stream>>
  <2>1. CASE CommitTx(q)
    <3>1. tx[q].row \in Id /\ tx[q].row \notin applied
      BY <2>1, BoundsAssumption DEF CommitTx, IInv, RowsFresh, TypeOK, Id
    <3>2. applied' = applied \union {tx[q].row} /\ stream' = stream
      BY <2>1 DEF CommitTx
    <3>3. QED
      BY <3>1, <3>2 DEF Promise!Next, Promise!Commit
  <2>2. CASE ~CommitTx(q)
    BY <1>1, <2>2 DEF HandlerStep, BeginTx, WriteChange, EnqueueOutbox, RollbackTx, OnCommit
  <2>3. QED
    BY <2>1, <2>2
<1>2. ASSUME NEW p \in Process, NEW e \in relay[p].todo, Store(e), applied' = applied
      PROVE  Promise!Next \/ UNCHANGED <<applied, stream>>
  <2>1. e \in Id /\ e \in applied
    BY DEF IInv, TypeOK, RelayState, RelayCorrect
  <2>2. QED
    BY <1>2, <2>1 DEF Store, Promise!Next, Promise!Publish
<1>3. ASSUME NEW p \in Process, RelayAction(p)
      PROVE  Promise!Next \/ UNCHANGED <<applied, stream>>
  <2>1. applied' = applied
    BY <1>3 DEF RelayAction, RelayStep, LockBatch, Publish, DeleteRow, CommitBatch,
       TakeWake, Tick, PublishError, AbortBatch, Kill, Shutdown, Start
  <2>2. stream' = stream \/ \E e \in relay[p].todo : Store(e)
    BY <1>3 DEF RelayAction, RelayStep, LockBatch, Publish, DeleteRow, CommitBatch,
       TakeWake, Tick, PublishError, AbortBatch, Kill, Shutdown, Start
  <2>3. QED
    BY <1>2, <2>1, <2>2
<1>4. ASSUME ReleaseDead \/ \E e \in Id : Forget(e)
      PROVE  UNCHANGED <<applied, stream>>
  BY <1>4 DEF ReleaseDead, Forget
<1>5. QED
  BY <1>1, <1>3, <1>4 DEF Next, RelayAction, vars

\* Every behaviour of the outbox is a behaviour of the promise (its safety part:
\* that announcements come in the end is left to the model checker).
THEOREM SafeRefinement == Safe => Promise!Safe
<1>1. Init => Promise!Init
  BY DEF Init, Promise!Init
<1>2. QED
  BY <1>1, PromiseStep, Invariance, PTL DEF Safe, Promise!Safe
-----------------------------------------------------------------------------
(***************************************************************************)
(* The deployment of today: one process, never killed.                     *)
(***************************************************************************)

\* A row of the batch follows every event committed before its id was taken:
\* each one is stored already or waits in the same batch.
BatchOrdered(p) ==
  \A b \in relay[p].todo : before[b] \subseteq ToSet(stream) \union relay[p].todo

StoredInOrder ==
  \A i \in DOMAIN stream :
    before[stream[i]] \subseteq {stream[k] : k \in 1 .. i - 1}

OrderInv ==
  /\ dead = {}
  /\ \A e \in 1 .. lastId : before[e] \subseteq applied \intersect (1 .. e - 1)
  /\ \A p \in Process :
       /\ BatchOrdered(p)
       /\ relay[p].pc = "scan" => Held(p) = {}
  /\ StoredInOrder

\* Handlers keep the order: an id is taken after everything it must follow.
LEMMA HandlerOrder ==
  ASSUME IInv, OrderInv, NEW q \in Request, HandlerStep(q)
  PROVE  OrderInv'
<1> USE DEF IInv, TypeOK, RowsFresh, Id
<1>1. relay' = relay /\ stream' = stream /\ dead' = dead /\ applied \subseteq applied'
  BY HandlerEffect
<1>2. lastId \in Nat /\ lastId' \in Nat
  BY HandlerType, BoundsAssumption
<1>3. \/ lastId' = lastId /\ before' = before
      \/ /\ lastId' = lastId + 1
         /\ before' = [before EXCEPT ![lastId + 1] = applied]
  BY DEF HandlerStep, BeginTx, WriteChange, EnqueueOutbox, CommitTx, RollbackTx, OnCommit,
     dbVars
<1>4. \A e \in 1 .. lastId : before'[e] = before[e]
  BY <1>2, <1>3, BoundsAssumption
<1>5. ASSUME NEW e \in 1 .. lastId'
      PROVE  before'[e] \subseteq applied' \intersect (1 .. e - 1)
  <2>1. CASE e \in 1 .. lastId
    BY <1>1, <1>4, <2>1 DEF OrderInv
  <2>2. CASE e \notin 1 .. lastId
    <3>1. e = lastId + 1 /\ before'[e] = applied
      <4>1. lastId' = lastId + 1 /\ e = lastId + 1
        BY <1>2, <1>3, <2>2
      <4>2. e \in Id
        <5>1. lastId' \in 0 .. MaxId
          BY HandlerType
        <5>2. QED
          BY <1>2, <4>1, <5>1, BoundsAssumption
      <4>3. before' = [before EXCEPT ![e] = applied]
        BY <1>2, <1>3, <4>1
      <4>4. before \in [Id -> SUBSET Id]
        OBVIOUS
      <4>5. QED
        BY <4>1, <4>2, <4>3, <4>4
    <3>2. applied \subseteq 1 .. e - 1
      BY <1>2, <3>1
    <3>3. QED
      BY <1>1, <3>1, <3>2
  <2>3. QED
    BY <2>1, <2>2
<1>6. applied \subseteq 1 .. lastId /\ ToSet(stream) \subseteq applied
  BY DEF AnnouncedIsCommitted
<1>7. StoredInOrder'
  <2>1. \A i \in DOMAIN stream : stream[i] \in 1 .. lastId
    BY <1>6 DEF ToSet
  <2>2. QED
    BY <1>1, <1>4, <2>1 DEF OrderInv, StoredInOrder
<1>8. ASSUME NEW p \in Process
      PROVE  BatchOrdered(p)' /\ (relay[p].pc = "scan" => Held(p) = {})'
  <2>1. relay[p].todo \subseteq 1 .. lastId
    BY <1>6 DEF RelayCorrect
  <2>2. QED
    BY <1>1, <1>4, <2>1 DEF OrderInv, BatchOrdered, Held
<1>9. QED
  BY <1>1, <1>5, <1>7, <1>8 DEF OrderInv

\* The broker appends an event behind all it must follow.
LEMMA StoreOrder ==
  ASSUME TypeOK, StoredInOrder, before' = before, NEW e \in Id, Store(e),
         before[e] \subseteq ToSet(stream)
  PROVE  StoredInOrder'
<1> DEFINE n == Len(stream)
<1>1. CASE e \in dedup
  BY <1>1 DEF Store, StoredInOrder
<1>2. CASE e \notin dedup
  <2>1. stream' = Append(stream, e)
    BY <1>2 DEF Store
  <2>2. /\ n \in Nat
        /\ DOMAIN stream = 1 .. n
        /\ DOMAIN stream' = 1 .. n + 1
        /\ stream'[n + 1] = e
        /\ \A i \in 1 .. n : stream'[i] = stream[i]
    BY <2>1, AppendContents DEF TypeOK
  <2>3. ASSUME NEW i \in 1 .. n + 1
        PROVE  before[stream'[i]] \subseteq {stream'[k] : k \in 1 .. i - 1}
    <3>1. CASE i = n + 1
      <4>1. ToSet(stream) = {stream'[k] : k \in 1 .. n}
        BY <2>2 DEF ToSet
      <4>2. stream'[i] = e /\ i - 1 = n
        BY <2>2, <3>1
      <4>3. QED
        BY <4>1, <4>2
    <3>2. CASE i \in 1 .. n
      <4>1. before[stream[i]] \subseteq {stream[k] : k \in 1 .. i - 1}
        BY <2>2, <3>2 DEF StoredInOrder
      <4>2. stream'[i] = stream[i] /\ \A k \in 1 .. i - 1 : stream'[k] = stream[k]
        BY <2>2, <3>2
      <4>3. QED
        BY <4>1, <4>2
    <3>3. QED
      BY <2>2, <3>1, <3>2
  <2>4. QED
    BY <2>2, <2>3 DEF StoredInOrder
<1>3. QED
  BY <1>1, <1>2
\* The relay of the only process keeps the order.
LEMMA RelayOrder ==
  ASSUME IInv, OrderInv, NEW p \in Process, Process = {p}, RelayAction(p), crashes' = 0
  PROVE  OrderInv'
<1> USE DEF dbVars, brokerVars
<1>1. ~Kill(p) /\ ~Shutdown(p)
  BY DEF Kill, Shutdown, Crash, IInv, TypeOK
<1>2. UNCHANGED <<dead, lastId, applied, before>>
  BY <1>1 DEF RelayAction, RelayStep, LockBatch, Publish, DeleteRow, CommitBatch,
     TakeWake, Tick, PublishError, AbortBatch, Start
<1>3. SUFFICES StoredInOrder' /\ BatchOrdered(p)' /\ (relay[p].pc = "scan" => Held(p) = {})'
  BY <1>2 DEF OrderInv
<1>4. BatchOrdered(p) /\ StoredInOrder /\ TypeOK
  BY DEF OrderInv, IInv
<1>5. ASSUME NEW e \in relay[p].todo, IsNext(p, e), Store(e)
      PROVE  StoredInOrder' /\ ToSet(stream) \subseteq ToSet(stream')
  <2>1. e \in Id /\ e \in applied
    BY DEF IInv, TypeOK, RelayState, RelayCorrect
  <2>2. before[e] \subseteq 1 .. e - 1
    BY <2>1 DEF IInv, RowsFresh, OrderInv
  <2>3. \A a \in before[e] : a \notin relay[p].todo
    BY <1>4, <1>5, <2>1, <2>2 DEF IsNext, TypeOK, RelayState, Id
  <2>4. before[e] \subseteq ToSet(stream)
    BY <1>4, <2>3 DEF BatchOrdered
  <2>5. QED
    BY <1>2, <1>4, <1>5, <2>1, <2>4, StoreOrder, StoreContents DEF TypeOK
<1>6. CASE LockBatch(p)
  <2>1. PICK B \in SUBSET (outbox \ Locked) :
          /\ IsBatch(B, outbox \ Locked)
          /\ relay' = [relay EXCEPT ![p].pc = IF B = {} THEN "commit" ELSE "publish",
                                    ![p].todo = B]
    BY <1>6 DEF LockBatch
  <2>2. stream' = stream /\ relay[p].pc = "scan"
    BY <1>6 DEF LockBatch
  <2>3. Locked = {}
    BY <2>2 DEF Locked, OrderInv
  <2>4. relay'[p].todo = B /\ relay'[p].pc # "scan"
    BY <1>4, <2>1 DEF TypeOK, RelayState
  <2>5. ASSUME NEW b \in B, NEW a \in before[b] PROVE a \in ToSet(stream) \union B
    <3>1. b \in applied /\ b \in 1 .. lastId
      BY <2>1 DEF IInv, AnnouncedIsCommitted, RowsFresh
    <3>2. a \in applied /\ a \in 1 .. b - 1
      BY <3>1 DEF OrderInv
    <3>3. a \in ToSet(stream) \/ a \in outbox
      BY <3>2 DEF IInv, NothingLost
    <3>4. a \in outbox /\ a \notin B => b < a
      BY <2>1, <2>3 DEF IsBatch
    <3>5. ~(b < a)
      BY <3>1, <3>2, <1>4, BoundsAssumption DEF TypeOK
    <3>6. QED
      BY <3>3, <3>4, <3>5
  <2>6. QED
    BY <1>2, <1>4, <2>2, <2>4, <2>5 DEF BatchOrdered, StoredInOrder
<1>7. CASE Publish(p)
  <2>1. StoredInOrder' /\ ToSet(stream) \subseteq ToSet(stream')
    BY <1>5, <1>7 DEF Publish
  <2>2. relay'[p].todo = relay[p].todo /\ relay'[p].pc # "scan"
    BY <1>4, <1>7 DEF Publish, TypeOK, RelayState
  <2>3. QED
    BY <1>2, <1>4, <2>1, <2>2 DEF BatchOrdered
<1>8. CASE PublishError(p)
  <2>1. StoredInOrder' /\ ToSet(stream) \subseteq ToSet(stream')
    BY <1>2, <1>4, <1>5, <1>8 DEF PublishError, StoredInOrder
  <2>2. relay'[p].todo = relay[p].todo /\ relay'[p].pc # "scan"
    BY <1>4, <1>8 DEF PublishError, TypeOK, RelayState
  <2>3. QED
    BY <1>2, <1>4, <2>1, <2>2 DEF BatchOrdered
<1>9. CASE DeleteRow(p)
  <2>1. PICK e \in relay[p].todo, next \in {"commit", "publish"} :
          /\ IsNext(p, e)
          /\ relay' = [relay EXCEPT ![p].pc = next,
                                    ![p].todo = relay[p].todo \ {e},
                                    ![p].done = relay[p].done \union {e}]
    BY <1>9, Zenon DEF DeleteRow
  <2>2. e \in ToSet(stream) /\ stream' = stream
    BY <1>9, <2>1 DEF DeleteRow, IInv, RelayCorrect
  <2>3. relay'[p].todo = relay[p].todo \ {e} /\ relay'[p].pc # "scan"
    BY <1>4, <2>1 DEF TypeOK, RelayState
  <2>4. QED
    BY <1>2, <1>4, <2>2, <2>3 DEF BatchOrdered, StoredInOrder
<1>10. CASE CommitBatch(p) \/ TakeWake(p) \/ Tick(p) \/ AbortBatch(p) \/ Start(p)
  <2>1. PICK s \in {GaveUp, Fresh("wait"), Fresh("scan")} :
          relay' = [relay EXCEPT ![p] = s]
    BY <1>10 DEF CommitBatch, TakeWake, Tick, AbortBatch, Start
  <2>2. relay'[p].todo = {} /\ relay'[p].done = {}
    BY <1>4, <2>1 DEF TypeOK, Fresh, GaveUp
  <2>3. stream' = stream
    BY <1>10 DEF CommitBatch, TakeWake, Tick, AbortBatch, Start
  <2>4. QED
    BY <1>2, <1>4, <2>2, <2>3 DEF BatchOrdered, StoredInOrder, Held
<1>11. QED
  BY <1>1, <1>6, <1>7, <1>8, <1>9, <1>10 DEF RelayAction, RelayStep

\* Kills and stops are counted.
LEMMA CrashesCounted ==
  ASSUME TypeOK, [Next]_vars, crashes' = 0
  PROVE  crashes = 0
<1>1. crashes \in Nat
  BY BoundsAssumption DEF TypeOK
<1>2. crashes' = crashes \/ crashes' = crashes + 1
  <2>1. ASSUME NEW q \in Request, HandlerStep(q) PROVE crashes' = crashes
    BY <2>1 DEF HandlerStep, BeginTx, WriteChange, EnqueueOutbox, CommitTx, RollbackTx,
       OnCommit, bounds, Fault
  <2>2. ASSUME NEW p \in Process, RelayAction(p) PROVE crashes' = crashes \/ crashes' = crashes + 1
    BY <2>2 DEF RelayAction, RelayStep, LockBatch, Publish, DeleteRow, CommitBatch,
       TakeWake, Tick, PublishError, AbortBatch, Kill, Shutdown, Start, bounds, Fault, Crash
  <2>3. CASE ReleaseDead \/ \E e \in Id : Forget(e)
    BY <2>3 DEF ReleaseDead, Forget, bounds, Fault
  <2>4. CASE UNCHANGED vars
    BY <2>4 DEF vars
  <2>5. QED
    BY <2>1, <2>2, <2>3, <2>4 DEF Next, RelayAction
<1>3. QED
  BY <1>1, <1>2

\* With one process, and until it is killed, an event is stored behind every event
\* whose change was committed before its own id was taken.
THEOREM OrderKept ==
  ASSUME NEW p \in Process, Process = {p}
  PROVE  Safe => []CommitOrderKept
<1> DEFINE OInv == crashes = 0 => OrderInv
<1>1. Init => OInv
  <2> SUFFICES ASSUME Init PROVE OrderInv
    OBVIOUS
  <2>1. DOMAIN stream = {} /\ 1 .. lastId = {}
    BY DEF Init
  <2>2. QED
    BY <2>1 DEF Init, OrderInv, StoredInOrder, BatchOrdered, Held, Fresh
<1>2. IInv /\ OInv /\ [Next]_vars => OInv'
  <2> SUFFICES ASSUME IInv, OInv, [Next]_vars, crashes' = 0 PROVE OrderInv'
    OBVIOUS
  <2>1. OrderInv
    BY CrashesCounted DEF IInv
  <2>2. ASSUME UNCHANGED <<dead, lastId, applied, before, relay, stream>>
        PROVE  OrderInv'
    BY <2>1, <2>2 DEF OrderInv, BatchOrdered, StoredInOrder, Held
  <2>3. CASE ReleaseDead \/ \E e \in Id : Forget(e)
    BY <2>1, <2>2, <2>3 DEF ReleaseDead, Forget, OrderInv, dbVars
  <2>4. CASE UNCHANGED vars
    BY <2>2, <2>4 DEF vars
  <2>5. CASE \E q \in Request : HandlerStep(q)
    BY <2>1, <2>5, HandlerOrder
  <2>6. CASE RelayAction(p)
    BY <2>1, <2>6, RelayOrder
  <2>7. QED
    BY <2>3, <2>4, <2>5, <2>6 DEF Next, RelayAction
<1>3. OInv => CommitOrderKept
  BY DEF OrderInv, StoredInOrder, CommitOrderKept
<1>4. QED
  BY <1>1, <1>2, <1>3, Invariance, PTL DEF Safe
-----------------------------------------------------------------------------
(***************************************************************************)
(* No wake-up is lost, for any number of processes that are never killed.  *)
(***************************************************************************)

\* The batch of p takes up the whole limit: p looks again after it.
Full(p) == ~(Cardinality(Held(p)) < BatchSize)

\* p is going to look at the table again, or holds the row e.
Minds(p, e) ==
  \/ wake[p] \/ relay[p].failed \/ relay[p].err \/ relay[p].pc = "scan"
  \/ e \in Held(p) \/ Full(p)

\* Where a relay can have rows and errors.
Batched(p) ==
  /\ relay[p].pc \in {"scan", "wait", "down"} => Held(p) = {}
  /\ relay[p].err => relay[p].pc = "commit"
  /\ relay[p].failed => relay[p].pc = "wait"
  /\ relay[p].pc = "commit" /\ ~relay[p].err => relay[p].todo = {}

TxPlaced == \A q \in Request : tx[q].stage # "idle" => tx[q].at \in Process

\* A relay minds every row, unless a handler is about to wake one.
Attended ==
  (\A q \in Request : tx[q].stage # "committed")
    => \A e \in outbox : \E p \in Process : Minds(p, e)

WakeInv ==
  /\ TxPlaced
  /\ \A p \in Process : Batched(p)
  /\ crashes = 0 => dead = {} /\ Attended

\* The next state of one relay.
LEMMA RelayNext ==
  ASSUME TypeOK, NEW p \in Process
  PROVE  /\ \A s : relay' = [relay EXCEPT ![p] = s] => relay'[p] = s
         /\ relay[p] \in RelayState
         /\ RelayAction(p) => \A r \in Process : r # p => relay'[r] = relay[r]
BY DEF TypeOK, RelayAction, RelayStep, LockBatch, Publish, DeleteRow,
   CommitBatch, TakeWake, Tick, PublishError, AbortBatch, Kill, Shutdown, Start

\* A relay that has no batch.
LEMMA NoBatch ==
  ASSUME NEW p \in Process, relay'[p] \in {GaveUp} \union {Fresh(pc) : pc \in {"down", "wait", "scan"}}
  PROVE  Batched(p)'
BY DEF GaveUp, Fresh, Batched, Held

\* A handler that commits a row wakes the relay of its process.
LEMMA HandlerWake ==
  ASSUME IInv, WakeInv, NEW q \in Request, HandlerStep(q)
  PROVE  WakeInv'
<1> USE DEF IInv, TypeOK, TxState, dbVars, bounds
<1>1. relay' = relay /\ dead' = dead
  BY HandlerEffect
<1>2. \A r \in Request : r # q => tx'[r] = tx[r]
  BY DEF HandlerStep, BeginTx, WriteChange, EnqueueOutbox, CommitTx, RollbackTx, OnCommit
<1>3. TxPlaced'
  <2>1. ASSUME NEW p \in Process, BeginTx(q, p) PROVE TxPlaced'
    BY <1>2, <2>1 DEF BeginTx, WakeInv, TxPlaced
  <2>2. CASE WriteChange(q) \/ EnqueueOutbox(q) \/ CommitTx(q)
    <3>1. tx'[q].at = tx[q].at /\ tx[q].stage # "idle"
      BY <2>2 DEF WriteChange, EnqueueOutbox, CommitTx
    <3>2. QED
      BY <1>2, <3>1 DEF WakeInv, TxPlaced
  <2>3. CASE RollbackTx(q) \/ OnCommit(q)
    BY <1>2, <2>3 DEF RollbackTx, OnCommit, IdleTx, WakeInv, TxPlaced
  <2>4. QED
    BY <2>1, <2>2, <2>3 DEF HandlerStep
<1>4. \A p \in Process : Batched(p)'
  BY <1>1 DEF WakeInv, Batched, Held
<1>5. crashes' = crashes
  BY DEF HandlerStep, BeginTx, WriteChange, EnqueueOutbox, CommitTx, RollbackTx, OnCommit,
     Fault
<1>6. ASSUME Attended PROVE Attended'
  <2>1. CASE CommitTx(q)
    BY <2>1 DEF CommitTx, Attended
  <2>2. CASE OnCommit(q)
    <3>1. tx[q].at \in Process
      BY <2>2 DEF OnCommit, WakeInv, TxPlaced
    <3>2. wake'[tx[q].at]
      BY <2>2, <3>1 DEF OnCommit, Wake
    <3>3. QED
      BY <3>1, <3>2 DEF Attended, Minds
  <2>3. CASE ~CommitTx(q) /\ ~OnCommit(q)
    <3>1. UNCHANGED <<outbox, wake>> /\ tx[q].stage # "committed"
      BY <2>3 DEF HandlerStep, BeginTx, WriteChange, EnqueueOutbox, RollbackTx
    <3>2. QED
      BY <1>1, <1>2, <1>6, <3>1 DEF Attended, Minds, Full, Held
  <2>4. QED
    BY <2>1, <2>2, <2>3
<1>7. QED
  BY <1>1, <1>3, <1>4, <1>5, <1>6 DEF WakeInv

\* A relay leaves its batch only after it has handled it, or with an error.
LEMMA RelayBatched ==
  ASSUME IInv, WakeInv, NEW p \in Process, RelayAction(p)
  PROVE  \A r \in Process : Batched(r)'
<1>1. TypeOK /\ Batched(p) /\ relay[p] \in RelayState
  BY RelayNext DEF IInv, WakeInv
<1>2. ASSUME NEW r \in Process, r # p PROVE Batched(r)'
  <2>1. relay'[r] = relay[r]
    BY <1>1, <1>2, RelayNext
  <2>2. QED
    BY <2>1 DEF WakeInv, Batched, Held
<1>3. CASE LockBatch(p)
  <2>1. PICK B \in SUBSET (outbox \ Locked) :
          relay' = [relay EXCEPT ![p].pc = IF B = {} THEN "commit" ELSE "publish",
                                 ![p].todo = B]
    BY <1>3 DEF LockBatch
  <2>2. /\ relay'[p].pc = (IF B = {} THEN "commit" ELSE "publish") /\ relay'[p].todo = B
        /\ relay'[p].err = relay[p].err /\ relay'[p].failed = relay[p].failed
    BY <1>1, <2>1 DEF TypeOK, RelayState
  <2>3. relay[p].pc = "scan"
    BY <1>3 DEF LockBatch
  <2>4. QED
    BY <1>1, <1>2, <2>2, <2>3 DEF Batched, Held
<1>4. CASE Publish(p) \/ PublishError(p)
  <2>1. /\ relay'[p].todo = relay[p].todo /\ relay'[p].failed = relay[p].failed
        /\ relay[p].pc = "publish"
        /\ \/ relay'[p].pc = "delete" /\ relay'[p].err = relay[p].err
           \/ relay'[p].pc = "commit" /\ relay'[p].err
    BY <1>1, <1>4 DEF Publish, PublishError, TypeOK, RelayState
  <2>2. QED
    BY <1>1, <1>2, <2>1 DEF Batched
<1>5. CASE DeleteRow(p)
  <2>1. PICK e \in relay[p].todo :
          relay' = [relay EXCEPT
            ![p].pc = IF relay[p].todo = {e} THEN "commit" ELSE "publish",
            ![p].todo = @ \ {e},
            ![p].done = @ \union {e}]
    BY <1>5 DEF DeleteRow
  <2>2. /\ relay'[p].pc = (IF relay[p].todo = {e} THEN "commit" ELSE "publish")
        /\ relay'[p].todo = relay[p].todo \ {e}
        /\ relay'[p].err = relay[p].err /\ relay'[p].failed = relay[p].failed
        /\ relay[p].pc = "delete"
    BY <1>1, <1>5, <2>1 DEF DeleteRow, TypeOK, RelayState
  <2>3. QED
    BY <1>1, <1>2, <2>2 DEF Batched
<1>6. CASE CommitBatch(p) \/ TakeWake(p) \/ Tick(p) \/ AbortBatch(p) \/ Kill(p)
           \/ Shutdown(p) \/ Start(p)
  <2>1. PICK s \in {GaveUp} \union {Fresh(pc) : pc \in {"down", "wait", "scan"}} :
          relay' = [relay EXCEPT ![p] = s]
    BY <1>6 DEF CommitBatch, TakeWake, Tick, AbortBatch, Kill, Shutdown, Start
  <2>2. QED
    BY <1>1, <1>2, <2>1, RelayNext, NoBatch
<1>7. QED
  BY <1>3, <1>4, <1>5, <1>6 DEF RelayAction, RelayStep

\* No relay goes to sleep on a row that nobody else minds.
LEMMA RelayAttends ==
  ASSUME IInv, WakeInv, NEW p \in Process, RelayAction(p), crashes = 0, crashes' = 0
  PROVE  dead' = {} /\ Attended'
<1> USE DEF dbVars
<1>0. TypeOK /\ Batched(p) /\ relay[p] \in RelayState /\ dead = {} /\ Attended
  BY RelayNext DEF IInv, WakeInv
<1>1. ~Kill(p) /\ ~Shutdown(p)
  BY DEF Kill, Shutdown, Crash
<1>2. UNCHANGED <<tx, dead>>
  BY <1>1 DEF RelayAction, RelayStep, LockBatch, Publish, DeleteRow, CommitBatch,
     TakeWake, Tick, PublishError, AbortBatch, Start
<1> SUFFICES Attended'
  BY <1>0, <1>2
<1>3. \A r \in Process : r # p => relay'[r] = relay[r] /\ wake'[r] = wake[r]
  <2>1. wake' = wake \/ wake' = [wake EXCEPT ![p] = FALSE]
    BY <1>1 DEF RelayAction, RelayStep, LockBatch, Publish, DeleteRow, CommitBatch,
       TakeWake, Tick, PublishError, AbortBatch, Start
  <2>2. QED
    BY <1>0, <2>1, RelayNext DEF TypeOK
<1>4. \A r \in Process : r # p => \A e : Minds(r, e) => Minds(r, e)'
  BY <1>3 DEF Minds, Full, Held
<1>5. ASSUME \A e \in outbox : Minds(p, e) => Minds(p, e)', outbox' = outbox
      PROVE  Attended'
  BY <1>0, <1>2, <1>4, <1>5 DEF Attended
<1>6. ASSUME \A e \in outbox' : Minds(p, e)' PROVE Attended'
  BY <1>6 DEF Attended
<1>7. CASE LockBatch(p)
  <2>1. PICK B \in SUBSET (outbox \ Locked) :
          /\ IsBatch(B, outbox \ Locked)
          /\ relay' = [relay EXCEPT ![p].pc = IF B = {} THEN "commit" ELSE "publish",
                                    ![p].todo = B]
    BY <1>7 DEF LockBatch
  <2>2. relay[p].pc = "scan" /\ Held(p) = {} /\ outbox' = outbox
    BY <1>0, <1>7 DEF LockBatch, Batched
  <2>3. relay'[p].todo = B /\ relay'[p].done = {}
    BY <1>0, <2>1, <2>2 DEF TypeOK, RelayState, Held
  <2>4. Held(p)' = B
    BY <2>3 DEF Held
  <2>5. CASE B = outbox \ Locked
    <3>1. ASSUME NEW e \in outbox PROVE \E r \in Process : Minds(r, e)'
      <4>1. CASE e \in B
        BY <2>4, <4>1 DEF Minds
      <4>2. ASSUME NEW r \in Process, e \in Held(r) PROVE Minds(r, e)'
        BY <1>4, <2>2, <4>2 DEF Minds
      <4>3. QED
        BY <1>0, <2>5, <4>1, <4>2 DEF Locked
    <3>2. QED
      BY <2>2, <3>1 DEF Attended
  <2>6. CASE B # outbox \ Locked
    <3>1. ~(Cardinality(B) < BatchSize)
      BY <2>1, <2>6 DEF IsBatch
    <3>2. QED
      BY <1>6, <2>4, <3>1 DEF Minds, Full
  <2>7. QED
    BY <2>5, <2>6
<1>8. CASE Publish(p)
  <2>1. /\ relay'[p].todo = relay[p].todo /\ relay'[p].done = relay[p].done
        /\ relay'[p].err = relay[p].err /\ relay'[p].failed = relay[p].failed
        /\ relay[p].pc = "publish" /\ UNCHANGED <<outbox, wake>>
    BY <1>0, <1>8 DEF Publish, TypeOK, RelayState
  <2>2. QED
    BY <1>5, <2>1 DEF Minds, Full, Held
<1>9. CASE DeleteRow(p)
  <2>1. PICK e \in relay[p].todo :
          relay' = [relay EXCEPT
            ![p].pc = IF relay[p].todo = {e} THEN "commit" ELSE "publish",
            ![p].todo = @ \ {e},
            ![p].done = @ \union {e}]
    BY <1>9 DEF DeleteRow
  <2>2. /\ relay'[p].todo = relay[p].todo \ {e} /\ relay'[p].done = relay[p].done \union {e}
        /\ relay'[p].err = relay[p].err /\ relay'[p].failed = relay[p].failed
        /\ relay[p].pc = "delete" /\ UNCHANGED <<outbox, wake>>
    BY <1>0, <1>9, <2>1 DEF DeleteRow, TypeOK, RelayState
  <2>3. Held(p)' = Held(p)
    BY <2>2 DEF Held
  <2>4. QED
    BY <1>5, <2>2, <2>3 DEF Minds, Full
<1>10. CASE CommitBatch(p)
  <2>1. /\ relay[p].pc = "commit" /\ outbox' = outbox \ relay[p].done /\ wake' = wake
        /\ relay'[p] = (IF relay[p].err THEN GaveUp
                        ELSE IF Cardinality(relay[p].done) < BatchSize THEN Fresh("wait")
                        ELSE Fresh("scan"))
    BY <1>0, <1>10 DEF CommitBatch, TypeOK
  <2>2. CASE relay[p].err \/ ~(Cardinality(relay[p].done) < BatchSize)
    BY <1>6, <2>1, <2>2 DEF GaveUp, Fresh, Minds
  <2>3. CASE ~relay[p].err /\ Cardinality(relay[p].done) < BatchSize
    <3>1. Held(p) = relay[p].done /\ ~relay[p].failed
      BY <1>0, <2>1, <2>3 DEF Batched, Held
    <3>2. ASSUME NEW e \in outbox', Minds(p, e) PROVE wake'[p]
      BY <2>1, <2>3, <3>1, <3>2 DEF Minds, Full
    <3>3. ASSUME NEW e \in outbox', Minds(p, e) PROVE Minds(p, e)'
      BY <3>2, <3>3 DEF Minds
    <3>4. QED
      BY <1>0, <1>2, <1>4, <2>1, <3>3 DEF Attended
  <2>4. QED
    BY <2>2, <2>3
<1>11. CASE TakeWake(p) \/ Tick(p) \/ Start(p)
  <2>1. relay'[p] = Fresh("scan")
    BY <1>0, <1>11 DEF TakeWake, Tick, Start, TypeOK
  <2>2. QED
    BY <1>6, <2>1 DEF Fresh, Minds
<1>12. CASE PublishError(p)
  <2>1. relay'[p].err
    BY <1>0, <1>12 DEF PublishError, TypeOK, RelayState
  <2>2. QED
    BY <1>6, <2>1 DEF Minds
<1>13. CASE AbortBatch(p)
  <2>1. relay'[p] = GaveUp
    BY <1>0, <1>13 DEF AbortBatch, TypeOK
  <2>2. QED
    BY <1>6, <2>1 DEF GaveUp, Minds
<1>14. QED
  BY <1>1, <1>7, <1>8, <1>9, <1>10, <1>11, <1>12, <1>13 DEF RelayAction, RelayStep

LEMMA NextWake == IInv /\ WakeInv /\ [Next]_vars => WakeInv'
<1> SUFFICES ASSUME IInv, WakeInv, [Next]_vars PROVE WakeInv'
  OBVIOUS
<1>1. CASE \E q \in Request : HandlerStep(q)
  BY <1>1, HandlerWake
<1>2. ASSUME NEW p \in Process, RelayAction(p) PROVE WakeInv'
  <2>1. TxPlaced'
    <3>1. CASE Kill(p)
      BY <3>1 DEF Kill, IdleTx, IInv, TypeOK, WakeInv, TxPlaced
    <3>2. CASE ~Kill(p)
      <4>1. tx' = tx
        BY <1>2, <3>2 DEF RelayAction, RelayStep, LockBatch, Publish, DeleteRow, CommitBatch,
           TakeWake, Tick, PublishError, AbortBatch, Shutdown, Start
      <4>2. QED
        BY <4>1 DEF WakeInv, TxPlaced
    <3>3. QED
      BY <3>1, <3>2
  <2>2. \A r \in Process : Batched(r)'
    BY <1>2, RelayBatched
  <2>3. crashes' = 0 => dead' = {} /\ Attended'
    BY <1>2, CrashesCounted, RelayAttends DEF IInv
  <2>4. QED
    BY <2>1, <2>2, <2>3 DEF WakeInv
<1>3. ASSUME UNCHANGED <<tx, outbox, relay, wake, crashes>>, dead' = dead \/ dead' = {}
      PROVE  WakeInv'
  <2>1. TxPlaced' /\ \A p \in Process : Batched(p)'
    BY <1>3 DEF WakeInv, TxPlaced, Batched, Held
  <2>2. Attended => Attended'
    BY <1>3 DEF Attended, Minds, Full, Held
  <2>3. QED
    BY <1>3, <2>1, <2>2 DEF WakeInv
<1>4. CASE ReleaseDead \/ \E e \in Id : Forget(e)
  BY <1>3, <1>4 DEF ReleaseDead, Forget, Fault, dbVars, bounds
<1>5. CASE UNCHANGED vars
  BY <1>3, <1>5 DEF vars
<1>6. QED
  BY <1>1, <1>2, <1>4, <1>5 DEF Next, RelayAction

\* While nothing failed, a free row never waits for the ticker: when all relays
\* sleep one of them has a token (Relay.Wake, RelayOutbox), however many
\* processes skip the rows that the others have locked.
THEOREM WakeupsKept == Safe => []NoLostWakeup
<1>1. Init => WakeInv
  BY DEF Init, WakeInv, TxPlaced, Batched, Attended, Held, IdleTx, Fresh
<1>2. Safe => [](IInv /\ WakeInv)
  <2>1. IInv /\ WakeInv /\ [Next]_vars => (IInv /\ WakeInv)'
    BY NextInv, NextWake
  <2>2. QED
    BY <1>1, <2>1, InitInv, PTL DEF Safe
<1>3. WakeInv => NoLostWakeup
  <2> SUFFICES ASSUME WakeInv, NEW e \in outbox, crashes = 0,
                      \A p \in Process : relay[p].pc = "wait" /\ ~relay[p].failed,
                      \A q \in Request : tx[q].stage # "committed"
               PROVE  \E p \in Process : wake[p]
    BY DEF NoLostWakeup
  <2>1. PICK p \in Process : Minds(p, e)
    BY DEF WakeInv, Attended
  <2>2. Held(p) = {} /\ ~relay[p].err
    BY DEF WakeInv, Batched
  <2>3. ~Full(p)
    BY <2>2, BoundsAssumption, FS_EmptySet DEF Full
  <2>4. QED
    BY <2>1, <2>2, <2>3 DEF Minds
<1>4. QED
  BY <1>2, <1>3, PTL
=============================================================================

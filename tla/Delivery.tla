------------------------------- MODULE Delivery -------------------------------
(***************************************************************************)
(* The way of the messages of one chat to one browser tab of a member:     *)
(* the consumers of the ws-gateway instances (events/consumer.go), their   *)
(* fan-out (hub/fanout.go, hub/registry.go), the session of a socket       *)
(* (ws/session.go), the socket of the tab (frontend/js/ws.js) and the      *)
(* merge of history and live events (frontend/js/main.js).                 *)
(*                                                                         *)
(* A change is known by its position in the log of changes, which is the   *)
(* order in which the outbox announces them.  What a reader sees of a      *)
(* message is the position of the last change that it reflects, 0 if the   *)
(* message is not there.                                                   *)
(*                                                                         *)
(* A gateway runs a goroutine for msg.created, which asks chat-service for *)
(* the message as it is now, and one for msg.updated and msg.deleted,      *)
(* whose events say what changed.  The tab handles a frame with an async   *)
(* function that waits for a decryption, so two of them can end in either  *)
(* order.                                                                  *)
(***************************************************************************)
EXTENDS Naturals, FiniteSets, Sequences, SequencesExt

CONSTANTS
  Message,
  Gateway,      \* instances of ws-gateway
  NoGateway,
  PageSize,     \* HISTORY_PAGE_SIZE, the limit of get_history
  MaxChanges,   \* bound: changes of messages
  MaxBreaks,    \* bound: connections that break
  MaxLosses,    \* bound: consumers that are lost and lookups that fail
  MaxAsks       \* bound: the user selects the chat only while fewer requests
                \* for its history and pages are on their way

ASSUME DeliveryAssumption ==
  /\ NoGateway \notin Gateway
  /\ IsFiniteSet(Gateway)
  /\ PageSize \in Nat
  /\ MaxChanges \in Nat
  /\ MaxBreaks \in Nat
  /\ MaxLosses \in Nat
  /\ MaxAsks \in Nat

VARIABLES
  log,          \* changes in the order they are stored and announced
  next,         \* next[g][k]: where the consumer of gateway g for subject k is
  found,        \* found[g]: the message that g looked up and is about to send
  conn,         \* the connection of the tab
  asks,         \* get_history requests on the connection
  answer,       \* what GetHistory returned to the session, not yet written
  wire,         \* frames written to the socket, not yet received
  queued,       \* pendingMessages: requests waiting for a connection
  refreshing,   \* calls of refreshAfterReconnect that wait for the list of chats
  loaded,       \* historyLoaded
  tasks,        \* frames whose handlers wait for a decryption
  copies,       \* chat.messages: for each message what its entries show
  asked,        \* history: get_history was sent on this connection and nothing
                \* was lost since
  raced,        \* history: messages updated with an older body on its way, or
                \* listed twice
  breaks,
  losses

gatewayVars == <<next, found, losses>>
tabVars == <<queued, refreshing, loaded, tasks, copies>>
vars == <<log, next, found, conn, asks, answer, wire, queued, refreshing, loaded,
          tasks, copies, asked, raced, breaks, losses>>

Subject == {"created", "updated"}

Change == [op : {"created", "edited", "deleted"}, msg : Message]

\* The body that was looked up for a change; 0, 0 if none.
Body == [event : Nat, shows : Nat]

None == [event |-> 0, shows |-> 0]

(***************************************************************************)
(* A connection is "down", "open" (the tab may send, the session is not    *)
(* registered yet), "live" (registered), or "dead" (the session is gone    *)
(* and the tab has not noticed).                                           *)
(***************************************************************************)
Phase == {"down", "open", "live", "dead"}

\* What is shown of every message.
Page == [Message -> Nat]

Frame == [kind : {"new", "update", "history"}, page : Page]

\* An entry of chat.messages; pending are edits whose decryption it waits for.
Copy == [shows : Nat, pending : SUBSET Nat]

TypeOK ==
  /\ log \in Seq(Change)
  /\ next \in [Gateway -> [Subject -> Nat \ {0}]]
  /\ found \in [Gateway -> Body]
  /\ conn \in [phase : Phase, at : Gateway \union {NoGateway}]
  /\ asks \in Nat
  /\ answer \in Seq(Page)
  /\ wire \in Seq(Frame)
  /\ queued \in Nat
  /\ refreshing \in Nat
  /\ loaded \in BOOLEAN
  /\ IsABag(tasks) /\ DOMAIN tasks \subseteq Frame
  /\ copies \in [Message -> Seq(Copy)]
  /\ asked \in BOOLEAN
  /\ raced \in SUBSET Message
  /\ breaks \in Nat
  /\ losses \in Nat

Init ==
  /\ log = <<>>
  /\ next = [g \in Gateway |-> [k \in Subject |-> 1]]
  /\ found = [g \in Gateway |-> None]
  /\ conn = [phase |-> "down", at |-> NoGateway]
  /\ asks = 0
  /\ answer = <<>>
  /\ wire = <<>>
  /\ queued = 0
  /\ refreshing = 1
  /\ loaded = FALSE
  /\ tasks = EmptyBag
  /\ copies = [m \in Message |-> <<>>]
  /\ asked = FALSE
  /\ raced = {}
  /\ breaks = 0
  /\ losses = 0
-----------------------------------------------------------------------------
Changes(m) == {i \in DOMAIN log : log[i].msg = m}

\* The message as chat-service has it: its last change, 0 if it is not sent.
Latest(m) ==
  IF Changes(m) = {} THEN 0
  ELSE CHOOSE i \in Changes(m) : \A j \in Changes(m) : j <= i

Deleted(i) == i \in DOMAIN log /\ log[i].op = "deleted"

\* Where message m was sent, and where those after it were.
Sent(m) == {i \in Changes(m) : log[i].op = "created"}

SentAfter(m) ==
  {j \in DOMAIN log : log[j].op = "created" /\ \E i \in Sent(m) : i < j}

\* The messages of a page.
Recent == {m \in Message : Sent(m) # {} /\ Cardinality(SentAfter(m)) < PageSize}

\* ListMessages: the last messages as they are now.
Snapshot == [m \in Message |-> IF m \in Recent THEN Latest(m) ELSE 0]

Nothing == [m \in Message |-> 0]

\* chat-service stores and announces a change.  Changes of one message come one
\* after the other here; Messages has those that overlap.
MakeChange(op, m) ==
  /\ Len(log) < MaxChanges
  /\ IF op = "created" THEN Latest(m) = 0 ELSE Latest(m) # 0 /\ ~Deleted(Latest(m))
  /\ log' = Append(log, [op |-> op, msg |-> m])
  /\ UNCHANGED <<gatewayVars, conn, asks, answer, wire, tabVars, asked, raced, breaks>>
-----------------------------------------------------------------------------
(***************************************************************************)
(* The gateways: consumeMulti and Fanout.                                  *)
(***************************************************************************)

Mine(k, i) == (log[i].op = "created") = (k = "created")

\* Change i is the next event of the consumer.
IsNext(g, k, i) ==
  /\ i \in next[g][k] .. Len(log)
  /\ Mine(k, i)
  /\ \A j \in next[g][k] .. i - 1 : ~Mine(k, j)

\* HandleMessageCreated for the next event, up to GetMessage.
GetMessage(g) ==
  /\ found[g] = None
  /\ \E i \in DOMAIN log :
       /\ IsNext(g, "created", i)
       /\ next' = [next EXCEPT ![g]["created"] = i + 1]
       /\ found' = [found EXCEPT ![g] = [event |-> i, shows |-> Latest(log[i].msg)]]
  /\ UNCHANGED <<log, losses, conn, asks, answer, wire, tabVars, asked, raced, breaks>>

\* Registry.Broadcast and session.Deliver: one frame if the tab is registered here.
Deliver(g, frame) ==
  wire' = IF conn = [phase |-> "live", at |-> g] THEN Append(wire, frame) ELSE wire

\* HandleMessageCreated: the broadcast.
BroadcastMessage(g) ==
  LET m == log[found[g].event].msg IN
  /\ found[g] # None
  /\ Deliver(g, [kind |-> "new", page |-> [Nothing EXCEPT ![m] = found[g].shows]])
  /\ found' = [found EXCEPT ![g] = None]
  /\ UNCHANGED <<log, next, losses, conn, asks, answer, tabVars, asked, raced, breaks>>

\* A body of m older than change i is on its way to the tab, or is about to be
\* put in place there.
OlderOnItsWay(m, i) ==
  LET Older(j) == j # 0 /\ j < i IN
  \/ \E g \in Gateway : found[g] # None /\ log[found[g].event].msg = m /\ Older(found[g].shows)
  \/ \E f \in ToSet(wire) \union DOMAIN tasks : Older(f.page[m])
  \/ \E p \in ToSet(answer) : Older(p[m])
  \/ \E c \in ToSet(copies[m]) : \E j \in c.pending : Older(j)

\* A change of a message is announced while an older body is on its way.
Overtaking(changes) ==
  raced \union {log[i].msg : i \in {j \in changes : OlderOnItsWay(log[j].msg, j)}}

\* HandleMessageUpdated for the next event: broadcast of an edit or a deletion,
\* whose event has all that is sent.
BroadcastUpdate(g) ==
  /\ \E i \in DOMAIN log :
       /\ IsNext(g, "updated", i)
       /\ next' = [next EXCEPT ![g]["updated"] = i + 1]
       /\ Deliver(g, [kind |-> "update", page |-> [Nothing EXCEPT ![log[i].msg] = i]])
       /\ raced' = Overtaking({i})
  /\ UNCHANGED <<log, found, losses, conn, asks, answer, tabVars, asked, breaks>>

\* The consumer goes on at n without having delivered what comes before.
Skip(g, k, n) ==
  /\ losses < MaxLosses
  /\ losses' = losses + 1
  /\ k = "created" => found[g] = None
  /\ next' = [next EXCEPT ![g][k] = n]
  /\ raced' = Overtaking({i \in next[g][k] .. n - 1 : k = "updated" /\ Mine(k, i)})
  /\ asked' = (asked /\ conn.at # g)
  /\ UNCHANGED <<log, found, conn, asks, answer, wire, tabVars, breaks>>

\* ListMembers or GetMessage fails: the event is dropped.
LookupFails(g, k) == \E i \in DOMAIN log : IsNext(g, k, i) /\ Skip(g, k, i + 1)

\* Mutant: the new consumer delivers all that the stream has (DeliverAllPolicy).
LoseConsumerAll(g, k) == \E n \in 1 .. Len(log) + 1 : Skip(g, k, n)

\* A fetch fails and the consumer is created anew: it starts with what the outbox
\* announces from then on.
LoseConsumer(g, k) == \E n \in next[g][k] .. Len(log) + 1 : Skip(g, k, n)
-----------------------------------------------------------------------------
(***************************************************************************)
(* The session of the socket: session.run and handle.                      *)
(***************************************************************************)

\* registry.Add, before the first frame is read.
Register ==
  /\ conn.phase = "open"
  /\ conn' = [conn EXCEPT !.phase = "live"]
  /\ UNCHANGED <<log, gatewayVars, asks, answer, wire, tabVars, asked, raced, breaks>>

\* Mutant: run reads frames before registry.Add.
GetHistoryUnregistered ==
  /\ conn.phase \in {"open", "live"}
  /\ asks > 0
  /\ answer = <<>>
  /\ asks' = asks - 1
  /\ answer' = <<Snapshot>>
  /\ UNCHANGED <<log, gatewayVars, conn, wire, tabVars, asked, raced, breaks>>

\* get_history: chat-service reads the history.  The session reads no other
\* frame meanwhile.
GetHistory ==
  /\ conn.phase = "live"
  /\ asks > 0
  /\ answer = <<>>
  /\ asks' = asks - 1
  /\ answer' = <<Snapshot>>
  /\ UNCHANGED <<log, gatewayVars, conn, wire, tabVars, asked, raced, breaks>>

\* GetHistory fails: the tab gets an error that it only logs.
GetHistoryFails ==
  /\ conn.phase = "live"
  /\ asks > 0
  /\ answer = <<>>
  /\ losses < MaxLosses
  /\ losses' = losses + 1
  /\ asks' = asks - 1
  /\ asked' = FALSE
  /\ UNCHANGED <<log, next, found, conn, answer, wire, tabVars, raced, breaks>>

\* session.write of the answer.
WriteHistory ==
  /\ answer # <<>>
  /\ wire' = Append(wire, [kind |-> "history", page |-> Head(answer)])
  /\ answer' = <<>>
  /\ UNCHANGED <<log, gatewayVars, conn, asks, tabVars, asked, raced, breaks>>

\* The connection breaks or the token expires (expiryWatcher): the session ends,
\* registry.Remove.
Break ==
  /\ conn.phase \in {"open", "live"}
  /\ breaks < MaxBreaks
  /\ breaks' = breaks + 1
  /\ conn' = [conn EXCEPT !.phase = "dead"]
  /\ asks' = 0
  /\ answer' = <<>>
  /\ UNCHANGED <<log, gatewayVars, wire, tabVars, asked, raced>>
-----------------------------------------------------------------------------
(***************************************************************************)
(* The tab: WsClient and the handlers of main.js.                          *)
(***************************************************************************)

\* The close event: what was still on the wire is gone, a reconnect is due.
Notice ==
  /\ conn.phase = "dead"
  /\ conn' = [phase |-> "down", at |-> NoGateway]
  /\ wire' = <<>>
  /\ asked' = FALSE
  /\ UNCHANGED <<log, gatewayVars, asks, answer, tabVars, raced, breaks>>

\* The open event: pendingMessages is flushed, and if it is a reconnect,
\* refreshAfterReconnect starts.
Open(g) ==
  /\ conn.phase = "down"
  /\ conn' = [phase |-> "open", at |-> g]
  /\ asks' = queued
  /\ queued' = 0
  /\ asked' = (queued > 0)
  /\ refreshing' = IF breaks > 0 THEN refreshing + 1 ELSE refreshing
  /\ UNCHANGED <<log, gatewayVars, answer, wire, loaded, tasks, copies, raced, breaks>>

\* WsClient.send of get_history: sent, lost with a dead connection, or queued.
Ask ==
  /\ asks' = IF conn.phase \in {"open", "live"} THEN asks + 1 ELSE asks
  /\ asked' = (asked \/ conn.phase \in {"open", "live"})
  /\ queued' = IF conn.phase = "down" THEN queued + 1 ELSE queued

IsHistory(f) == f.kind = "history"

\* Requests for the history and pages that are on their way.
PagesDue ==
  asks + queued + Len(answer) + Len(SelectSeq(wire, IsHistory))
  + Cardinality({f \in DOMAIN tasks : IsHistory(f)})

\* handleSelectChat.
SelectChat ==
  /\ ~loaded
  /\ PagesDue < MaxAsks
  /\ Ask
  /\ UNCHANGED <<log, gatewayVars, conn, answer, wire, refreshing, loaded, tasks,
                 copies, raced, breaks>>

\* refreshAfterReconnect, when the list of chats has come.
Refresh ==
  /\ refreshing > 0
  /\ refreshing' = refreshing - 1
  /\ IF loaded THEN Ask ELSE UNCHANGED <<asks, asked, queued>>
  /\ UNCHANGED <<log, gatewayVars, conn, answer, wire, loaded, tasks, copies, raced,
                 breaks>>

\* onMessageUpdated finds the first entry of the message.  A deletion shows at
\* once, an edit when it is decrypted; without an entry it is dropped.
Update(m, i) ==
  IF copies[m] = <<>> THEN copies
  ELSE IF Deleted(i) THEN [copies EXCEPT ![m][1].shows = i]
  ELSE [copies EXCEPT ![m][1].pending = @ \union {i}]

\* WsClient.dispatch of the next frame.
Receive ==
  /\ wire # <<>>
  /\ wire' = Tail(wire)
  /\ LET f == Head(wire) IN
     IF f.kind = "update"
     THEN /\ \E m \in Message : f.page[m] # 0 /\ copies' = Update(m, f.page[m])
          /\ UNCHANGED tasks
     ELSE tasks' = tasks (+) SetToBag({f}) /\ UNCHANGED copies
  /\ UNCHANGED <<log, gatewayVars, conn, asks, answer, queued, refreshing, loaded,
                 asked, raced, breaks>>

\* An edit is decrypted.  What is deleted stays so.  getChatKey is rejected, and
\* the edit dropped, only where no body was ever decrypted: what such an entry
\* shows is a placeholder before and after.
EditDecrypted(m, n, i) ==
  /\ i \in copies[m][n].pending
  /\ copies' = [copies EXCEPT
       ![m][n] = [shows |-> IF Deleted(@.shows) THEN @.shows ELSE i,
                  pending |-> @.pending \ {i}]]
  /\ UNCHANGED <<log, gatewayVars, conn, asks, answer, wire, queued, refreshing,
                 loaded, tasks, asked, raced, breaks>>

NewCopy(i) == [shows |-> i, pending |-> {}]

\* appendMessage: one more entry.
Pushed(page) ==
  [m \in Message |-> IF page[m] = 0 THEN copies[m] ELSE Append(copies[m], NewCopy(page[m]))]

\* Mutant: the page replaces all entries.
MergedOverwrites(page) ==
  [m \in Message |-> IF page[m] # 0 THEN <<NewCopy(page[m])>> ELSE <<>>]

\* Mutant: the page adds only what is missing.
MergedKeeps(page) ==
  [m \in Message |-> IF copies[m] # <<>> THEN <<Last(copies[m])>>
                     ELSE IF page[m] # 0 THEN <<NewCopy(page[m])>>
                     ELSE <<>>]

\* onHistory: the entries of the page replace those of the same messages; of the
\* others the last entry stays.
Merged(page) ==
  [m \in Message |-> IF page[m] # 0 THEN <<NewCopy(page[m])>>
                     ELSE IF copies[m] = <<>> THEN <<>>
                     ELSE <<Last(copies[m])>>]

\* The handler of frame f goes on after the decryption.
Decrypted(f) ==
  /\ tasks' = tasks (-) SetToBag({f})
  /\ copies' = IF f.kind = "new" THEN Pushed(f.page) ELSE Merged(f.page)
  /\ loaded' = (loaded \/ f.kind = "history")
  /\ raced' = raced \union {m \in Message : Len(copies'[m]) > 1}
  /\ UNCHANGED <<log, gatewayVars, conn, asks, answer, wire, queued, refreshing, asked,
                 breaks>>
-----------------------------------------------------------------------------
GatewayStep(g) ==
  \/ \E k \in Subject : LookupFails(g, k) \/ LoseConsumer(g, k)
  \/ GetMessage(g)
  \/ BroadcastMessage(g)
  \/ BroadcastUpdate(g)

SessionStep == Register \/ GetHistory \/ GetHistoryFails \/ WriteHistory \/ Break

TabStep ==
  \/ Notice
  \/ \E g \in Gateway : Open(g)
  \/ SelectChat
  \/ Refresh
  \/ Receive
  \/ \E m \in Message : \E n \in DOMAIN copies[m] : \E i \in copies[m][n].pending :
       EditDecrypted(m, n, i)
  \/ \E f \in DOMAIN tasks : Decrypted(f)

Next ==
  \/ \E op \in {"created", "edited", "deleted"}, m \in Message : MakeChange(op, m)
  \/ \E g \in Gateway : GatewayStep(g)
  \/ SessionStep
  \/ TabStep

Spec == Init /\ [][Next]_vars
-----------------------------------------------------------------------------
(***************************************************************************)
(* Properties.                                                             *)
(***************************************************************************)

\* The tab is connected and everything that was on its way has arrived.
AtRest ==
  /\ conn.phase = "live"
  /\ found[conn.at] = None
  /\ \A k \in Subject : \A i \in next[conn.at][k] .. Len(log) : ~Mine(k, i)
  /\ asks = 0 /\ queued = 0 /\ answer = <<>> /\ wire = <<>> /\ tasks = EmptyBag
  /\ refreshing = 0
  /\ \A m \in Message : \A c \in ToSet(copies[m]) : c.pending = {}

\* A tab that asked for the history on its connection has, once everything has
\* arrived, the last page of messages: the session is registered before it reads
\* the request, and the page is merged with what came live.
CaughtUp == AtRest /\ asked => \A m \in Recent : copies[m] # <<>>

\* It also shows them as they are, except those that were updated while an older
\* body was on its way, or were listed twice: then the first entry is updated and
\* the last one survives the next merge.
UpToDate ==
  AtRest /\ asked => \A m \in Recent \ raced : copies[m][1].shows = Latest(m)

\* README, "Realtime": the history is merged, not written over what came live: a
\* message that is shown stays.
ShownStays ==
  [][ \A m \in Message : copies[m] # <<>> => copies'[m] # <<>> ]_vars

\* A message is listed twice when its event comes after a page that has it, and
\* once more only after a reconnect to a gateway that has not come that far: no
\* gateway delivers an event twice.
FewCopies ==
  \A m \in Message :
    /\ Len(copies[m]) <= 2 + breaks
    /\ Len(copies[m]) <= 1 + Cardinality(Gateway)
=============================================================================

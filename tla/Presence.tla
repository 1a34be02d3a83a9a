------------------------------- MODULE Presence -------------------------------
(***************************************************************************)
(* Who is online: the tabs of one user, which report whether somebody      *)
(* looks at them (updateOwnActivity and startPresenceRefresh in            *)
(* frontend/js/main.js), the sessions of the two gateways, the online key  *)
(* of chat-service with its TTL, one other user who watches, and the       *)
(* notification-worker, which asks the key whether a message needs a push. *)
(*                                                                         *)
(* Time passes in periods, the interval of startPresenceRefresh: in each,  *)
(* a tab with the focus sends one set_active and the watcher asks once.    *)
(* Redis, the gateways and the messages between them are faster than that. *)
(*                                                                         *)
(* The names that every specification has are prefixed, so that            *)
(* ContactsProofs can extend this one and PrivateChat.                     *)
(***************************************************************************)
EXTENDS Integers, Sequences

CONSTANTS
  Tab, Gateway,
  Offline,      \* conn: no connection, and the tab knows
  Stuck,        \* conn: the connection is broken, and the tab has not noticed
  Closed,       \* conn: the tab is closed
  TTL,          \* the life of the online key in periods
  MaxTrouble    \* how often a tab gets or loses the focus or is closed, a
                \* connection breaks, a call fails or the worker dies

ASSUME PresenceAssumption ==
  /\ TTL \in Nat \ {0, 1}
  /\ MaxTrouble \in Nat
  /\ {Offline, Stuck, Closed} \cap Gateway = {}
  /\ Offline # Stuck /\ Offline # Closed /\ Stuck # Closed

VARIABLES
  focus,        \* focus[c]: somebody looks at tab c (isTabActive)
  conn,         \* conn[c]: the gateway tab c is connected to, or what it is instead
  wire,         \* wire[c]: frames that were sent and not handled, oldest first;
                \* of a tab without a connection, its pendingMessages
  ttl,          \* how many periods the online key has left; 0: there is none
  dead,         \* dead[g]: sessions of g whose connection is broken or closed
  leaving,      \* sessions that were the last of their gateway, before SetOffline
  air,          \* what presence.changed announces, on its way to the watcher
  polled,       \* the watcher has asked in this period
  answer,       \* answers to the watcher, on their way
  shown,        \* what the watcher sees
  job,          \* the message the worker handles
  trouble,      \* how often it did
  calm,         \* periods in which nothing changed or failed, at most TTL + 1
  idle          \* periods since somebody looked or a tab connected, at most TTL + 1

tabVars == <<focus, conn, wire>>
readerVars == <<air, polled, answer, shown>>
presenceVars == <<focus, conn, wire, ttl, dead, leaving, air, polled, answer, shown,
                  job, trouble, calm, idle>>

Frame == {"active", "inactive"}

(***************************************************************************)
(* The event of one message as the durable consumer of the worker has it:  *)
(* what IsOnline answered, whether notify.push was published, whether a    *)
(* call failed.  "recent" is history: when the key was looked up, idle was *)
(* at most TTL.                                                            *)
(***************************************************************************)
Job == [at : {"queued", "asked", "handled", "done"}, online : BOOLEAN,
        recent : BOOLEAN, failed : BOOLEAN, pushed : BOOLEAN]

Online == ttl > 0               \* IsOnline: the key exists

Present(c) == focus[c] /\ conn[c] \in Gateway

Truth == \E c \in Tab : Present(c)

Activity(looked) == IF looked THEN "active" ELSE "inactive"

\* A tab starts: connectWs sends its activity before the socket is open.
PresenceInit ==
  /\ focus \in [Tab -> BOOLEAN]
  /\ conn = [c \in Tab |-> Offline]
  /\ wire = [c \in Tab |-> <<Activity(focus[c])>>]
  /\ ttl = 0
  /\ dead = [g \in Gateway |-> 0]
  /\ leaving = 0
  /\ air = {} /\ polled = FALSE /\ answer = {} /\ shown = FALSE
  /\ job = [at |-> "queued", online |-> FALSE, recent |-> FALSE,
            failed |-> FALSE, pushed |-> FALSE]
  /\ trouble = 0
  /\ calm = 0 /\ idle = TTL + 1

PresenceTypeOK ==
  /\ focus \in [Tab -> BOOLEAN]
  /\ conn \in [Tab -> Gateway \cup {Offline, Stuck, Closed}]
  /\ wire \in [Tab -> Seq(Frame)]
  /\ ttl \in 0..TTL
  /\ dead \in [Gateway -> Nat]
  /\ leaving \in Nat
  /\ air \subseteq BOOLEAN /\ polled \in BOOLEAN
  /\ answer \subseteq BOOLEAN /\ shown \in BOOLEAN
  /\ job \in Job
  /\ trouble \in 0..MaxTrouble
  /\ calm \in 0..(TTL + 1) /\ idle \in 0..(TTL + 1)
-----------------------------------------------------------------------------
Trouble == trouble < MaxTrouble /\ trouble' = trouble + 1

(***************************************************************************)
(* WsClient.send: on an open socket the frame leaves, on a broken one it   *)
(* is lost, without one it waits.  Equal frames in a row do what one does. *)
(***************************************************************************)
Sent(c, frame) ==
  IF conn[c] \in {Stuck, Closed} \/ (wire[c] # <<>> /\ wire[c][Len(wire[c])] = frame)
    THEN wire[c]
    ELSE Append(wire[c], frame)

\* visibilitychange, blur and focus: updateOwnActivity.
Look(c) ==
  /\ conn[c] # Closed
  /\ Trouble
  /\ focus' = [focus EXCEPT ![c] = ~@]
  /\ wire' = [wire EXCEPT ![c] = Sent(c, Activity(focus'[c]))]
  /\ calm' = 0
  /\ idle' = 0
  /\ UNCHANGED <<conn, ttl, dead, leaving, readerVars, job>>

\* The session of c, if there is one, has lost its connection.
Broken(c) ==
  dead' = IF conn[c] \in Gateway THEN [dead EXCEPT ![conn[c]] = @ + 1] ELSE dead

\* handleLogout, or the tab is closed: frames that were sent are read first.
CloseTab(c) ==
  /\ conn[c] # Closed /\ (conn[c] \in Gateway => wire[c] = <<>>)
  /\ Trouble
  /\ Broken(c)
  /\ conn' = [conn EXCEPT ![c] = Closed]
  /\ wire' = [wire EXCEPT ![c] = <<>>]
  /\ focus' = [focus EXCEPT ![c] = FALSE]
  /\ calm' = 0
  /\ UNCHANGED <<ttl, leaving, readerVars, job, idle>>

\* The network fails, with whatever was on its way.
Break(c) ==
  /\ conn[c] \in Gateway
  /\ Trouble
  /\ Broken(c)
  /\ conn' = [conn EXCEPT ![c] = Stuck]
  /\ wire' = [wire EXCEPT ![c] = <<>>]
  /\ calm' = 0
  /\ UNCHANGED <<focus, ttl, leaving, readerVars, job, idle>>

\* The "close" event of the socket.
Notice(c) ==
  /\ conn[c] = Stuck
  /\ conn' = [conn EXCEPT ![c] = Offline]
  /\ calm' = 0
  /\ UNCHANGED <<focus, wire, ttl, dead, leaving, readerVars, job, trouble, idle>>

\* The socket opens, pendingMessages are sent, and run adds the session.
Connect(c, g) ==
  /\ conn[c] = Offline
  /\ conn' = [conn EXCEPT ![c] = g]
  /\ calm' = 0
  /\ idle' = 0
  /\ UNCHANGED <<focus, wire, ttl, dead, leaving, readerVars, job, trouble>>
-----------------------------------------------------------------------------
(***************************************************************************)
(* SetOnline and SetOffline of chat-service, and what is announced.  The   *)
(* times of last_seen are left out.                                        *)
(***************************************************************************)
SetOnline ==
  /\ ttl' = TTL
  /\ air' = air \cup {TRUE}

SetOffline ==
  /\ ttl' = 0
  /\ air' = air \cup {FALSE}
  /\ calm' = 0

\* session.handle: set_active and set_inactive; a call that fails is logged.
Handle(c) ==
  /\ conn[c] \in Gateway /\ wire[c] # <<>>
  /\ wire' = [wire EXCEPT ![c] = Tail(@)]
  /\ \/ /\ Head(wire[c]) = "active"
        /\ SetOnline
        /\ UNCHANGED <<trouble, calm>>
     \/ /\ Head(wire[c]) = "inactive"
        /\ SetOffline
        /\ UNCHANGED trouble
     \/ /\ Trouble
        /\ calm' = 0
        /\ UNCHANGED <<ttl, air>>
  /\ UNCHANGED <<focus, conn, dead, leaving, polled, answer, shown, job, idle>>

Last(g) == dead[g] = 1 /\ \A c \in Tab : conn[c] # g

\* ReadMessage fails (pongWait at the latest): run removes the session.
Remove(g) ==
  /\ dead[g] > 0
  /\ dead' = [dead EXCEPT ![g] = @ - 1]
  /\ leaving' = IF Last(g) THEN leaving + 1 ELSE leaving
  /\ calm' = 0
  /\ UNCHANGED <<tabVars, ttl, readerVars, job, trouble, idle>>

\* The rest of run's deferred call; when SetOffline fails it is logged.
MarkOffline ==
  /\ leaving > 0
  /\ leaving' = leaving - 1
  /\ \/ SetOffline /\ UNCHANGED trouble
     \/ Trouble /\ calm' = 0 /\ UNCHANGED <<ttl, air>>
  /\ UNCHANGED <<tabVars, dead, polled, answer, shown, job, idle>>
-----------------------------------------------------------------------------
(***************************************************************************)
(* The watcher: HandlePresenceChanged of the fan-out and the poll of       *)
(* refreshAllPresence.  presence.changed is core NATS: it may be lost, and *)
(* what two connections carry is not ordered.                              *)
(***************************************************************************)
Announced(b) ==
  /\ b \in air
  /\ air' = air \ {b}
  /\ shown' \in {shown, b}
  /\ UNCHANGED <<tabVars, ttl, dead, leaving, polled, answer, job, trouble, calm, idle>>

\* get_presence is sent and answered.
Ask ==
  /\ ~polled
  /\ polled' = TRUE
  /\ \/ answer' = answer \cup {Online} /\ UNCHANGED <<trouble, calm>>
     \/ Trouble /\ calm' = 0 /\ UNCHANGED answer
  /\ UNCHANGED <<tabVars, ttl, dead, leaving, air, shown, job, idle>>

\* onPresenceChanged.
Show(b) ==
  /\ b \in answer
  /\ answer' = answer \ {b}
  /\ shown' = b
  /\ UNCHANGED <<tabVars, ttl, dead, leaving, air, polled, job, trouble, calm, idle>>
-----------------------------------------------------------------------------
(***************************************************************************)
(* The worker: HandleMessageCreated for the one recipient, and consumeOne, *)
(* which acknowledges whatever came of it.                                 *)
(***************************************************************************)
\* recipientsNeedingNotification; whose presence cannot be read is passed over.
HandleMessageCreated ==
  /\ job.at = "queued"
  /\ \/ job' = [job EXCEPT !.at = "asked", !.online = Online,
                               !.recent = Online /\ idle <= TTL]
        /\ UNCHANGED trouble
     \/ Trouble /\ job' = [job EXCEPT !.at = "handled", !.failed = TRUE]
  /\ UNCHANGED <<tabVars, ttl, dead, leaving, readerVars, calm, idle>>

Push ==
  /\ job.at = "asked"
  /\ \/ job' = [job EXCEPT !.at = "handled", !.pushed = @ \/ ~job.online]
        /\ UNCHANGED trouble
     \/ ~job.online /\ Trouble /\ job' = [job EXCEPT !.at = "handled", !.failed = TRUE]
  /\ UNCHANGED <<tabVars, ttl, dead, leaving, readerVars, calm, idle>>

Ack ==
  /\ job.at = "handled"
  /\ job' = [job EXCEPT !.at = "done"]
  /\ UNCHANGED <<tabVars, ttl, dead, leaving, readerVars, trouble, calm, idle>>

\* Mutant: the event was acknowledged when it was fetched.
RedeliverAcked ==
  /\ job.at \in {"asked", "handled"}
  /\ Trouble
  /\ job' = [job EXCEPT !.at = "done"]
  /\ UNCHANGED <<tabVars, ttl, dead, leaving, readerVars, calm, idle>>

\* The worker dies, or its acknowledgement is lost: the event is delivered again.
Redeliver ==
  /\ job.at \in {"asked", "handled"}
  /\ Trouble
  /\ job' = [job EXCEPT !.at = "queued"]
  /\ UNCHANGED <<tabVars, ttl, dead, leaving, readerVars, calm, idle>>
-----------------------------------------------------------------------------
\* One period ends: whatever takes less than a period is done.
Settled ==
  /\ \A c \in Tab : conn[c] \in Gateway => wire[c] = <<>>
  /\ leaving = 0
  /\ air = {} /\ polled /\ answer = {}
  /\ job.at \notin {"asked", "handled"}

Older(n) == IF n > TTL THEN n ELSE n + 1

\* Mutant: the key is set without a TTL.
ExpiredNever == ttl

\* Redis lets the key expire.
Expired == IF ttl = 0 THEN 0 ELSE ttl - 1

\* Mutant: the timer only asks, it reports nothing.
HeartbeatSilent(c) == wire[c]

\* The timer of startPresenceRefresh, at the start of each period.
Heartbeat(c) == IF focus[c] THEN Sent(c, "active") ELSE wire[c]

Tick ==
  /\ Settled
  /\ wire' = [c \in Tab |-> Heartbeat(c)]
  /\ polled' = FALSE
  /\ ttl' = Expired
  /\ calm' = Older(calm)
  /\ idle' = IF \E c \in Tab : focus[c] THEN 0 ELSE Older(idle)
  /\ UNCHANGED <<focus, conn, dead, leaving, air, answer, shown, job, trouble>>

PresenceNext ==
  \/ \E c \in Tab : Look(c) \/ CloseTab(c) \/ Break(c) \/ Notice(c)
                      \/ Handle(c)
  \/ \E c \in Tab, g \in Gateway : Connect(c, g)
  \/ \E g \in Gateway : Remove(g)
  \/ MarkOffline
  \/ \E b \in BOOLEAN : Announced(b) \/ Show(b)
  \/ Ask
  \/ HandleMessageCreated \/ Push \/ Ack \/ Redeliver
  \/ Tick

(***************************************************************************)
(* Timers fire, frames are read, broken connections time out, messages of  *)
(* NATS arrive or are dropped.  Nobody has to look at a tab, and no tab    *)
(* has to get a connection.                                                *)
(***************************************************************************)
Fairness ==
  /\ \A c \in Tab : WF_presenceVars(Handle(c))
  /\ \A g \in Gateway : WF_presenceVars(Remove(g))
  /\ \A b \in BOOLEAN : WF_presenceVars(Announced(b)) /\ WF_presenceVars(Show(b))
  /\ WF_presenceVars(MarkOffline) /\ WF_presenceVars(Ask) /\ WF_presenceVars(Tick)
  /\ WF_presenceVars(HandleMessageCreated) /\ WF_presenceVars(Push) /\ WF_presenceVars(Ack)

PresenceSpec == PresenceInit /\ [][PresenceNext]_presenceVars /\ Fairness
-----------------------------------------------------------------------------
(***************************************************************************)
(* The comment above refreshAllPresence: a lost announcement makes the     *)
(* status stale, and the poll heals it "either way".  When nothing has     *)
(* changed or failed for more than the life of the key, the watcher sees   *)
(* whether somebody looks: heartbeats keep the key of who does, and the    *)
(* key of who does not expires even if nobody could say so.                *)
(***************************************************************************)
SettledIsRight == calm > TTL => shown = Truth

(***************************************************************************)
(* The same without a bound: whatever sessions are still to be noticed as  *)
(* broken, whichever gateway they end on, the view of the watcher becomes  *)
(* right and stays so.                                                     *)
(***************************************************************************)
SelfHeals == <>[](shown = Truth)

(***************************************************************************)
(* A message that was acknowledged without a push and without a failure    *)
(* found a user who had looked at a tab, or whose tab had connected, no    *)
(* longer ago than the key lives, however the worker died in between.      *)
(***************************************************************************)
NoMissedPush ==
  job.at = "done" /\ ~job.pushed /\ ~job.failed => job.online /\ job.recent

=============================================================================

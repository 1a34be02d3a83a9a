------------------------------- MODULE Messages -------------------------------
(***************************************************************************)
(* The messages of one chat of chat-service: SendMessage, EditMessage,     *)
(* DeleteMessageForAll, DeleteMessageForMe and MarkRead                    *)
(* (service/message.go), and what readers make of them                     *)
(* (repository/postgres.go).                                               *)
(*                                                                         *)
(* An edit or a deletion is a row of message_events, and the message that  *)
(* is read is a projection: the edit with the latest created_at, deleted   *)
(* if any row says so.  The service takes created_at after its checks and  *)
(* before the transaction that stores the row and the event for clients,   *)
(* so rows can be stored in another order than their times.  Clients apply *)
(* events in the order they are announced and never compare times.         *)
(*                                                                         *)
(* A read marker is a column of the user's row of chat_members.  The       *)
(* UPDATE that moves it locks the row until the transaction commits, if    *)
(* there is a row: of a user who has left it finds none and locks nothing. *)
(***************************************************************************)
EXTENDS Naturals, Sequences

CONSTANTS
  User,
  Message,
  Request,      \* requests that may run at the same time
  Asked,        \* which operations are asked for
  None,         \* neither a user nor a message
  MaxTime       \* bound: how often the service looks at the clock

Op == {"created", "edited", "deleted_for_all", "read", "hide"}

ASSUME MessagesAssumption ==
  None \notin User \union Message /\ Asked \subseteq Op /\ MaxTime \in Nat

VARIABLES
  members,      \* chat_members, and which of them are admins
  admins,
  sender,       \* messages: who sent each, None if it is not there
  read,         \* chat_members: the last read message, None if there is none
  hidden,       \* message_hidden_for_user: pairs <<message, user>>
  log,          \* the transactions in the order they commit, see Entry
  clock,        \* the last time.Now()
  req,          \* req[q]: what request q does and where it is
  facts         \* history: facts[q] = what held of its user while q ran

vars == <<members, admins, sender, read, hidden, log, clock, req, facts>>

Fact == {"member", "admin"}

\* What a transaction stores and announces, in one: WithTx does both.  since is
\* history: how long the log was when the request began.  found is the rows that
\* a "read" updated, which the service does not look at.
Entry == [op : Op \ {"hide"}, msg : Message, by : User, time : Nat, since : Nat,
          found : BOOLEAN]

\* "at" is the next statement.
Idle == [op |-> "hide", msg |-> None, by |-> None, time |-> 0, since |-> 0,
         found |-> FALSE, at |-> "idle"]

Running == [op : Op, msg : Message, by : User, time : Nat, since : Nat, found : BOOLEAN,
            at : {"GetMessage", "IsAdmin", "IsMember", "now", "write", "enqueue"}]

TypeOK ==
  /\ members \in SUBSET User
  /\ admins \in SUBSET members
  /\ sender \in [Message -> User \union {None}]
  /\ read \in [User -> Message \union {None}]
  /\ hidden \in SUBSET (Message \X User)
  /\ log \in Seq(Entry)
  /\ clock \in Nat
  /\ req \in [Request -> Running \union {Idle}]
  /\ facts \in [Request -> SUBSET Fact]

Init ==
  /\ members \in SUBSET User
  /\ admins \in SUBSET members
  /\ sender = [m \in Message |-> None]
  /\ read = [u \in User |-> None]
  /\ hidden = {}
  /\ log = <<>>
  /\ clock = 0
  /\ req = [q \in Request |-> Idle]
  /\ facts = [q \in Request |-> {}]
-----------------------------------------------------------------------------
\* The rows of one kind that are stored for a message.
Rows(op, m) == {i \in DOMAIN log : log[i].op = op /\ log[i].msg = m}

\* latest_delete: one deletion is enough, whatever its time.
Deleted(m) == Rows("deleted_for_all", m) # {}

\* Mutant: ORDER BY created_at without DESC.
EarliestEdit(m) ==
  {i \in Rows("edited", m) : \A j \in Rows("edited", m) : log[i].time <= log[j].time}

\* latest_edit: the body that readers of the database get.
LatestEdit(m) ==
  {i \in Rows("edited", m) : \A j \in Rows("edited", m) : log[j].time <= log[i].time}

\* The body of a client that applies the announced edits one after the other.
LastAnnounced(m) == {i \in Rows("edited", m) : \A j \in Rows("edited", m) : j <= i}

\* What holds of u when ms are the members and as the admins.
Holding(u, ms, as) ==
  {f \in Fact : \/ f = "member" /\ u \in ms
                \/ f = "admin" /\ u \in as}

\* Request q holds the row of its user: it has updated it and not yet committed.
Locked(q) == req[q].at = "enqueue" /\ req[q].found

Begin(q, op, m, u, at) ==
  /\ req[q] = Idle
  /\ req' = [req EXCEPT ![q] = [op |-> op, msg |-> m, by |-> u, time |-> 0,
                                since |-> Len(log), found |-> FALSE, at |-> at]]
  /\ facts' = [facts EXCEPT ![q] = Holding(u, members, admins)]
  /\ UNCHANGED <<members, admins, sender, read, hidden, log, clock>>

\* The request is answered, with or without an error.
Answer(q) ==
  /\ req' = [req EXCEPT ![q] = Idle]
  /\ facts' = [facts EXCEPT ![q] = {}]

Go(q, at) == req' = [req EXCEPT ![q].at = at] /\ UNCHANGED facts
-----------------------------------------------------------------------------
\* SendMessage: the rate limit lets it pass; the blocks of a private chat are
\* in PrivateChat.
BeginSend(q, m, u) ==
  /\ sender[m] = None /\ \A p \in Request : req[p].msg # m     \* a new UUID
  /\ "created" \in Asked /\ Begin(q, "created", m, u, "IsMember")

\* EditMessage and DeleteMessageForAll.
BeginChange(q, op, m, u) ==
  op \in {"edited", "deleted_for_all"} /\ sender[m] # None /\ Begin(q, op, m, u, "GetMessage")

\* MarkRead and DeleteMessageForMe of a message of the chat.
BeginMark(q, op, m, u) ==
  op \in {"read", "hide"} /\ sender[m] # None /\ Begin(q, op, m, u, "IsMember")

IsMember(q) ==
  /\ req[q].at = "IsMember"
  /\ IF req[q].by \in members
     THEN Go(q, IF req[q].op = "hide" THEN "write" ELSE "now")
     ELSE Answer(q)
  /\ UNCHANGED <<members, admins, sender, read, hidden, log, clock>>

\* Mutant: a deleted message can be changed.
GetMessageDeletedToo(q) ==
  LET r == req[q] IN
  /\ r.at = "GetMessage"
  /\ IF sender[r.msg] = r.by THEN Go(q, "now")
     ELSE IF r.op = "deleted_for_all" THEN Go(q, "IsAdmin")
     ELSE Answer(q)
  /\ UNCHANGED <<members, admins, sender, read, hidden, log, clock>>

\* Mutant: an admin may edit what others sent.
GetMessageForAdmin(q) ==
  LET r == req[q] IN
  /\ r.at = "GetMessage"
  /\ IF Deleted(r.msg) THEN Answer(q)
     ELSE Go(q, IF sender[r.msg] = r.by THEN "now" ELSE "IsAdmin")
  /\ UNCHANGED <<members, admins, sender, read, hidden, log, clock>>

\* GetMessage in EditMessage and DeleteMessageForAll: a deleted message stays as
\* it is, and who did not send it may only delete it, as an admin.
GetMessage(q) ==
  LET r == req[q] IN
  /\ r.at = "GetMessage"
  /\ IF Deleted(r.msg) THEN Answer(q)
     ELSE IF sender[r.msg] = r.by THEN Go(q, "now")
     ELSE IF r.op = "deleted_for_all" THEN Go(q, "IsAdmin")
     ELSE Answer(q)
  /\ UNCHANGED <<members, admins, sender, read, hidden, log, clock>>

IsAdmin(q) ==
  /\ req[q].at = "IsAdmin"
  /\ IF req[q].by \in admins THEN Go(q, "now") ELSE Answer(q)
  /\ UNCHANGED <<members, admins, sender, read, hidden, log, clock>>

\* Mutant: a clock too coarse for two requests in a row.
NowCoarse(q) ==
  /\ req[q].at = "now"
  /\ clock < MaxTime
  /\ \E t \in {clock, clock + 1} :
       clock' = t /\ req' = [req EXCEPT ![q].time = t, ![q].at = "write"]
  /\ UNCHANGED <<members, admins, sender, read, hidden, log, facts>>

\* time.Now(): no two requests see the same time.
Now(q) ==
  /\ req[q].at = "now"
  /\ clock < MaxTime
  /\ clock' = clock + 1
  /\ req' = [req EXCEPT ![q].time = clock', ![q].at = "write"]
  /\ UNCHANGED <<members, admins, sender, read, hidden, log, facts>>

\* The UPDATE of MarkRead waits for the row if another request has it; what it
\* writes is seen by nobody before the COMMIT.
UpdateMarker(q) ==
  LET r == req[q] IN
  /\ r.at = "write" /\ r.op = "read"
  /\ \A p \in Request : Locked(p) => req[p].by # r.by
  /\ req' = [req EXCEPT ![q].found = r.by \in members, ![q].at = "enqueue"]
  /\ UNCHANGED <<members, admins, sender, read, hidden, log, clock, facts>>

\* What the transaction of q stores and announces.
Stored(q) ==
  LET r == req[q] IN
  [op |-> r.op, msg |-> r.msg, by |-> r.by, time |-> r.time, since |-> r.since,
   found |-> r.found]

\* Mutant: the read marker only moves to a later last_read_at.
CommitForward(q) ==
  LET r == req[q] IN
  /\ r.op # "hide" /\ r.at = IF r.op = "read" THEN "enqueue" ELSE "write"
  /\ sender' = IF r.op = "created" THEN [sender EXCEPT ![r.msg] = r.by] ELSE sender
  /\ read' = IF r.found /\ \A i \in DOMAIN log : log[i].op = "read" => log[i].time < r.time
             THEN [read EXCEPT ![r.by] = r.msg]
             ELSE read
  /\ log' = Append(log, Stored(q))
  /\ Answer(q)
  /\ UNCHANGED <<members, admins, hidden, clock>>

\* The end of the transaction: CreateMessage or AppendMessageEvent, or nothing
\* more than UpdateMarker did, then the event and COMMIT.  These statements wait
\* for nobody and nobody sees them before the COMMIT, so they are one step.
Commit(q) ==
  LET r == req[q] IN
  /\ r.op # "hide" /\ r.at = IF r.op = "read" THEN "enqueue" ELSE "write"
  /\ sender' = IF r.op = "created" THEN [sender EXCEPT ![r.msg] = r.by] ELSE sender
  /\ read' = IF r.found THEN [read EXCEPT ![r.by] = r.msg] ELSE read
  /\ log' = Append(log, Stored(q))
  /\ Answer(q)
  /\ UNCHANGED <<members, admins, hidden, clock>>

\* HideMessageForUser: one INSERT, nothing is announced.
Hide(q) ==
  /\ req[q].at = "write" /\ req[q].op = "hide"
  /\ hidden' = hidden \union {<<req[q].msg, req[q].by>>}
  /\ Answer(q)
  /\ UNCHANGED <<members, admins, sender, read, log, clock>>

\* A statement fails, or the caller goes away: a transaction is rolled back and
\* its lock released.
GiveUp(q) ==
  /\ req[q] # Idle
  /\ Answer(q)
  /\ UNCHANGED <<members, admins, sender, read, hidden, log, clock>>

\* A step of GroupChat: users join, leave or get another role; with the row of
\* one who leaves goes the read marker.  Nobody deletes or updates a locked row.
ChangeMembers(ms, as) ==
  /\ as \subseteq ms
  /\ \A q \in Request : Locked(q) =>
       req[q].by \in ms /\ (req[q].by \in as <=> req[q].by \in admins)
  /\ members' = ms
  /\ admins' = as
  /\ read' = [u \in User |-> IF u \in ms THEN read[u] ELSE None]
  /\ facts' = [q \in Request |-> IF req[q] = Idle THEN {}
                                 ELSE facts[q] \union Holding(req[q].by, ms, as)]
  /\ UNCHANGED <<sender, hidden, log, clock, req>>
-----------------------------------------------------------------------------
Step(q) ==
  \/ \E m \in Message, u \in User :
       \/ BeginSend(q, m, u)
       \/ \E op \in Asked : BeginChange(q, op, m, u) \/ BeginMark(q, op, m, u)
  \/ IsMember(q)
  \/ GetMessage(q)
  \/ IsAdmin(q)
  \/ Now(q)
  \/ UpdateMarker(q)
  \/ Commit(q)
  \/ Hide(q)
  \/ GiveUp(q)

Next ==
  \/ \E q \in Request : Step(q)
  \/ \E ms, as \in SUBSET User : ChangeMembers(ms, as)

Spec == Init /\ [][Next]_vars
-----------------------------------------------------------------------------
(***************************************************************************)
(* Properties.                                                             *)
(***************************************************************************)

\* created_at, edited_at and read_at are read before the transaction: what was
\* asked for after something was stored carries a later time than that, so the
\* histories that readers sort by time follow their conversation.
LaterRequestLaterTime ==
  \A i, j \in DOMAIN log : i < j /\ log[j].since >= i => log[i].time < log[j].time

\* A client that applied every announced edit shows the body that the history
\* has (latest_edit), unless the last announced one was asked for before the
\* other was stored.
ReplayAgrees ==
  \A m \in Message : \A i \in LatestEdit(m), j \in LastAnnounced(m) :
    i = j \/ log[j].since < i

\* ErrMessageDeleted: an edit that is stored for a deleted message was asked for
\* before the deletion was stored, and so is a second deletion.
NoChangeAfterDeletion ==
  \A m \in Message : \A i \in Rows("deleted_for_all", m),
      j \in Rows("edited", m) \union Rows("deleted_for_all", m) :
    i < j => log[j].since < i

\* Who sends, reads or hides a message was a member of the chat at some instant
\* of the request (ErrNotChatMember); who deletes one for all had sent it or was
\* an admin then (ErrNotMessageSender).
ChangesAllowed ==
  [][ \A q \in Request :
        LET r == req[q] IN
        r.at \in {"write", "enqueue"} /\ <<log, hidden>>' # <<log, hidden>> /\ req'[q] = Idle =>
          \/ r.op \in {"created", "read", "hide"} /\ "member" \in facts[q]
          \/ r.op \in {"edited", "deleted_for_all"} /\ sender[r.msg] = r.by
          \/ r.op = "deleted_for_all" /\ "admin" \in facts[q] ]_vars

\* The read marker of a member is the message that clients were told last, or
\* none if the user has joined since.  Told later was at most what a MarkRead
\* announced that updated no row: its user had left and has joined again since,
\* and it was asked for before the marker was stored.
MarkersAnnounced ==
  \A u \in members : read[u] # None =>
    \E i \in Rows("read", read[u]) :
      /\ log[i].by = u
      /\ \A j \in DOMAIN log : log[j].op = "read" /\ log[j].by = u /\ i < j =>
           ~log[j].found /\ log[j].since < i
=============================================================================

----------------------------- MODULE PrivateChat -----------------------------
(***************************************************************************)
(* Private chats and blocks of chat-service: CreateChat, SendMessage to a  *)
(* private chat, BlockUser and UnblockUser (service/chat.go,               *)
(* service/message.go, service/moderation.go).                             *)
(*                                                                         *)
(* A private chat has two members, or one when users write to themselves,  *)
(* and they never change: AddMember, RemoveMember and LeaveChat are for    *)
(* groups only, so a chat is known by its members here.  A request checks  *)
(* with one statement at a time, outside a transaction, and ends with one  *)
(* write; nothing in the schema keeps out a second chat of the same users. *)
(***************************************************************************)
EXTENDS Naturals, FiniteSets

CONSTANTS
  User,
  Request       \* requests that may run at the same time

ASSUME PrivateAssumption == IsFiniteSet(Request) /\ Request # {}

VARIABLES
  chats,        \* chats[p]: how many private chats the users p have
  blocked,      \* blocked_users: pairs <<blocker, blocked>>
  sent,         \* messages in private chats, with the facts of their requests
  req,          \* req[q]: what request q does and where it is
  facts         \* history: facts[q] = what held at some instant while q ran

vars == <<chats, blocked, sent, req, facts>>

Pair == {{a, b} : a, b \in User}

\* What can hold of the users of a request: none of them blocks the other, and
\* they have no chat yet.
Fact == {"unblocked", "chatless"}

Message == [to : Pair, facts : SUBSET Fact]

(***************************************************************************)
(* "at" is the next statement: IsBlocked, FindPrivateChat or the write.    *)
(***************************************************************************)
Idle == [op |-> "create", pair |-> {}, at |-> "idle"]

ReqState == [op : {"create", "send"}, pair : Pair \union {{}},
             at : {"idle", "IsBlocked", "FindPrivateChat", "write"}]

Pending(op, p) ==
  {q \in Request : req[q].op = op /\ req[q].pair = p /\ req[q].at = "write"}

TypeOK ==
  /\ chats \in [Pair -> Nat]
  /\ blocked \in SUBSET (User \X User)
  /\ sent \in SUBSET Message
  /\ req \in [Request -> ReqState]
  /\ facts \in [Request -> SUBSET Fact]

Init ==
  /\ chats = [p \in Pair |-> 0]
  /\ blocked = {}
  /\ sent = {}
  /\ req = [q \in Request |-> Idle]
  /\ facts = [q \in Request |-> {}]
-----------------------------------------------------------------------------
\* A row of blocked_users between the users p, in either direction.
IsBlocked(p, b) == \E x, y \in p : <<x, y>> \in b

\* The facts of the users p when there are the chats c and the blocks b.
Holding(p, c, b) ==
  {f \in Fact : \/ f = "unblocked" /\ ~IsBlocked(p, b)
                \/ f = "chatless" /\ c[p] = 0}

\* The request is answered, with or without an error.
Answer(q) ==
  /\ req' = [req EXCEPT ![q] = Idle]
  /\ facts' = [facts EXCEPT ![q] = {}]

\* The request goes on with its next statement.
Go(q, at) == req' = [req EXCEPT ![q].at = at] /\ UNCHANGED facts

\* A request on the users p starts with the statement at.
Start(q, op, p, at) ==
  /\ req[q].at = "idle"
  /\ req' = [req EXCEPT ![q] = [op |-> op, pair |-> p, at |-> at]]
  /\ facts' = [facts EXCEPT ![q] = Holding(p, chats, blocked)]

\* A chat with oneself has one member, and is not checked for blocks.
OneUser(p) == \A x, y \in p : x = y
-----------------------------------------------------------------------------
\* CreateChat: UserExists knows the other user.
BeginCreate(q, p) ==
  /\ Start(q, "create", p, IF OneUser(p) THEN "FindPrivateChat" ELSE "IsBlocked")
  /\ UNCHANGED <<chats, blocked, sent>>

\* SendMessage: the sender is a member of a private chat of the users p.
BeginSend(q, p) ==
  /\ chats[p] > 0
  /\ Start(q, "send", p, IF OneUser(p) THEN "write" ELSE "IsBlocked")
  /\ UNCHANGED <<chats, blocked, sent>>

\* Mutant: AND for OR in IsBlocked, so only a mutual block counts.
CheckBlockedBoth(q) ==
  /\ req[q].at = "IsBlocked"
  /\ IF \A x \in req[q].pair : \E y \in req[q].pair : <<x, y>> \in blocked
     THEN Answer(q)
     ELSE Go(q, IF req[q].op = "create" THEN "FindPrivateChat" ELSE "write")
  /\ UNCHANGED <<chats, blocked, sent>>

\* IsBlocked, of either user by the other, in CreateChat and in
\* checkNotBlockedInPrivateChat.
CheckBlocked(q) ==
  /\ req[q].at = "IsBlocked"
  /\ IF IsBlocked(req[q].pair, blocked)
     THEN Answer(q)
     ELSE Go(q, IF req[q].op = "create" THEN "FindPrivateChat" ELSE "write")
  /\ UNCHANGED <<chats, blocked, sent>>

\* Mutant: a chat of the two is not looked for.
FindNothing(q) ==
  /\ req[q].at = "FindPrivateChat"
  /\ chats[req[q].pair] < Cardinality(Request) + 1
  /\ Go(q, "write")
  /\ UNCHANGED <<chats, blocked, sent>>

\* FindPrivateChat: the chat that is there is the answer of CreateChat.
FindPrivateChat(q) ==
  /\ req[q].at = "FindPrivateChat"
  /\ IF chats[req[q].pair] > 0 THEN Answer(q) ELSE Go(q, "write")
  /\ UNCHANGED <<chats, blocked, sent>>

\* The transaction of the repository's CreateChat: the chat and its members.
InsertChat(q) ==
  /\ \E p \in Pair : q \in Pending("create", p) /\ chats' = [chats EXCEPT ![p] = @ + 1]
  /\ Answer(q)
  /\ UNCHANGED <<blocked, sent>>

\* The transaction of SendMessage: the message and its event.
InsertMessage(q) ==
  /\ \E p \in Pair :
       /\ q \in Pending("send", p)
       /\ sent' = sent \union {[to |-> p, facts |-> facts[q]]}
  /\ Answer(q)
  /\ UNCHANGED <<chats, blocked>>

\* A statement or UserExists fails, a key is missing, or the caller goes away.
GiveUp(q) ==
  /\ req[q].at # "idle"
  /\ Answer(q)
  /\ UNCHANGED <<chats, blocked, sent>>

\* BlockUser: one INSERT, which does nothing when the row is there.
BlockUser(a, b) ==
  /\ a # b
  /\ blocked' = blocked \union {<<a, b>>}
  /\ UNCHANGED <<chats, sent, req, facts>>

\* UnblockUser: one DELETE of the own row; the other user's block stays.  Only
\* now can a running request find the users unblocked when it did not before.
UnblockUser(a, b) ==
  /\ blocked' = blocked \ {<<a, b>>}
  /\ facts' = [q \in Request |-> IF req[q].at = "idle" THEN {}
                ELSE facts[q] \union Holding(req[q].pair, chats, blocked')]
  /\ UNCHANGED <<chats, sent, req>>
-----------------------------------------------------------------------------
Step(q) ==
  \/ \E p \in Pair : BeginCreate(q, p) \/ BeginSend(q, p)
  \/ CheckBlocked(q)
  \/ FindPrivateChat(q)
  \/ InsertChat(q)
  \/ InsertMessage(q)
  \/ GiveUp(q)

Next ==
  \/ \E q \in Request : Step(q)
  \/ \E a, b \in User : BlockUser(a, b) \/ UnblockUser(a, b)

Spec == Init /\ [][Next]_vars
-----------------------------------------------------------------------------
(***************************************************************************)
(* Properties.                                                             *)
(***************************************************************************)

\* FindPrivateChat and CreateChat are separate statements, so requests that
\* run at the same time can each make a chat of the same users; there are never
\* more of them than requests that overlapped, and one alone if none did.
DuplicatesUpToOverlap == \A p \in Pair : chats[p] <= Cardinality(Request)

\* A chat is made by a request that, at some instants while it ran, found its
\* users without a chat and neither of them blocking the other: a request that
\* starts when they have one returns that one (FindPrivateChat).
ChatMadeOnlyIfFree ==
  [][ \A p \in Pair : chats'[p] # chats[p] =>
        \E q \in Pending("create", p) : facts[q] = Fact /\ req'[q].at = "idle" ]_vars

\* "messaging is blocked between these users" (errors.go), in both directions:
\* a message is stored only if at some instant while its request ran neither
\* user blocked the other.  A block committed before a request starts is never
\* overlooked; one committed between IsBlocked and the INSERT is.
BlockIsRespected == \A m \in sent : "unblocked" \in m.facts
=============================================================================

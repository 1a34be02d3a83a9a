------------------------------ MODULE GroupChat ------------------------------
(***************************************************************************)
(* The members of one group chat of chat-service (service/group.go and the *)
(* statements of repository/postgres.go it uses).                          *)
(*                                                                         *)
(* A request is a handler: it reads what it decides on with one statement  *)
(* each, outside a transaction, and ends with one write.  Requests of      *)
(* several users run at the same time, so what a check saw may no longer   *)
(* hold when the write happens.  A write itself is one statement (or, for  *)
(* DeleteGroupChat, the statement that locks the chat's row), and the      *)
(* table's keys are checked with it: the primary key (chat_id, user_id)    *)
(* and the reference to chats, which deletes the members with their chat.  *)
(***************************************************************************)
EXTENDS Naturals, FiniteSets

CONSTANTS
  User,
  Request,      \* requests that may run at the same time
  MaxMembers,   \* MaxGroupChatMembers
  NoOne,        \* no user
  Asked         \* which operations are asked for

Op == {"add", "remove", "promote", "demote", "leave", "delete", "avatar"}

ASSUME GroupAssumption ==
  /\ IsFiniteSet(User)
  /\ IsFiniteSet(Request) /\ Request # {}
  /\ MaxMembers \in Nat \ {0}
  /\ NoOne \notin User
  /\ Asked \subseteq Op

VARIABLES
  chat,     \* the row of chats: not created yet, there, deleted
  creator,  \* chats.created_by
  role,     \* role[u]: the row of u in chat_members, "out" if there is none
  avatar,   \* chat_avatars has a row for the chat
  told,     \* users named by the ChatDeleted events
  req,      \* req[q]: what request q is about and where it is
  listed,   \* listed[q]: the answer of ListMembers in DeleteGroupChat
  during    \* history: during[q] = roles its user and its target had meanwhile

vars == <<chat, creator, role, avatar, told, req, listed, during>>

Role == {"out", "member", "admin"}

(***************************************************************************)
(* "at" is the next statement: IsAdmin, IsMember, MemberCount, GetMember,  *)
(* ListMembers or the write; "idle" between requests.                      *)
(***************************************************************************)
Idle == [op |-> "leave", by |-> NoOne, target |-> NoOne, at |-> "idle"]

ReqState ==
  [op : Op, by : User \union {NoOne}, target : User \union {NoOne},
   at : {"idle", "IsAdmin", "IsMember", "MemberCount", "GetMember",
         "ListMembers", "write"}]

Members == {u \in User : role[u] # "out"}

Pending(op) == {q \in Request : req[q].op = op /\ req[q].at = "write"}

TypeOK ==
  /\ chat \in {"none", "live", "deleted"}
  /\ creator \in User \union {NoOne}
  /\ role \in [User -> Role]
  /\ avatar \in BOOLEAN
  /\ told \in SUBSET User
  /\ req \in [Request -> ReqState]
  /\ listed \in [Request -> SUBSET User]
  /\ during \in [Request -> SUBSET (User \X Role)]

Init ==
  /\ chat = "none"
  /\ creator = NoOne
  /\ role = [u \in User |-> "out"]
  /\ avatar = FALSE
  /\ told = {}
  /\ req = [q \in Request |-> Idle]
  /\ listed = [q \in Request |-> {}]
  /\ during = [q \in Request |-> {}]
-----------------------------------------------------------------------------
\* What the two users of a request are under the roles r.
Seen(q, r) == {<<u, r[u]>> : u \in {req[q].by, req[q].target} \cap User}

\* Request q is answered and leaves the chat_members rows r behind; the other
\* requests that run take note.
Finish(q, r) ==
  /\ role' = r
  /\ req' = [req EXCEPT ![q] = Idle]
  /\ during' = [o \in Request |-> IF o = q THEN {} ELSE during[o] \union Seen(o, r)]

\* Request q is answered and has changed no row, with or without an error.
Answer(q) == Finish(q, role)

\* The request goes on with its next statement.
Go(q, at) == req' = [req EXCEPT ![q].at = at] /\ UNCHANGED <<role, during>>

chatVars == <<chat, creator, avatar, told>>
-----------------------------------------------------------------------------
\* CreateGroupChat: the requester and at least two others, all in one
\* transaction.  CreateChat makes the creator an admin.
CreateGroupChat(c, others) ==
  /\ chat = "none"
  /\ Cardinality({c} \union others) \in 3 .. MaxMembers
  /\ chat' = "live"
  /\ creator' = c
  /\ role' = [u \in User |-> IF u = c THEN "admin"
                             ELSE IF u \in others THEN "member" ELSE "out"]
  /\ UNCHANGED <<avatar, told, req, listed, during>>

\* The statement a request starts with.
First(op) ==
  CASE op \in {"add", "remove", "avatar"} -> "IsAdmin"
    [] op \in {"promote", "demote"}       -> "GetMember"
    [] op = "leave"                       -> "write"
    [] op = "delete"                      -> "ListMembers"

\* GetChat found the chat and the request goes on.
Accept(q, op, by, target) ==
  /\ req[q].at = "idle"
  /\ chat = "live"
  /\ op \in {"leave", "delete", "avatar"} => target = by
  /\ req' = [req EXCEPT ![q] =
       [op |-> op, by |-> by, target |-> target, at |-> First(op)]]
  /\ during' = [during EXCEPT ![q] = {<<u, role[u]>> : u \in {by, target}}]
  /\ UNCHANGED <<chatVars, role, listed>>

\* A request arrives and GetChat finds the chat.  created_by never changes, so
\* the checks against the creator are made with it; a refused request is not a
\* step.
Begin(q, op, by, target) ==
  /\ op \in {"promote", "demote", "delete"} => by = creator
  /\ op \in {"promote", "demote"} => target # creator
  /\ op = "leave" => by # creator
  /\ Accept(q, op, by, target)

\* The statement after IsAdmin.
Second(op) ==
  CASE op = "add" -> "IsMember" [] op = "remove" -> "GetMember" [] OTHER -> "write"

\* Mutant: membership is taken for administration.
IsAdminAsMember(q) ==
  /\ req[q].at = "IsAdmin"
  /\ IF /\ role[req[q].by] # "out"
        /\ ~(req[q].op = "remove" /\ req[q].target = creator)
     THEN Go(q, Second(req[q].op))
     ELSE Answer(q)
  /\ UNCHANGED <<chatVars, listed>>

\* Mutant: the creator may be removed.
IsAdminAnyTarget(q) ==
  /\ req[q].at = "IsAdmin"
  /\ IF role[req[q].by] = "admin" THEN Go(q, Second(req[q].op)) ELSE Answer(q)
  /\ UNCHANGED <<chatVars, listed>>

\* IsAdmin of the requester, in AddMember, RemoveMember and UploadGroupAvatar;
\* RemoveMember refuses the creator as target right after it.
IsAdmin(q) ==
  /\ req[q].at = "IsAdmin"
  /\ IF /\ role[req[q].by] = "admin"
        /\ ~(req[q].op = "remove" /\ req[q].target = creator)
     THEN Go(q, Second(req[q].op))
     ELSE Answer(q)
  /\ UNCHANGED <<chatVars, listed>>

\* AddMember: the new member must not be one yet.
IsMember(q) ==
  /\ req[q].at = "IsMember"
  /\ IF role[req[q].target] = "out" THEN Go(q, "MemberCount") ELSE Answer(q)
  /\ UNCHANGED <<chatVars, listed>>

\* Mutant: one member too many is let in.
MemberCountAtLimit(q) ==
  /\ req[q].at = "MemberCount"
  /\ IF Cardinality(Members) <= MaxMembers THEN Go(q, "write") ELSE Answer(q)
  /\ UNCHANGED <<chatVars, listed>>

\* AddMember: the limit; then the UserExists call, which the write waits for.
MemberCount(q) ==
  /\ req[q].at = "MemberCount"
  /\ IF Cardinality(Members) < MaxMembers THEN Go(q, "write") ELSE Answer(q)
  /\ UNCHANGED <<chatVars, listed>>

\* Mutant: RemoveMember does not ask who may remove an admin.
GetMemberAnyRole(q) ==
  /\ req[q].at = "GetMember"
  /\ IF role[req[q].target] = "out" THEN Answer(q) ELSE Go(q, "write")
  /\ UNCHANGED <<chatVars, listed>>

\* GetMember of the target, in RemoveMember and SetMemberRole; RemoveMember
\* leaves admins to the creator.
GetMember(q) ==
  /\ req[q].at = "GetMember"
  /\ IF \/ role[req[q].target] = "out"
        \/ /\ req[q].op = "remove"
           /\ role[req[q].target] = "admin"
           /\ req[q].by # creator
     THEN Answer(q)
     ELSE Go(q, "write")
  /\ UNCHANGED <<chatVars, listed>>

\* ListMembers, the first statement in the transaction of DeleteGroupChat.
ListMembers(q) ==
  /\ req[q].at = "ListMembers"
  /\ listed' = [listed EXCEPT ![q] = Members]
  /\ Go(q, "write")
  /\ UNCHANGED chatVars
-----------------------------------------------------------------------------
\* Mutant: chat_members does not reference chats.
InsertWithoutReference(q) ==
  /\ q \in Pending("add")
  /\ IF role[req[q].target] = "out"
     THEN Finish(q, [role EXCEPT ![req[q].target] = "member"])
     ELSE Answer(q)
  /\ UNCHANGED <<chatVars, listed>>

\* The INSERT of AddMember fails if the chat is gone or the row is there.
InsertMember(q) ==
  /\ q \in Pending("add")
  /\ IF chat = "live" /\ role[req[q].target] = "out"
     THEN Finish(q, [role EXCEPT ![req[q].target] = "member"])
     ELSE Answer(q)
  /\ UNCHANGED <<chatVars, listed>>

\* The DELETE of RemoveMember and of LeaveChat, whether or not a row is left.
DeleteMember(q) ==
  /\ q \in Pending("remove") \union Pending("leave")
  /\ Finish(q, [role EXCEPT ![req[q].target] = "out"])
  /\ UNCHANGED <<chatVars, listed>>

\* The UPDATE of SetRole touches the row only if it is still there.
UpdateRole(q) ==
  /\ q \in Pending("promote") \union Pending("demote")
  /\ IF role[req[q].target] = "out"
     THEN Answer(q)
     ELSE Finish(q, [role EXCEPT ![req[q].target] =
            IF req[q].op = "promote" THEN "admin" ELSE "member"])
  /\ UNCHANGED <<chatVars, listed>>

\* DeleteChat, PublishChatDeleted and the COMMIT.  Deleting a chat that another
\* request deleted meanwhile is not an error: its event is published as well.
DeleteChat(q) ==
  /\ q \in Pending("delete")
  /\ chat' = "deleted"
  /\ avatar' = FALSE
  /\ told' = told \union listed[q]
  /\ Finish(q, [u \in User |-> "out"])
  /\ listed' = [listed EXCEPT ![q] = {}]
  /\ UNCHANGED creator

\* UpsertChatAvatar fails if the chat is gone.
UpsertChatAvatar(q) ==
  /\ q \in Pending("avatar")
  /\ avatar' = (avatar \/ chat = "live")
  /\ Answer(q)
  /\ UNCHANGED <<chat, creator, told, listed>>

\* A statement fails, UserExists says no, or the caller goes away: the request
\* ends without a trace.
GiveUp(q) ==
  /\ req[q].at # "idle"
  /\ Answer(q)
  /\ listed' = [listed EXCEPT ![q] = {}]
  /\ UNCHANGED chatVars
-----------------------------------------------------------------------------
Write(q) ==
  \/ InsertMember(q)
  \/ DeleteMember(q)
  \/ UpdateRole(q)
  \/ DeleteChat(q)
  \/ UpsertChatAvatar(q)

Step(q) ==
  \/ \E op \in Asked, by, target \in User : Begin(q, op, by, target)
  \/ IsAdmin(q)
  \/ IsMember(q)
  \/ MemberCount(q)
  \/ GetMember(q)
  \/ ListMembers(q)
  \/ Write(q)
  \/ GiveUp(q)

Next ==
  \/ \E c \in User, others \in SUBSET User : CreateGroupChat(c, others)
  \/ \E q \in Request : Step(q)

Spec == Init /\ [][Next]_vars
-----------------------------------------------------------------------------
(***************************************************************************)
(* Properties.                                                             *)
(***************************************************************************)

\* "the group creator cannot be removed" (errors.go): whatever the admins and
\* the creator do at the same time, the creator of a chat that is there is its
\* admin.
CreatorStaysAdmin == chat = "live" => role[creator] = "admin"

\* A member added, or an avatar uploaded, by a request that was running when
\* the chat was deleted does not outlive it (the references to chats).
NothingOutlivesChat == chat = "deleted" => Members = {} /\ ~avatar

\* MemberCount and the INSERT are separate statements, so requests that run at
\* the same time can exceed the limit (AddMember): by one less than there are
\* requests, and not at all when they run one at a time.
LimitUpToOverlap ==
  Cardinality(Members) + 1 <= MaxMembers + Cardinality(Request)

\* Request q makes its write in this step.
Writes(q) == req[q].at = "write" /\ req'[q].at = "idle"

\* Who gains or loses a membership, other than by leaving or with the chat, and
\* an avatar that appears, is the work of a request whose user was an admin at
\* some instant while it ran (AddMember, RemoveMember, SetMemberRole,
\* UploadGroupAvatar check before they write; rights may be lost in between).
OnlyAdminsManage ==
  [][ chat = "live" /\ chat' = "live" =>
        /\ \A u \in User : role'[u] # role[u] =>
             \E q \in Request :
               /\ Writes(q)
               /\ \/ req[q].op = "leave" /\ req[q].by = u
                  \/ <<req[q].by, "admin">> \in during[q]
        /\ avatar' # avatar =>
             \E q \in Request : Writes(q) /\ <<req[q].by, "admin">> \in during[q]
    ]_vars

\* "only the group creator can promote, demote, or remove an admin" (errors.go)
\* up to the window between GetMember and the DELETE of RemoveMember: an admin
\* is made by the creator, and unmade by the creator, by leaving, or by a
\* removal that was running when the member was not an admin yet.
AdminsManagedByCreator ==
  [][ chat = "live" /\ chat' = "live" =>
        \A u \in User : (role[u] = "admin") # (role'[u] = "admin") =>
          \E q \in Request :
            /\ Writes(q)
            /\ \/ req[q].by = creator
               \/ role[u] = "admin" /\ req[q].op = "leave" /\ req[q].by = u
               \/ role[u] = "admin" /\ req[q].op = "remove"
                                    /\ <<u, "member">> \in during[q]
    ]_vars
=============================================================================

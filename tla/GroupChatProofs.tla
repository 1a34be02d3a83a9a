--------------------------- MODULE GroupChatProofs ---------------------------
(***************************************************************************)
(* What holds of a group chat for any set of users, any number of requests *)
(* and any limit.                                                          *)
(***************************************************************************)
EXTENDS GroupChat, FiniteSetTheorems, TLAPS

At == {"idle", "IsAdmin", "IsMember", "MemberCount", "GetMember", "ListMembers",
       "write"}

\* What the checks a request has passed still guarantee, whatever the other
\* requests did since: facts about the creator, who never changes, and about
\* the roles seen while the request ran.
Checked(q) ==
  LET r == req[q] IN
  r.at # "idle" =>
    /\ chat # "none"
    /\ r.by \in User
    /\ r.target \in User
    /\ <<r.by, role[r.by]>> \in during[q]
    /\ <<r.target, role[r.target]>> \in during[q]
    /\ r.op \in {"promote", "demote"} => r.by = creator /\ <<creator, "admin">> \in during[q]
    /\ r.op \in {"promote", "demote", "leave"} => r.target # creator
    /\ r.op = "leave" => r.target = r.by
    /\ r.op \in {"add", "remove", "avatar"} /\ r.at # "IsAdmin" =>
         <<r.by, "admin">> \in during[q]
    /\ r.op = "remove" /\ r.at # "IsAdmin" => r.target # creator
    /\ r.op = "remove" /\ r.at = "write" =>
         r.by = creator \/ <<r.target, "member">> \in during[q]
    /\ r.at = "IsAdmin" => r.op \in {"add", "remove", "avatar"}
    /\ r.at \in {"IsMember", "MemberCount"} => r.op = "add"
    /\ r.at = "GetMember" => r.op \in {"remove", "promote", "demote"}
    /\ r.at = "ListMembers" => r.op = "delete"

ChatInv ==
  /\ chat # "none" => creator \in User
  /\ CreatorStaysAdmin
  /\ chat # "live" => Members = {} /\ ~avatar

IInv == TypeOK /\ ChatInv /\ (\A q \in Request : Checked(q))
-----------------------------------------------------------------------------
LEMMA InitIInv == Init => IInv
<1> SUFFICES ASSUME Init PROVE IInv
  OBVIOUS
<1>1. TypeOK
  BY DEF Init, TypeOK, Role, ReqState, Op, Idle
<1>2. ChatInv
  BY DEF Init, ChatInv, CreatorStaysAdmin, Members
<1>3. \A q \in Request : Checked(q)
  BY DEF Init, Checked, Idle
<1>4. QED
  BY <1>1, <1>2, <1>3 DEF IInv

\* A request that goes on with another statement.
LEMMA GoType ==
  ASSUME TypeOK, NEW q \in Request, NEW at \in At, Go(q, at)
  PROVE  /\ req' \in [Request -> ReqState]
         /\ role' = role /\ during' = during
         /\ \A o \in Request : o # q => req'[o] = req[o]
         /\ req'[q].at = at
         /\ req'[q].op = req[q].op
         /\ req'[q].by = req[q].by
         /\ req'[q].target = req[q].target
BY DEF TypeOK, Go, At, ReqState

\* A request that is answered.
LEMMA FinishType ==
  ASSUME TypeOK, NEW q \in Request, NEW r \in [User -> Role], Finish(q, r)
  PROVE  /\ req' \in [Request -> ReqState]
         /\ role' = r
         /\ during' \in [Request -> SUBSET (User \X Role)]
         /\ req'[q].at = "idle"
         /\ \A o \in Request : o # q => req'[o] = req[o]
<1>1. Idle \in ReqState /\ Idle.at = "idle"
  BY DEF Idle, ReqState, Op
<1>2. \A o \in Request : Seen(o, r) \in SUBSET (User \X Role)
  BY DEF Seen
<1>3. QED
  BY <1>1, <1>2 DEF TypeOK, Finish

\* The other requests keep what they checked when a request is answered and
\* leaves the roles r behind.
LEMMA FinishChecked ==
  ASSUME IInv, NEW q \in Request, NEW r \in [User -> Role], Finish(q, r),
         chat # "none" => chat' # "none", UNCHANGED creator
  PROVE  \A o \in Request : Checked(o)'
<1> SUFFICES ASSUME NEW o \in Request PROVE Checked(o)'
  OBVIOUS
<1>1. TypeOK /\ Checked(o)
  BY DEF IInv
<1>2. CASE o = q
  BY <1>1, <1>2, FinishType DEF Checked
<1>3. CASE o # q
  <2>1. /\ req'[o] = req[o]
        /\ role' = r
        /\ during'[o] = during[o] \union Seen(o, r)
    BY <1>1, <1>3, FinishType DEF Finish
  <2>2. SUFFICES ASSUME req[o].at # "idle"
                 PROVE  Checked(o)'
    BY <2>1 DEF Checked
  <2>3. req[o].by \in User /\ req[o].target \in User
    BY <1>1, <2>2 DEF Checked
  <2>4. /\ <<req[o].by, r[req[o].by]>> \in during'[o]
        /\ <<req[o].target, r[req[o].target]>> \in during'[o]
    BY <2>1, <2>3 DEF Seen
  <2>5. QED
    BY <1>1, <2>1, <2>2, <2>4 DEF Checked
<1>4. QED
  BY <1>2, <1>3
-----------------------------------------------------------------------------
\* The steps that only read.
LEMMA ReadStep ==
  ASSUME IInv, NEW q \in Request,
         \/ IsAdmin(q) \/ IsMember(q) \/ MemberCount(q) \/ GetMember(q) \/ ListMembers(q)
         \/ GiveUp(q)
  PROVE  IInv'
<1>1. /\ UNCHANGED <<chatVars, role>>
      /\ listed' \in [Request -> SUBSET User]
  BY DEF IInv, TypeOK, IsAdmin, IsMember, MemberCount, GetMember, ListMembers,
         GiveUp, Go, Answer, Finish, Members
<1>2. ChatInv'
  BY <1>1 DEF IInv, ChatInv, CreatorStaysAdmin, Members, chatVars
<1>3. CASE Answer(q)
  <2>1. Finish(q, role) /\ role \in [User -> Role]
    BY <1>3 DEF Answer, IInv, TypeOK
  <2>2. \A o \in Request : Checked(o)'
    BY <1>1, <2>1, FinishChecked DEF chatVars
  <2>3. TypeOK'
    BY <1>1, <2>1, FinishType DEF IInv, TypeOK, chatVars
  <2>4. QED
    BY <1>2, <2>2, <2>3 DEF IInv
<1>4. ASSUME NEW at \in At, Go(q, at),
             \/ /\ req[q].at = "IsAdmin"
                /\ role[req[q].by] = "admin"
                /\ ~(req[q].op = "remove" /\ req[q].target = creator)
                /\ at = Second(req[q].op)
             \/ req[q].at = "IsMember" /\ at = "MemberCount"
             \/ req[q].at = "MemberCount" /\ at = "write"
             \/ /\ req[q].at = "GetMember"
                /\ at = "write"
                /\ role[req[q].target] # "out"
                /\ ~(/\ req[q].op = "remove"
                     /\ role[req[q].target] = "admin"
                     /\ req[q].by # creator)
             \/ req[q].at = "ListMembers" /\ at = "write"
      PROVE  IInv'
  <2>1. TypeOK /\ Checked(q)
    BY DEF IInv
  <2>2. TypeOK'
    <3>1. req' \in [Request -> ReqState] /\ role' = role /\ during' = during
      BY <1>4, <2>1, GoType
    <3>2. QED
      BY <1>1, <2>1, <3>1 DEF TypeOK, chatVars
  <2>3. \A o \in Request : o # q => Checked(o)'
    <3> SUFFICES ASSUME NEW o \in Request, o # q PROVE Checked(o)'
      OBVIOUS
    <3>1. Checked(o) /\ req'[o] = req[o] /\ role' = role /\ during' = during
      BY <1>4, <2>1, GoType DEF IInv
    <3>2. QED
      BY <1>1, <3>1 DEF Checked, chatVars
  <2>4. Checked(q)'
    <3>1. /\ req'[q].at = at /\ req'[q].op = req[q].op
          /\ req'[q].by = req[q].by /\ req'[q].target = req[q].target
          /\ role' = role /\ during' = during /\ chat' = chat /\ creator' = creator
      BY <1>1, <1>4, <2>1, GoType DEF chatVars
    <3>2. CASE req[q].at = "IsAdmin"
      BY <1>4, <2>1, <3>1, <3>2 DEF Checked, Second
    <3>3. CASE req[q].at \in {"IsMember", "MemberCount", "ListMembers"}
      BY <1>4, <2>1, <3>1, <3>3 DEF Checked
    <3>4. CASE req[q].at = "GetMember"
      <4>1. role[req[q].target] \in Role
        BY <2>1, <3>4 DEF Checked, TypeOK
      <4>2. QED
        BY <1>4, <2>1, <3>1, <3>4, <4>1 DEF Checked, Role
    <3>5. QED
      BY <1>4, <3>2, <3>3, <3>4
  <2>5. QED
    BY <1>2, <2>2, <2>3, <2>4 DEF IInv
<1>5. CASE IsAdmin(q)
  <2>1. Second(req[q].op) \in At
    BY DEF Second, At
  <2>2. QED
    BY <1>3, <1>4, <1>5, <2>1 DEF IsAdmin
<1>6. CASE IsMember(q)
  BY <1>3, <1>4, <1>6 DEF IsMember, At
<1>7. CASE MemberCount(q)
  BY <1>3, <1>4, <1>7 DEF MemberCount, At
<1>8. CASE GetMember(q)
  BY <1>3, <1>4, <1>8 DEF GetMember, At
<1>9. CASE ListMembers(q)
  BY <1>3, <1>4, <1>9 DEF ListMembers, At
<1>10. CASE GiveUp(q)
  BY <1>3, <1>10 DEF GiveUp
<1>11. QED
  BY <1>5, <1>6, <1>7, <1>8, <1>9, <1>10

-----------------------------------------------------------------------------
\* A request arrives.
LEMMA BeginStep ==
  ASSUME IInv, NEW q \in Request, NEW op \in Op, NEW by \in User, NEW target \in User,
         Begin(q, op, by, target)
  PROVE  IInv'
<1> DEFINE r == [op |-> op, by |-> by, target |-> target, at |-> First(op)]
           d == {<<u, role[u]>> : u \in {by, target}}
<1>1. TypeOK /\ chat = "live" /\ UNCHANGED <<chatVars, role, listed>>
  BY DEF IInv, Begin, Accept
<1>2. First(op) \in At \ {"idle", "IsMember", "MemberCount"} /\ r \in ReqState
  BY DEF First, Op, At, ReqState
<1>3. d \in SUBSET (User \X Role)
  BY <1>1 DEF TypeOK
<1>4. req' = [req EXCEPT ![q] = r] /\ during' = [during EXCEPT ![q] = d]
  BY DEF Begin, Accept
<1>5. TypeOK'
  <2>1. req' \in [Request -> ReqState]
    BY <1>1, <1>2, <1>4 DEF TypeOK
  <2>2. during' \in [Request -> SUBSET (User \X Role)]
    BY <1>1, <1>3, <1>4 DEF TypeOK
  <2>3. QED
    BY <1>1, <2>1, <2>2 DEF TypeOK, chatVars
<1>6. ChatInv'
  BY <1>1 DEF IInv, ChatInv, CreatorStaysAdmin, Members, chatVars
<1>7. \A o \in Request : o # q => Checked(o)'
  <2> SUFFICES ASSUME NEW o \in Request, o # q PROVE Checked(o)'
    OBVIOUS
  <2>1. Checked(o) /\ req'[o] = req[o] /\ during'[o] = during[o]
    BY <1>1, <1>4 DEF IInv, TypeOK
  <2>2. QED
    BY <1>1, <2>1 DEF Checked, chatVars
<1>8. Checked(q)'
  <2>1. req'[q] = r /\ during'[q] = d
    BY <1>1, <1>4 DEF TypeOK
  <2>2. <<by, role[by]>> \in d /\ <<target, role[target]>> \in d
    OBVIOUS
  <2>3. role[creator] = "admin"
    BY <1>1 DEF IInv, ChatInv, CreatorStaysAdmin
  <2>4. /\ op \in {"promote", "demote"} => by = creator /\ target # creator
        /\ op = "leave" => target = by /\ by # creator
    BY DEF Begin, Accept
  <2>5. /\ First(op) = "IsAdmin" <=> op \in {"add", "remove", "avatar"}
        /\ First(op) = "GetMember" => op \in {"promote", "demote"}
        /\ First(op) = "ListMembers" => op = "delete"
    BY DEF First, Op
  <2>6. QED
    BY <1>1, <1>2, <2>1, <2>2, <2>3, <2>4, <2>5 DEF Checked, chatVars
<1>9. QED
  BY <1>5, <1>6, <1>7, <1>8 DEF IInv

\* The writes to chat_members: they leave the creator alone.
LEMMA MembersStep ==
  ASSUME IInv, NEW q \in Request,
         InsertMember(q) \/ DeleteMember(q) \/ UpdateRole(q)
  PROVE  IInv'
<1> DEFINE t == req[q].target
<1>1. /\ TypeOK /\ Checked(q) /\ req[q].at = "write"
      /\ UNCHANGED <<chatVars, listed>>
  BY DEF IInv, InsertMember, DeleteMember, UpdateRole, Pending
<1>2. t \in User
  BY <1>1 DEF Checked
<1>3. PICK x \in Role : /\ Finish(q, [role EXCEPT ![t] = x])
                        /\ chat # "live" => x = "out"
                        /\ t = creator => x = role[t]
  <2>1. CASE Answer(q)
    <3>1. role = [role EXCEPT ![t] = role[t]] /\ role[t] \in Role
      BY <1>1, <1>2 DEF TypeOK
    <3>2. chat # "live" => role[t] = "out"
      BY <1>2 DEF IInv, ChatInv, Members
    <3>3. QED
      BY <2>1, <3>1, <3>2 DEF Answer
  <2>2. CASE DeleteMember(q)
    <3>1. t # creator
      BY <1>1, <2>2 DEF DeleteMember, Pending, Checked
    <3>2. QED
      BY <2>2, <3>1 DEF DeleteMember, Role
  <2>3. CASE InsertMember(q) /\ ~Answer(q)
    <3>1. chat = "live" /\ role[t] = "out"
      BY <2>3 DEF InsertMember
    <3>2. t # creator
      BY <3>1 DEF IInv, ChatInv, CreatorStaysAdmin
    <3>3. QED
      BY <2>3, <3>1, <3>2 DEF InsertMember, Role
  <2>4. CASE UpdateRole(q) /\ ~Answer(q)
    <3>1. role[t] # "out" /\ t # creator
      BY <1>1, <2>4 DEF UpdateRole, Pending, Checked
    <3>2. chat = "live"
      BY <1>2, <3>1 DEF IInv, ChatInv, Members
    <3>3. CASE req[q].op = "promote"
      BY <2>4, <3>1, <3>2, <3>3 DEF UpdateRole, Role
    <3>4. CASE req[q].op # "promote"
      BY <2>4, <3>1, <3>2, <3>4 DEF UpdateRole, Role
    <3>5. QED
      BY <3>3, <3>4
  <2>5. QED
    BY <2>1, <2>2, <2>3, <2>4
<1> DEFINE r == [role EXCEPT ![t] = x]
<1>4. r \in [User -> Role] /\ Finish(q, r)
  BY <1>1, <1>3 DEF TypeOK
<1>5. \A o \in Request : Checked(o)'
  BY <1>1, <1>4, FinishChecked DEF chatVars
<1>6. TypeOK'
  BY <1>1, <1>4, FinishType DEF TypeOK, chatVars
<1>7. ChatInv'
  <2>1. role' = r
    BY <1>4 DEF Finish
  <2>2. chat = "live" => r[creator] = "admin"
    BY <1>1, <1>3 DEF IInv, ChatInv, CreatorStaysAdmin, TypeOK
  <2>3. chat # "live" => \A u \in User : r[u] = "out"
    BY <1>1, <1>3 DEF IInv, ChatInv, Members, TypeOK
  <2>4. QED
    BY <1>1, <2>1, <2>2, <2>3 DEF IInv, ChatInv, CreatorStaysAdmin, Members, chatVars
<1>8. QED
  BY <1>5, <1>6, <1>7 DEF IInv

\* The deletion of the chat, and the avatar.
LEMMA ChatStep ==
  ASSUME IInv, NEW q \in Request, DeleteChat(q) \/ UpsertChatAvatar(q)
  PROVE  IInv'
<1>1. TypeOK /\ Checked(q) /\ req[q].at = "write"
  BY DEF IInv, DeleteChat, UpsertChatAvatar, Pending
<1>2. CASE DeleteChat(q)
  <2> DEFINE r == [u \in User |-> "out"]
  <2>1. r \in [User -> Role] /\ Finish(q, r) /\ chat' = "deleted" /\ UNCHANGED creator
    BY <1>2 DEF DeleteChat, Role
  <2>2. \A o \in Request : Checked(o)'
    BY <2>1, FinishChecked
  <2>3. TypeOK'
    BY <1>1, <1>2, <2>1, FinishType DEF TypeOK, DeleteChat
  <2>4. creator \in User
    BY <1>1 DEF IInv, ChatInv, Checked
  <2>5. role' = r /\ ~avatar'
    BY <1>2, <2>1 DEF DeleteChat, Finish
  <2>6. ChatInv'
    BY <2>1, <2>4, <2>5 DEF ChatInv, CreatorStaysAdmin, Members
  <2>7. QED
    BY <2>2, <2>3, <2>6 DEF IInv
<1>3. CASE UpsertChatAvatar(q)
  <2>1. /\ role \in [User -> Role] /\ Finish(q, role)
        /\ UNCHANGED <<chat, creator, told, listed>>
    BY <1>1, <1>3 DEF UpsertChatAvatar, Answer, TypeOK
  <2>2. \A o \in Request : Checked(o)'
    BY <2>1, FinishChecked
  <2>3. avatar' \in BOOLEAN /\ (chat # "live" => ~avatar')
    <3>1. avatar' = (avatar \/ chat = "live")
      BY <1>3 DEF UpsertChatAvatar
    <3>2. chat # "live" => ~avatar
      BY DEF IInv, ChatInv
    <3>3. QED
      BY <3>1, <3>2, Zenon
  <2>4. TypeOK'
    BY <1>1, <2>1, <2>3, FinishType DEF TypeOK
  <2>5. ChatInv'
    BY <2>1, <2>3 DEF IInv, ChatInv, CreatorStaysAdmin, Members, Finish
  <2>6. QED
    BY <2>2, <2>4, <2>5 DEF IInv
<1>4. QED
  BY <1>2, <1>3

\* The creation of the chat: no request runs yet.
LEMMA CreateStep ==
  ASSUME IInv, NEW c \in User, NEW others \in SUBSET User, CreateGroupChat(c, others)
  PROVE  IInv'
<1>1. /\ TypeOK /\ chat = "none" /\ chat' = "live" /\ creator' = c
      /\ UNCHANGED <<avatar, told, req, listed, during>>
  BY DEF IInv, CreateGroupChat
<1>2. role' \in [User -> Role] /\ role'[c] = "admin"
  BY DEF CreateGroupChat, Role
<1>3. TypeOK'
  BY <1>1, <1>2 DEF TypeOK
<1>4. ChatInv'
  BY <1>1, <1>2 DEF ChatInv, CreatorStaysAdmin
<1>5. \A q \in Request : Checked(q)'
  BY <1>1 DEF IInv, Checked
<1>6. QED
  BY <1>3, <1>4, <1>5 DEF IInv

\* Every step keeps the invariant.
LEMMA NextIInv == IInv /\ [Next]_vars => IInv'
<1> SUFFICES ASSUME IInv, [Next]_vars PROVE IInv'
  OBVIOUS
<1>1. CASE \E c \in User, others \in SUBSET User : CreateGroupChat(c, others)
  BY <1>1, CreateStep
<1>2. ASSUME NEW q \in Request, Step(q) PROVE IInv'
  BY <1>2, GroupAssumption, BeginStep, ReadStep, MembersStep, ChatStep DEF Step, Write
<1>3. CASE UNCHANGED vars
  BY <1>3 DEF vars, IInv, TypeOK, ChatInv, CreatorStaysAdmin, Members, Checked
<1>4. QED
  BY <1>1, <1>2, <1>3 DEF Next

LEMMA AlwaysIInv == Spec => []IInv
BY InitIInv, NextIInv, PTL DEF Spec
-----------------------------------------------------------------------------
\* Every variable keeps its type.
THEOREM TypeCorrect == Spec => []TypeOK
BY AlwaysIInv, PTL DEF IInv

\* Whatever the admins do at the same time, the creator of a group chat is its
\* admin as long as the chat is there.
THEOREM CreatorKept == Spec => []CreatorStaysAdmin
<1>1. IInv => CreatorStaysAdmin
  BY DEF IInv, ChatInv
<1>2. QED
  BY <1>1, AlwaysIInv, PTL

\* Nothing of a chat is left when it is deleted, and nothing comes back.
THEOREM NothingLeftOver == Spec => []NothingOutlivesChat
<1>1. IInv => NothingOutlivesChat
  BY DEF IInv, ChatInv, NothingOutlivesChat
<1>2. QED
  BY <1>1, AlwaysIInv, PTL

-----------------------------------------------------------------------------
\* A step that changes a row or makes an avatar appear while the chat lives is
\* the write of a request.
LEMMA LiveChange ==
  ASSUME IInv, Next, chat = "live", chat' = "live", role' # role \/ avatar' # avatar
  PROVE  \E q \in Request :
           /\ Writes(q)
           /\ \/ InsertMember(q) \/ DeleteMember(q) \/ UpdateRole(q) \/ UpsertChatAvatar(q)
<1>1. PICK q \in Request : Step(q)
  BY DEF Next, CreateGroupChat
<1>2. ~\E op \in Asked, by, target \in User : Begin(q, op, by, target)
  BY DEF Begin, Accept, chatVars
<1>3. ~(\/ IsAdmin(q) \/ IsMember(q) \/ MemberCount(q) \/ GetMember(q)
        \/ ListMembers(q) \/ GiveUp(q))
  BY DEF IsAdmin, IsMember, MemberCount, GetMember, ListMembers, GiveUp, Go,
         Answer, Finish, chatVars
<1>4. ~DeleteChat(q)
  BY DEF DeleteChat
<1>5. \/ InsertMember(q) \/ DeleteMember(q) \/ UpdateRole(q) \/ UpsertChatAvatar(q)
  BY <1>1, <1>2, <1>3, <1>4 DEF Step, Write
<1>6. req' = [req EXCEPT ![q] = Idle] /\ req[q].at = "write"
  BY <1>5 DEF InsertMember, DeleteMember, UpdateRole, UpsertChatAvatar, Answer,
              Finish, Pending
<1>7. Writes(q)
  BY <1>6 DEF Writes, Idle, IInv, TypeOK
<1>8. QED
  BY <1>5, <1>7

\* The only row a write to chat_members touches is the one of its target.
LEMMA TargetOnly ==
  ASSUME IInv, NEW q \in Request, NEW u \in User, role'[u] # role[u],
         InsertMember(q) \/ DeleteMember(q) \/ UpdateRole(q)
  PROVE  u = req[q].target
<1>1. role \in [User -> Role]
  BY DEF IInv, TypeOK
<1>2. QED
  BY <1>1 DEF InsertMember, DeleteMember, UpdateRole, Answer, Finish

\* Only requests of users who were admins while they ran manage the members and
\* the avatar of a chat.
THEOREM OnlyAdmins == Spec => OnlyAdminsManage
<1> DEFINE P == chat = "live" /\ chat' = "live" =>
        /\ \A u \in User : role'[u] # role[u] =>
             \E q \in Request :
               /\ Writes(q)
               /\ \/ req[q].op = "leave" /\ req[q].by = u
                  \/ <<req[q].by, "admin">> \in during[q]
        /\ avatar' # avatar =>
             \E q \in Request : Writes(q) /\ <<req[q].by, "admin">> \in during[q]
<1>1. ASSUME IInv, [Next]_vars PROVE [P]_vars
  <2>1. CASE UNCHANGED vars
    BY <2>1
  <2>2. ASSUME Next, chat = "live", chat' = "live", role' # role \/ avatar' # avatar
        PROVE  P
    <3>1. PICK q \in Request :
            /\ Writes(q)
            /\ \/ InsertMember(q) \/ DeleteMember(q) \/ UpdateRole(q) \/ UpsertChatAvatar(q)
      BY <1>1, <2>2, LiveChange
    <3>2. Checked(q) /\ req[q].at = "write"
      BY <1>1, <3>1 DEF IInv, Writes
    <3>3. CASE UpsertChatAvatar(q)
      BY <3>1, <3>2, <3>3 DEF UpsertChatAvatar, Answer, Finish, Pending, Checked
    <3>4. CASE InsertMember(q) \/ DeleteMember(q) \/ UpdateRole(q)
      <4>1. UNCHANGED avatar
        BY <3>4 DEF InsertMember, DeleteMember, UpdateRole, chatVars
      <4>2. \/ req[q].op = "leave" /\ req[q].by = req[q].target
            \/ <<req[q].by, "admin">> \in during[q]
        BY <3>2, <3>4 DEF InsertMember, DeleteMember, UpdateRole, Pending, Checked
      <4>3. \A u \in User : role'[u] # role[u] => u = req[q].target
        BY <1>1, <3>4, TargetOnly
      <4>4. QED
        BY <3>1, <4>1, <4>2, <4>3
    <3>5. QED
      BY <3>1, <3>3, <3>4
  <2>3. QED
    BY <1>1, <2>1, <2>2
<1>2. QED
  BY <1>1, AlwaysIInv, PTL DEF Spec, OnlyAdminsManage

\* Admins are made by the creator only, and unmade by the creator, by leaving,
\* or by a removal that saw them as plain members while it ran.
THEOREM AdminsByCreator == Spec => AdminsManagedByCreator
<1> DEFINE P == chat = "live" /\ chat' = "live" =>
        \A u \in User : (role[u] = "admin") # (role'[u] = "admin") =>
          \E q \in Request :
            /\ Writes(q)
            /\ \/ req[q].by = creator
               \/ role[u] = "admin" /\ req[q].op = "leave" /\ req[q].by = u
               \/ role[u] = "admin" /\ req[q].op = "remove"
                                    /\ <<u, "member">> \in during[q]
<1>1. ASSUME IInv, [Next]_vars PROVE [P]_vars
  <2>1. CASE UNCHANGED vars
    BY <2>1
  <2>2. ASSUME Next, chat = "live", chat' = "live", NEW u \in User,
               (role[u] = "admin") # (role'[u] = "admin")
        PROVE  \E q \in Request :
            /\ Writes(q)
            /\ \/ req[q].by = creator
               \/ role[u] = "admin" /\ req[q].op = "leave" /\ req[q].by = u
               \/ role[u] = "admin" /\ req[q].op = "remove"
                                    /\ <<u, "member">> \in during[q]
    <3>1. PICK q \in Request :
            /\ Writes(q)
            /\ \/ InsertMember(q) \/ DeleteMember(q) \/ UpdateRole(q) \/ UpsertChatAvatar(q)
      BY <1>1, <2>2, LiveChange
    <3>2. Checked(q) /\ req[q].at = "write" /\ role \in [User -> Role]
      BY <1>1, <3>1 DEF IInv, Writes, TypeOK
    <3>3. ~UpsertChatAvatar(q)
      BY <2>2 DEF UpsertChatAvatar, Answer, Finish
    <3>4. u = req[q].target
      BY <1>1, <2>2, <3>1, <3>3, TargetOnly
    <3>5. CASE UpdateRole(q)
      BY <3>1, <3>2, <3>5 DEF UpdateRole, Pending, Checked
    <3>6. CASE DeleteMember(q)
      <4>1. role'[u] = "out"
        BY <3>2, <3>4, <3>6, <2>2 DEF DeleteMember, Finish
      <4>2. role[u] = "admin"
        BY <2>2, <4>1
      <4>3. QED
        BY <3>1, <3>2, <3>4, <3>6, <4>2 DEF DeleteMember, Pending, Checked
    <3>7. ~InsertMember(q)
      BY <2>2, <3>2, <3>4 DEF InsertMember, Answer, Finish
    <3>8. QED
      BY <3>1, <3>3, <3>5, <3>6, <3>7
  <2>3. QED
    BY <1>1, <2>1, <2>2
<1>2. QED
  BY <1>1, AlwaysIInv, PTL DEF Spec, AdminsManagedByCreator

-----------------------------------------------------------------------------
(***************************************************************************)
(* The limit.  Every addition that passed MemberCount is counted as if its *)
(* member were in already.                                                 *)
(***************************************************************************)
LimitInv ==
  Cardinality(Members) + Cardinality(Pending("add")) + 1
    <= MaxMembers + Cardinality(Request)

\* The sets that are counted, in this state and the next.
LEMMA Counted ==
  ASSUME TypeOK
  PROVE  /\ IsFiniteSet(Members) /\ Cardinality(Members) \in Nat
         /\ IsFiniteSet(Pending("add")) /\ Cardinality(Pending("add")) \in Nat
         /\ Cardinality(Pending("add")) <= Cardinality(Request)
         /\ Cardinality(Request) \in Nat \ {0}
<1>1. Members \in SUBSET User /\ Pending("add") \in SUBSET Request
  BY DEF Members, Pending
<1>2. Cardinality(Request) \in Nat /\ Cardinality(Request) # 0
  BY GroupAssumption, FS_CardinalityType, FS_EmptySet
<1>3. QED
  BY <1>1, <1>2, GroupAssumption, FS_Subset, FS_CardinalityType

\* Fewer members and fewer pending additions.
LEMMA LimitShrinks ==
  ASSUME TypeOK, TypeOK', LimitInv,
         Members' \subseteq Members, Pending("add")' \subseteq Pending("add")
  PROVE  LimitInv'
<1>1. /\ Cardinality(Members') <= Cardinality(Members)
      /\ Cardinality(Pending("add")') <= Cardinality(Pending("add"))
  BY Counted, FS_Subset
<1>2. /\ Cardinality(Members') \in Nat
      /\ Cardinality(Pending("add")') \in Nat
  <2>1. IsFiniteSet(Members') /\ IsFiniteSet(Pending("add")')
    BY Counted, FS_Subset
  <2>2. QED
    BY <2>1, FS_CardinalityType
<1>3. QED
  BY <1>1, <1>2, Counted, GroupAssumption DEF LimitInv

\* A request that is answered is not pending any more.
LEMMA FinishPending ==
  ASSUME TypeOK, NEW q \in Request, NEW r \in [User -> Role], Finish(q, r)
  PROVE  Pending("add")' = Pending("add") \ {q}
BY FinishType DEF Pending

LEMMA LimitStep == IInv /\ IInv' /\ LimitInv /\ [Next]_vars => LimitInv'
<1> SUFFICES ASSUME IInv, IInv', LimitInv, [Next]_vars PROVE LimitInv'
  OBVIOUS
<1> USE DEF IInv
<1>1. ASSUME NEW c \in User, NEW others \in SUBSET User, CreateGroupChat(c, others)
      PROVE  LimitInv'
  <2>1. Pending("add")' = {}
    BY <1>1 DEF CreateGroupChat, Checked, Pending
  <2>2. Members' = {c} \union others
    BY <1>1 DEF CreateGroupChat, Members
  <2>3. Cardinality(Members') <= MaxMembers /\ Cardinality(Members') \in Nat
    BY <1>1, <2>2, GroupAssumption DEF CreateGroupChat
  <2>4. QED
    BY <2>1, <2>3, Counted, FS_EmptySet, GroupAssumption DEF LimitInv
<1>2. ASSUME NEW q \in Request, NEW op \in Op, NEW by \in User, NEW target \in User,
             Begin(q, op, by, target)
      PROVE  LimitInv'
  <2>1. req' = [req EXCEPT ![q] =
          [op |-> op, by |-> by, target |-> target, at |-> First(op)]]
    BY <1>2 DEF Begin, Accept
  <2>2. op = "add" => First(op) = "IsAdmin"
    BY DEF First
  <2>3. Pending("add")' \subseteq Pending("add")
    BY <2>1, <2>2 DEF Pending, TypeOK
  <2>4. Members' = Members
    BY <1>2 DEF Begin, Accept, Members
  <2>5. QED
    BY <2>3, <2>4, LimitShrinks
<1>3. ASSUME NEW q \in Request, Answer(q) PROVE LimitInv'
  <2>1. Finish(q, role) /\ role \in [User -> Role]
    BY <1>3 DEF Answer, TypeOK
  <2>2. Members' = Members
    BY <2>1 DEF Finish, Members
  <2>3. QED
    BY <2>1, <2>2, FinishPending, LimitShrinks
<1>4. ASSUME NEW q \in Request, NEW at \in At, Go(q, at), at # "write" \/ req[q].op # "add"
      PROVE  LimitInv'
  <2>1. Members' = Members
    BY <1>4 DEF Go, Members
  <2>2. Pending("add")' \subseteq Pending("add")
    BY <1>4, GoType DEF Pending
  <2>3. QED
    BY <2>1, <2>2, LimitShrinks
<1>5. ASSUME NEW q \in Request, MemberCount(q) PROVE LimitInv'
  <2>1. CASE Answer(q)
    BY <2>1, <1>3
  <2>2. CASE Cardinality(Members) < MaxMembers /\ Go(q, "write")
    <3>1. Members' = Members
      BY <2>2 DEF Go, Members
    <3>2. Pending("add")' \in SUBSET Request
      BY DEF Pending
    <3>3. /\ Cardinality(Pending("add")') \in Nat
          /\ Cardinality(Pending("add")') <= Cardinality(Request)
      BY <3>2, GroupAssumption, FS_Subset, FS_CardinalityType
    <3>4. QED
      BY <2>2, <3>1, <3>3, Counted, GroupAssumption DEF LimitInv
  <2>3. QED
    BY <1>5, <2>1, <2>2 DEF MemberCount
<1>6. ASSUME NEW q \in Request, IsAdmin(q) PROVE LimitInv'
  <2>1. Second(req[q].op) \in At /\ (req[q].op = "add" => Second(req[q].op) # "write")
    BY DEF Second, At
  <2>2. QED
    BY <1>3, <1>4, <1>6, <2>1 DEF IsAdmin
<1>7. ASSUME NEW q \in Request, IsMember(q) \/ GetMember(q) \/ ListMembers(q) \/ GiveUp(q)
      PROVE  LimitInv'
  <2>1. Checked(q)
    OBVIOUS
  <2>2. CASE IsMember(q)
    BY <1>3, <1>4, <2>2 DEF IsMember, At
  <2>3. CASE GetMember(q)
    BY <1>3, <1>4, <2>1, <2>3 DEF GetMember, At, Checked
  <2>4. CASE ListMembers(q)
    BY <1>3, <1>4, <2>1, <2>4 DEF ListMembers, At, Checked
  <2>5. CASE GiveUp(q)
    BY <1>3, <2>5 DEF GiveUp
  <2>6. QED
    BY <1>7, <2>2, <2>3, <2>4, <2>5
<1>8. ASSUME NEW q \in Request, InsertMember(q) PROVE LimitInv'
  <2>1. CASE Answer(q)
    BY <2>1, <1>3
  <2>2. CASE Finish(q, [role EXCEPT ![req[q].target] = "member"])
    <3> DEFINE r == [role EXCEPT ![req[q].target] = "member"]
    <3>1. r \in [User -> Role] /\ q \in Pending("add")
      BY <1>8 DEF InsertMember, TypeOK, Role
    <3>2. Pending("add")' = Pending("add") \ {q}
      BY <2>2, <3>1, FinishPending
    <3>3. Members' \subseteq Members \union {req[q].target}
      BY <2>2 DEF Finish, Members, TypeOK
    <3> DEFINE m == Members \union {req[q].target}
    <3>4. IsFiniteSet(m) /\ Cardinality(m) \in Nat
          /\ Cardinality(m) <= Cardinality(Members) + 1
      <4>1. IsFiniteSet(Members) /\ Cardinality(Members) \in Nat
        BY Counted
      <4>2. QED
        BY <4>1, FS_AddElement
    <3>5. Cardinality(Members') \in Nat /\ Cardinality(Members') <= Cardinality(m)
      <4>1. Members' \in SUBSET m
        BY <3>3
      <4> HIDE DEF m
      <4>2. QED
        BY <3>4, <4>1, FS_Subset, FS_CardinalityType
    <3>6. /\ Cardinality(Pending("add")') = Cardinality(Pending("add")) - 1
          /\ Cardinality(Pending("add")') \in Nat
      <4>1. IsFiniteSet(Pending("add"))
        BY Counted
      <4>2. QED
        BY <3>1, <3>2, <4>1, FS_RemoveElement, FS_CardinalityType
    <3>7. QED
      BY <3>4, <3>5, <3>6, Counted, GroupAssumption DEF LimitInv
  <2>3. QED
    BY <1>8, <2>1, <2>2 DEF InsertMember
<1>9. ASSUME NEW q \in Request,
             DeleteMember(q) \/ UpdateRole(q) \/ DeleteChat(q) \/ UpsertChatAvatar(q)
      PROVE  LimitInv'
  <2>1. PICK r \in [User -> Role] :
          Finish(q, r) /\ \A u \in User : role[u] = "out" => r[u] = "out"
    <3>1. [u \in User |-> "out"] \in [User -> Role]
      BY DEF Role
    <3>2. CASE DeleteMember(q)
      <4>1. [role EXCEPT ![req[q].target] = "out"] \in [User -> Role]
        BY DEF TypeOK, Role
      <4>2. QED
        BY <3>2, <4>1 DEF DeleteMember, TypeOK
    <3>3. CASE UpdateRole(q)
      <4> DEFINE x == IF req[q].op = "promote" THEN "admin" ELSE "member"
      <4>1. CASE Answer(q)
        BY <4>1 DEF Answer, TypeOK
      <4>2. CASE role[req[q].target] # "out" /\ Finish(q, [role EXCEPT ![req[q].target] = x])
        <5>1. x \in Role
          BY DEF Role
        <5>2. [role EXCEPT ![req[q].target] = x] \in [User -> Role]
          BY <5>1 DEF TypeOK
        <5>3. QED
          BY <4>2, <5>2 DEF TypeOK
      <4>3. QED
        BY <3>3, <4>1, <4>2 DEF UpdateRole
    <3>4. CASE DeleteChat(q)
      BY <3>1, <3>4 DEF DeleteChat
    <3>5. CASE UpsertChatAvatar(q)
      BY <3>5 DEF UpsertChatAvatar, Answer, TypeOK
    <3>6. QED
      BY <1>9, <3>2, <3>3, <3>4, <3>5
  <2>2. Members' \subseteq Members
    BY <2>1 DEF Finish, Members
  <2>3. QED
    BY <2>1, <2>2, FinishPending, LimitShrinks
<1>10. CASE UNCHANGED vars
  BY <1>10 DEF vars, LimitInv, Members, Pending
<1>11. QED
  BY GroupAssumption, <1>1, <1>2, <1>5, <1>6, <1>7, <1>8, <1>9, <1>10 DEF Next, Step, Write

\* A group chat has at most as many members above the limit as there are
\* requests that run at the same time, less one: none without concurrency.
THEOREM LimitBounded == Spec => []LimitUpToOverlap
<1>1. Init => LimitInv
  <2> SUFFICES ASSUME Init PROVE LimitInv
    OBVIOUS
  <2>1. Members = {} /\ Pending("add") = {}
    BY DEF Init, Members, Pending, Idle
  <2>2. TypeOK
    BY InitIInv DEF IInv
  <2>3. QED
    BY <2>1, <2>2, Counted, FS_EmptySet, GroupAssumption DEF LimitInv
<1>2. IInv /\ LimitInv => LimitUpToOverlap
  <2> SUFFICES ASSUME IInv, LimitInv PROVE LimitUpToOverlap
    OBVIOUS
  <2>1. QED
    BY Counted, GroupAssumption DEF IInv, LimitInv, LimitUpToOverlap
<1>3. QED
  BY <1>1, <1>2, LimitStep, AlwaysIInv, PTL DEF Spec
=============================================================================

--------------------------- MODULE ContactsProofs ---------------------------
(***************************************************************************)
(* What a user has with another one: private chats and blocks              *)
(* (PrivateChat), for any set of users and any number of requests, and     *)
(* whether the other one is online (Presence), for any number of tabs.     *)
(***************************************************************************)
EXTENDS PrivateChat, Presence, FiniteSetTheorems, TLAPS

\* What a request has found so far.
Found(q) ==
  LET r == req[q] IN
  /\ r.at = "idle" <=> r.pair = {}
  /\ r.at # "idle" => r.pair \in Pair
  /\ r.at # "idle" => Holding(r.pair, chats, blocked) \subseteq facts[q]
  /\ r.at = "FindPrivateChat" => r.op = "create" /\ "unblocked" \in facts[q]
  /\ r.at = "write" => "unblocked" \in facts[q]
  /\ r.at = "write" /\ r.op = "create" => "chatless" \in facts[q]

\* The creations that are about to insert are counted as chats as soon as there
\* is one.
Counts(p) == chats[p] = 0 \/ chats[p] + Cardinality(Pending("create", p)) <= Cardinality(Request)

IInv ==
  /\ TypeOK
  /\ \A u \in User : <<u, u>> \notin blocked
  /\ \A q \in Request : Found(q)
  /\ \A p \in Pair : Counts(p)
  /\ BlockIsRespected
-----------------------------------------------------------------------------
\* A chat has at least one member.
LEMMA PairNotEmpty == \A p \in Pair : p # {} /\ p \in SUBSET User
BY DEF Pair

\* Nobody can be blocked in a chat of one.
LEMMA OneUserUnblocked ==
  ASSUME \A u \in User : <<u, u>> \notin blocked, NEW p \in Pair, OneUser(p)
  PROVE  ~IsBlocked(p, blocked)
<1> SUFFICES ASSUME NEW x \in p, NEW y \in p, <<x, y>> \in blocked PROVE FALSE
  BY DEF IsBlocked
<1>1. x = y /\ x \in User
  BY PairNotEmpty DEF OneUser
<1>2. QED
  BY <1>1

\* The creations about to insert are finitely many.
LEMMA PendingCount ==
  \A p \in Pair : /\ IsFiniteSet(Pending("create", p))
                  /\ Cardinality(Pending("create", p)) \in Nat
                  /\ Cardinality(Pending("create", p)) <= Cardinality(Request)
                  /\ Cardinality(Request) \in Nat \ {0}
<1>1. \A p \in Pair : Pending("create", p) \in SUBSET Request
  BY DEF Pending
<1>2. Cardinality(Request) \in Nat /\ Cardinality(Request) # 0
  BY PrivateAssumption, FS_CardinalityType, FS_EmptySet
<1>3. QED
  BY <1>1, <1>2, PrivateAssumption, FS_Subset, FS_CardinalityType

\* Fewer of them keep the count.
LEMMA CountsShrink ==
  ASSUME TypeOK, NEW p \in Pair, Counts(p), chats' = chats,
         Pending("create", p)' \subseteq Pending("create", p)
  PROVE  Counts(p)'
<1>1. Cardinality(Pending("create", p)') <= Cardinality(Pending("create", p))
  BY PendingCount, FS_Subset
<1>2. Cardinality(Pending("create", p)') \in Nat
  BY PendingCount, FS_Subset, FS_CardinalityType
<1>3. chats[p] \in Nat
  BY DEF TypeOK
<1>4. QED
  BY <1>1, <1>2, <1>3, PendingCount DEF Counts

\* A request that is answered.
LEMMA AnswerFacts ==
  ASSUME TypeOK, NEW q \in Request, Answer(q)
  PROVE  /\ req' \in [Request -> ReqState]
         /\ facts' \in [Request -> SUBSET Fact]
         /\ req'[q].at = "idle" /\ req'[q].pair = {}
         /\ \A o \in Request : o # q => req'[o] = req[o] /\ facts'[o] = facts[o]
         /\ \A p \in Pair : Pending("create", p)' = Pending("create", p) \ {q}
<1>1. Idle \in ReqState /\ Idle.at = "idle" /\ Idle.pair = {}
  BY DEF Idle, ReqState
<1>2. /\ req' \in [Request -> ReqState]
      /\ facts' \in [Request -> SUBSET Fact]
      /\ req'[q] = Idle
      /\ \A o \in Request : o # q => req'[o] = req[o] /\ facts'[o] = facts[o]
  BY <1>1 DEF TypeOK, Answer
<1>3. \A p \in Pair : Pending("create", p)' = Pending("create", p) \ {q}
  BY <1>1, <1>2 DEF Pending
<1>4. QED
  BY <1>1, <1>2, <1>3

\* A request that goes on.
LEMMA GoFacts ==
  ASSUME TypeOK, NEW q \in Request, NEW at \in {"FindPrivateChat", "write"}, Go(q, at)
  PROVE  /\ req' \in [Request -> ReqState]
         /\ facts' = facts
         /\ req'[q].at = at /\ req'[q].pair = req[q].pair /\ req'[q].op = req[q].op
         /\ \A o \in Request : o # q => req'[o] = req[o]
BY DEF TypeOK, Go, ReqState
-----------------------------------------------------------------------------
LEMMA InitIInv == Init => IInv
<1> SUFFICES ASSUME Init PROVE IInv
  OBVIOUS
<1>1. TypeOK
  BY DEF Init, TypeOK, Idle, ReqState
<1>2. \A q \in Request : Found(q)
  BY DEF Init, Found, Idle
<1>3. \A p \in Pair : Counts(p)
  BY DEF Init, Counts
<1>4. QED
  BY <1>1, <1>2, <1>3 DEF Init, IInv, BlockIsRespected

\* An answer that changes neither chats nor messages.
LEMMA AnswerStep ==
  ASSUME IInv, NEW q \in Request, Answer(q), UNCHANGED <<chats, blocked, sent>>
  PROVE  IInv'
<1>1. TypeOK'
  BY AnswerFacts DEF IInv, TypeOK
<1>2. \A o \in Request : Found(o)'
  BY AnswerFacts DEF IInv, Found
<1>3. \A p \in Pair : Counts(p)'
  BY AnswerFacts, CountsShrink DEF IInv
<1>4. QED
  BY <1>1, <1>2, <1>3 DEF IInv, BlockIsRespected

\* A request arrives.
LEMMA StartStep ==
  ASSUME IInv, NEW q \in Request, NEW p \in Pair, BeginCreate(q, p) \/ BeginSend(q, p)
  PROVE  IInv'
<1>1. /\ TypeOK /\ UNCHANGED <<chats, blocked, sent>>
      /\ facts' = [facts EXCEPT ![q] = Holding(p, chats, blocked)]
  BY DEF IInv, BeginCreate, BeginSend, Start
<1>2. PICK op \in {"create", "send"}, at \in {"IsBlocked", "FindPrivateChat", "write"} :
        /\ req' = [req EXCEPT ![q] = [op |-> op, pair |-> p, at |-> at]]
        /\ at # "IsBlocked" => OneUser(p)
        /\ op = "create" => at # "write"
        /\ op = "send" => at # "FindPrivateChat"
  <2>1. CASE BeginCreate(q, p)
    BY <2>1 DEF BeginCreate, Start
  <2>2. CASE BeginSend(q, p)
    BY <2>2 DEF BeginSend, Start
  <2>3. QED
    BY <2>1, <2>2
<1> DEFINE r == [op |-> op, pair |-> p, at |-> at]
<1>3. r \in ReqState /\ Holding(p, chats, blocked) \in SUBSET Fact
  BY DEF ReqState, Holding
<1>4. req'[q] = r /\ facts'[q] = Holding(p, chats, blocked)
  BY <1>1, <1>2 DEF TypeOK
<1>5. \A o \in Request : o # q => req'[o] = req[o] /\ facts'[o] = facts[o]
  BY <1>1, <1>2 DEF TypeOK
<1>6. TypeOK'
  <2>1. req' \in [Request -> ReqState]
    BY <1>1, <1>2, <1>3 DEF TypeOK
  <2>2. facts' \in [Request -> SUBSET Fact]
    BY <1>1, <1>3 DEF TypeOK
  <2>3. QED
    BY <1>1, <2>1, <2>2 DEF TypeOK
<1>7. Found(q)'
  <2>1. at # "IsBlocked" => "unblocked" \in Holding(p, chats, blocked)
    BY <1>2, OneUserUnblocked DEF IInv, Holding, Fact
  <2>2. QED
    BY <1>1, <1>2, <1>4, <2>1, PairNotEmpty DEF Found
<1>8. \A o \in Request : Found(o)'
  BY <1>1, <1>5, <1>7 DEF IInv, Found
<1>9. \A c \in Pair : Pending("create", c)' \subseteq Pending("create", c)
  BY <1>2, <1>4, <1>5 DEF Pending
<1>10. \A c \in Pair : Counts(c)'
  BY <1>1, <1>9, CountsShrink DEF IInv
<1>11. QED
  BY <1>1, <1>6, <1>8, <1>10 DEF IInv, BlockIsRespected

\* IsBlocked is answered, and the request goes on.
LEMMA CheckStep ==
  ASSUME IInv, NEW q \in Request, CheckBlocked(q), ~Answer(q)
  PROVE  IInv'
<1>1. /\ TypeOK /\ Found(q) /\ req[q].at = "IsBlocked"
      /\ UNCHANGED <<chats, blocked, sent>>
      /\ ~IsBlocked(req[q].pair, blocked)
  BY DEF IInv, CheckBlocked
<1>2. PICK at \in {"FindPrivateChat", "write"} :
        Go(q, at) /\ (at = "FindPrivateChat" <=> req[q].op = "create")
  BY DEF CheckBlocked
<1>3. "unblocked" \in facts[q]
  BY <1>1 DEF Found, Holding, Fact
<1>4. TypeOK'
  BY <1>1, <1>2, GoFacts DEF TypeOK
<1>5. Found(q)'
  <2>1. /\ req'[q].at = at /\ req'[q].pair = req[q].pair /\ req'[q].op = req[q].op
        /\ facts' = facts
    BY <1>1, <1>2, GoFacts
  <2>2. at = "FindPrivateChat" \/ req[q].op # "create"
    BY <1>2
  <2>3. QED
    BY <1>1, <1>2, <1>3, <2>1, <2>2 DEF Found
<1>6. \A o \in Request : Found(o)'
  BY <1>1, <1>2, <1>5, GoFacts DEF IInv, Found
<1>7. \A p \in Pair : Pending("create", p)' \subseteq Pending("create", p)
  BY <1>1, <1>2, GoFacts DEF Pending
<1>8. \A p \in Pair : Counts(p)'
  BY <1>1, <1>7, CountsShrink DEF IInv
<1>9. QED
  BY <1>1, <1>4, <1>6, <1>8 DEF IInv, BlockIsRespected

\* FindPrivateChat finds nothing, and the request goes on.
LEMMA FindStep ==
  ASSUME IInv, NEW q \in Request, FindPrivateChat(q), ~Answer(q)
  PROVE  IInv'
<1> DEFINE c == req[q].pair
<1>1. /\ TypeOK /\ Found(q) /\ req[q].at = "FindPrivateChat"
      /\ UNCHANGED <<chats, blocked, sent>>
      /\ Go(q, "write") /\ ~(chats[c] > 0)
  BY DEF IInv, FindPrivateChat
<1>2. c \in Pair /\ chats[c] = 0
  BY <1>1 DEF Found, TypeOK
<1>3. "chatless" \in facts[q]
  BY <1>1, <1>2 DEF Found, Holding, Fact
<1>4. TypeOK'
  BY <1>1, GoFacts DEF TypeOK
<1>5. Found(q)'
  BY <1>1, <1>3, GoFacts DEF Found
<1>6. \A o \in Request : Found(o)'
  BY <1>1, <1>5, GoFacts DEF IInv, Found
<1>7. \A p \in Pair : p # c => Pending("create", p)' \subseteq Pending("create", p)
  BY <1>1, GoFacts DEF Pending
<1>8. \A p \in Pair : Counts(p)'
  <2>1. \A p \in Pair : p # c => Counts(p)'
    BY <1>1, <1>7, CountsShrink DEF IInv
  <2>2. Counts(c)'
    BY <1>1, <1>2, GoFacts DEF Counts
  <2>3. QED
    BY <1>1, <2>1, <2>2, GoFacts
<1>9. QED
  BY <1>1, <1>4, <1>6, <1>8 DEF IInv, BlockIsRespected

\* A chat is made.
LEMMA InsertChatStep ==
  ASSUME IInv, NEW q \in Request, InsertChat(q)
  PROVE  IInv'
<1>1. PICK p \in Pair : q \in Pending("create", p) /\ chats' = [chats EXCEPT ![p] = @ + 1]
  BY DEF InsertChat
<1>2. TypeOK /\ Answer(q) /\ UNCHANGED <<blocked, sent>>
  BY DEF IInv, InsertChat
<1>3. chats' \in [Pair -> Nat] /\ chats'[p] = chats[p] + 1
  BY <1>1, <1>2 DEF TypeOK
<1>4. \A c \in Pair : c # p => chats'[c] = chats[c]
  BY <1>1, <1>2 DEF TypeOK
<1>5. TypeOK'
  BY <1>2, <1>3, AnswerFacts DEF TypeOK
<1>6. \A o \in Request : Found(o)'
  <2> SUFFICES ASSUME NEW o \in Request, o # q PROVE Found(o)'
    BY <1>2, AnswerFacts DEF Found
  <2>1. req'[o] = req[o] /\ facts'[o] = facts[o] /\ Found(o)
    BY <1>2, AnswerFacts DEF IInv
  <2>2. \A c \in Pair : chats'[c] = 0 => chats[c] = 0
    BY <1>2, <1>3, <1>4 DEF TypeOK
  <2>3. \A c \in Pair : Holding(c, chats', blocked') \subseteq Holding(c, chats, blocked)
    BY <1>2, <2>2 DEF Holding
  <2>4. QED
    BY <2>1, <2>3 DEF Found
<1>7. \A c \in Pair : Counts(c)'
  <2>1. ASSUME NEW c \in Pair, c # p PROVE Counts(c)'
    <3>1. Pending("create", c)' = Pending("create", c)
      BY <1>1, <1>2, <2>1, AnswerFacts DEF Pending
    <3>2. QED
      BY <1>4, <2>1, <3>1 DEF IInv, Counts
  <2>2. Counts(p)'
    <3>1. Cardinality(Pending("create", p)') = Cardinality(Pending("create", p)) - 1
      <4>1. Pending("create", p)' = Pending("create", p) \ {q}
        BY <1>2, AnswerFacts
      <4>2. IsFiniteSet(Pending("create", p))
        BY PendingCount
      <4>3. QED
        BY <1>1, <4>1, <4>2, FS_RemoveElement
    <3>2. Counts(p) /\ chats[p] \in Nat
      BY <1>2 DEF IInv, TypeOK
    <3>3. QED
      BY <1>3, <3>1, <3>2, PendingCount DEF Counts
  <2>3. QED
    BY <2>1, <2>2
<1>8. QED
  BY <1>2, <1>5, <1>6, <1>7 DEF IInv, BlockIsRespected

\* A message is stored.
LEMMA InsertMessageStep ==
  ASSUME IInv, NEW q \in Request, InsertMessage(q)
  PROVE  IInv'
<1>1. PICK p \in Pair : /\ q \in Pending("send", p)
                        /\ sent' = sent \union {[to |-> p, facts |-> facts[q]]}
  BY DEF InsertMessage
<1>2. TypeOK /\ Found(q) /\ Answer(q) /\ UNCHANGED <<chats, blocked>>
  BY DEF IInv, InsertMessage
<1>3. "unblocked" \in facts[q]
  BY <1>1, <1>2 DEF Found, Pending
<1>4. sent' \in SUBSET Message
  BY <1>1, <1>2 DEF TypeOK, Message
<1>5. TypeOK'
  BY <1>2, <1>4, AnswerFacts DEF TypeOK
<1>6. \A o \in Request : Found(o)'
  BY <1>2, AnswerFacts DEF IInv, Found
<1>7. \A c \in Pair : Counts(c)'
  BY <1>2, AnswerFacts, CountsShrink DEF IInv
<1>8. BlockIsRespected'
  BY <1>1, <1>3 DEF IInv, BlockIsRespected
<1>9. QED
  BY <1>2, <1>5, <1>6, <1>7, <1>8 DEF IInv

\* Blocks come and go.
LEMMA BlockStep ==
  ASSUME IInv, NEW a \in User, NEW b \in User, BlockUser(a, b) \/ UnblockUser(a, b)
  PROVE  IInv'
<1>1. TypeOK /\ UNCHANGED <<chats, sent, req>>
  BY DEF IInv, BlockUser, UnblockUser
<1>2. blocked' \in SUBSET (User \X User) /\ \A u \in User : <<u, u>> \notin blocked'
  BY <1>1 DEF IInv, TypeOK, BlockUser, UnblockUser
<1>3. facts' \in [Request -> SUBSET Fact]
  BY <1>1 DEF TypeOK, BlockUser, UnblockUser, Holding
<1>4. TypeOK'
  BY <1>1, <1>2, <1>3 DEF TypeOK
<1>5. \A o \in Request : Found(o)'
  <2> SUFFICES ASSUME NEW o \in Request PROVE Found(o)'
    OBVIOUS
  <2>1. Found(o) /\ req'[o] = req[o] /\ chats' = chats
    BY <1>1 DEF IInv
  <2>2. CASE BlockUser(a, b)
    <3>1. facts'[o] = facts[o] /\ blocked \subseteq blocked'
      BY <2>2 DEF BlockUser
    <3>2. Holding(req[o].pair, chats, blocked') \subseteq Holding(req[o].pair, chats, blocked)
      BY <3>1 DEF Holding, IsBlocked
    <3>3. QED
      BY <2>1, <3>1, <3>2 DEF Found
  <2>3. CASE UnblockUser(a, b)
    <3>1. req[o].at # "idle" =>
            /\ facts[o] \subseteq facts'[o]
            /\ Holding(req[o].pair, chats, blocked') \subseteq facts'[o]
      BY <2>3 DEF UnblockUser
    <3>2. QED
      BY <2>1, <3>1 DEF Found
  <2>4. QED
    BY <2>2, <2>3
<1>6. \A p \in Pair : Counts(p)'
  BY <1>1 DEF IInv, Counts, Pending
<1>7. QED
  BY <1>1, <1>2, <1>4, <1>5, <1>6 DEF IInv, BlockIsRespected

\* Every step keeps the invariant.
LEMMA NextIInv == IInv /\ [Next]_vars => IInv'
<1> SUFFICES ASSUME IInv, [Next]_vars PROVE IInv'
  OBVIOUS
<1>1. ASSUME NEW q \in Request, Step(q) PROVE IInv'
  <2>1. CASE CheckBlocked(q)
    BY <2>1, AnswerStep, CheckStep DEF CheckBlocked
  <2>2. CASE FindPrivateChat(q)
    BY <2>2, AnswerStep, FindStep DEF FindPrivateChat
  <2>3. CASE GiveUp(q)
    BY <2>3, AnswerStep DEF GiveUp
  <2>4. QED
    BY <1>1, <2>1, <2>2, <2>3, StartStep, InsertChatStep, InsertMessageStep DEF Step
<1>2. CASE UNCHANGED vars
  BY <1>2 DEF vars, IInv, TypeOK, Found, Counts, Pending, BlockIsRespected
<1>3. QED
  BY <1>1, <1>2, BlockStep DEF Next

LEMMA AlwaysIInv == Spec => []IInv
BY InitIInv, NextIInv, PTL DEF Spec
-----------------------------------------------------------------------------
\* Every variable keeps its type.
THEOREM TypeCorrect == Spec => []TypeOK
BY AlwaysIInv, PTL DEF IInv

\* Two users get at most as many private chats as requests ran at once.
THEOREM DuplicatesBounded == Spec => []DuplicatesUpToOverlap
<1>1. IInv => DuplicatesUpToOverlap
  <2> SUFFICES ASSUME IInv, NEW p \in Pair PROVE chats[p] <= Cardinality(Request)
    BY DEF DuplicatesUpToOverlap
  <2>1. Counts(p) /\ chats[p] \in Nat
    BY DEF IInv, TypeOK
  <2>2. QED
    BY <2>1, PendingCount DEF Counts
<1>2. QED
  BY <1>1, AlwaysIInv, PTL

\* No message is stored between users one of whom blocked the other all the
\* time its request ran.
THEOREM BlocksRespected == Spec => []BlockIsRespected
<1>1. IInv => BlockIsRespected
  BY DEF IInv
<1>2. QED
  BY <1>1, AlwaysIInv, PTL

\* No chat is made by a request whose users had one, or blocked each other, all
\* the time it ran.
THEOREM ChatsMadeIfFree == Spec => ChatMadeOnlyIfFree
<1> DEFINE P == \A p \in Pair : chats'[p] # chats[p] =>
        \E q \in Pending("create", p) : facts[q] = Fact /\ req'[q].at = "idle"
<1>1. ASSUME IInv, [Next]_vars PROVE [P]_vars
  <2>1. CASE UNCHANGED vars
    BY <2>1
  <2>2. ASSUME Next, NEW p \in Pair, chats'[p] # chats[p]
        PROVE  \E q \in Pending("create", p) : facts[q] = Fact /\ req'[q].at = "idle"
    <3>1. PICK q \in Request : InsertChat(q)
      BY <2>2 DEF Next, Step, BeginCreate, BeginSend, CheckBlocked, FindPrivateChat,
                  InsertMessage, GiveUp, BlockUser, UnblockUser
    <3>2. q \in Pending("create", p)
      BY <1>1, <2>2, <3>1 DEF InsertChat, IInv, TypeOK
    <3>3. "unblocked" \in facts[q] /\ "chatless" \in facts[q] /\ facts[q] \subseteq Fact
      BY <1>1, <3>1, <3>2 DEF IInv, TypeOK, Found, Pending
    <3>4. req'[q].at = "idle"
      BY <1>1, <3>1, AnswerFacts DEF IInv, InsertChat
    <3>5. QED
      BY <3>2, <3>3, <3>4 DEF Fact
  <2>3. QED
    BY <1>1, <2>1, <2>2
<1>2. QED
  BY <1>1, AlwaysIInv, PTL DEF Spec, ChatMadeOnlyIfFree
-----------------------------------------------------------------------------
(***************************************************************************)
(* Who is online (Presence), for any number of tabs and gateways and any   *)
(* life of the key.                                                        *)
(***************************************************************************)

\* What is on its way to a gateway was sent in this period, by somebody who looked
\* or by a tab that connected.
FramesFresh == \A c \in Tab : conn[c] \in Gateway /\ wire[c] # <<>> => idle = 0

\* So the key lives no longer than TTL after that.
KeyYoung == ttl > 0 => ttl + idle <= TTL

\* What the worker knows of the message that it handles, or has handled.
JobKnows ==
  /\ job.at = "asked" /\ job.online => job.recent
  /\ job.at \in {"handled", "done"} => job.pushed \/ job.failed \/ (job.online /\ job.recent)

\* In a calm period only heartbeats are on their way, they are the same in each, and
\* the key is set by them or grows older.
Heard ==
  calm > 0 =>
    /\ air \subseteq {Truth}
    /\ \A c \in Tab : conn[c] \in Gateway =>
         wire[c] = <<>> \/ (focus[c] /\ wire[c] = <<"active">>)
    /\ Truth => ttl = TTL \/ \E c \in Tab : Present(c) /\ wire[c] # <<>>
    /\ Truth /\ calm > 1 => ttl >= TTL - 1
    /\ ~Truth => ttl = 0 \/ ttl + calm <= TTL

\* After TTL of them the key is right, and whoever asks is told so.
Told ==
  calm >= TTL =>
    /\ answer \subseteq {Truth}
    /\ polled => Truth \in answer \/ shown = Truth

PresenceInv ==
  PresenceTypeOK /\ FramesFresh /\ KeyYoung /\ JobKnows /\ Heard /\ Told /\ SettledIsRight

LEMMA InitPresence == PresenceInit => PresenceInv
<1> SUFFICES ASSUME PresenceInit PROVE PresenceInv
  OBVIOUS
<1>1. PresenceTypeOK
  <2>1. wire \in [Tab -> Seq(Frame)]
    BY DEF PresenceInit, Activity, Frame
  <2>2. calm \in 0 .. (TTL + 1) /\ idle \in 0 .. (TTL + 1) /\ ttl \in 0 .. TTL
        /\ trouble \in 0 .. MaxTrouble
    BY PresenceAssumption DEF PresenceInit
  <2> QED BY <2>1, <2>2 DEF PresenceInit, PresenceTypeOK, Job
<1>2. FramesFresh /\ KeyYoung /\ JobKnows
  BY PresenceAssumption DEF PresenceInit, FramesFresh, KeyYoung, JobKnows
<1>3. Heard /\ Told /\ SettledIsRight
  BY PresenceAssumption DEF PresenceInit, Heard, Told, SettledIsRight
<1> QED BY <1>1, <1>2, <1>3 DEF PresenceInv

\* What a tab sends is a frame more, or none.
LEMMA SentType ==
  ASSUME PresenceTypeOK, NEW c \in Tab, NEW f \in Frame
  PROVE  Sent(c, f) \in Seq(Frame) /\ (Sent(c, f) = wire[c] \/ Sent(c, f) = Append(wire[c], f))
<1>1. wire[c] \in Seq(Frame)
  BY DEF PresenceTypeOK
<1>2. Append(wire[c], f) \in Seq(Frame)
  BY <1>1
<1> QED BY <1>1, <1>2 DEF Sent

LEMMA TickTimes ==
  ASSUME PresenceTypeOK
  PROVE  /\ Expired \in 0 .. TTL /\ (ttl > 0 => Expired = ttl - 1) /\ (ttl = 0 => Expired = 0)
         /\ \A n \in 0 .. (TTL + 1) :
              /\ Older(n) \in 1 .. (TTL + 1)
              /\ n <= TTL => Older(n) = n + 1
              /\ n > TTL => Older(n) = n
BY PresenceAssumption DEF PresenceTypeOK, Expired, Older
-----------------------------------------------------------------------------
\* Steps that disturb: nothing is claimed of the periods before them.
LEMMA Disturbed ==
  ASSUME PresenceTypeOK, calm' = 0
  PROVE  (Heard /\ Told /\ SettledIsRight)'
BY PresenceAssumption DEF Heard, Told, SettledIsRight

\* The worker does nothing that the others notice.
LEMMA OthersKept ==
  ASSUME PresenceInv, UNCHANGED <<tabVars, ttl, dead, leaving, readerVars, calm, idle>>
  PROVE  (FramesFresh /\ KeyYoung /\ Heard /\ Told /\ SettledIsRight)'
BY DEF PresenceInv, tabVars, readerVars, FramesFresh, KeyYoung, Heard, Told, SettledIsRight,
       Truth, Present

\* A tab gets or loses the focus.
LEMMA LookStep ==
  ASSUME PresenceInv, NEW c \in Tab, Look(c)
  PROVE  PresenceInv'
<1>1. PresenceTypeOK /\ calm' = 0 /\ idle' = 0
      /\ UNCHANGED <<conn, ttl, dead, leaving, air, polled, answer, shown, job>>
  BY DEF PresenceInv, Look, readerVars
<1>2. focus' \in [Tab -> BOOLEAN]
  BY <1>1 DEF PresenceTypeOK, Look
<1>3. Activity(focus'[c]) \in Frame
  BY DEF Activity, Frame
<1>4. wire' \in [Tab -> Seq(Frame)]
  BY <1>1, <1>3, SentType DEF Look, PresenceTypeOK
<1>5. trouble' \in 0 .. MaxTrouble
  BY <1>1, PresenceAssumption DEF Look, Trouble, PresenceTypeOK
<1>6. PresenceTypeOK'
  BY <1>1, <1>2, <1>4, <1>5, PresenceAssumption DEF PresenceTypeOK
<1>7. (FramesFresh /\ KeyYoung /\ JobKnows)'
  BY <1>1, PresenceAssumption DEF PresenceInv, PresenceTypeOK, FramesFresh, KeyYoung, JobKnows
<1> QED BY <1>1, <1>6, <1>7, Disturbed DEF PresenceInv

\* A tab is closed, loses its connection, or notices that it did.
LEMMA LossStep ==
  ASSUME PresenceInv, NEW c \in Tab, CloseTab(c) \/ Break(c) \/ Notice(c)
  PROVE  PresenceInv'
<1>1. PresenceTypeOK /\ calm' = 0 /\ UNCHANGED <<ttl, leaving, air, polled, answer, shown, job, idle>>
  BY DEF PresenceInv, CloseTab, Break, Notice, readerVars
<1>2. PICK k \in {Closed, Stuck, Offline} : conn' = [conn EXCEPT ![c] = k]
  BY DEF CloseTab, Break, Notice
<1>3. wire' \in [Tab -> Seq(Frame)] /\ focus' \in [Tab -> BOOLEAN]
  <2>1. <<>> \in Seq(Frame)
    OBVIOUS
  <2>2. wire' \in [Tab -> Seq(Frame)]
    BY <1>1, <2>1 DEF PresenceTypeOK, CloseTab, Break, Notice
  <2>3. focus' \in [Tab -> BOOLEAN]
    BY <1>1 DEF PresenceTypeOK, CloseTab, Break, Notice
  <2> QED BY <2>2, <2>3
<1>4. dead' \in [Gateway -> Nat]
  BY <1>1 DEF PresenceTypeOK, CloseTab, Break, Notice, Broken
<1>5. trouble' \in 0 .. MaxTrouble
  BY <1>1, PresenceAssumption DEF CloseTab, Break, Notice, Trouble, PresenceTypeOK
<1>6. PresenceTypeOK'
  <2>1. conn' \in [Tab -> Gateway \union {Offline, Stuck, Closed}]
    BY <1>1, <1>2 DEF PresenceTypeOK
  <2>2. calm' \in 0 .. (TTL + 1)
    BY <1>1, PresenceAssumption
  <2> QED BY <1>1, <1>3, <1>4, <1>5, <2>1, <2>2 DEF PresenceTypeOK
<1>7. \A d \in Tab : d # c => wire'[d] = wire[d] /\ conn'[d] = conn[d]
  BY <1>1, <1>2 DEF PresenceTypeOK, CloseTab, Break, Notice
<1>8. conn'[c] \notin Gateway
  BY <1>1, <1>2, PresenceAssumption DEF PresenceTypeOK
<1>9. (FramesFresh /\ KeyYoung /\ JobKnows)'
  BY <1>1, <1>7, <1>8 DEF PresenceInv, FramesFresh, KeyYoung, JobKnows
<1> QED BY <1>1, <1>6, <1>9, Disturbed DEF PresenceInv

\* A tab connects.
LEMMA ConnectStep ==
  ASSUME PresenceInv, NEW c \in Tab, NEW g \in Gateway, Connect(c, g)
  PROVE  PresenceInv'
<1>1. PresenceTypeOK /\ calm' = 0 /\ idle' = 0
      /\ UNCHANGED <<focus, wire, ttl, dead, leaving, air, polled, answer, shown, job, trouble>>
  BY DEF PresenceInv, Connect, readerVars
<1>2. conn' \in [Tab -> Gateway \union {Offline, Stuck, Closed}]
  BY <1>1 DEF PresenceTypeOK, Connect
<1>3. PresenceTypeOK'
  BY <1>1, <1>2, PresenceAssumption DEF PresenceTypeOK
<1>4. (FramesFresh /\ KeyYoung /\ JobKnows)'
  BY <1>1, PresenceAssumption DEF PresenceInv, PresenceTypeOK, FramesFresh, KeyYoung, JobKnows
<1> QED BY <1>1, <1>3, <1>4, Disturbed DEF PresenceInv

\* A session is removed, and marks the user offline if it was the last.
LEMMA LeaveStep ==
  ASSUME PresenceInv, MarkOffline \/ \E g \in Gateway : Remove(g)
  PROVE  PresenceInv'
<1>1. PresenceTypeOK /\ calm' = 0 /\ UNCHANGED <<focus, conn, wire, polled, answer, shown, job, idle>>
  BY DEF PresenceInv, MarkOffline, Remove, SetOffline, tabVars, readerVars
<1>2. ttl' = ttl \/ ttl' = 0
  BY DEF MarkOffline, Remove, SetOffline
<1>3. air' \in SUBSET BOOLEAN
  <2>1. air' = air \/ air' = air \union {FALSE}
    BY DEF MarkOffline, Remove, SetOffline, readerVars
  <2>2. air \in SUBSET BOOLEAN
    BY <1>1 DEF PresenceTypeOK
  <2> QED BY <2>1, <2>2
<1>4. leaving' \in Nat
  BY <1>1 DEF MarkOffline, Remove, PresenceTypeOK
<1>5. dead' \in [Gateway -> Nat]
  BY <1>1 DEF MarkOffline, Remove, PresenceTypeOK
<1>6. trouble' \in 0 .. MaxTrouble
  BY <1>1, PresenceAssumption DEF MarkOffline, Remove, Trouble, PresenceTypeOK
<1>7. PresenceTypeOK'
  BY <1>1, <1>2, <1>3, <1>4, <1>5, <1>6, PresenceAssumption DEF PresenceTypeOK
<1>8. (FramesFresh /\ KeyYoung /\ JobKnows)'
  BY <1>1, <1>2 DEF PresenceInv, FramesFresh, KeyYoung, JobKnows
<1> QED BY <1>1, <1>7, <1>8, Disturbed DEF PresenceInv

\* A gateway reads a frame.
LEMMA HandleStep ==
  ASSUME PresenceInv, NEW c \in Tab, Handle(c)
  PROVE  PresenceInv'
<1>1. PresenceTypeOK /\ FramesFresh /\ KeyYoung /\ JobKnows /\ Heard /\ Told /\ SettledIsRight
      /\ conn[c] \in Gateway /\ wire[c] # <<>> /\ wire' = [wire EXCEPT ![c] = Tail(@)]
      /\ UNCHANGED <<focus, conn, dead, leaving, polled, answer, shown, job, idle>>
  BY DEF PresenceInv, Handle
<1>2. wire[c] \in Seq(Frame) /\ Tail(wire[c]) \in Seq(Frame)
  BY <1>1 DEF PresenceTypeOK
<1>3. wire' \in [Tab -> Seq(Frame)] /\ wire'[c] = Tail(wire[c])
      /\ \A d \in Tab : d # c => wire'[d] = wire[d]
  BY <1>1, <1>2 DEF PresenceTypeOK
<1>4. idle = 0
  BY <1>1 DEF FramesFresh
<1>5. (FramesFresh /\ JobKnows)'
  BY <1>1, <1>3, <1>4 DEF FramesFresh, JobKnows
<1>6. CASE SetOnline /\ UNCHANGED <<trouble, calm>>
  <2>1. ttl' = TTL /\ air' = air \union {TRUE} /\ calm' = calm /\ trouble' = trouble
    BY <1>6 DEF SetOnline
  <2>2. PresenceTypeOK'
    <3>1. air' \in SUBSET BOOLEAN
      BY <1>1, <2>1 DEF PresenceTypeOK
    <3>2. ttl' \in 0 .. TTL
      BY <2>1, PresenceAssumption
    <3> QED BY <1>1, <1>3, <2>1, <3>1, <3>2 DEF PresenceTypeOK
  <2>3. KeyYoung'
    BY <1>1, <1>4, <2>1, PresenceAssumption DEF KeyYoung
  <2>4. Truth' = Truth /\ \A d \in Tab : Present(d)' = Present(d)
    BY <1>1 DEF Truth, Present
  <2>5. Heard' /\ Told' /\ SettledIsRight'
    <3>1. CASE calm = 0
      BY <1>1, <2>1, <3>1, Disturbed
    <3>2. CASE calm > 0
      <4>1. focus[c] /\ wire[c] = <<"active">>
        BY <1>1, <3>2 DEF Heard
      <4>2. Truth = TRUE
        BY <1>1, <4>1 DEF Truth, Present
      <4>3. Tail(wire[c]) = <<>>
        BY <4>1
      <4>4. \A d \in Tab : conn[d] \in Gateway => wire'[d] = <<>> \/ (focus[d] /\ wire'[d] = <<"active">>)
        BY <1>1, <1>3, <3>2, <4>3 DEF Heard
      <4>5. Heard'
        <5>1. air \subseteq {Truth}
          BY <1>1, <3>2 DEF Heard
        <5>2. air' \subseteq {Truth'}
          BY <2>1, <2>4, <4>2, <5>1
        <5>3. ttl' = TTL /\ ttl' >= TTL - 1
          BY <2>1, PresenceAssumption
        <5>4. Truth'
          BY <2>4, <4>2
        <5>5. \A d \in Tab : conn'[d] \in Gateway
                => wire'[d] = <<>> \/ (focus'[d] /\ wire'[d] = <<"active">>)
          BY <1>1, <4>4
        <5> QED BY <5>2, <5>3, <5>4, <5>5 DEF Heard
      <4> QED BY <1>1, <2>1, <2>4, <4>5 DEF Told, SettledIsRight
    <3> QED BY <1>1, <3>1, <3>2 DEF PresenceTypeOK
  <2> QED BY <1>5, <2>2, <2>3, <2>5 DEF PresenceInv
<1>7. CASE calm' = 0 /\ (ttl' = ttl \/ ttl' = 0) /\ air' \in SUBSET BOOLEAN /\ trouble' \in 0 .. MaxTrouble
  <2>1. PresenceTypeOK'
    BY <1>1, <1>3, <1>7, PresenceAssumption DEF PresenceTypeOK
  <2>2. KeyYoung'
    BY <1>1, <1>7 DEF KeyYoung
  <2> QED BY <1>1, <1>5, <1>7, <2>1, <2>2, Disturbed DEF PresenceInv
<1>8. CASE SetOffline /\ UNCHANGED trouble
  BY <1>1, <1>7, <1>8 DEF SetOffline, PresenceTypeOK
<1>9. CASE Trouble /\ calm' = 0 /\ UNCHANGED <<ttl, air>>
  BY <1>1, <1>7, <1>9, PresenceAssumption DEF Trouble, PresenceTypeOK
<1> QED BY <1>6, <1>8, <1>9 DEF Handle

\* What is announced reaches the watcher, or does not.
LEMMA AnnouncedStep ==
  ASSUME PresenceInv, NEW b \in BOOLEAN, Announced(b)
  PROVE  PresenceInv'
<1>1. PresenceTypeOK /\ FramesFresh /\ KeyYoung /\ JobKnows /\ Heard /\ Told /\ SettledIsRight
      /\ b \in air /\ air' = air \ {b} /\ shown' \in {shown, b}
      /\ UNCHANGED <<focus, conn, wire, ttl, dead, leaving, polled, answer, job, trouble, calm, idle>>
  BY DEF PresenceInv, Announced, tabVars
<1>2. PresenceTypeOK'
  BY <1>1 DEF PresenceTypeOK
<1>3. Truth' = Truth /\ \A d \in Tab : Present(d)' = Present(d)
  BY <1>1 DEF Truth, Present
<1>4. FramesFresh' /\ KeyYoung' /\ JobKnows'
  BY <1>1 DEF FramesFresh, KeyYoung, JobKnows
<1>5. calm > 0 => b = Truth
  BY <1>1 DEF Heard
<1>6. Heard'
  <2> SUFFICES ASSUME calm' > 0 PROVE Heard'
    BY DEF Heard
  <2>1. calm > 0 /\ air' \subseteq {Truth'}
    BY <1>1, <1>3 DEF Heard
  <2> QED BY <1>1, <1>3, <2>1 DEF Heard
<1>7. Told'
  BY <1>1, <1>3, <1>5, PresenceAssumption DEF Told, PresenceTypeOK
<1>8. SettledIsRight'
  BY <1>1, <1>3, <1>5, PresenceAssumption DEF SettledIsRight, PresenceTypeOK
<1> QED BY <1>2, <1>4, <1>6, <1>7, <1>8 DEF PresenceInv

\* The key is right after TTL calm periods.
LEMMA KeyIsRight ==
  ASSUME PresenceTypeOK, Heard, calm >= TTL
  PROVE  Online = Truth
<1>1. calm > 0 /\ calm > 1 /\ ttl \in 0 .. TTL /\ TTL - 1 > 0 /\ calm \in 0 .. (TTL + 1)
  BY PresenceAssumption DEF PresenceTypeOK
<1>2. CASE Truth
  <2>1. ttl >= TTL - 1
    BY <1>1, <1>2 DEF Heard
  <2>2. ttl > 0
    BY <1>1, <2>1, PresenceAssumption
  <2> QED BY <1>2, <2>2 DEF Online, Truth
<1>3. CASE ~Truth
  <2>1. ttl = 0 \/ ttl + calm <= TTL
    BY <1>1, <1>3 DEF Heard
  <2>2. ~(ttl > 0)
    BY <1>1, <2>1, PresenceAssumption
  <2>3. Online = FALSE
    BY <2>2 DEF Online
  <2>4. Truth = FALSE
    BY <1>3 DEF Truth
  <2> QED BY <2>3, <2>4
<1> QED BY <1>2, <1>3 DEF Truth, Online

\* The watcher asks.
LEMMA AskStep ==
  ASSUME PresenceInv, Ask
  PROVE  PresenceInv'
<1>1. PresenceTypeOK /\ FramesFresh /\ KeyYoung /\ JobKnows /\ Heard /\ Told /\ SettledIsRight
      /\ polled' = TRUE
      /\ UNCHANGED <<focus, conn, wire, ttl, dead, leaving, air, shown, job, idle>>
  BY DEF PresenceInv, Ask, tabVars
<1>2. FramesFresh' /\ KeyYoung' /\ JobKnows'
  BY <1>1 DEF FramesFresh, KeyYoung, JobKnows
<1>3. Online \in BOOLEAN
  BY DEF Online
<1>4. CASE answer' = answer \union {Online} /\ UNCHANGED <<trouble, calm>>
  <2>1. PresenceTypeOK'
    <3>1. answer' \in SUBSET BOOLEAN
      BY <1>1, <1>3, <1>4 DEF PresenceTypeOK
    <3> QED BY <1>1, <1>4, <3>1 DEF PresenceTypeOK
  <2>2. Truth' = Truth /\ \A d \in Tab : Present(d)' = Present(d)
    BY <1>1 DEF Truth, Present
  <2>3. Heard' /\ SettledIsRight'
    BY <1>1, <1>4, <2>2 DEF Heard, SettledIsRight
  <2>4. Told'
    <3>1. calm >= TTL => Online = Truth
      BY <1>1, KeyIsRight
    <3> QED BY <1>1, <1>4, <2>2, <3>1 DEF Told
  <2> QED BY <1>2, <2>1, <2>3, <2>4 DEF PresenceInv
<1>5. CASE Trouble /\ calm' = 0 /\ UNCHANGED answer
  <2>1. trouble' \in 0 .. MaxTrouble
    BY <1>1, <1>5, PresenceAssumption DEF Trouble, PresenceTypeOK
  <2>2. PresenceTypeOK'
    BY <1>1, <1>5, <2>1, PresenceAssumption DEF PresenceTypeOK
  <2> QED BY <1>1, <1>2, <1>5, <2>2, Disturbed DEF PresenceInv
<1> QED BY <1>4, <1>5 DEF Ask

\* The watcher gets an answer.
LEMMA ShowStep ==
  ASSUME PresenceInv, NEW b \in BOOLEAN, Show(b)
  PROVE  PresenceInv'
<1>1. PresenceTypeOK /\ FramesFresh /\ KeyYoung /\ JobKnows /\ Heard /\ Told /\ SettledIsRight
      /\ b \in answer /\ answer' = answer \ {b} /\ shown' = b
      /\ UNCHANGED <<focus, conn, wire, ttl, dead, leaving, air, polled, job, trouble, calm, idle>>
  BY DEF PresenceInv, Show, tabVars
<1>2. PresenceTypeOK'
  BY <1>1 DEF PresenceTypeOK
<1>3. Truth' = Truth /\ \A d \in Tab : Present(d)' = Present(d)
  BY <1>1 DEF Truth, Present
<1>4. FramesFresh' /\ KeyYoung' /\ JobKnows'
  BY <1>1 DEF FramesFresh, KeyYoung, JobKnows
<1>5. Heard'
  BY <1>1, <1>3 DEF Heard
<1>6. calm >= TTL => b = Truth
  BY <1>1 DEF Told
<1>7. Told'
  BY <1>1, <1>3, <1>6 DEF Told
<1>8. SettledIsRight'
  BY <1>1, <1>3, <1>6, PresenceAssumption DEF SettledIsRight, PresenceTypeOK
<1> QED BY <1>2, <1>4, <1>5, <1>7, <1>8 DEF PresenceInv

\* The worker handles the event, or gets it again.
LEMMA WorkerStep ==
  ASSUME PresenceInv, HandleMessageCreated \/ Push \/ Ack \/ Redeliver
  PROVE  PresenceInv'
<1>1. PresenceTypeOK /\ KeyYoung /\ JobKnows /\ job \in Job
      /\ UNCHANGED <<tabVars, ttl, dead, leaving, readerVars, calm, idle>>
  BY DEF PresenceInv, PresenceTypeOK, HandleMessageCreated, Push, Ack, Redeliver
<1>2. Online \in BOOLEAN /\ (Online => idle <= TTL)
  BY <1>1, PresenceAssumption DEF Online, KeyYoung, PresenceTypeOK
<1>3. job' \in Job
  <2>1. CASE HandleMessageCreated
    BY <1>1, <1>2, <2>1 DEF HandleMessageCreated, Job
  <2>2. CASE Push
    BY <1>1, <2>2 DEF Push, Job
  <2>3. CASE Ack \/ Redeliver
    BY <1>1, <2>3 DEF Ack, Redeliver, Job
  <2> QED BY <2>1, <2>2, <2>3
<1>4. trouble' \in 0 .. MaxTrouble
  BY <1>1, PresenceAssumption DEF HandleMessageCreated, Push, Ack, Redeliver, Trouble, PresenceTypeOK
<1>5. PresenceTypeOK'
  BY <1>1, <1>3, <1>4 DEF PresenceTypeOK, tabVars, readerVars
<1>6. JobKnows'
  <2>1. CASE HandleMessageCreated
    BY <1>1, <1>2, <2>1 DEF HandleMessageCreated, Job, JobKnows
  <2>2. CASE Push
    BY <1>1, <2>2 DEF Push, Job, JobKnows
  <2>3. CASE Ack \/ Redeliver
    BY <1>1, <2>3 DEF Ack, Redeliver, Job, JobKnows
  <2> QED BY <2>1, <2>2, <2>3
<1> QED BY <1>1, <1>5, <1>6, OthersKept DEF PresenceInv

\* A period ends.
LEMMA TickStep ==
  ASSUME PresenceInv, Tick
  PROVE  PresenceInv'
<1>1. PresenceTypeOK /\ FramesFresh /\ KeyYoung /\ JobKnows /\ Heard /\ Told /\ SettledIsRight
      /\ Settled /\ wire' = [c \in Tab |-> Heartbeat(c)] /\ polled' = FALSE
      /\ ttl' = Expired /\ calm' = Older(calm)
      /\ idle' = (IF \E c \in Tab : focus[c] THEN 0 ELSE Older(idle))
      /\ UNCHANGED <<focus, conn, dead, leaving, air, answer, shown, job, trouble>>
  BY DEF PresenceInv, Tick
<1>2. /\ \A c \in Tab : conn[c] \in Gateway => wire[c] = <<>>
      /\ air = {} /\ polled /\ answer = {}
  BY <1>1 DEF Settled
<1>3. calm \in 0 .. (TTL + 1) /\ idle \in 0 .. (TTL + 1) /\ ttl \in 0 .. TTL
      /\ ttl' \in 0 .. TTL /\ calm' \in 1 .. (TTL + 1) /\ idle' \in 0 .. (TTL + 1)
  <2>1. calm \in 0 .. (TTL + 1) /\ idle \in 0 .. (TTL + 1) /\ ttl \in 0 .. TTL
    BY <1>1 DEF PresenceTypeOK
  <2>2. Expired \in 0 .. TTL /\ Older(calm) \in 1 .. (TTL + 1) /\ Older(idle) \in 1 .. (TTL + 1)
    BY <1>1, <2>1, TickTimes
  <2>3. idle' = 0 \/ idle' = Older(idle)
    BY <1>1
  <2>4. idle' \in 0 .. (TTL + 1)
    BY <2>2, <2>3, PresenceAssumption
  <2> QED BY <1>1, <2>1, <2>2, <2>4
<1>4. \A c \in Tab : conn[c] \in Gateway =>
        wire'[c] = IF focus[c] THEN <<"active">> ELSE <<>>
  <2> SUFFICES ASSUME NEW c \in Tab, conn[c] \in Gateway
               PROVE  wire'[c] = IF focus[c] THEN <<"active">> ELSE <<>>
    OBVIOUS
  <2>1. wire[c] = <<>> /\ conn[c] \notin {Stuck, Closed} /\ wire'[c] = Heartbeat(c)
    BY <1>1, <1>2, PresenceAssumption
  <2>2. Sent(c, "active") = <<"active">>
    BY <2>1 DEF Sent
  <2> QED BY <2>1, <2>2 DEF Heartbeat
<1>5. PresenceTypeOK'
  <2>1. ASSUME NEW c \in Tab PROVE Heartbeat(c) \in Seq(Frame)
    <3>1. "active" \in Frame /\ wire[c] \in Seq(Frame)
      BY <1>1 DEF Frame, PresenceTypeOK
    <3> QED BY <1>1, <3>1, SentType DEF Heartbeat
  <2>2. wire' \in [Tab -> Seq(Frame)]
    BY <1>1, <2>1
  <2>3. calm' \in 0 .. (TTL + 1)
    BY <1>3, PresenceAssumption
  <2>4. polled' \in BOOLEAN
    BY <1>1
  <2> QED BY <1>1, <1>3, <2>2, <2>3, <2>4 DEF PresenceTypeOK
<1>6. FramesFresh'
  BY <1>1, <1>4 DEF FramesFresh
<1>7. KeyYoung'
  <2> SUFFICES ASSUME ttl' > 0 PROVE ttl' + idle' <= TTL
    BY DEF KeyYoung
  <2>1. ttl > 0 /\ ttl' = ttl - 1 /\ ttl + idle <= TTL
    BY <1>1, <1>3, TickTimes DEF KeyYoung
  <2>2. idle <= TTL
    BY <1>3, <2>1, PresenceAssumption
  <2>3. idle' = 0 \/ idle' = idle + 1
    BY <1>1, <1>3, <2>2, PresenceAssumption DEF Older
  <2> QED BY <1>3, <2>1, <2>3
<1>8. JobKnows'
  BY <1>1 DEF JobKnows
<1>9. Truth' = Truth /\ \A d \in Tab : Present(d)' = Present(d)
  BY <1>1 DEF Truth, Present
<1>10. calm' = calm + 1 \/ (calm = TTL + 1 /\ calm' = calm)
  BY <1>1, <1>3, PresenceAssumption DEF Older
<1>11. Heard'
  <2>1. air' \subseteq {Truth'}
    BY <1>1, <1>2
  <2>2. \A c \in Tab : conn'[c] \in Gateway =>
          wire'[c] = <<>> \/ (focus'[c] /\ wire'[c] = <<"active">>)
    BY <1>1, <1>4
  <2>3. ASSUME Truth' PROVE \E c \in Tab : Present(c)' /\ wire'[c] # <<>>
    <3>1. PICK c \in Tab : focus[c] /\ conn[c] \in Gateway
      BY <1>9, <2>3 DEF Truth, Present
    <3>2. wire'[c] = <<"active">>
      BY <1>4, <3>1
    <3> QED BY <1>1, <3>1, <3>2 DEF Present
  <2>4. ASSUME Truth', calm' > 1 PROVE ttl' >= TTL - 1
    <3>1. calm > 0 /\ Truth
      BY <1>1, <1>3, <1>9, <2>4, TickTimes, PresenceAssumption
    <3>2. ~ \E c \in Tab : Present(c) /\ wire[c] # <<>>
      BY <1>2 DEF Present
    <3>3. ttl = TTL
      BY <1>1, <3>1, <3>2 DEF Heard
    <3> QED BY <1>1, <1>3, <3>3, TickTimes, PresenceAssumption
  <2>5. ASSUME ~Truth' PROVE ttl' = 0 \/ ttl' + calm' <= TTL
    <3>1. ~Truth
      BY <1>9, <2>5
    <3>2. CASE calm = 0
      <4>1. calm' = 1
        BY <1>1, <3>2, TickTimes, PresenceAssumption DEF PresenceTypeOK
      <4> QED BY <1>1, <1>3, <4>1, TickTimes
    <3>3. CASE calm > 0
      <4>1. ttl = 0 \/ ttl + calm <= TTL
        BY <1>1, <3>1, <3>3 DEF Heard
      <4>2. calm' <= calm + 1
        BY <1>3, <1>10, PresenceAssumption
      <4>3. ttl' = 0 \/ ttl' = ttl - 1
        BY <1>1 DEF Expired
      <4>4. ttl' >= 0 /\ ttl \in Int /\ calm \in Int /\ calm' \in Int /\ TTL \in Int
        BY <1>3, PresenceAssumption
      <4>5. CASE ttl = 0
        BY <4>3, <4>4, <4>5
      <4>6. CASE ttl + calm <= TTL
        BY <4>2, <4>3, <4>4, <4>6
      <4> QED BY <4>1, <4>5, <4>6
    <3> QED BY <1>3, <3>2, <3>3
  <2> QED BY <2>1, <2>2, <2>3, <2>4, <2>5 DEF Heard
<1>12. Told'
  BY <1>1, <1>2 DEF Told
<1>13. SettledIsRight'
  <2> SUFFICES ASSUME calm' > TTL PROVE shown' = Truth'
    BY DEF SettledIsRight
  <2>1. calm >= TTL
    BY <1>3, <1>10, PresenceAssumption
  <2>2. shown = Truth
    BY <1>1, <1>2, <2>1 DEF Told
  <2> QED BY <1>1, <1>9, <2>2
<1> QED BY <1>5, <1>6, <1>7, <1>8, <1>11, <1>12, <1>13 DEF PresenceInv
-----------------------------------------------------------------------------
LEMMA NextPresence == PresenceInv /\ [PresenceNext]_presenceVars => PresenceInv'
<1> SUFFICES ASSUME PresenceInv, [PresenceNext]_presenceVars PROVE PresenceInv'
  OBVIOUS
<1>1. CASE UNCHANGED presenceVars
  <2>1. PresenceTypeOK' /\ JobKnows'
    BY <1>1 DEF presenceVars, PresenceInv, PresenceTypeOK, JobKnows
  <2> QED BY <1>1, <2>1, OthersKept DEF presenceVars, tabVars, readerVars, PresenceInv
<1>2. CASE PresenceNext
  BY <1>2, LookStep, LossStep, ConnectStep, LeaveStep, HandleStep, AnnouncedStep, AskStep,
     ShowStep, WorkerStep, TickStep DEF PresenceNext
<1> QED BY <1>1, <1>2

LEMMA AlwaysPresence == PresenceSpec => []PresenceInv
BY InitPresence, NextPresence, PTL DEF PresenceSpec

\* Every variable of Presence keeps its type.
THEOREM PresenceTypeCorrect == PresenceSpec => []PresenceTypeOK
<1>1. PresenceInv => PresenceTypeOK
  BY DEF PresenceInv
<1> QED BY <1>1, AlwaysPresence, PTL

\* When nothing has changed or failed for more than the life of the key, the watcher
\* sees whether somebody looks: the heartbeats of who looks keep the key, the key of
\* who does not has expired, and the poll since then was answered with it.
THEOREM StatusSettles == PresenceSpec => []SettledIsRight
<1>1. PresenceInv => SettledIsRight
  BY DEF PresenceInv
<1> QED BY <1>1, AlwaysPresence, PTL

\* However often the worker gets the event, it acknowledges a message without a push
\* and without a failure only for a user who was there no longer ago than the key
\* lives.
THEOREM PushNotMissed == PresenceSpec => []NoMissedPush
<1>1. PresenceInv => NoMissedPush
  BY DEF PresenceInv, JobKnows, NoMissedPush
<1> QED BY <1>1, AlwaysPresence, PTL
=============================================================================

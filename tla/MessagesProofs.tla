---------------------------- MODULE MessagesProofs ----------------------------
(***************************************************************************)
(* What holds of the messages of a chat for any users, messages and number *)
(* of requests.                                                            *)
(***************************************************************************)
EXTENDS Messages, TLAPS

Changes == {"edited", "deleted_for_all"}

Marks == {"created", "read", "hide"}

\* The order of the log: times up to the clock, each entry asked for before it.
Ordered ==
  /\ \A i \in DOMAIN log : log[i].time <= clock /\ log[i].since < i
  /\ LaterRequestLaterTime
  /\ NoChangeAfterDeletion

\* Where a request stands in the log.  It has seen no deletion of its message
\* among the entries before it began, and its time is later than theirs.
Placed(q) ==
  LET r == req[q] IN
  /\ r.since <= Len(log)
  /\ r.at \in {"write", "enqueue"} /\ r.op # "hide" =>
       r.time <= clock /\ \A i \in 1..r.since : log[i].time < r.time
  /\ r.op \in Changes /\ r.at \in {"IsAdmin", "now", "write"} =>
       \A i \in 1..r.since : log[i].op # "deleted_for_all" \/ log[i].msg # r.msg

\* What a request has found of its user.
Entitled(q) ==
  LET r == req[q] IN
  /\ r.at # "idle" => Holding(r.by, members, admins) \subseteq facts[q]
  /\ r.at = "IsMember" => r.op \in Marks
  /\ r.at = "GetMessage" => r.op \in Changes
  /\ r.at = "IsAdmin" => r.op = "deleted_for_all"
  /\ r.at = "now" => r.op # "hide"
  /\ r.at \in {"now", "write", "enqueue"} =>
       \/ r.op \in Marks /\ "member" \in facts[q]
       \/ r.op \in Changes /\ sender[r.msg] = r.by
       \/ r.op = "deleted_for_all" /\ "admin" \in facts[q]

\* A message that is being sent is new, and no other request knows it.
Fresh ==
  \A q \in Request : req[q].op = "created" =>
    /\ sender[req[q].msg] = None
    /\ \A p \in Request : p # q => req[p].msg # req[q].msg

\* A lock is held between the UPDATE and the COMMIT of a MarkRead, and keeps the
\* user a member.
RowHeld(q) ==
  LET r == req[q] IN
  /\ r.at = "enqueue" => r.op = "read"
  /\ r.found => r.at = "enqueue" /\ r.by \in members

\* What clients were told of the marker of every user, and will be told by the
\* requests that found no row.
Marked ==
  \A u \in User : read[u] # None =>
    /\ u \in members
    /\ \E i \in Rows("read", read[u]) :
         /\ log[i].by = u
         /\ \A j \in DOMAIN log : log[j].op = "read" /\ log[j].by = u /\ i < j =>
              ~log[j].found /\ log[j].since < i
         /\ \A q \in Request : req[q].at = "enqueue" /\ req[q].by = u /\ ~req[q].found =>
              req[q].since < i

IInv ==
  /\ TypeOK
  /\ Ordered
  /\ \A q \in Request : Placed(q) /\ Entitled(q) /\ RowHeld(q)
  /\ Fresh
  /\ Marked
-----------------------------------------------------------------------------
\* None is told apart from users and messages, and an idle request from others.
LEMMA IdleFacts ==
  /\ None \notin User /\ None \notin Message
  /\ Idle.at = "idle" /\ Idle.op = "hide" /\ Idle.msg = None /\ Idle.since = 0
  /\ Idle.found = FALSE
  /\ \A r \in Running : r # Idle /\ r.at # "idle" /\ r.msg \in Message /\ r.by \in User
                        /\ r.op \in Op /\ r.time \in Nat /\ r.since \in Nat
                        /\ r.found \in BOOLEAN
BY MessagesAssumption DEF Idle, Running

\* A request that has begun.
LEMMA ReqFacts ==
  ASSUME TypeOK, NEW q \in Request, req[q].at # "idle"
  PROVE  req[q] \in Running
BY IdleFacts DEF TypeOK

\* An entry of the log.
LEMMA EntryFacts ==
  ASSUME TypeOK, NEW i \in DOMAIN log
  PROVE  /\ i \in Nat /\ 1 <= i /\ i <= Len(log)
         /\ log[i].op \in Op /\ log[i].msg \in Message /\ log[i].by \in User
         /\ log[i].time \in Nat /\ log[i].since \in Nat /\ log[i].found \in BOOLEAN
<1>1. log[i] \in Entry /\ i \in 1..Len(log)
  BY DEF TypeOK
<1>2. QED
  BY <1>1 DEF Entry

LEMMA HoldingType ==
  ASSUME NEW u, NEW ms, NEW as PROVE Holding(u, ms, as) \in SUBSET Fact
BY DEF Holding

\* A request that is answered.
LEMMA AnswerFacts ==
  ASSUME TypeOK, NEW q \in Request, Answer(q)
  PROVE  /\ req' \in [Request -> Running \union {Idle}]
         /\ facts' \in [Request -> SUBSET Fact]
         /\ req'[q] = Idle
         /\ \A o \in Request : o # q => req'[o] = req[o] /\ facts'[o] = facts[o]
BY DEF TypeOK, Answer

\* A request that goes on, with its next statement.
LEMMA GoFacts ==
  ASSUME TypeOK, NEW q \in Request, req[q].at # "idle",
         NEW at \in {"GetMessage", "IsAdmin", "IsMember", "now", "write"}, Go(q, at)
  PROVE  /\ req' \in [Request -> Running \union {Idle}]
         /\ facts' = facts
         /\ req'[q].at = at /\ req'[q].op = req[q].op /\ req'[q].msg = req[q].msg
         /\ req'[q].by = req[q].by /\ req'[q].since = req[q].since
         /\ req'[q].found = req[q].found
         /\ \A o \in Request : o # q => req'[o] = req[o]
<1>1. req[q] \in Running
  BY ReqFacts
<1>2. [req[q] EXCEPT !.at = at] \in Running
  BY <1>1 DEF Running
<1>3. QED
  BY <1>1, <1>2 DEF TypeOK, Go, Running

\* A request that begins.
LEMMA BeginFacts ==
  ASSUME TypeOK, NEW q \in Request, NEW op \in Op, NEW m \in Message, NEW u \in User,
         NEW at \in {"GetMessage", "IsMember"}, Begin(q, op, m, u, at)
  PROVE  /\ req' \in [Request -> Running \union {Idle}]
         /\ facts' \in [Request -> SUBSET Fact]
         /\ req'[q] = [op |-> op, msg |-> m, by |-> u, time |-> 0,
                       since |-> Len(log), found |-> FALSE, at |-> at]
         /\ facts'[q] = Holding(u, members, admins)
         /\ \A o \in Request : o # q => req'[o] = req[o] /\ facts'[o] = facts[o]
         /\ UNCHANGED <<members, admins, sender, read, hidden, log, clock>>
<1> DEFINE r == [op |-> op, msg |-> m, by |-> u, time |-> 0, since |-> Len(log),
                 found |-> FALSE, at |-> at]
<1>1. Len(log) \in Nat
  BY DEF TypeOK
<1>2. r \in Running
  BY <1>1 DEF Running
<1>3. Holding(u, members, admins) \in SUBSET Fact
  BY HoldingType
<1> HIDE DEF r
<1>4. req' = [req EXCEPT ![q] = r] /\ facts' = [facts EXCEPT ![q] = Holding(u, members, admins)]
  BY DEF Begin, r
<1>5. /\ req' \in [Request -> Running \union {Idle}] /\ req'[q] = r
      /\ facts' \in [Request -> SUBSET Fact] /\ facts'[q] = Holding(u, members, admins)
      /\ \A o \in Request : o # q => req'[o] = req[o] /\ facts'[o] = facts[o]
  BY <1>2, <1>3, <1>4 DEF TypeOK
<1>6. QED
  BY <1>5 DEF Begin, r
-----------------------------------------------------------------------------
LEMMA InitIInv == Init => IInv
<1> SUFFICES ASSUME Init PROVE IInv
  OBVIOUS
<1>1. TypeOK
  BY DEF Init, TypeOK
<1>2. \A q \in Request : Placed(q) /\ Entitled(q) /\ RowHeld(q)
  BY IdleFacts DEF Init, Placed, Entitled, RowHeld
<1>3. Ordered
  BY DEF Init, Ordered, LaterRequestLaterTime, NoChangeAfterDeletion, Rows
<1>4. Fresh /\ Marked
  BY IdleFacts DEF Init, Fresh, Marked
<1>5. QED
  BY <1>1, <1>2, <1>3, <1>4 DEF IInv

\* A request that goes on or ends knows no other message.
LEMMA FreshKept ==
  ASSUME IInv, NEW q \in Request, UNCHANGED sender,
         \A o \in Request : o # q => req'[o] = req[o],
         req'[q] = Idle \/ (req'[q].msg = req[q].msg /\ req'[q].op = req[q].op)
  PROVE  Fresh'
<1>1. \A o \in Request : req[o].op = "created" => req[o].msg # None
  BY IdleFacts DEF IInv, TypeOK
<1> SUFFICES ASSUME NEW o \in Request, req'[o].op = "created"
             PROVE  /\ sender[req'[o].msg] = None
                    /\ \A p \in Request : p # o => req'[p].msg # req'[o].msg
  BY DEF Fresh
<1>2. req'[o].msg = req[o].msg /\ req[o].op = "created"
  BY IdleFacts
<1>3. \A p \in Request : req'[p].msg = req[p].msg \/ req'[p].msg = None
  BY IdleFacts
<1>4. QED
  BY <1>1, <1>2, <1>3 DEF IInv, Fresh

\* A step of a request that stores nothing but perhaps a hidden message.
LEMMA OwnStep ==
  ASSUME IInv, NEW q \in Request,
         UNCHANGED <<members, admins, sender, read, log>>,
         hidden' \in SUBSET (Message \X User), clock' \in Nat, clock <= clock',
         req' \in [Request -> Running \union {Idle}], facts' \in [Request -> SUBSET Fact],
         \A o \in Request : o # q => req'[o] = req[o] /\ facts'[o] = facts[o],
         Placed(q)', Entitled(q)', RowHeld(q)', Fresh',
         req'[q].at = "enqueue" /\ ~req'[q].found => req'[q].by \notin members
  PROVE  IInv'
<1>1. TypeOK'
  BY DEF IInv, TypeOK
<1>2. Marked'
  <2> SUFFICES ASSUME NEW u \in User, read[u] # None
               PROVE  /\ u \in members
                      /\ \E i \in Rows("read", read[u]) :
                           /\ log[i].by = u
                           /\ \A j \in DOMAIN log : log[j].op = "read" /\ log[j].by = u /\ i < j =>
                                ~log[j].found /\ log[j].since < i
                           /\ \A o \in Request :
                                req'[o].at = "enqueue" /\ req'[o].by = u /\ ~req'[o].found =>
                                  req'[o].since < i
    BY DEF Marked, Rows
  <2>1. u \in members
    BY DEF IInv, Marked
  <2>2. \A o \in Request : req'[o].at = "enqueue" /\ req'[o].by = u /\ ~req'[o].found =>
          req'[o] = req[o]
    BY <2>1
  <2>3. QED
    BY <2>1, <2>2 DEF IInv, Marked
<1>3. Ordered'
  <2>1. \A i \in DOMAIN log : log[i].time \in Nat
    BY EntryFacts DEF IInv
  <2>2. \A i \in DOMAIN log : log[i].time <= clock' /\ log[i].since < i
    BY <2>1 DEF IInv, TypeOK, Ordered
  <2>3. QED
    BY <2>2 DEF IInv, Ordered, LaterRequestLaterTime, NoChangeAfterDeletion, Rows
<1>4. \A o \in Request : Placed(o)'
  <2> SUFFICES ASSUME NEW o \in Request, o # q PROVE Placed(o)'
    OBVIOUS
  <2>1. req'[o] = req[o] /\ Placed(o)
    BY DEF IInv
  <2>2. req[o].at # "idle" => req[o].time \in Nat
    BY IdleFacts DEF IInv, TypeOK
  <2>3. QED
    BY <2>1, <2>2 DEF Placed, IInv, TypeOK
<1>5. \A o \in Request : Entitled(o)' /\ RowHeld(o)'
  BY DEF IInv, Entitled, RowHeld
<1>6. QED
  BY <1>1, <1>2, <1>3, <1>4, <1>5 DEF IInv

\* An answer that stores nothing but perhaps a hidden message.
LEMMA AnswerStep ==
  ASSUME IInv, NEW q \in Request, Answer(q),
         UNCHANGED <<members, admins, sender, read, log, clock>>,
         hidden' \in SUBSET (Message \X User)
  PROVE  IInv'
<1>1. TypeOK /\ Len(log) \in Nat /\ clock \in Nat
  BY DEF IInv, TypeOK
<1>2. req'[q] = Idle
  BY <1>1, AnswerFacts
<1>3. Placed(q)' /\ Entitled(q)' /\ RowHeld(q)'
  BY <1>1, <1>2, IdleFacts DEF Placed, Entitled, RowHeld
<1>4. Fresh'
  BY <1>1, <1>2, AnswerFacts, FreshKept
<1>5. req'[q].at # "enqueue"
  BY <1>2, IdleFacts
<1>6. QED
  BY <1>1, <1>3, <1>4, <1>5, AnswerFacts, OwnStep

\* A request begins.
LEMMA BeginStep ==
  ASSUME IInv, NEW q \in Request, NEW op \in Op, NEW m \in Message, NEW u \in User,
         NEW at \in {"GetMessage", "IsMember"}, Begin(q, op, m, u, at),
         at = "IsMember" <=> op \in Marks,
         \/ op = "created" /\ sender[m] = None /\ \A p \in Request : req[p].msg # m
         \/ op # "created" /\ sender[m] # None
  PROVE  IInv'
<1>1. TypeOK /\ Len(log) \in Nat /\ clock \in Nat
  BY DEF IInv, TypeOK
<1>2. /\ req'[q].op = op /\ req'[q].msg = m /\ req'[q].by = u /\ req'[q].since = Len(log)
      /\ req'[q].at = at /\ req'[q].found = FALSE /\ facts'[q] = Holding(u, members, admins)
      /\ \A o \in Request : o # q => req'[o] = req[o]
      /\ UNCHANGED <<members, admins, sender, log, clock>>
  <2>1. /\ req'[q] = [op |-> op, msg |-> m, by |-> u, time |-> 0,
                       since |-> Len(log), found |-> FALSE, at |-> at]
        /\ facts'[q] = Holding(u, members, admins)
        /\ \A o \in Request : o # q => req'[o] = req[o] /\ facts'[o] = facts[o]
        /\ UNCHANGED <<members, admins, sender, read, hidden, log, clock>>
    BY <1>1, BeginFacts
  <2>2. QED
    BY <2>1
<1>3. Placed(q)'
  BY <1>1, <1>2 DEF Placed
<1>4. Entitled(q)' /\ RowHeld(q)'
  BY <1>2 DEF Entitled, RowHeld, Op, Changes, Marks
<1>5. Fresh'
  <2> SUFFICES ASSUME NEW o \in Request, req'[o].op = "created"
               PROVE  /\ sender[req'[o].msg] = None
                      /\ \A p \in Request : p # o => req'[p].msg # req'[o].msg
    BY <1>2 DEF Fresh
  <2>1. CASE o = q
    BY <1>2, <2>1
  <2>2. CASE o # q
    BY <1>2, <2>2 DEF IInv, Fresh
  <2>3. QED
    BY <2>1, <2>2
<1>6. /\ req' \in [Request -> Running \union {Idle}] /\ facts' \in [Request -> SUBSET Fact]
      /\ \A o \in Request : o # q => req'[o] = req[o] /\ facts'[o] = facts[o]
      /\ UNCHANGED <<members, admins, sender, read, hidden, log, clock>>
  BY <1>1, BeginFacts
<1>7. hidden' \in SUBSET (Message \X User) /\ clock' \in Nat /\ clock <= clock'
  BY <1>1, <1>6 DEF TypeOK
<1>8. req'[q].at # "enqueue"
  BY <1>2
<1>9. QED
  BY <1>3, <1>4, <1>5, <1>6, <1>7, <1>8, OwnStep

\* A check that the request passes.
LEMMA CheckStep ==
  ASSUME IInv, NEW q \in Request, IsMember(q) \/ GetMessage(q) \/ IsAdmin(q), ~Answer(q)
  PROVE  IInv'
<1> DEFINE r == req[q]
<1>1. /\ TypeOK /\ Len(log) \in Nat /\ clock \in Nat /\ Placed(q) /\ Entitled(q)
      /\ RowHeld(q) /\ r.at \notin {"idle", "enqueue"}
      /\ UNCHANGED <<members, admins, sender, read, hidden, log, clock>>
  BY DEF IInv, TypeOK, IsMember, GetMessage, IsAdmin
<1>2. r \in Running
  BY <1>1, ReqFacts
<1>3. PICK at \in {"IsAdmin", "now", "write"} :
        /\ Go(q, at)
        /\ \/ r.at = "IsMember" /\ r.by \in members /\ (at = IF r.op = "hide" THEN "write" ELSE "now")
           \/ r.at = "GetMessage" /\ ~Deleted(r.msg) /\ sender[r.msg] = r.by /\ at = "now"
           \/ r.at = "GetMessage" /\ ~Deleted(r.msg) /\ r.op = "deleted_for_all" /\ at = "IsAdmin"
           \/ r.at = "IsAdmin" /\ r.by \in admins /\ at = "now"
  BY DEF IsMember, GetMessage, IsAdmin
<1>4. /\ req' \in [Request -> Running \union {Idle}] /\ facts' = facts
      /\ req'[q].at = at /\ req'[q].op = r.op /\ req'[q].msg = r.msg
      /\ req'[q].by = r.by /\ req'[q].since = r.since /\ req'[q].found = r.found
      /\ \A o \in Request : o # q => req'[o] = req[o]
  BY <1>1, <1>3, GoFacts
<1>5. ~Deleted(r.msg) \/ r.at # "GetMessage"
  BY <1>3
<1>6. Placed(q)'
  <2>1. at = "write" => r.op = "hide"
    BY <1>3
  <2>2. ASSUME r.op \in Changes, NEW i \in 1..r.since
        PROVE  log[i].op # "deleted_for_all" \/ log[i].msg # r.msg
    <3>1. CASE r.at = "IsAdmin"
      BY <1>1, <2>2, <3>1 DEF Placed
    <3>2. CASE r.at = "GetMessage"
      <4>1. i \in DOMAIN log
        BY <1>1, <1>2, <2>2 DEF Placed, Running, TypeOK
      <4>2. QED
        BY <1>5, <3>2, <4>1 DEF Deleted, Rows
    <3>3. r.at # "IsMember"
      BY <1>1, <2>2 DEF Entitled, Changes, Marks
    <3>4. QED
      BY <1>3, <3>1, <3>2, <3>3
  <2>3. QED
    BY <1>1, <1>4, <2>1, <2>2 DEF Placed
<1>7. Entitled(q)'
  <2>1. r.by \in members => "member" \in facts[q]
    BY <1>1 DEF Entitled, Holding, Fact
  <2>2. r.by \in admins => "admin" \in facts[q]
    BY <1>1 DEF Entitled, Holding, Fact
  <2>3. at = "IsAdmin" => r.op = "deleted_for_all"
    BY <1>3
  <2>4. at = "now" => r.op # "hide"
    BY <1>1, <1>3 DEF Entitled, Changes
  <2>5. \/ at = "IsAdmin"
        \/ r.op \in Marks /\ "member" \in facts[q]
        \/ r.op \in Changes /\ sender[r.msg] = r.by
        \/ r.op = "deleted_for_all" /\ "admin" \in facts[q]
    BY <1>1, <1>3, <2>1, <2>2 DEF Entitled
  <2>6. QED
    BY <1>1, <1>4, <2>3, <2>4, <2>5 DEF Entitled
<1>8. Fresh'
  BY <1>1, <1>4, FreshKept
<1>9. RowHeld(q)' /\ req'[q].at # "enqueue"
  BY <1>1, <1>4 DEF RowHeld
<1>10. QED
  BY <1>1, <1>4, <1>6, <1>7, <1>8, <1>9, OwnStep DEF IInv, TypeOK

\* A request looks at the clock.
LEMMA NowStep ==
  ASSUME IInv, NEW q \in Request, Now(q)
  PROVE  IInv'
<1> DEFINE r == req[q]
<1>1. /\ TypeOK /\ Len(log) \in Nat /\ clock \in Nat /\ Placed(q) /\ Entitled(q) /\ RowHeld(q) /\ Ordered
      /\ r.at = "now" /\ clock' = clock + 1
      /\ UNCHANGED <<members, admins, sender, read, hidden, log, facts>>
  BY DEF IInv, TypeOK, Now
<1>2. r \in Running
  BY <1>1, ReqFacts
<1> DEFINE s == [[r EXCEPT !.time = clock'] EXCEPT !.at = "write"]
<1>3. /\ s \in Running /\ s.at = "write" /\ s.time = clock'
      /\ s.op = r.op /\ s.msg = r.msg /\ s.by = r.by /\ s.since = r.since
      /\ s.found = r.found
  <2> DEFINE t == [r EXCEPT !.time = clock']
  <2>1. /\ t \in Running /\ t.time = clock'
        /\ t.op = r.op /\ t.msg = r.msg /\ t.by = r.by /\ t.since = r.since
        /\ t.found = r.found
    BY <1>1, <1>2 DEF Running
  <2> HIDE DEF t
  <2>2. [t EXCEPT !.at = "write"] \in Running
    BY <2>1 DEF Running
  <2>3. s = [t EXCEPT !.at = "write"]
    BY DEF t
  <2>4. QED
    BY <2>1, <2>2, <2>3 DEF Running
<1>4. req' = [req EXCEPT ![q] = s]
  BY Zenon DEF Now
<1> HIDE DEF s
<1>5. /\ req' \in [Request -> Running \union {Idle}] /\ req'[q] = s
      /\ \A o \in Request : o # q => req'[o] = req[o]
  BY <1>1, <1>3, <1>4 DEF TypeOK
<1>6. Placed(q)'
  <2>1. \A i \in 1..r.since : log[i].time < s.time
    <3> SUFFICES ASSUME NEW i \in 1..r.since PROVE log[i].time < s.time
      OBVIOUS
    <3>1. i \in DOMAIN log
      BY <1>1, <1>2 DEF Placed, Running, TypeOK
    <3>2. log[i].time <= clock /\ log[i].time \in Nat
      BY <1>1, <3>1, EntryFacts DEF Ordered
    <3>3. QED
      BY <1>1, <1>3, <3>2
  <2>2. QED
    BY <1>1, <1>3, <1>5, <2>1 DEF Placed
<1>7. Entitled(q)'
  BY <1>1, <1>3, <1>5 DEF Entitled
<1>8. Fresh'
  BY <1>1, <1>3, <1>5, FreshKept
<1>9. RowHeld(q)' /\ req'[q].at # "enqueue"
  BY <1>1, <1>3, <1>5 DEF RowHeld
<1>10. QED
  BY <1>1, <1>5, <1>6, <1>7, <1>8, <1>9, OwnStep DEF IInv, TypeOK

\* A request moves the marker, or finds no row, and has not yet committed.
LEMMA UpdateMarkerStep ==
  ASSUME IInv, NEW q \in Request, UpdateMarker(q)
  PROVE  IInv'
<1> DEFINE r == req[q]
<1> DEFINE s == [[r EXCEPT !.found = r.by \in members] EXCEPT !.at = "enqueue"]
<1>1. /\ TypeOK /\ clock \in Nat /\ Placed(q) /\ Entitled(q) /\ r.at = "write" /\ r.op = "read"
      /\ UNCHANGED <<members, admins, sender, read, hidden, log, clock, facts>>
  BY DEF IInv, TypeOK, UpdateMarker
<1>2. r \in Running
  BY <1>1, ReqFacts
<1>3. /\ s \in Running /\ s.at = "enqueue" /\ (s.found <=> r.by \in members)
      /\ s.op = r.op /\ s.msg = r.msg /\ s.by = r.by /\ s.since = r.since /\ s.time = r.time
  <2> DEFINE b == r.by \in members
  <2> DEFINE t == [r EXCEPT !.found = b]
  <2>1. /\ t \in Running /\ t.found = b
        /\ t.op = r.op /\ t.msg = r.msg /\ t.by = r.by /\ t.since = r.since /\ t.time = r.time
    <3>1. b \in BOOLEAN
      OBVIOUS
    <3> HIDE DEF b
    <3>2. QED
      BY <1>2, <3>1 DEF Running
  <2> HIDE DEF t
  <2>2. [t EXCEPT !.at = "enqueue"] \in Running
    BY <2>1 DEF Running
  <2>3. s = [t EXCEPT !.at = "enqueue"]
    BY DEF t
  <2>4. QED
    BY <2>1, <2>2, <2>3 DEF Running
<1>4. req' = [req EXCEPT ![q] = s]
  BY Zenon DEF UpdateMarker
<1> HIDE DEF s
<1>5. /\ req' \in [Request -> Running \union {Idle}] /\ req'[q] = s
      /\ \A o \in Request : o # q => req'[o] = req[o]
  BY <1>1, <1>3, <1>4 DEF TypeOK
<1>6. Placed(q)'
  BY <1>1, <1>3, <1>5 DEF Placed, Changes
<1>7. Entitled(q)'
  BY <1>1, <1>3, <1>5 DEF Entitled
<1>8. Fresh'
  BY <1>1, <1>3, <1>5, FreshKept
<1>9. RowHeld(q)' /\ (~req'[q].found => req'[q].by \notin members)
  BY <1>1, <1>3, <1>5 DEF RowHeld
<1>10. QED
  BY <1>1, <1>5, <1>6, <1>7, <1>8, <1>9, OwnStep DEF IInv, TypeOK

\* A request stores its row and its event.
LEMMA CommitStep ==
  ASSUME IInv, NEW q \in Request, Commit(q)
  PROVE  IInv'
<1> DEFINE r == req[q]
<1> DEFINE e == Stored(q)
<1> DEFINE n == Len(log) + 1
<1>1. /\ TypeOK /\ Ordered /\ Placed(q) /\ Entitled(q) /\ RowHeld(q) /\ Fresh /\ Marked
      /\ r.at \in {"write", "enqueue"} /\ r.op # "hide" /\ Answer(q)
      /\ UNCHANGED <<members, admins, hidden, clock>>
      /\ log' = Append(log, e)
  BY DEF IInv, Commit
<1>2. /\ r \in Running /\ r.op \in Op /\ r.msg \in Message /\ r.by \in User
      /\ r.time \in Nat /\ r.since \in Nat /\ r.found \in BOOLEAN
  BY <1>1, ReqFacts, IdleFacts
<1>3. e \in Entry
  BY <1>1, <1>2 DEF Entry, Stored
<1>4. /\ Len(log) \in Nat /\ clock \in Nat /\ log' \in Seq(Entry)
      /\ DOMAIN log = 1..Len(log) /\ DOMAIN log' = 1..n /\ Len(log') = n
      /\ log'[n] = e /\ \A i \in 1..Len(log) : log'[i] = log[i]
  BY <1>1, <1>3 DEF TypeOK
<1>5. /\ log'[n].op = r.op /\ log'[n].msg = r.msg /\ log'[n].by = r.by
      /\ log'[n].time = r.time /\ log'[n].since = r.since /\ log'[n].found = r.found
  BY <1>4 DEF Stored
<1> HIDE DEF e
<1>6. /\ req' \in [Request -> Running \union {Idle}] /\ facts' \in [Request -> SUBSET Fact]
      /\ req'[q] = Idle
      /\ \A o \in Request : o # q => req'[o] = req[o] /\ facts'[o] = facts[o]
  BY <1>1, AnswerFacts
<1>7. /\ sender' \in [Message -> User \union {None}]
      /\ \A m \in Message : r.op # "created" \/ m # r.msg => sender'[m] = sender[m]
  BY <1>1, <1>2 DEF TypeOK, Commit
<1>8. /\ read' \in [User -> Message \union {None}]
      /\ r.found => read'[r.by] = r.msg
      /\ \A u \in User : ~r.found \/ u # r.by => read'[u] = read[u]
  BY <1>1, <1>2 DEF TypeOK, Commit
<1>9. TypeOK'
  BY <1>1, <1>4, <1>6, <1>7, <1>8 DEF TypeOK
<1>10. r.since <= Len(log) /\ r.time <= clock
  BY <1>1 DEF Placed
<1>11. \A i \in DOMAIN log' : i \in DOMAIN log \/ i = n
  BY <1>4
<1>12. \A i, j \in DOMAIN log' : i < j => i \in DOMAIN log
  BY <1>4
<1>13. Ordered'
  <2>1. \A i \in DOMAIN log' : log'[i].time <= clock' /\ log'[i].since < i
    BY <1>1, <1>2, <1>4, <1>5, <1>10, <1>11 DEF Ordered
  <2>2. LaterRequestLaterTime'
    <3> SUFFICES ASSUME NEW i \in DOMAIN log', NEW j \in DOMAIN log', i < j, log'[j].since >= i
                 PROVE  log'[i].time < log'[j].time
      BY DEF LaterRequestLaterTime
    <3>1. i \in DOMAIN log /\ log'[i] = log[i]
      BY <1>4, <1>12
    <3>2. CASE j = n
      <4>1. i \in 1..r.since
        BY <1>2, <1>5, <3>1, <3>2, EntryFacts, <1>1
      <4>2. QED
        BY <1>1, <1>5, <3>1, <3>2, <4>1 DEF Placed
    <3>3. CASE j \in DOMAIN log
      BY <1>1, <1>4, <3>1, <3>3 DEF Ordered, LaterRequestLaterTime
    <3>4. QED
      BY <1>11, <3>2, <3>3
  <2>3. NoChangeAfterDeletion'
    <3> SUFFICES ASSUME NEW m \in Message, NEW i \in DOMAIN log', NEW j \in DOMAIN log', i < j,
                        log'[i].op = "deleted_for_all", log'[i].msg = m,
                        log'[j].op \in Changes, log'[j].msg = m
                 PROVE  log'[j].since < i
      BY DEF NoChangeAfterDeletion, Rows, Changes
    <3>1. i \in DOMAIN log /\ log'[i] = log[i] /\ i \in Nat
      BY <1>1, <1>4, <1>12, EntryFacts
    <3>2. CASE j = n
      <4>1. i \notin 1..r.since
        BY <1>1, <1>5, <3>1, <3>2 DEF Placed, RowHeld, Changes
      <4>2. QED
        BY <1>1, <1>2, <1>5, <3>1, <3>2, <4>1, EntryFacts
    <3>3. CASE j \in DOMAIN log
      BY <1>1, <1>4, <3>1, <3>3 DEF Ordered, NoChangeAfterDeletion, Rows, Changes
    <3>4. QED
      BY <1>11, <3>2, <3>3
  <2>4. QED
    BY <2>1, <2>2, <2>3 DEF Ordered
<1>14. Placed(q)' /\ Entitled(q)' /\ \A o \in Request : RowHeld(o)'
  BY <1>1, <1>4, <1>6, IdleFacts DEF IInv, Placed, Entitled, RowHeld
<1>15. \A o \in Request : o # q => Placed(o)'
  <2> SUFFICES ASSUME NEW o \in Request, o # q PROVE Placed(o)'
    OBVIOUS
  <2>1. req'[o] = req[o] /\ Placed(o) /\ clock' = clock /\ req[o].since \in Nat
    BY <1>1, <1>6, IdleFacts DEF IInv, TypeOK
  <2>2. \A i \in 1..req[o].since : i \in 1..Len(log) /\ log'[i] = log[i]
    BY <1>4, <2>1 DEF Placed
  <2>3. req[o].since <= Len(log')
    BY <1>4, <2>1 DEF Placed
  <2>4. QED
    BY <2>1, <2>2, <2>3 DEF Placed
<1>16. \A o \in Request : o # q => Entitled(o)'
  <2> SUFFICES ASSUME NEW o \in Request, o # q PROVE Entitled(o)'
    OBVIOUS
  <2>1. req'[o] = req[o] /\ facts'[o] = facts[o] /\ Entitled(o)
    BY <1>6 DEF IInv
  <2>2. req[o].at # "idle" => sender'[req[o].msg] = sender[req[o].msg]
    <3>1. req[o].at # "idle" => req[o].msg \in Message
      BY <1>1, ReqFacts, IdleFacts
    <3>2. r.op = "created" => req[o].msg # r.msg
      BY <1>1 DEF Fresh
    <3>3. QED
      BY <1>7, <3>1, <3>2
  <2>3. QED
    BY <1>1, <2>1, <2>2 DEF Entitled
<1>17. Fresh'
  <2> SUFFICES ASSUME NEW o \in Request, req'[o].op = "created"
               PROVE  /\ sender'[req'[o].msg] = None
                      /\ \A p \in Request : p # o => req'[p].msg # req'[o].msg
    BY DEF Fresh
  <2>1. o # q /\ req'[o] = req[o]
    BY <1>6, IdleFacts
  <2>2. req[o].msg \in Message
    BY <1>1, <2>1, IdleFacts DEF TypeOK
  <2>3. sender[req[o].msg] = None /\ \A p \in Request : p # o => req[p].msg # req[o].msg
    BY <1>1, <2>1 DEF Fresh
  <2>4. \A p \in Request : req'[p].msg = req[p].msg \/ req'[p].msg = None
    BY <1>6, IdleFacts
  <2>5. QED
    BY <1>7, <2>1, <2>2, <2>3, <2>4, IdleFacts
<1>18. Marked'
  <2> SUFFICES ASSUME NEW u \in User, read'[u] # None
               PROVE  /\ u \in members
                      /\ \E i \in DOMAIN log' :
                           /\ log'[i].op = "read" /\ log'[i].msg = read'[u] /\ log'[i].by = u
                           /\ \A j \in DOMAIN log' :
                                log'[j].op = "read" /\ log'[j].by = u /\ i < j =>
                                  ~log'[j].found /\ log'[j].since < i
                           /\ \A o \in Request :
                                req'[o].at = "enqueue" /\ req'[o].by = u /\ ~req'[o].found =>
                                  req'[o].since < i
    BY <1>1 DEF Marked, Rows
  <2>1. \A o \in Request : req'[o].at = "enqueue" => o # q /\ req'[o] = req[o]
    BY <1>6, IdleFacts
  <2>2. CASE r.found /\ r.by = u
    <3>1. u \in members /\ r.op = "read"
      BY <1>1, <2>2 DEF RowHeld
    <3>2. read'[u] = r.msg
      BY <1>8, <2>2
    <3>3. n \in DOMAIN log' /\ \A j \in DOMAIN log' : ~(n < j)
      BY <1>4
    <3>4. \A o \in Request : req'[o].at = "enqueue" => req'[o].since < n
      <4> SUFFICES ASSUME NEW o \in Request, req'[o].at = "enqueue" PROVE req'[o].since < n
        OBVIOUS
      <4>1. req'[o] = req[o] /\ req[o].since <= Len(log)
        BY <2>1 DEF IInv, Placed
      <4>2. req[o].since \in Nat
        BY <1>1, IdleFacts DEF TypeOK
      <4>3. QED
        BY <1>4, <4>1, <4>2
    <3>5. QED
      BY <1>5, <2>2, <3>1, <3>2, <3>3, <3>4
  <2>3. CASE ~r.found \/ r.by # u
    <3>1. read'[u] = read[u]
      BY <1>8, <2>3
    <3>2. u \in members
      BY <1>1, <3>1 DEF Marked
    <3>3. PICK i \in DOMAIN log :
            /\ log[i].op = "read" /\ log[i].msg = read[u] /\ log[i].by = u
            /\ \A j \in DOMAIN log : log[j].op = "read" /\ log[j].by = u /\ i < j =>
                 ~log[j].found /\ log[j].since < i
            /\ \A o \in Request : req[o].at = "enqueue" /\ req[o].by = u /\ ~req[o].found =>
                 req[o].since < i
      BY <1>1, <3>1 DEF Marked, Rows
    <3>4. i \in DOMAIN log' /\ log'[i] = log[i]
      BY <1>4
    <3>5. ASSUME NEW j \in DOMAIN log', log'[j].op = "read", log'[j].by = u, i < j
          PROVE  ~log'[j].found /\ log'[j].since < i
      <4>1. CASE j = n
        <5>1. r.op = "read" /\ r.by = u /\ ~r.found
          BY <1>5, <2>3, <3>5, <4>1
        <5>2. r.at = "enqueue"
          BY <5>1 DEF Commit
        <5>3. QED
          BY <1>5, <3>3, <4>1, <5>1, <5>2
      <4>2. CASE j \in DOMAIN log
        BY <1>4, <3>3, <3>5, <4>2
      <4>3. QED
        BY <1>11, <4>1, <4>2
    <3>6. \A o \in Request : req'[o].at = "enqueue" /\ req'[o].by = u /\ ~req'[o].found =>
            req'[o].since < i
      BY <2>1, <3>3
    <3>7. QED
      BY <3>1, <3>2, <3>3, <3>4, <3>5, <3>6
  <2>4. QED
    BY <2>2, <2>3
<1>19. QED
  BY <1>9, <1>13, <1>14, <1>15, <1>16, <1>17, <1>18 DEF IInv

\* The members change.
LEMMA MembersStep ==
  ASSUME IInv, NEW ms \in SUBSET User, NEW as \in SUBSET User, ChangeMembers(ms, as)
  PROVE  IInv'
<1>1. /\ TypeOK /\ Marked /\ members' = ms /\ admins' = as /\ as \subseteq ms
      /\ \A o \in Request : Locked(o) => req[o].by \in ms
      /\ UNCHANGED <<sender, hidden, log, clock, req>>
  BY DEF IInv, ChangeMembers
<1>2. /\ read' \in [User -> Message \union {None}]
      /\ \A u \in User : read'[u] # None => u \in ms /\ read'[u] = read[u]
  BY DEF IInv, TypeOK, ChangeMembers
<1>3. /\ facts' \in [Request -> SUBSET Fact]
      /\ \A o \in Request : req[o] # Idle =>
           facts'[o] = facts[o] \union Holding(req[o].by, ms, as)
  BY <1>1, HoldingType DEF TypeOK, ChangeMembers
<1>4. TypeOK'
  BY <1>1, <1>2, <1>3 DEF TypeOK
<1>5. \A o \in Request : Entitled(o)'
  <2> SUFFICES ASSUME NEW o \in Request PROVE Entitled(o)'
    OBVIOUS
  <2>1. req'[o] = req[o] /\ Entitled(o) /\ sender' = sender
    BY <1>1 DEF IInv
  <2>2. req[o].at # "idle" =>
          facts[o] \subseteq facts'[o] /\ Holding(req[o].by, ms, as) \subseteq facts'[o]
    BY <1>3, IdleFacts
  <2>3. Holding(req[o].by, members, admins)' = Holding(req[o].by, ms, as)
    BY <1>1 DEF Holding
  <2>4. QED
    BY <2>1, <2>2, <2>3 DEF Entitled
<1>6. \A o \in Request : RowHeld(o)'
  BY <1>1 DEF IInv, RowHeld, Locked
<1>7. Ordered' /\ (\A o \in Request : Placed(o)') /\ Fresh'
  BY <1>1 DEF IInv, Ordered, LaterRequestLaterTime, NoChangeAfterDeletion, Rows, Placed, Fresh
<1>8. Marked'
  BY <1>1, <1>2 DEF Marked, Rows
<1>9. QED
  BY <1>4, <1>5, <1>6, <1>7, <1>8 DEF IInv

\* Every step keeps the invariant.
LEMMA NextIInv == IInv /\ [Next]_vars => IInv'
<1> SUFFICES ASSUME IInv, [Next]_vars PROVE IInv'
  OBVIOUS
<1>1. ASSUME NEW q \in Request, Step(q) PROVE IInv'
  <2>1. ASSUME NEW m \in Message, NEW u \in User, BeginSend(q, m, u) PROVE IInv'
    BY <2>1, BeginStep DEF BeginSend, Op, Marks
  <2>2. ASSUME NEW op \in Asked, NEW m \in Message, NEW u \in User, BeginChange(q, op, m, u)
        PROVE  IInv'
    BY <2>2, BeginStep DEF BeginChange, Op, Marks
  <2>3. ASSUME NEW op \in Asked, NEW m \in Message, NEW u \in User, BeginMark(q, op, m, u)
        PROVE  IInv'
    BY <2>3, BeginStep DEF BeginMark, Op, Marks
  <2>4. ASSUME IsMember(q) \/ GetMessage(q) \/ IsAdmin(q) PROVE IInv'
    <3>1. UNCHANGED <<members, admins, sender, read, hidden, log, clock>>
      BY <2>4 DEF IsMember, GetMessage, IsAdmin
    <3>2. CASE Answer(q)
      BY <3>1, <3>2, AnswerStep DEF IInv, TypeOK
    <3>3. QED
      BY <2>4, <3>2, CheckStep
  <2>5. CASE Hide(q)
    <3>1. req[q] \in Running
      BY <2>5, ReqFacts DEF IInv, Hide
    <3>2. hidden' \in SUBSET (Message \X User)
      BY <2>5, <3>1, IdleFacts DEF IInv, TypeOK, Hide
    <3>3. QED
      BY <2>5, <3>2, AnswerStep DEF Hide
  <2>6. CASE GiveUp(q)
    BY <2>6, AnswerStep DEF GiveUp, IInv, TypeOK
  <2>7. QED
    BY <1>1, <2>1, <2>2, <2>3, <2>4, <2>5, <2>6, NowStep, UpdateMarkerStep, CommitStep
    DEF Step
<1>2. CASE UNCHANGED vars
  BY <1>2 DEF vars, IInv, TypeOK, Ordered, LaterRequestLaterTime, NoChangeAfterDeletion, Rows,
              Placed, Entitled, RowHeld, Fresh, Marked
<1>3. QED
  BY <1>1, <1>2, MembersStep DEF Next

LEMMA AlwaysIInv == Spec => []IInv
BY InitIInv, NextIInv, PTL DEF Spec
-----------------------------------------------------------------------------
\* Every variable keeps its type.
THEOREM TypeCorrect == Spec => []TypeOK
BY AlwaysIInv, PTL DEF IInv

\* What is asked for after something was stored carries a later time.
THEOREM TimesFollow == Spec => []LaterRequestLaterTime
BY AlwaysIInv, PTL DEF IInv, Ordered

\* A deleted message is changed only by requests that were there before.
THEOREM DeletionIsFinal == Spec => []NoChangeAfterDeletion
BY AlwaysIInv, PTL DEF IInv, Ordered

\* A client that applies what is announced shows what the history has, unless
\* edits overlapped.
THEOREM ClientsAgree == Spec => []ReplayAgrees
<1>1. ASSUME IInv PROVE ReplayAgrees
  <2> SUFFICES ASSUME NEW m \in Message, NEW i \in LatestEdit(m), NEW j \in LastAnnounced(m),
                      i # j, ~(log[j].since < i)
               PROVE  FALSE
    BY DEF ReplayAgrees
  <2>1. i \in Rows("edited", m) /\ j \in Rows("edited", m)
    BY DEF LatestEdit, LastAnnounced
  <2>2. i \in DOMAIN log /\ j \in DOMAIN log
    BY <2>1 DEF Rows
  <2>3. /\ i \in Nat /\ j \in Nat /\ log[j].since \in Nat
        /\ log[i].time \in Nat /\ log[j].time \in Nat
    BY <1>1, <2>2, EntryFacts DEF IInv
  <2>4. i <= j /\ log[j].time <= log[i].time
    BY <2>1 DEF LatestEdit, LastAnnounced
  <2>5. i < j /\ log[j].since >= i
    BY <2>3, <2>4
  <2>6. log[i].time < log[j].time
    BY <1>1, <2>2, <2>5 DEF IInv, Ordered, LaterRequestLaterTime
  <2>7. QED
    BY <2>3, <2>4, <2>6
<1>2. QED
  BY <1>1, AlwaysIInv, PTL

\* The read marker of a member is the last one that was announced, but for
\* announcements of requests that found no row and had begun before it was stored.
THEOREM MarkersAgree == Spec => []MarkersAnnounced
<1>1. IInv => MarkersAnnounced
  BY DEF IInv, TypeOK, Marked, MarkersAnnounced
<1>2. QED
  BY <1>1, AlwaysIInv, PTL

\* Nobody changes a message without having been entitled to during the request.
THEOREM OnlyEntitled == Spec => ChangesAllowed
<1> DEFINE P == \A q \in Request :
        LET r == req[q] IN
        r.at \in {"write", "enqueue"} /\ <<log, hidden>>' # <<log, hidden>> /\ req'[q] = Idle =>
          \/ r.op \in {"created", "read", "hide"} /\ "member" \in facts[q]
          \/ r.op \in {"edited", "deleted_for_all"} /\ sender[r.msg] = r.by
          \/ r.op = "deleted_for_all" /\ "admin" \in facts[q]
<1>1. IInv => P
  BY DEF IInv, Entitled, Marks, Changes
<1>2. QED
  BY <1>1, AlwaysIInv, PTL DEF Spec, ChangesAllowed
=============================================================================

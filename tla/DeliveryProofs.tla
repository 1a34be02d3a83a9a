---------------------------- MODULE DeliveryProofs ----------------------------
(***************************************************************************)
(* What holds of the way of messages to a tab for any messages, gateways   *)
(* and bounds.                                                             *)
(***************************************************************************)
EXTENDS Delivery, FiniteSetTheorems, TLAPS

\* A frame that lists message m when it is handled.
Brings(f, m) == f.kind # "update" /\ f.page[m] # 0

\* What lists message m is still to come.
Coming(m) ==
  \/ asks > 0
  \/ answer # <<>> /\ Head(answer)[m] # 0
  \/ \E n \in 1 .. Len(wire) : Brings(wire[n], m)
  \/ \E f \in DOMAIN tasks : Brings(f, m)
  \/ found[conn.at] # None /\ log[found[conn.at].event].msg = m
  \/ \E i \in next[conn.at]["created"] .. Len(log) : log[i].op = "created" /\ log[i].msg = m

Due(m) == copies[m] # <<>> \/ Coming(m)

Connected == conn.phase \in {"open", "live"}

\* No consumer is past the log, and what a gateway looked up was there.
Behind ==
  /\ \A g \in Gateway : \A k \in Subject : next[g][k] <= Len(log) + 1
  /\ \A g \in Gateway : found[g] # None => found[g].event \in DOMAIN log /\ found[g].shows # 0

\* Every message with changes has a last one.
HasLast ==
  \A m \in Message : Changes(m) # {} => \E i \in Changes(m) : \A j \in Changes(m) : j <= i

\* A session that is not registered has not answered the request.
AskedFirst ==
  /\ Connected => conn.at \in Gateway
  /\ conn.phase = "open" /\ asked => asks > 0

IInv ==
  /\ TypeOK
  /\ Behind
  /\ HasLast
  /\ AskedFirst
  /\ Connected /\ asked => \A m \in Recent : Due(m)
-----------------------------------------------------------------------------
\* A bag keeps its other elements when one comes or goes.
LEMMA BagFacts ==
  ASSUME NEW B, IsABag(B), NEW x
  PROVE  /\ IsABag(B (+) SetToBag({x})) /\ DOMAIN (B (+) SetToBag({x})) = DOMAIN B \union {x}
         /\ IsABag(B (-) SetToBag({x})) /\ DOMAIN (B (-) SetToBag({x})) \subseteq DOMAIN B
         /\ DOMAIN B \ {x} \subseteq DOMAIN (B (-) SetToBag({x}))
<1>1. IsABag(B (+) SetToBag({x})) /\ DOMAIN (B (+) SetToBag({x})) = DOMAIN B \union {x}
  BY DEF IsABag, (+), SetToBag
<1>2. /\ IsABag(B (-) SetToBag({x})) /\ DOMAIN (B (-) SetToBag({x})) \subseteq DOMAIN B
      /\ DOMAIN B \ {x} \subseteq DOMAIN (B (-) SetToBag({x}))
  BY DEF IsABag, (-), SetToBag
<1> QED BY <1>1, <1>2

\* An entry of the log is a change.
LEMMA LogFacts ==
  ASSUME TypeOK, NEW i \in DOMAIN log
  PROVE  i \in Nat /\ i # 0 /\ i <= Len(log) /\ log[i].op \in {"created", "edited", "deleted"}
         /\ log[i].msg \in Message
<1>1. log \in Seq(Change)
  BY DEF TypeOK
<1>2. i \in 1 .. Len(log) /\ log[i] \in Change
  BY <1>1
<1> QED BY <1>2 DEF Change

\* Latest is the last change, or 0.
LEMMA LatestFacts ==
  ASSUME TypeOK, HasLast, NEW m \in Message
  PROVE  Latest(m) \in Nat /\ (Latest(m) # 0 <=> Changes(m) # {})
<1>1. CASE Changes(m) = {}
  BY <1>1 DEF Latest
<1>2. CASE Changes(m) # {}
  <2>1. Latest(m) \in Changes(m)
    BY <1>2 DEF Latest, HasLast
  <2> QED BY <1>2, <2>1, LogFacts DEF Changes
<1> QED BY <1>1, <1>2

\* The page that chat-service answers with.
LEMMA PageFacts ==
  ASSUME TypeOK, HasLast
  PROVE  /\ Snapshot \in Page
         /\ \A m \in Message, i \in Nat : [Nothing EXCEPT ![m] = i] \in Page
BY LatestFacts DEF Snapshot, Nothing, Page
\* The entries of the messages after each change of them: none is lost.
LEMMA CopyFacts ==
  ASSUME TypeOK
  PROVE  LET Keeps(c) == c \in [Message -> Seq(Copy)]
                         /\ \A x \in Message : copies[x] # <<>> => c[x] # <<>> IN
         /\ \A m \in Message, i \in Nat : Keeps(Update(m, i))
         /\ \A p \in Page : Keeps(Pushed(p)) /\ \A x \in Message : p[x] # 0 => Pushed(p)[x] # <<>>
         /\ \A p \in Page : Keeps(Merged(p)) /\ \A x \in Message : p[x] # 0 => Merged(p)[x] # <<>>
         /\ \A m \in Message : \A n \in DOMAIN copies[m] : \A i \in copies[m][n].pending :
              Keeps([copies EXCEPT
                ![m][n] = [shows |-> IF Deleted(@.shows) THEN @.shows ELSE i,
                           pending |-> @.pending \ {i}]])
<1> DEFINE Keeps(c) == c \in [Message -> Seq(Copy)]
                       /\ \A x \in Message : copies[x] # <<>> => c[x] # <<>>
<1>0. copies \in [Message -> Seq(Copy)]
  BY DEF TypeOK
<1>1. ASSUME NEW m \in Message, NEW i \in Nat
      PROVE  Keeps(Update(m, i))
  <2>1. CASE copies[m] = <<>>
    BY <1>0, <2>1 DEF Update
  <2>2. CASE copies[m] # <<>>
    <3>1. copies[m] \in Seq(Copy) /\ 1 \in DOMAIN copies[m] /\ copies[m][1] \in Copy
      BY <1>0, <2>2
    <3>2. /\ [copies[m][1] EXCEPT !.shows = i] \in Copy
          /\ [copies[m][1] EXCEPT !.pending = @ \union {i}] \in Copy
      BY <3>1 DEF Copy
    <3>3. \A c \in Copy : [copies[m] EXCEPT ![1] = c] \in Seq(Copy)
                           /\ [copies[m] EXCEPT ![1] = c] # <<>>
      BY <3>1
    <3>4. \A s \in Seq(Copy) : s # <<>> => Keeps([copies EXCEPT ![m] = s])
      BY <1>0
    <3>5. Update(m, i) = IF Deleted(i)
                         THEN [copies EXCEPT ![m] = [copies[m] EXCEPT ![1] =
                                [copies[m][1] EXCEPT !.shows = i]]]
                         ELSE [copies EXCEPT ![m] = [copies[m] EXCEPT ![1] =
                                [copies[m][1] EXCEPT !.pending = @ \union {i}]]]
      BY <1>0, <2>2, <3>1 DEF Update
    <3> QED BY <3>2, <3>3, <3>4, <3>5
  <2> QED BY <2>1, <2>2
<1>2. ASSUME NEW p \in Page
      PROVE  Keeps(Pushed(p)) /\ \A x \in Message : p[x] # 0 => Pushed(p)[x] # <<>>
  <2>1. \A x \in Message : NewCopy(p[x]) \in Copy
    BY DEF NewCopy, Copy, Page
  <2>2. \A s \in Seq(Copy), c \in Copy : Append(s, c) \in Seq(Copy) /\ Append(s, c) # <<>>
    <3> SUFFICES ASSUME NEW s \in Seq(Copy), NEW c \in Copy
                 PROVE  Append(s, c) \in Seq(Copy) /\ Append(s, c) # <<>>
      OBVIOUS
    <3>1. Len(Append(s, c)) = Len(s) + 1 /\ Len(s) \in Nat
      OBVIOUS
    <3> QED BY <3>1
  <2> QED BY <1>0, <2>1, <2>2 DEF Pushed
<1>3. ASSUME NEW p \in Page
      PROVE  Keeps(Merged(p)) /\ \A x \in Message : p[x] # 0 => Merged(p)[x] # <<>>
  <2>1. \A x \in Message : <<NewCopy(p[x])>> \in Seq(Copy)
    BY DEF NewCopy, Copy, Page
  <2>2. \A s \in Seq(Copy) : s # <<>> => <<Last(s)>> \in Seq(Copy)
    BY DEF Last
  <2> QED BY <1>0, <2>1, <2>2 DEF Merged
<1>4. ASSUME NEW m \in Message, NEW n \in DOMAIN copies[m], NEW i \in copies[m][n].pending
      PROVE  Keeps([copies EXCEPT
               ![m][n] = [shows |-> IF Deleted(@.shows) THEN @.shows ELSE i,
                          pending |-> @.pending \ {i}]])
  <2>1. copies[m] \in Seq(Copy) /\ copies[m][n] \in Copy
    BY <1>0
  <2> DEFINE c == [shows |-> IF Deleted(copies[m][n].shows) THEN copies[m][n].shows ELSE i,
                   pending |-> copies[m][n].pending \ {i}]
  <2>2. c \in Copy
    BY <1>4, <2>1 DEF Copy
  <2>3. [copies[m] EXCEPT ![n] = c] \in Seq(Copy) /\ [copies[m] EXCEPT ![n] = c] # <<>>
    BY <2>1, <2>2
  <2>4. \A s \in Seq(Copy) : s # <<>> => Keeps([copies EXCEPT ![m] = s])
    BY <1>0
  <2>5. [copies EXCEPT ![m][n] = [shows |-> IF Deleted(@.shows) THEN @.shows ELSE i,
                                  pending |-> @.pending \ {i}]]
        = [copies EXCEPT ![m] = [copies[m] EXCEPT ![n] = c]]
    BY <1>0
  <2> QED BY <2>3, <2>4, <2>5
<1> QED BY <1>1, <1>2, <1>3, <1>4
-----------------------------------------------------------------------------
\* Every step keeps the types.
LEMMA TypeStep ==
  ASSUME TypeOK, HasLast, Behind, AskedFirst, [Next]_vars
  PROVE  TypeOK'
<1> USE PageFacts
<1>0. CASE UNCHANGED vars
  BY <1>0 DEF TypeOK, vars, IsABag
<1>1. ASSUME NEW op \in {"created", "edited", "deleted"}, NEW m \in Message, MakeChange(op, m)
      PROVE  TypeOK'
  <2>1. [op |-> op, msg |-> m] \in Change
    BY DEF Change
  <2> QED BY <1>1, <2>1 DEF TypeOK, MakeChange, gatewayVars, tabVars
<1>2. ASSUME NEW g \in Gateway, GatewayStep(g)
      PROVE  TypeOK'
  <2>1. CASE GetMessage(g)
    <3>1. PICK i \in DOMAIN log :
            /\ IsNext(g, "created", i)
            /\ next' = [next EXCEPT ![g]["created"] = i + 1]
            /\ found' = [found EXCEPT ![g] = [event |-> i, shows |-> Latest(log[i].msg)]]
      BY <2>1 DEF GetMessage
    <3>2. i + 1 \in Nat \ {0} /\ [event |-> i, shows |-> Latest(log[i].msg)] \in Body
      BY LogFacts, LatestFacts DEF Body
    <3>3. next' \in [Gateway -> [Subject -> Nat \ {0}]]
      BY <3>1, <3>2 DEF TypeOK, Subject
    <3>4. found' \in [Gateway -> Body]
      BY <3>1, <3>2 DEF TypeOK
    <3> QED BY <2>1, <3>3, <3>4 DEF TypeOK, GetMessage, tabVars
  <2>2. CASE BroadcastMessage(g)
    <3>1. found[g] \in Body /\ log[found[g].event].msg \in Message
      BY <2>2, LogFacts DEF BroadcastMessage, Behind, TypeOK
    <3>2. [kind |-> "new", page |-> [Nothing EXCEPT ![log[found[g].event].msg] = found[g].shows]]
            \in Frame
      BY <3>1 DEF Frame, Body
    <3>3. wire' \in Seq(Frame)
      BY <2>2, <3>2 DEF BroadcastMessage, Deliver, TypeOK
    <3>4. found' \in [Gateway -> Body]
      BY <2>2 DEF BroadcastMessage, TypeOK, None, Body
    <3> QED BY <2>2, <3>3, <3>4 DEF TypeOK, BroadcastMessage, tabVars
  <2>3. CASE BroadcastUpdate(g)
    <3>1. PICK i \in DOMAIN log :
            /\ next' = [next EXCEPT ![g]["updated"] = i + 1]
            /\ Deliver(g, [kind |-> "update", page |-> [Nothing EXCEPT ![log[i].msg] = i]])
            /\ raced' = Overtaking({i})
      BY <2>3 DEF BroadcastUpdate
    <3>2. i + 1 \in Nat \ {0} /\ i \in Nat /\ log[i].msg \in Message
      BY LogFacts
    <3>3. next' \in [Gateway -> [Subject -> Nat \ {0}]]
      BY <3>1, <3>2 DEF TypeOK, Subject
    <3>4. [kind |-> "update", page |-> [Nothing EXCEPT ![log[i].msg] = i]] \in Frame
      BY <3>2 DEF Frame
    <3>5. wire' \in Seq(Frame)
      BY <3>1, <3>4 DEF Deliver, TypeOK
    <3>6. raced' \in SUBSET Message
      BY <3>1, <3>2 DEF Overtaking, TypeOK
    <3> QED BY <2>3, <3>3, <3>5, <3>6 DEF TypeOK, BroadcastUpdate, tabVars
  <2>4. ASSUME NEW k \in Subject, LookupFails(g, k) \/ LoseConsumer(g, k)
        PROVE  TypeOK'
    <3>1. PICK n \in Nat \ {0} : Skip(g, k, n) /\ n <= Len(log) + 1
      <4>1. CASE LookupFails(g, k)
        BY <4>1, LogFacts DEF LookupFails
      <4>2. next[g][k] \in Nat \ {0} /\ Len(log) \in Nat
        BY DEF TypeOK
      <4>3. CASE LoseConsumer(g, k)
        BY <4>2, <4>3 DEF LoseConsumer
      <4> QED BY <2>4, <4>1, <4>3
    <3>2. next' \in [Gateway -> [Subject -> Nat \ {0}]]
      BY <3>1 DEF Skip, TypeOK
    <3>3. \A i \in next[g][k] .. n - 1 : i \in DOMAIN log
      <4>1. next[g][k] \in Nat \ {0} /\ Len(log) \in Nat /\ DOMAIN log = 1 .. Len(log)
        BY DEF TypeOK
      <4> QED BY <3>1, <4>1
    <3>4. raced' \in SUBSET Message
      BY <3>1, <3>3, LogFacts DEF Skip, Overtaking, TypeOK
    <3> QED BY <3>1, <3>2, <3>4 DEF Skip, TypeOK, tabVars
  <2> QED BY <1>2, <2>1, <2>2, <2>3, <2>4 DEF GatewayStep
<1>3. CASE SessionStep
  <2>1. CASE Register
    BY <2>1 DEF Register, TypeOK, Phase, gatewayVars, tabVars
  <2>2. CASE GetHistory
    <3>1. asks' \in Nat /\ answer' \in Seq(Page)
      BY <2>2 DEF GetHistory, TypeOK
    <3> QED BY <2>2, <3>1 DEF GetHistory, TypeOK, gatewayVars, tabVars
  <2>3. CASE GetHistoryFails
    <3>1. asks' \in Nat /\ losses' \in Nat
      BY <2>3 DEF GetHistoryFails, TypeOK
    <3>2. asked' \in BOOLEAN
      BY <2>3, Zenon DEF GetHistoryFails
    <3> QED BY <2>3, <3>1, <3>2 DEF GetHistoryFails, TypeOK, tabVars
  <2>4. CASE WriteHistory
    <3>1. Head(answer) \in Page
      BY <2>4 DEF WriteHistory, TypeOK
    <3>2. [kind |-> "history", page |-> Head(answer)] \in Frame
      BY <3>1 DEF Frame
    <3> QED BY <2>4, <3>2 DEF WriteHistory, TypeOK, gatewayVars, tabVars
  <2>5. CASE Break
    <3>1. conn' \in [phase : Phase, at : Gateway \union {NoGateway}]
      BY <2>5 DEF Break, TypeOK, Phase
    <3>2. breaks' \in Nat /\ asks' \in Nat
      BY <2>5 DEF Break, TypeOK
    <3>3. answer' \in Seq(Page)
      BY <2>5 DEF Break
    <3> QED BY <2>5, <3>1, <3>2, <3>3 DEF Break, TypeOK, gatewayVars, tabVars
  <2> QED BY <1>3, <2>1, <2>2, <2>3, <2>4, <2>5 DEF SessionStep
<1>4. CASE TabStep
  <2>1. CASE Notice
    <3>1. conn' \in [phase : Phase, at : Gateway \union {NoGateway}]
      BY <2>1 DEF Notice, Phase
    <3>2. wire' \in Seq(Frame)
      BY <2>1 DEF Notice
    <3>3. asked' \in BOOLEAN
      BY <2>1, Zenon DEF Notice
    <3> QED BY <2>1, <3>1, <3>2, <3>3 DEF Notice, TypeOK, gatewayVars, tabVars
  <2>2. ASSUME NEW g \in Gateway, Open(g)
        PROVE  TypeOK'
    BY <2>2 DEF Open, TypeOK, Phase, gatewayVars
  <2>3. CASE SelectChat
    BY <2>3 DEF SelectChat, Ask, TypeOK, gatewayVars
  <2>4. CASE Refresh
    BY <2>4 DEF Refresh, Ask, TypeOK, gatewayVars
  <2>5. CASE Receive
    <3>1. Head(wire) \in Frame /\ Tail(wire) \in Seq(Frame)
      BY <2>5 DEF Receive, TypeOK
    <3>2. ASSUME NEW m \in Message, NEW i \in Nat
          PROVE  Update(m, i) \in [Message -> Seq(Copy)]
      BY <3>2, CopyFacts DEF Update
    <3>3. copies' \in [Message -> Seq(Copy)]
      <4>1. \A m \in Message : Head(wire).page[m] \in Nat
        BY <3>1 DEF Frame, Page
      <4>2. copies \in [Message -> Seq(Copy)]
        BY DEF TypeOK
      <4>3. \/ UNCHANGED copies
            \/ \E m \in Message : copies' = Update(m, Head(wire).page[m])
        BY <2>5 DEF Receive
      <4>4. ASSUME NEW m \in Message, copies' = Update(m, Head(wire).page[m])
            PROVE  copies' \in [Message -> Seq(Copy)]
        <5>1. Head(wire).page[m] \in Nat
          BY <4>1
        <5>2. Update(m, Head(wire).page[m]) \in [Message -> Seq(Copy)]
          BY <3>2, <5>1
        <5> QED BY <4>4, <5>2
      <4> QED BY <4>2, <4>3, <4>4
    <3>4. IsABag(tasks') /\ DOMAIN tasks' \subseteq Frame
      <4>1. IsABag(tasks) /\ DOMAIN tasks \subseteq Frame
        BY DEF TypeOK
      <4>2. tasks' = tasks \/ tasks' = tasks (+) SetToBag({Head(wire)})
        BY <2>5 DEF Receive
      <4>3. /\ IsABag(tasks (+) SetToBag({Head(wire)}))
            /\ DOMAIN (tasks (+) SetToBag({Head(wire)})) = DOMAIN tasks \union {Head(wire)}
        BY <4>1, BagFacts
      <4> QED BY <3>1, <4>1, <4>2, <4>3, Zenon
    <3> QED BY <2>5, <3>1, <3>3, <3>4 DEF Receive, TypeOK, gatewayVars
  <2>6. ASSUME NEW m \in Message, NEW n \in DOMAIN copies[m], NEW i \in copies[m][n].pending,
               EditDecrypted(m, n, i)
        PROVE  TypeOK'
    <3>1. copies' \in [Message -> Seq(Copy)]
      BY <2>6, CopyFacts DEF EditDecrypted
    <3> QED BY <2>6, <3>1 DEF EditDecrypted, TypeOK, gatewayVars
  <2>7. ASSUME NEW f \in DOMAIN tasks, Decrypted(f)
        PROVE  TypeOK'
    <3>1. f \in Frame /\ IsABag(tasks') /\ DOMAIN tasks' \subseteq Frame
      BY <2>7, BagFacts DEF Decrypted, TypeOK
    <3>2. f.page \in Page
      BY <3>1 DEF Frame
    <3>3. copies' \in [Message -> Seq(Copy)]
      BY <2>7, <3>2, CopyFacts DEF Decrypted
    <3>4. raced' \in SUBSET Message
      BY <2>7 DEF Decrypted, TypeOK
    <3> QED BY <2>7, <3>1, <3>3, <3>4 DEF Decrypted, TypeOK, gatewayVars
  <2> QED BY <1>4, <2>1, <2>2, <2>3, <2>4, <2>5, <2>6, <2>7 DEF TabStep
<1> QED BY <1>0, <1>1, <1>2, <1>3, <1>4 DEF Next
-----------------------------------------------------------------------------
\* A change is the last one when it is made.
LEMMA LogStep ==
  ASSUME IInv, NEW op \in {"created", "edited", "deleted"}, NEW m \in Message, MakeChange(op, m)
  PROVE  /\ Len(log') = Len(log) + 1
         /\ DOMAIN log' = DOMAIN log \union {Len(log) + 1}
         /\ \A i \in DOMAIN log : log'[i] = log[i]
         /\ log'[Len(log) + 1] = [op |-> op, msg |-> m]
         /\ \A x \in Message : Changes(x)' = IF x = m THEN Changes(x) \union {Len(log) + 1}
                                             ELSE Changes(x)
<1>1. log \in Seq(Change) /\ log' = Append(log, [op |-> op, msg |-> m])
  BY DEF IInv, TypeOK, MakeChange
<1>2. /\ Len(log') = Len(log) + 1
      /\ DOMAIN log' = DOMAIN log \union {Len(log) + 1}
      /\ \A i \in DOMAIN log : log'[i] = log[i]
      /\ log'[Len(log) + 1] = [op |-> op, msg |-> m]
  BY <1>1
<1>3. Len(log) + 1 \notin DOMAIN log
  BY <1>1
<1>4. \A x \in Message : Changes(x)' = IF x = m THEN Changes(x) \union {Len(log) + 1}
                                       ELSE Changes(x)
  BY <1>2, <1>3 DEF Changes
<1> QED BY <1>2, <1>4

\* Sets of positions of a finite log are counted as one expects.
LEMMA PartOfPrefix ==
  ASSUME NEW n \in Nat, NEW S, NEW T, S \subseteq T, T \subseteq 1 .. n
  PROVE  /\ Cardinality(S) <= Cardinality(T)
         /\ Cardinality(S) \in Nat /\ Cardinality(T) \in Nat
<1>1. IsFiniteSet(1 .. n)
  BY FS_Interval
<1>2. IsFiniteSet(T)
  BY <1>1, FS_Subset
<1>3. IsFiniteSet(S) /\ Cardinality(S) <= Cardinality(T)
  BY <1>2, FS_Subset
<1>4. Cardinality(S) \in Nat /\ Cardinality(T) \in Nat
  BY <1>2, <1>3, FS_CardinalityType
<1> QED BY <1>3, <1>4

\* A change makes no other message than a new one recent.
LEMMA RecentStep ==
  ASSUME IInv, NEW op \in {"created", "edited", "deleted"}, NEW x \in Message, MakeChange(op, x),
         NEW m \in Recent', ~(op = "created" /\ m = x)
  PROVE  m \in Recent
<1>1. /\ DOMAIN log' = DOMAIN log \union {Len(log) + 1}
      /\ \A i \in DOMAIN log : log'[i] = log[i]
      /\ log'[Len(log) + 1] = [op |-> op, msg |-> x]
  BY LogStep
<1>2. /\ Len(log) \in Nat /\ DOMAIN log = 1 .. Len(log)
      /\ Len(log') \in Nat /\ DOMAIN log' = 1 .. Len(log')
  BY LogStep DEF IInv, TypeOK
<1>3. m \in Message /\ Sent(m)' # {} /\ Cardinality(SentAfter(m)') < PageSize
  BY DEF Recent
<1>4. Sent(m)' = Sent(m)
  BY <1>1, <1>2 DEF Sent, Changes
<1>5. SentAfter(m) \subseteq SentAfter(m)'
  BY <1>1, <1>4 DEF SentAfter
<1>6. /\ Cardinality(SentAfter(m)) <= Cardinality(SentAfter(m)')
      /\ Cardinality(SentAfter(m)) \in Nat /\ Cardinality(SentAfter(m)') \in Nat
  <2>1. SentAfter(m)' \subseteq 1 .. Len(log')
    BY <1>2 DEF SentAfter
  <2> QED BY <1>2, <1>5, <2>1, PartOfPrefix
<1> QED BY <1>3, <1>4, <1>6, DeliveryAssumption DEF Recent

\* The log grows, and only the gateways change next and found.
LEMMA LogMoves ==
  ASSUME [Next]_vars
  PROVE  \/ UNCHANGED log
         \/ \E op \in {"created", "edited", "deleted"}, m \in Message : MakeChange(op, m)
BY ZenonT(60) DEF Next, vars, GatewayStep, SessionStep, TabStep, GetMessage, BroadcastMessage,
       BroadcastUpdate, LookupFails, LoseConsumer, Skip, Register, GetHistory, GetHistoryFails,
       WriteHistory, Break, Notice, Open, SelectChat, Refresh, Receive, EditDecrypted, Decrypted

LEMMA SourceMoves ==
  ASSUME [Next]_vars
  PROVE  \/ UNCHANGED <<next, found, log>>
         \/ \E op \in {"created", "edited", "deleted"}, m \in Message : MakeChange(op, m)
         \/ \E g \in Gateway : GatewayStep(g)
BY DEF Next, vars, SessionStep, TabStep, gatewayVars, Register, GetHistory, GetHistoryFails,
       WriteHistory, Break, Notice, Open, SelectChat, Refresh, Receive, EditDecrypted, Decrypted

LEMMA HasLastStep ==
  ASSUME IInv, [Next]_vars
  PROVE  HasLast'
<1>1. CASE UNCHANGED log
  BY <1>1 DEF IInv, HasLast, Changes
<1>2. ASSUME NEW op \in {"created", "edited", "deleted"}, NEW m \in Message, MakeChange(op, m)
      PROVE  HasLast'
  <2> SUFFICES ASSUME NEW x \in Message, Changes(x)' # {}
               PROVE  \E i \in Changes(x)' : \A j \in Changes(x)' : j <= i
    BY DEF HasLast
  <2>1. CASE x = m
    <3>1. \A j \in Changes(x) : j \in Nat /\ j <= Len(log)
      BY LogFacts DEF Changes, IInv
    <3>2. Len(log) \in Nat
      BY DEF IInv, TypeOK
    <3>3. Changes(x)' = Changes(x) \union {Len(log) + 1}
      BY <1>2, <2>1, LogStep, Zenon
    <3> QED BY <3>1, <3>2, <3>3
  <2>2. CASE x # m
    <3>1. Changes(x)' = Changes(x)
      BY <1>2, <2>2, LogStep, Zenon
    <3> QED BY <3>1 DEF IInv, HasLast
  <2> QED BY <2>1, <2>2
<1> QED BY <1>1, <1>2, LogMoves

LEMMA BehindStep ==
  ASSUME IInv, [Next]_vars
  PROVE  Behind'
<1>1. ASSUME NEW g \in Gateway, GatewayStep(g)
      PROVE  Behind'
  <2>0. UNCHANGED log
    BY <1>1 DEF GatewayStep, GetMessage, BroadcastMessage, BroadcastUpdate, LookupFails,
                LoseConsumer, Skip
  <2>1. ASSUME NEW k \in Subject, NEW n \in Nat, n <= Len(log) + 1,
               next' = [next EXCEPT ![g][k] = n]
        PROVE  \A h \in Gateway : \A l \in Subject : next'[h][l] <= Len(log) + 1
    <3>1. next \in [Gateway -> [Subject -> Nat \ {0}]]
      BY DEF IInv, TypeOK
    <3>2. \A h \in Gateway : \A l \in Subject :
            next'[h][l] = IF h = g /\ l = k THEN n ELSE next[h][l]
      BY <2>1, <3>1
    <3> QED BY <2>1, <3>2 DEF IInv, Behind
  <2>2. CASE GetMessage(g)
    <3>1. PICK i \in DOMAIN log :
            /\ next' = [next EXCEPT ![g]["created"] = i + 1]
            /\ found' = [found EXCEPT ![g] = [event |-> i, shows |-> Latest(log[i].msg)]]
      BY <2>2 DEF GetMessage
    <3>2. i \in Nat /\ i + 1 <= Len(log) + 1
      BY LogFacts DEF IInv, TypeOK
    <3>3. \A h \in Gateway : \A l \in Subject : next'[h][l] <= Len(log) + 1
      <4>1. "created" \in Subject /\ i + 1 \in Nat
        BY <3>2 DEF Subject
      <4> QED BY <2>1, <3>1, <3>2, <4>1
    <3>4. Latest(log[i].msg) # 0
      <4>1. log[i].msg \in Message /\ i \in Changes(log[i].msg)
        BY LogFacts DEF IInv, Changes
      <4> QED BY <4>1, LatestFacts DEF IInv
    <3>5. \A h \in Gateway : found'[h] # None => found'[h].event \in DOMAIN log
                                                 /\ found'[h].shows # 0
      BY <3>1, <3>4 DEF IInv, Behind, TypeOK
    <3> QED BY <2>0, <3>3, <3>5 DEF Behind
  <2>3. CASE BroadcastMessage(g)
    <3>1. found' = [found EXCEPT ![g] = None] /\ UNCHANGED next
      BY <2>3 DEF BroadcastMessage
    <3> QED BY <2>0, <3>1 DEF IInv, Behind, TypeOK
  <2>4. CASE BroadcastUpdate(g)
    <3>1. PICK i \in DOMAIN log : next' = [next EXCEPT ![g]["updated"] = i + 1]
      BY <2>4 DEF BroadcastUpdate
    <3>2. i + 1 \in Nat /\ i + 1 <= Len(log) + 1
      BY LogFacts DEF IInv, TypeOK
    <3>3. UNCHANGED found
      BY <2>4 DEF BroadcastUpdate
    <3> QED BY <2>0, <2>1, <3>1, <3>2, <3>3 DEF IInv, Behind, Subject
  <2>5. ASSUME NEW k \in Subject, LookupFails(g, k) \/ LoseConsumer(g, k)
        PROVE  Behind'
    <3>1. \E n \in Nat : Skip(g, k, n) /\ n <= Len(log) + 1
      <4>1. CASE LookupFails(g, k)
        BY <4>1, LogFacts DEF LookupFails, IInv
      <4>2. next[g][k] \in Nat \ {0} /\ Len(log) \in Nat
        BY DEF IInv, TypeOK
      <4>3. CASE LoseConsumer(g, k)
        BY <4>2, <4>3 DEF LoseConsumer
      <4> QED BY <2>5, <4>1, <4>3
    <3> QED BY <2>0, <2>1, <3>1 DEF Skip, IInv, Behind
  <2> QED BY <1>1, <2>2, <2>3, <2>4, <2>5 DEF GatewayStep
<1>2. CASE UNCHANGED <<next, found, log>>
  BY <1>2 DEF IInv, Behind
<1>3. ASSUME NEW op \in {"created", "edited", "deleted"}, NEW m \in Message, MakeChange(op, m)
      PROVE  Behind'
  <2>1. UNCHANGED <<next, found>>
    BY <1>3 DEF MakeChange, gatewayVars
  <2>2. \A g \in Gateway : \A k \in Subject : next[g][k] \in Nat /\ Len(log) \in Nat
    BY DEF IInv, TypeOK
  <2>3. Len(log') = Len(log) + 1 /\ DOMAIN log \subseteq DOMAIN log'
    BY <1>3, LogStep
  <2>4. \A g \in Gateway : \A k \in Subject : next'[g][k] <= Len(log') + 1
    BY <2>1, <2>2, <2>3 DEF IInv, Behind
  <2>5. \A g \in Gateway : found'[g] # None => found'[g].event \in DOMAIN log'
                                               /\ found'[g].shows # 0
    BY <2>1, <2>3 DEF IInv, Behind
  <2> QED BY <2>4, <2>5 DEF Behind
<1> QED BY <1>1, <1>2, <1>3, SourceMoves

LEMMA AskedFirstStep ==
  ASSUME IInv, [Next]_vars
  PROVE  AskedFirst'
<1> USE DEF IInv, AskedFirst, Connected
<1>1. CASE UNCHANGED <<conn, asks, asked>>
  BY <1>1
<1>2. ASSUME NEW g \in Gateway, NEW k \in Subject, LookupFails(g, k) \/ LoseConsumer(g, k)
      PROVE  AskedFirst'
  BY <1>2 DEF LookupFails, LoseConsumer, Skip
<1>3. CASE Register
  BY <1>3 DEF Register, TypeOK
<1>4. CASE GetHistory \/ GetHistoryFails
  BY <1>4 DEF GetHistory, GetHistoryFails
<1>5. CASE Break
  BY <1>5 DEF Break, TypeOK
<1>6. CASE Notice
  BY <1>6 DEF Notice
<1>7. ASSUME NEW g \in Gateway, Open(g)
      PROVE  AskedFirst'
  BY <1>7 DEF Open
<1>8. CASE SelectChat \/ Refresh
  BY <1>8 DEF SelectChat, Refresh, Ask, TypeOK
<1> QED BY <1>1, <1>2, <1>3, <1>4, <1>5, <1>6, <1>7, <1>8
        DEF Next, vars, GatewayStep, SessionStep, TabStep, tabVars, MakeChange, GetMessage,
            BroadcastMessage, BroadcastUpdate, WriteHistory, Receive, EditDecrypted, Decrypted
-----------------------------------------------------------------------------
\* What is to come stays so until a handler lists the message.
LEMMA ComingStep ==
  ASSUME IInv, [Next]_vars, TypeOK', Connected', asked',
         NEW m \in Recent', Connected /\ asked /\ m \in Recent => Coming(m)
  PROVE  Coming(m)' \/ \E f \in DOMAIN tasks : Decrypted(f) /\ Brings(f, m)
<1> SUFFICES ASSUME \A f \in DOMAIN tasks : Decrypted(f) => ~Brings(f, m)
             PROVE  Coming(m)'
  OBVIOUS
<1>0. ASSUME Connected, asked, m \in Recent
      PROVE  Coming(m)
  BY <1>0
<1>b. ASSUME UNCHANGED log
      PROVE  m \in Recent
  BY <1>b DEF Recent, Sent, SentAfter, Changes
<1>c. m \in Message
  BY DEF Recent
<1>a. /\ Connected => conn.at \in Gateway
      /\ \A g \in Gateway : next[g]["created"] \in Nat \ {0}
      /\ Len(log) \in Nat /\ DOMAIN log = 1 .. Len(log)
  <2>1. Connected => conn.at \in Gateway
    BY DEF IInv, AskedFirst
  <2>2. \A g \in Gateway : next[g]["created"] \in Nat \ {0}
    BY DEF IInv, TypeOK, Subject
  <2>3. Len(log) \in Nat /\ DOMAIN log = 1 .. Len(log)
    BY DEF IInv, TypeOK
  <2> QED BY <2>1, <2>2, <2>3
<1>1. CASE UNCHANGED vars
  BY <1>0, <1>1, <1>b DEF vars, Coming, Connected, Brings
<1>2. ASSUME NEW op \in {"created", "edited", "deleted"}, NEW x \in Message, MakeChange(op, x)
      PROVE  Coming(m)'
  <2>1. /\ Connected /\ asked
        /\ UNCHANGED <<conn, next, found, asks, answer, wire, tasks, copies>>
    BY <1>2 DEF MakeChange, gatewayVars, tabVars, Connected
  <2>2. /\ Len(log') = Len(log) + 1
        /\ \A i \in DOMAIN log : log'[i] = log[i]
        /\ log'[Len(log) + 1] = [op |-> op, msg |-> x]
    BY <1>2, LogStep
  <2>3. conn.at \in Gateway
    BY <1>a, <2>1
  <2>4. CASE ~(op = "created" /\ m = x)
    <3>1. Coming(m)
      BY <1>0, <1>2, <2>1, <2>4, RecentStep
    <3>2. found[conn.at] # None => found[conn.at].event \in DOMAIN log
      BY <2>3 DEF IInv, Behind
    <3>3. \A i \in next[conn.at]["created"] .. Len(log) : i \in DOMAIN log /\ i <= Len(log')
      BY <1>a, <2>2, <2>3
    <3> QED BY <1>a, <2>1, <2>2, <2>3, <3>1, <3>2, <3>3 DEF Coming, Brings
  <2>5. CASE op = "created" /\ m = x
    <3>4. next[conn.at]["created"] <= Len(log) + 1
      BY <2>3 DEF IInv, Behind, Subject
    <3>5. Len(log) + 1 \in next'[conn'.at]["created"] .. Len(log')
      BY <1>a, <2>1, <2>2, <2>3, <3>4
    <3> QED BY <2>2, <2>5, <3>5 DEF Coming
  <2> QED BY <2>4, <2>5
<1>3. ASSUME NEW g \in Gateway, GatewayStep(g)
      PROVE  Coming(m)'
  <2>1. /\ Connected /\ asked
        /\ UNCHANGED <<log, conn, asks, answer, tasks, copies>>
    BY <1>3 DEF GatewayStep, GetMessage, BroadcastMessage, BroadcastUpdate, LookupFails,
                LoseConsumer, Skip, tabVars, Connected
  <2>2. Coming(m) /\ conn.at \in Gateway
    BY <1>0, <1>a, <1>b, <2>1
  <2>3. CASE GetMessage(g)
    <3>1. PICK i \in DOMAIN log :
            /\ IsNext(g, "created", i)
            /\ next' = [next EXCEPT ![g]["created"] = i + 1]
            /\ found' = [found EXCEPT ![g] = [event |-> i, shows |-> Latest(log[i].msg)]]
      BY <2>3 DEF GetMessage
    <3>2. CASE g # conn.at
      <4>1. found'[conn.at] = found[conn.at] /\ next'[conn.at] = next[conn.at]
        BY <2>2, <3>1, <3>2 DEF IInv, TypeOK
      <4>2. UNCHANGED wire
        BY <2>3 DEF GetMessage
      <4> QED BY <2>1, <2>2, <4>1, <4>2 DEF Coming, Brings
    <3>3. CASE g = conn.at
      <4>1. /\ found'[conn.at] = [event |-> i, shows |-> Latest(log[i].msg)]
            /\ next'[conn.at]["created"] = i + 1
        BY <2>2, <3>1, <3>3 DEF IInv, TypeOK, Subject
      <4>2. found'[conn.at] # None /\ i \in Nat
        BY <4>1, LogFacts DEF None, IInv
      <4>3. \A j \in next[g]["created"] .. i - 1 : log[j].op # "created"
        BY <3>1 DEF IsNext, Mine
      <4>4. ASSUME NEW j \in next[conn.at]["created"] .. Len(log),
                   log[j].op = "created", log[j].msg = m
            PROVE  Coming(m)'
        <5>1. CASE j = i
          BY <2>1, <4>1, <4>2, <4>4, <5>1 DEF Coming
        <5>2. CASE j # i
          <6>1. j \in i + 1 .. Len(log)
            BY <1>a, <2>2, <3>3, <4>2, <4>3, <4>4, <5>2
          <6> QED BY <2>1, <4>1, <4>4, <6>1 DEF Coming
        <5> QED BY <5>1, <5>2
      <4>5. found[conn.at] = None /\ UNCHANGED wire
        BY <2>3, <3>3 DEF GetMessage
      <4> QED BY <2>1, <2>2, <4>4, <4>5 DEF Coming, Brings
    <3> QED BY <3>2, <3>3
  <2>4. CASE BroadcastMessage(g)
    <3>1. /\ found[g] # None /\ found' = [found EXCEPT ![g] = None] /\ UNCHANGED next
          /\ Deliver(g, [kind |-> "new",
               page |-> [Nothing EXCEPT ![log[found[g].event].msg] = found[g].shows]])
      BY <2>4 DEF BroadcastMessage
    <3>2. \A n \in 1 .. Len(wire) : n \in 1 .. Len(wire') /\ wire'[n] = wire[n]
      BY <3>1 DEF Deliver, IInv, TypeOK
    <3>3. CASE found[conn.at] # None /\ log[found[conn.at].event].msg = m
      <4>1. CASE g # conn.at
        <5>1. found'[conn.at] = found[conn.at]
          BY <2>2, <3>1, <4>1 DEF IInv, TypeOK
        <5> QED BY <2>1, <3>3, <5>1 DEF Coming
      <4>2. CASE g = conn.at /\ conn.phase = "open"
        BY <2>1, <4>2 DEF IInv, AskedFirst, Coming
      <4>3. CASE g = conn.at /\ conn.phase = "live"
        <5> DEFINE f == [kind |-> "new", page |-> [Nothing EXCEPT ![m] = found[g].shows]]
        <5>1. conn = [phase |-> "live", at |-> g]
          BY <4>3 DEF IInv, TypeOK
        <5>2. wire' = Append(wire, f) /\ wire \in Seq(Frame)
          BY <3>1, <3>3, <4>3, <5>1 DEF Deliver, IInv, TypeOK
        <5>3. Len(wire) + 1 \in 1 .. Len(wire') /\ wire'[Len(wire) + 1] = f
          BY <5>2
        <5>4. found[g].shows # 0
          BY <3>1 DEF IInv, Behind
        <5>5. Brings(f, m)
          BY <1>c, <5>4 DEF Brings, Nothing
        <5> HIDE DEF f
        <5> QED BY <5>3, <5>5 DEF Coming
      <4> QED BY <2>1, <4>1, <4>2, <4>3 DEF Connected
    <3>4. CASE ~(found[conn.at] # None /\ log[found[conn.at].event].msg = m)
      BY <2>1, <2>2, <3>1, <3>2, <3>4 DEF Coming, Brings
    <3> QED BY <3>3, <3>4
  <2>5. CASE BroadcastUpdate(g)
    <3>1. PICK i \in DOMAIN log :
            /\ next' = [next EXCEPT ![g]["updated"] = i + 1]
            /\ Deliver(g, [kind |-> "update", page |-> [Nothing EXCEPT ![log[i].msg] = i]])
      BY <2>5 DEF BroadcastUpdate
    <3>2. \A n \in 1 .. Len(wire) : n \in 1 .. Len(wire') /\ wire'[n] = wire[n]
      BY <3>1 DEF Deliver, IInv, TypeOK
    <3>3. next'[conn.at]["created"] = next[conn.at]["created"] /\ UNCHANGED found
      BY <2>2, <2>5, <3>1 DEF BroadcastUpdate, IInv, TypeOK, Subject
    <3> QED BY <2>1, <2>2, <3>2, <3>3 DEF Coming, Brings
  <2>6. ASSUME NEW k \in Subject, LookupFails(g, k) \/ LoseConsumer(g, k)
        PROVE  Coming(m)'
    <3>1. PICK n : next' = [next EXCEPT ![g][k] = n] /\ asked' = (asked /\ conn.at # g)
                   /\ UNCHANGED <<found, wire>>
      BY <2>6 DEF LookupFails, LoseConsumer, Skip
    <3>2. conn.at # g
      BY <3>1
    <3>3. next'[conn.at] = next[conn.at]
      BY <2>2, <3>1, <3>2 DEF IInv, TypeOK
    <3> QED BY <2>1, <2>2, <3>1, <3>3 DEF Coming, Brings
  <2> QED BY <1>3, <2>3, <2>4, <2>5, <2>6 DEF GatewayStep
<1>4. CASE SessionStep
  <2>1. UNCHANGED <<log, next, found, tasks, copies>> /\ m \in Recent
    BY <1>4, <1>b DEF SessionStep, Register, GetHistory, GetHistoryFails, WriteHistory, Break,
                      gatewayVars, tabVars
  <2>2. CASE Register
    <3>1. Connected /\ asked /\ conn'.at = conn.at /\ UNCHANGED <<asks, answer, wire>>
      BY <2>2 DEF Register, Connected, IInv, TypeOK
    <3> QED BY <1>0, <2>1, <3>1 DEF Coming, Brings
  <2>3. CASE GetHistory
    <3>1. Latest(m) # 0
      BY <1>c, <2>1, LatestFacts DEF IInv, Recent, Sent
    <3>2. answer' = <<Snapshot>> /\ Snapshot[m] # 0
      BY <1>c, <2>1, <2>3, <3>1 DEF GetHistory, Snapshot
    <3> QED BY <3>2 DEF Coming
  <2>4. CASE GetHistoryFails
    BY <2>4 DEF GetHistoryFails
  <2>5. CASE WriteHistory
    <3>1. /\ wire' = Append(wire, [kind |-> "history", page |-> Head(answer)])
          /\ Connected /\ asked /\ UNCHANGED <<asks, conn>>
      BY <2>5 DEF WriteHistory, Connected
    <3>2. /\ Len(wire) + 1 \in 1 .. Len(wire')
          /\ wire'[Len(wire) + 1] = [kind |-> "history", page |-> Head(answer)]
          /\ \A n \in 1 .. Len(wire) : n \in 1 .. Len(wire') /\ wire'[n] = wire[n]
      BY <3>1 DEF IInv, TypeOK
    <3>3. Coming(m)
      BY <1>0, <2>1, <3>1
    <3>4. Head(answer)[m] # 0 => Brings(wire'[Len(wire) + 1], m)
      BY <3>2 DEF Brings
    <3> QED BY <2>1, <3>1, <3>2, <3>3, <3>4 DEF Coming, Brings
  <2>6. CASE Break
    BY <2>6 DEF Break, Connected, IInv, TypeOK
  <2> QED BY <1>4, <2>2, <2>3, <2>4, <2>5, <2>6 DEF SessionStep
<1>5. CASE TabStep
  <2>1. UNCHANGED <<log, next, found, answer>> /\ m \in Recent
    BY <1>5, <1>b DEF TabStep, Notice, Open, SelectChat, Refresh, Receive, EditDecrypted,
                      Decrypted, gatewayVars
  <2>2. CASE Notice
    BY <2>2 DEF Notice
  <2>3. ASSUME NEW g \in Gateway, Open(g)
        PROVE  Coming(m)'
    BY <2>3 DEF Open, Coming
  <2>4. CASE SelectChat \/ Refresh
    <3>1. Connected /\ UNCHANGED <<conn, wire, tasks, copies>>
      BY <2>4 DEF SelectChat, Refresh, Connected
    <3>2. asks \in Nat
      BY DEF IInv, TypeOK
    <3>0. Ask \/ UNCHANGED <<asks, asked>>
      BY <2>4 DEF SelectChat, Refresh
    <3>a. Ask => asks' = asks + 1
      BY <3>1 DEF Ask, Connected
    <3>3. CASE asked
      <4>0. asks' = asks \/ asks' = asks + 1
        BY <3>0, <3>a, Zenon
      <4>1. asks > 0 => asks' > 0
        BY <4>0, <3>2
      <4> QED BY <1>0, <2>1, <3>1, <3>3, <4>1 DEF Coming, Brings
    <3>4. CASE ~asked
      <4>1. Ask
        BY <3>0, <3>4, Zenon
      <4>2. asks' > 0
        BY <4>1, <3>a, <3>2
      <4> QED BY <4>2 DEF Coming
    <3> QED BY <3>3, <3>4
  <2>5. CASE Receive
    <3>1. Connected /\ asked /\ UNCHANGED <<conn, asks>> /\ wire # <<>> /\ wire' = Tail(wire)
      BY <2>5 DEF Receive, Connected
    <3>2. Coming(m)
      BY <1>0, <2>1, <3>1
    <3>3. wire \in Seq(Frame) /\ IsABag(tasks) /\ \A f \in Frame, x \in Message : f.page[x] \in Nat
      BY DEF IInv, TypeOK, Frame, Page
    <3>4. \A n \in 1 .. Len(wire) :
            n # 1 => n - 1 \in 1 .. Len(wire') /\ wire'[n - 1] = wire[n]
      <4> SUFFICES ASSUME NEW n \in 1 .. Len(wire), n # 1
                   PROVE  n - 1 \in 1 .. Len(wire') /\ wire'[n - 1] = wire[n]
        OBVIOUS
      <4>1. Len(Tail(wire)) = Len(wire) - 1 /\ Len(wire) \in Nat
        BY <3>1, <3>3
      <4>2. n - 1 \in 1 .. Len(wire) - 1
        BY <4>1
      <4>3. \A j \in 1 .. Len(wire) - 1 : Tail(wire)[j] = wire[j + 1]
        BY <3>1, <3>3
      <4> QED BY <3>1, <4>1, <4>2, <4>3
    <3>5. Head(wire) = wire[1] /\ Head(wire) \in Frame
      BY <3>1, <3>3
    <3>6. CASE Head(wire).kind = "update"
      <4>1. UNCHANGED tasks
        BY <2>5, <3>6 DEF Receive
      <4>4. ~Brings(wire[1], m)
        BY <3>5, <3>6 DEF Brings
      <4>5. ASSUME NEW n \in 1 .. Len(wire), Brings(wire[n], m)
            PROVE  Coming(m)'
        <5>1. n - 1 \in 1 .. Len(wire') /\ wire'[n - 1] = wire[n]
          BY <3>4, <4>4, <4>5
        <5> QED BY <4>5, <5>1 DEF Coming
      <4> QED BY <2>1, <3>1, <3>2, <4>1, <4>5 DEF Coming, Brings
    <3>7. CASE Head(wire).kind # "update"
      <4>1. tasks' = tasks (+) SetToBag({Head(wire)})
        BY <2>5, <3>7 DEF Receive
      <4>2. DOMAIN tasks' = DOMAIN tasks \union {Head(wire)}
        BY <3>3, <4>1, BagFacts
      <4>3. ASSUME NEW n \in 1 .. Len(wire), Brings(wire[n], m)
            PROVE  Coming(m)'
        <5>1. CASE n = 1
          BY <3>5, <4>2, <4>3, <5>1 DEF Coming
        <5>2. CASE n # 1
          <6>1. n - 1 \in 1 .. Len(wire') /\ wire'[n - 1] = wire[n]
            BY <3>4, <5>2
          <6> QED BY <4>3, <6>1 DEF Coming
        <5> QED BY <5>1, <5>2
      <4> QED BY <2>1, <3>1, <3>2, <4>1, <4>2, <4>3 DEF Coming, Brings
    <3> QED BY <3>6, <3>7
  <2>6. ASSUME NEW x \in Message, NEW n \in DOMAIN copies[x], NEW i \in copies[x][n].pending,
               EditDecrypted(x, n, i)
        PROVE  Coming(m)'
    <3>1. Connected /\ asked /\ UNCHANGED <<conn, asks, wire, tasks>>
      BY <2>6 DEF EditDecrypted, Connected
    <3> QED BY <1>0, <2>1, <3>1 DEF Coming, Brings
  <2>7. ASSUME NEW f \in DOMAIN tasks, Decrypted(f)
        PROVE  Coming(m)'
    <3>1. Connected /\ asked /\ UNCHANGED <<conn, asks, wire>>
      BY <2>7 DEF Decrypted, Connected
    <3>2. f \in Frame /\ f.page \in Page /\ IsABag(tasks)
      BY <2>7 DEF IInv, TypeOK, Frame
    <3>3. DOMAIN tasks \ {f} \subseteq DOMAIN tasks'
      BY <2>7, <3>2, BagFacts DEF Decrypted
    <3>4. ~Brings(f, m)
      BY <2>7
    <3> QED BY <1>0, <2>1, <3>1, <3>3, <3>4 DEF Coming, Brings
  <2> QED BY <1>5, <2>2, <2>3, <2>4, <2>5, <2>6, <2>7 DEF TabStep
<1> QED BY <1>1, <1>2, <1>3, <1>4, <1>5 DEF Next

\* No step takes a message out of the tab.
LEMMA CopiesStay ==
  ASSUME IInv, Next, NEW m \in Message, copies[m] # <<>>
  PROVE  copies'[m] # <<>>
<1>1. CASE UNCHANGED copies
  BY <1>1
<1>2. CASE Receive
  <2>1. CASE Head(wire).kind = "update"
    <3>1. PICK x \in Message : copies' = Update(x, Head(wire).page[x])
      BY <1>2, <2>1 DEF Receive
    <3>2. Head(wire) \in Frame
      BY <1>2 DEF Receive, IInv, TypeOK
    <3>3. Head(wire).page[x] \in Nat
      BY <3>2 DEF Frame, Page
    <3> QED BY <3>1, <3>3, CopyFacts DEF IInv
  <2> QED BY <1>2, <2>1 DEF Receive
<1>3. ASSUME NEW x \in Message, NEW n \in DOMAIN copies[x], NEW i \in copies[x][n].pending,
             EditDecrypted(x, n, i)
      PROVE  copies'[m] # <<>>
  BY <1>3, CopyFacts DEF EditDecrypted, IInv
<1>4. ASSUME NEW f \in DOMAIN tasks, Decrypted(f)
      PROVE  copies'[m] # <<>>
  <2>1. f.page \in Page
    BY <1>4 DEF IInv, TypeOK, Frame
  <2>2. copies' = IF f.kind = "new" THEN Pushed(f.page) ELSE Merged(f.page)
    BY <1>4 DEF Decrypted
  <2> QED BY <2>1, <2>2, CopyFacts DEF IInv
<1> QED BY ZenonT(60), <1>1, <1>2, <1>3, <1>4
        DEF Next, GatewayStep, SessionStep, TabStep, tabVars, MakeChange, GetMessage,
            BroadcastMessage, BroadcastUpdate, LookupFails, LoseConsumer, Skip, Register,
            GetHistory, GetHistoryFails, WriteHistory, Break, Notice, Open, SelectChat, Refresh

\* What is due stays due.
LEMMA DueStep ==
  ASSUME IInv, [Next]_vars, TypeOK', Connected', asked',
         NEW m \in Recent'
  PROVE  Due(m)'
<1>0. m \in Message
  BY DEF Recent
<1>1. CASE copies[m] # <<>>
  <2>1. copies'[m] # <<>>
    BY <1>0, <1>1, CopiesStay DEF vars
  <2> QED BY <2>1 DEF Due
<1>2. CASE copies[m] = <<>>
  <2>1. Connected /\ asked /\ m \in Recent => Coming(m)
    BY <1>2 DEF IInv, Due
  <2>2. Coming(m)' \/ \E f \in DOMAIN tasks : Decrypted(f) /\ Brings(f, m)
    BY <2>1, ComingStep
  <2>3. ASSUME NEW f \in DOMAIN tasks, Decrypted(f), Brings(f, m)
        PROVE  copies'[m] # <<>>
    <3>1. f.page \in Page /\ f.page[m] # 0
      BY <2>3 DEF IInv, TypeOK, Frame, Brings
    <3>2. copies' = IF f.kind = "new" THEN Pushed(f.page) ELSE Merged(f.page)
      BY <2>3 DEF Decrypted
    <3> QED BY <1>0, <3>1, <3>2, CopyFacts DEF IInv
  <2> QED BY <2>2, <2>3 DEF Due
<1> QED BY <1>1, <1>2
-----------------------------------------------------------------------------
LEMMA InitIInv == Init => IInv
<1> SUFFICES ASSUME Init
             PROVE  IInv
  OBVIOUS
<1>1. TypeOK
  <2>1. IsABag(tasks) /\ DOMAIN tasks = {}
    BY DEF Init, EmptyBag, SetToBag, IsABag
  <2>2. /\ next \in [Gateway -> [Subject -> Nat \ {0}]]
        /\ found \in [Gateway -> Body]
        /\ copies \in [Message -> Seq(Copy)]
    BY DEF Init, Body, None
  <2>3. conn \in [phase : Phase, at : Gateway \union {NoGateway}]
    BY DEF Init, Phase
  <2>4. log \in Seq(Change) /\ answer \in Seq(Page) /\ wire \in Seq(Frame)
    BY DEF Init
  <2> QED BY <2>1, <2>2, <2>3, <2>4 DEF Init, TypeOK
<1>2. Behind
  BY DEF Init, Behind
<1>3. HasLast
  BY DEF Init, HasLast, Changes
<1>4. AskedFirst /\ ~Connected
  BY DEF Init, AskedFirst, Connected
<1> QED BY <1>1, <1>2, <1>3, <1>4 DEF IInv

LEMMA Inductive == IInv /\ [Next]_vars => IInv'
<1> SUFFICES ASSUME IInv, [Next]_vars
             PROVE  IInv'
  OBVIOUS
<1>1. TypeOK'
  BY TypeStep DEF IInv
<1>2. Behind' /\ HasLast' /\ AskedFirst'
  BY BehindStep, HasLastStep, AskedFirstStep
<1>3. Connected' /\ asked' => \A m \in Recent' : Due(m)'
  BY <1>1, DueStep
<1> QED BY <1>1, <1>2, <1>3 DEF IInv

LEMMA Invariant == Spec => []IInv
BY InitIInv, Inductive, PTL DEF Spec

\* Every variable has its type.
THEOREM TypeCorrect == Spec => []TypeOK
<1>1. IInv => TypeOK
  BY DEF IInv
<1> QED BY <1>1, Invariant, PTL

\* A tab that asked for the history on its connection ends with the last page, if
\* no consumer of its gateway has lost an event since: what is not listed is in
\* the page that is due, or behind the registration.
THEOREM AllCaughtUp == Spec => []CaughtUp
<1>1. IInv => CaughtUp
  <2> SUFFICES ASSUME IInv, AtRest, asked, NEW m \in Recent
               PROVE  copies[m] # <<>>
    BY DEF CaughtUp
  <2>2. Due(m)
    BY DEF IInv, AtRest, Connected
  <2>3. /\ asks = 0 /\ answer = <<>> /\ Len(wire) = 0 /\ DOMAIN tasks = {}
        /\ found[conn.at] = None
    BY DEF AtRest, EmptyBag, SetToBag
  <2>4. \A i \in next[conn.at]["created"] .. Len(log) : log[i].op # "created"
    BY DEF AtRest, Mine, Subject
  <2> QED BY <2>2, <2>3, <2>4 DEF Due, Coming
<1> QED BY <1>1, Invariant, PTL

\* No step takes a message out of the tab.
THEOREM MessagesStay == Spec => ShownStays
<1>1. IInv /\ [Next]_vars => [\A m \in Message : copies[m] # <<>> => copies'[m] # <<>>]_vars
  BY CopiesStay
<1> QED BY <1>1, Invariant, PTL DEF Spec, ShownStays
-----------------------------------------------------------------------------
(***************************************************************************)
(* How often a message is listed.                                          *)
(***************************************************************************)

\* A frame that adds an entry for message m when it is handled.
IsNews(f, m) == f.kind = "new" /\ f.page[m] # 0

NewsInWire(m) == {n \in 1 .. Len(wire) : IsNews(wire[n], m)}

Token(f, n) == [frame |-> f, nth |-> n]

\* One element for every handler of such a frame.
NewsInTasks(m) ==
  {p \in [frame : DOMAIN tasks, nth : Nat \ {0}] : IsNews(p.frame, m) /\ p.nth <= tasks[p.frame]}

\* The first entry is free: a page brings it as well.
Entries(m) == IF copies[m] = <<>> THEN 1 ELSE Len(copies[m])

Listings(m) == Entries(m) + Cardinality(NewsInWire(m)) + Cardinality(NewsInTasks(m))

\* The gateways that may still broadcast message m as a new one.
Untold(m) ==
  {g \in Gateway : \A i \in Sent(m) :
     \/ next[g]["created"] <= i
     \/ found[g] # None /\ found[g].event = i}

\* The gateway that the tab is connected to, or the next one, is among them.
Chance(m) == IF Connected /\ conn.at \notin Untold(m) THEN 0 ELSE 1

SentOnce == \A m \in Message : \A i, j \in Sent(m) : i = j

\* What a gateway looked up is a message that it has read the event of.
FoundNew ==
  \A g \in Gateway : found[g] # None =>
    found[g].event < next[g]["created"] /\ log[found[g].event].op = "created"

Budget ==
  \A m \in Message :
    /\ IsFiniteSet(NewsInTasks(m))
    /\ Listings(m) + Cardinality(Untold(m)) <= 1 + Cardinality(Gateway)
    /\ Listings(m) + Chance(m) <= 2 + breaks

CopiesInv == IInv /\ SentOnce /\ FoundNew /\ Budget

\* The frames on the wire are finitely many.
LEMMA WireCount ==
  ASSUME IInv, NEW m \in Message
  PROVE  IsFiniteSet(NewsInWire(m)) /\ Cardinality(NewsInWire(m)) \in Nat
<1>1. Len(wire) \in Nat /\ NewsInWire(m) \in SUBSET (1 .. Len(wire))
  BY DEF IInv, TypeOK, NewsInWire
<1>2. IsFiniteSet(1 .. Len(wire))
  BY <1>1, FS_Interval
<1> QED BY <1>1, <1>2, FS_Subset, FS_CardinalityType

\* A frame more on the wire is at most one listing more.
LEMMA WireAppend ==
  ASSUME IInv, NEW m \in Message, NEW f \in Frame, wire' = Append(wire, f)
  PROVE  /\ Cardinality(NewsInWire(m)') \in Nat
         /\ Cardinality(NewsInWire(m)') <= Cardinality(NewsInWire(m)) + 1
         /\ ~IsNews(f, m) => Cardinality(NewsInWire(m)') = Cardinality(NewsInWire(m))
<1>1. wire \in Seq(Frame)
  BY DEF IInv, TypeOK
<1>2. /\ Len(wire') = Len(wire) + 1 /\ wire'[Len(wire) + 1] = f
      /\ \A n \in 1 .. Len(wire) : wire'[n] = wire[n]
  BY <1>1
<1>3. NewsInWire(m)' = IF IsNews(f, m) THEN NewsInWire(m) \union {Len(wire) + 1}
                       ELSE NewsInWire(m)
  <2>1. Len(wire) \in Nat
    BY <1>1
  <2>2. \A n : n \in 1 .. Len(wire) + 1 <=> n \in 1 .. Len(wire) \/ n = Len(wire) + 1
    BY <2>1
  <2>3. NewsInWire(m)' = {n \in 1 .. Len(wire) + 1 : IsNews(wire'[n], m)}
    BY <1>2 DEF NewsInWire, IsNews
  <2> QED BY <1>2, <2>2, <2>3 DEF NewsInWire
<1>4. IsFiniteSet(NewsInWire(m)) /\ Cardinality(NewsInWire(m)) \in Nat
  BY WireCount
<1>5. /\ Cardinality(NewsInWire(m) \union {Len(wire) + 1}) \in Nat
      /\ Cardinality(NewsInWire(m) \union {Len(wire) + 1}) <= Cardinality(NewsInWire(m)) + 1
  <2>1. Cardinality(NewsInWire(m) \union {Len(wire) + 1}) =
          IF Len(wire) + 1 \in NewsInWire(m) THEN Cardinality(NewsInWire(m))
          ELSE Cardinality(NewsInWire(m)) + 1
    BY <1>4, FS_AddElement
  <2> QED BY <1>4, <2>1
<1> QED BY <1>3, <1>4, <1>5

\* The frame that is taken from the wire is listed no more.
LEMMA WireTail ==
  ASSUME IInv, NEW m \in Message, wire # <<>>, wire' = Tail(wire)
  PROVE  /\ Cardinality(NewsInWire(m)') \in Nat
         /\ Cardinality(NewsInWire(m)') <= Cardinality(NewsInWire(m))
         /\ IsNews(Head(wire), m) => Cardinality(NewsInWire(m)') < Cardinality(NewsInWire(m))
<1> DEFINE Rest == NewsInWire(m) \ {1}
           shift == [n \in NewsInWire(m)' |-> n + 1]
<1>1. /\ wire \in Seq(Frame) /\ Len(wire) \in Nat /\ Len(wire') = Len(wire) - 1
      /\ \A n \in 1 .. Len(wire) - 1 : wire'[n] = wire[n + 1]
      /\ Head(wire) = wire[1] /\ 1 \in 1 .. Len(wire)
  BY DEF IInv, TypeOK
<1>2. IsFiniteSet(NewsInWire(m)) /\ Cardinality(NewsInWire(m)) \in Nat
  BY WireCount
<1>3. IsFiniteSet(Rest) /\ Cardinality(Rest) = IF 1 \in NewsInWire(m)
                                               THEN Cardinality(NewsInWire(m)) - 1
                                               ELSE Cardinality(NewsInWire(m))
  BY <1>2, FS_RemoveElement
<1>4. ASSUME NEW n \in NewsInWire(m)'
      PROVE  n \in Nat /\ n + 1 \in Rest
  <2>1. n \in 1 .. Len(wire) - 1 /\ IsNews(wire'[n], m)
    BY <1>1, <1>4 DEF NewsInWire, IsNews
  <2>2. n + 1 \in 1 .. Len(wire) /\ n + 1 # 1 /\ n \in Nat
    BY <1>1, <2>1
  <2>3. IsNews(wire[n + 1], m)
    BY <1>1, <2>1
  <2> QED BY <2>2, <2>3 DEF NewsInWire
<1>5. shift \in Injection(NewsInWire(m)', Rest)
  <2>1. shift \in [NewsInWire(m)' -> Rest]
    BY <1>4
  <2>2. \A a, b \in NewsInWire(m)' : shift[a] = shift[b] => a = b
    BY <1>4
  <2> HIDE DEF shift, Rest
  <2> QED BY <2>1, <2>2 DEF Injection, IsInjective
<1>6. IsFiniteSet(NewsInWire(m)') /\ Cardinality(NewsInWire(m)') <= Cardinality(Rest)
  <2> HIDE DEF shift, Rest
  <2> QED BY <1>3, <1>5, FS_Injection
<1>7. Cardinality(NewsInWire(m)') \in Nat
  BY <1>6, FS_CardinalityType
<1>8. IsNews(Head(wire), m) => 1 \in NewsInWire(m)
  BY <1>1 DEF NewsInWire
<1>9. Cardinality(Rest) <= Cardinality(NewsInWire(m))
  BY <1>2, <1>3
<1> HIDE DEF Rest
<1> QED BY <1>2, <1>3, <1>6, <1>7, <1>8, <1>9

\* One handler more.
LEMMA TaskAdded ==
  ASSUME IInv, NEW m \in Message, IsFiniteSet(NewsInTasks(m)), NEW f \in Frame,
         tasks' = tasks (+) SetToBag({f})
  PROVE  /\ IsFiniteSet(NewsInTasks(m)')
         /\ Cardinality(NewsInTasks(m)') \in Nat
         /\ Cardinality(NewsInTasks(m)') <= Cardinality(NewsInTasks(m)) + 1
         /\ ~IsNews(f, m) => Cardinality(NewsInTasks(m)') = Cardinality(NewsInTasks(m))
<1> DEFINE c == IF f \in DOMAIN tasks THEN tasks[f] ELSE 0
<1>1. \A h \in DOMAIN tasks : tasks[h] \in Nat \ {0}
  BY DEF IInv, TypeOK, IsABag
<1>2. /\ DOMAIN tasks' = DOMAIN tasks \union {f}
      /\ tasks'[f] = c + 1
      /\ \A h \in DOMAIN tasks : h # f => tasks'[h] = tasks[h]
  BY <1>1 DEF (+), SetToBag
<1>3. c \in Nat
  BY <1>1
<1>4. CASE IsNews(f, m)
  <2>1. ASSUME NEW h, NEW k
        PROVE  Token(h, k) \in NewsInTasks(m)'
               <=> (Token(h, k) \in NewsInTasks(m) \/ (h = f /\ k = c + 1))
    <3>1. Token(h, k) \in NewsInTasks(m)' <=>
            /\ h \in DOMAIN tasks \union {f} /\ k \in Nat \ {0}
            /\ IsNews(h, m) /\ k <= tasks'[h]
      BY <1>2 DEF NewsInTasks, IsNews, Token
    <3>2. Token(h, k) \in NewsInTasks(m) <=>
            /\ h \in DOMAIN tasks /\ k \in Nat \ {0}
            /\ IsNews(h, m) /\ k <= tasks[h]
      BY DEF NewsInTasks, Token
    <3>3. CASE h # f
      <4> HIDE DEF c
      <4>1. h \in DOMAIN tasks \union {f} <=> h \in DOMAIN tasks
        BY <3>3
      <4>2. h \in DOMAIN tasks => tasks'[h] = tasks[h]
        BY <1>2, <3>3
      <4>3. CASE h \in DOMAIN tasks
        <5>1. tasks'[h] = tasks[h] /\ h \in DOMAIN tasks \union {f}
          BY <4>2, <4>3
        <5>2. Token(h, k) \in NewsInTasks(m)' <=> Token(h, k) \in NewsInTasks(m)
          BY <3>1, <3>2, <4>3, <5>1
        <5> QED BY <3>3, <5>2
      <4>4. CASE h \notin DOMAIN tasks
        <5>1. Token(h, k) \notin NewsInTasks(m)' /\ Token(h, k) \notin NewsInTasks(m)
          BY <3>1, <3>2, <4>1, <4>4
        <5> QED BY <3>3, <5>1
      <4> QED BY <4>3, <4>4
    <3>4. CASE h = f
      <4>1. Token(h, k) \in NewsInTasks(m)' <=> k \in Nat \ {0} /\ k <= c + 1
        BY <1>2, <1>4, <3>1, <3>4
      <4>2. Token(h, k) \in NewsInTasks(m) <=> k \in Nat \ {0} /\ k <= c
        BY <1>3, <1>4, <3>2, <3>4
      <4> HIDE DEF c
      <4>3. (k \in Nat \ {0} /\ k <= c + 1) <=> ((k \in Nat \ {0} /\ k <= c) \/ k = c + 1)
        BY <1>3
      <4>4. Token(h, k) \in NewsInTasks(m)' <=> (Token(h, k) \in NewsInTasks(m) \/ k = c + 1)
        BY <4>1, <4>2, <4>3, Zenon
      <4> QED BY <3>4, <4>4, Zenon
    <3> QED BY <3>3, <3>4
  <2>2. NewsInTasks(m)' = NewsInTasks(m) \union {Token(f, c + 1)}
    <3>1. \A p \in NewsInTasks(m) : p = Token(p.frame, p.nth)
      BY DEF NewsInTasks, Token
    <3>2. \A p \in NewsInTasks(m)' : p = Token(p.frame, p.nth)
      BY DEF NewsInTasks, Token
    <3> HIDE DEF c
    <3>3. \A p \in NewsInTasks(m)' : p \in NewsInTasks(m) \/ p = Token(f, c + 1)
      BY <2>1, <3>2
    <3>4. Token(f, c + 1) \in NewsInTasks(m)'
      BY <2>1
    <3>5. \A p \in NewsInTasks(m) : p \in NewsInTasks(m)'
      <4>1. ASSUME NEW p \in NewsInTasks(m)
            PROVE  p \in NewsInTasks(m)'
        <5>1. Token(p.frame, p.nth) \in NewsInTasks(m)
          BY <3>1
        <5> QED BY <2>1, <3>1, <5>1
      <4> QED BY <4>1
    <3> QED BY <3>3, <3>4, <3>5
  <2> HIDE DEF c
  <2>3. IsFiniteSet(NewsInTasks(m)') /\ Cardinality(NewsInTasks(m)) \in Nat
        /\ Cardinality(NewsInTasks(m)') = IF Token(f, c + 1) \in NewsInTasks(m)
                                          THEN Cardinality(NewsInTasks(m))
                                          ELSE Cardinality(NewsInTasks(m)) + 1
    BY <2>2, FS_AddElement, FS_CardinalityType
  <2> QED BY <1>4, <2>3
<1>5. CASE ~IsNews(f, m)
  <2>1. NewsInTasks(m)' = NewsInTasks(m)
    <3>1. ASSUME NEW h, NEW k
          PROVE  Token(h, k) \in NewsInTasks(m)' <=> Token(h, k) \in NewsInTasks(m)
      BY <1>2, <1>5 DEF NewsInTasks, IsNews, Token
    <3>2. \A p \in NewsInTasks(m) : p = Token(p.frame, p.nth)
      BY DEF NewsInTasks, Token
    <3>3. \A p \in NewsInTasks(m)' : p = Token(p.frame, p.nth)
      BY DEF NewsInTasks, Token
    <3> QED BY <3>1, <3>2, <3>3
  <2>2. Cardinality(NewsInTasks(m)) \in Nat
    BY FS_CardinalityType
  <2> QED BY <2>1, <2>2
<1> QED BY <1>4, <1>5

\* One handler less.
LEMMA TaskDone ==
  ASSUME IInv, NEW m \in Message, IsFiniteSet(NewsInTasks(m)), NEW f \in DOMAIN tasks,
         tasks' = tasks (-) SetToBag({f})
  PROVE  /\ IsFiniteSet(NewsInTasks(m)')
         /\ Cardinality(NewsInTasks(m)') \in Nat
         /\ Cardinality(NewsInTasks(m)') <= Cardinality(NewsInTasks(m))
         /\ IsNews(f, m) => Cardinality(NewsInTasks(m)') < Cardinality(NewsInTasks(m))
<1> DEFINE Rest == NewsInTasks(m) \ {Token(f, tasks[f])}
<1>1. \A h \in DOMAIN tasks : tasks[h] \in Nat \ {0}
  BY DEF IInv, TypeOK, IsABag
<1>2. /\ DOMAIN tasks' = {h \in DOMAIN tasks : h # f \/ tasks[f] > 1}
      /\ f \in DOMAIN tasks' => tasks'[f] = tasks[f] - 1
      /\ \A h \in DOMAIN tasks' : h # f => tasks'[h] = tasks[h]
  BY <1>1 DEF (-), SetToBag
<1>3. NewsInTasks(m)' \in SUBSET Rest
  <2>1. ASSUME NEW p \in NewsInTasks(m)'
        PROVE  p \in Rest
    <3>1. /\ p \in [frame : DOMAIN tasks', nth : Nat \ {0}] /\ IsNews(p.frame, m) /\ p.nth <= tasks'[p.frame]
      BY DEF NewsInTasks, IsNews
    <3>2. p \in [frame : DOMAIN tasks, nth : Nat \ {0}] /\ p.frame \in DOMAIN tasks' /\ p.nth \in Nat
      BY <1>2, <3>1
    <3>3. p.nth <= tasks[p.frame] /\ (p.frame = f => p.nth < tasks[f])
      BY <1>1, <1>2, <3>1, <3>2
    <3>4. p # Token(f, tasks[f])
      BY <1>1, <3>2, <3>3 DEF Token
    <3> QED BY <3>1, <3>2, <3>3, <3>4 DEF NewsInTasks
  <2> QED BY <2>1
<1>4. IsFiniteSet(Rest) /\ Cardinality(NewsInTasks(m)) \in Nat
      /\ Cardinality(Rest) = IF Token(f, tasks[f]) \in NewsInTasks(m)
                             THEN Cardinality(NewsInTasks(m)) - 1
                             ELSE Cardinality(NewsInTasks(m))
  BY FS_RemoveElement, FS_CardinalityType
<1>5. IsNews(f, m) => Token(f, tasks[f]) \in NewsInTasks(m)
  BY <1>1 DEF NewsInTasks, Token
<1> HIDE DEF Rest
<1>6. IsFiniteSet(NewsInTasks(m)') /\ Cardinality(NewsInTasks(m)') <= Cardinality(Rest)
  BY <1>3, <1>4, FS_Subset
<1>7. Cardinality(NewsInTasks(m)') \in Nat
  BY <1>6, FS_CardinalityType
<1> QED BY <1>4, <1>5, <1>6, <1>7

\* How many entries a handler leaves.
LEMMA CopyLengths ==
  ASSUME TypeOK, NEW m \in Message
  PROVE  /\ Len(copies[m]) \in Nat /\ (copies[m] = <<>> <=> Len(copies[m]) = 0)
         /\ \A x \in Message, i \in Nat : Len(Update(x, i)[m]) = Len(copies[m])
         /\ \A p \in Page : Len(Pushed(p)[m]) = IF p[m] = 0 THEN Len(copies[m])
                                                ELSE Len(copies[m]) + 1
         /\ \A p \in Page : Len(Merged(p)[m]) <= 1
         /\ \A x \in Message : \A n \in DOMAIN copies[x] : \A c :
              Len([copies EXCEPT ![x][n] = c][m]) = Len(copies[m])
<1>1. copies \in [Message -> Seq(Copy)]
  BY DEF TypeOK
<1>2. Len(copies[m]) \in Nat /\ (copies[m] = <<>> <=> Len(copies[m]) = 0)
  BY <1>1
<1>3. ASSUME NEW x \in Message, NEW i \in Nat
      PROVE  Len(Update(x, i)[m]) = Len(copies[m])
  <2>1. CASE copies[x] = <<>>
    BY <2>1 DEF Update
  <2>2. CASE copies[x] # <<>>
    <3>1. \A c : Len([copies[x] EXCEPT ![1] = c]) = Len(copies[x])
      BY <1>1
    <3>2. \A s : [copies EXCEPT ![x] = s][m] = IF x = m THEN s ELSE copies[m]
      BY <1>1
    <3>3. \E c : Update(x, i) = [copies EXCEPT ![x] = [copies[x] EXCEPT ![1] = c]]
      BY <1>1, <2>2 DEF Update
    <3> QED BY <3>1, <3>2, <3>3
  <2> QED BY <2>1, <2>2
<1>4. ASSUME NEW p \in Page
      PROVE  Len(Pushed(p)[m]) = IF p[m] = 0 THEN Len(copies[m]) ELSE Len(copies[m]) + 1
  <2>1. \A c : Len(Append(copies[m], c)) = Len(copies[m]) + 1
    BY <1>1
  <2> QED BY <2>1 DEF Pushed
<1>5. ASSUME NEW p \in Page
      PROVE  Len(Merged(p)[m]) <= 1
  <2>1. Len(<<>>) = 0 /\ \A c : Len(<<c>>) = 1
    OBVIOUS
  <2>2. Merged(p)[m] = <<>> \/ \E c : Merged(p)[m] = <<c>>
    BY DEF Merged
  <2>3. CASE Merged(p)[m] = <<>>
    BY <2>1, <2>3
  <2>4. ASSUME NEW c, Merged(p)[m] = <<c>>
        PROVE  Len(Merged(p)[m]) <= 1
    <3>1. Len(Merged(p)[m]) = 1
      BY <2>1, <2>4, Zenon
    <3> QED BY <3>1
  <2> QED BY <2>2, <2>3, <2>4
<1>6. ASSUME NEW x \in Message, NEW n \in DOMAIN copies[x], NEW c
      PROVE  Len([copies EXCEPT ![x][n] = c][m]) = Len(copies[m])
  <2>1. Len([copies[x] EXCEPT ![n] = c]) = Len(copies[x])
    BY <1>1
  <2>2. [copies EXCEPT ![x][n] = c][m] = IF x = m THEN [copies[x] EXCEPT ![n] = c]
                                          ELSE copies[m]
    BY <1>1
  <2> QED BY <2>1, <2>2
<1> QED BY <1>2, <1>3, <1>4, <1>5, <1>6

\* A frame that is handled adds the entry that was counted for it.
LEMMA ListingsKept ==
  ASSUME IInv, [Next]_vars, NEW m \in Message, IsFiniteSet(NewsInTasks(m)),
         ~ \E g \in Gateway : BroadcastMessage(g)
  PROVE  /\ IsFiniteSet(NewsInTasks(m)') /\ Listings(m) \in Nat /\ Listings(m)' \in Nat
         /\ Listings(m)' <= Listings(m)
<1> DEFINE W == Cardinality(NewsInWire(m))
           T == Cardinality(NewsInTasks(m))
<1>0. /\ IsFiniteSet(NewsInWire(m)) /\ W \in Nat /\ T \in Nat
      /\ Entries(m) \in Nat /\ Listings(m) = Entries(m) + W + T
  BY WireCount, FS_CardinalityType, CopyLengths DEF IInv, Entries, Listings
<1>1. UNCHANGED copies => Entries(m)' = Entries(m)
  BY DEF Entries
<1>2. UNCHANGED wire => W' = W
  BY DEF NewsInWire, IsNews
<1>3. UNCHANGED tasks => IsFiniteSet(NewsInTasks(m)') /\ T' = T
  BY DEF NewsInTasks, IsNews
<1>4. Listings(m)' = Entries(m)' + W' + T'
  BY DEF Listings
<1>5. Len(copies'[m]) = Len(copies[m]) => Entries(m)' = Entries(m)
  <2>1. TypeOK'
    BY TypeStep DEF IInv
  <2>2. copies'[m] = <<>> <=> Len(copies'[m]) = 0
    BY <2>1 DEF TypeOK
  <2> QED BY <2>2, CopyLengths DEF IInv, Entries
<1>6. ASSUME W' \in Nat, T' \in Nat, Entries(m)' \in Nat, IsFiniteSet(NewsInTasks(m)'),
             Entries(m)' + W' + T' <= Entries(m) + W + T
      PROVE  /\ IsFiniteSet(NewsInTasks(m)') /\ Listings(m) \in Nat /\ Listings(m)' \in Nat
             /\ Listings(m)' <= Listings(m)
  <2> HIDE DEF W, T
  <2> QED BY <1>0, <1>4, <1>6
<1> DEFINE Goal == /\ IsFiniteSet(NewsInTasks(m)') /\ Listings(m) \in Nat /\ Listings(m)' \in Nat
                   /\ Listings(m)' <= Listings(m)
<1>7. CASE UNCHANGED <<wire, tasks, copies>>
  BY <1>0, <1>1, <1>2, <1>3, <1>4, <1>7
<1>8. ASSUME NEW f \in Frame, f.kind # "new", wire' = Append(wire, f), UNCHANGED <<tasks, copies>>
      PROVE  Goal
  <2>1. ~IsNews(f, m)
    BY <1>8 DEF IsNews
  <2>2. W' = W
    BY <1>8, <2>1, WireAppend
  <2> QED BY <1>0, <1>1, <1>3, <1>6, <1>8, <2>2
<1>9. ASSUME NEW g \in Gateway, BroadcastUpdate(g)
      PROVE  Goal
  <2>1. PICK i \in DOMAIN log :
          Deliver(g, [kind |-> "update", page |-> [Nothing EXCEPT ![log[i].msg] = i]])
    BY <1>9 DEF BroadcastUpdate
  <2>2. [kind |-> "update", page |-> [Nothing EXCEPT ![log[i].msg] = i]] \in Frame
    BY LogFacts, PageFacts DEF Frame, IInv
  <2>3. UNCHANGED <<tasks, copies>>
    BY <1>9 DEF BroadcastUpdate, tabVars
  <2> QED BY <1>7, <1>8, <2>1, <2>2, <2>3 DEF Deliver
<1>10. CASE WriteHistory
  <2>1. [kind |-> "history", page |-> Head(answer)] \in Frame
    BY <1>10 DEF WriteHistory, Frame, IInv, TypeOK
  <2> QED BY <1>8, <1>10, <2>1 DEF WriteHistory, tabVars
<1>11. CASE Notice
  <2>1. wire' = <<>> /\ UNCHANGED <<tasks, copies>>
    BY <1>11 DEF Notice, tabVars
  <2>2. NewsInWire(m)' = {}
    BY <2>1 DEF NewsInWire
  <2>3. W' = 0
    BY <2>2, FS_EmptySet
  <2> QED BY <1>0, <1>1, <1>3, <1>6, <2>1, <2>3
<1>12. CASE Receive
  <2>1. wire # <<>> /\ wire' = Tail(wire) /\ Head(wire) \in Frame
    BY <1>12 DEF Receive, IInv, TypeOK
  <2>2. W' \in Nat /\ W' <= W /\ (IsNews(Head(wire), m) => W' < W)
    BY <2>1, WireTail
  <2>3. CASE Head(wire).kind = "update"
    <3>1. UNCHANGED tasks
      BY <1>12, <2>3 DEF Receive
    <3>2. PICK x \in Message : copies' = Update(x, Head(wire).page[x])
      BY <1>12, <2>3 DEF Receive
    <3>3. Head(wire).page[x] \in Nat
      BY <2>1 DEF Frame, Page
    <3>4. Entries(m)' = Entries(m)
      BY <1>5, <3>2, <3>3, CopyLengths DEF IInv
    <3> HIDE DEF W, T
    <3> QED BY <1>0, <1>3, <1>6, <2>2, <3>1, <3>4
  <2>4. CASE Head(wire).kind # "update"
    <3>1. tasks' = tasks (+) SetToBag({Head(wire)}) /\ UNCHANGED copies
      BY <1>12, <2>4 DEF Receive
    <3>2. /\ IsFiniteSet(NewsInTasks(m)') /\ T' \in Nat /\ T' <= T + 1
          /\ ~IsNews(Head(wire), m) => T' = T
      BY <2>1, <3>1, TaskAdded
    <3> HIDE DEF W, T
    <3> QED BY <1>0, <1>1, <1>6, <2>2, <3>1, <3>2
  <2> QED BY <2>3, <2>4
<1>13. ASSUME NEW x \in Message, NEW n \in DOMAIN copies[x], NEW i \in copies[x][n].pending,
              EditDecrypted(x, n, i)
       PROVE  Goal
  <2>1. Len(copies'[m]) = Len(copies[m]) /\ UNCHANGED <<wire, tasks>>
    BY <1>13, CopyLengths DEF EditDecrypted, IInv
  <2> QED BY <1>0, <1>2, <1>3, <1>5, <1>6, <2>1
<1>14. ASSUME NEW f \in DOMAIN tasks, Decrypted(f)
       PROVE  Goal
  <2>1. tasks' = tasks (-) SetToBag({f}) /\ UNCHANGED wire
        /\ copies' = IF f.kind = "new" THEN Pushed(f.page) ELSE Merged(f.page)
    BY <1>14 DEF Decrypted
  <2>2. f.page \in Page
    BY DEF IInv, TypeOK, Frame
  <2>3. /\ IsFiniteSet(NewsInTasks(m)') /\ T' \in Nat /\ T' <= T
        /\ IsNews(f, m) => T' < T
    BY <2>1, TaskDone
  <2>4. Len(copies'[m]) \in Nat /\ (copies'[m] = <<>> <=> Len(copies'[m]) = 0)
    <3>1. TypeOK'
      BY TypeStep DEF IInv
    <3> QED BY <3>1 DEF TypeOK
  <2>5. Entries(m)' \in Nat /\ Entries(m)' + T' <= Entries(m) + T
    <3>1. CASE f.kind = "new"
      <4>1. Len(copies'[m]) = IF f.page[m] = 0 THEN Len(copies[m]) ELSE Len(copies[m]) + 1
        BY <2>1, <2>2, <3>1, CopyLengths DEF IInv
      <4>2. Len(copies[m]) \in Nat /\ (copies[m] = <<>> <=> Len(copies[m]) = 0)
        BY CopyLengths DEF IInv
      <4>3. IsNews(f, m) <=> f.page[m] # 0
        BY <3>1 DEF IsNews
      <4> HIDE DEF W, T
      <4> QED BY <1>0, <2>3, <2>4, <4>1, <4>2, <4>3 DEF Entries
    <3>2. CASE f.kind # "new"
      <4>1. Len(copies'[m]) <= 1
        BY <2>1, <2>2, <3>2, CopyLengths DEF IInv
      <4>2. Len(copies[m]) \in Nat /\ (copies[m] = <<>> <=> Len(copies[m]) = 0)
        BY CopyLengths DEF IInv
      <4>3. Entries(m) >= 1 /\ Entries(m)' = 1
        <5>1. Entries(m) >= 1
          BY <4>2 DEF Entries
        <5>2. copies'[m] # <<>> => Len(copies'[m]) = 1
          <6>1. \A k \in Nat : k <= 1 => k = 0 \/ k = 1
            OBVIOUS
          <6> QED BY <2>4, <4>1, <6>1, Zenon
        <5> QED BY <5>1, <5>2 DEF Entries
      <4> HIDE DEF W, T
      <4> QED BY <1>0, <2>3, <4>3
    <3> QED BY <3>1, <3>2
  <2>6. W' = W
    BY <1>2, <2>1
  <2> HIDE DEF W, T
  <2> QED BY <1>0, <1>6, <2>3, <2>5, <2>6
<1> QED BY <1>7, <1>9, <1>10, <1>11, <1>12, <1>13, <1>14
        DEF Next, vars, gatewayVars, tabVars, GatewayStep, SessionStep, TabStep, MakeChange,
            GetMessage, LookupFails, LoseConsumer, Skip, Register, GetHistory, GetHistoryFails,
            Break, Open, SelectChat, Refresh

\* The broadcast of a message adds one listing, of that message.
LEMMA ListingsGrow ==
  ASSUME IInv, NEW g \in Gateway, BroadcastMessage(g), NEW m \in Message,
         IsFiniteSet(NewsInTasks(m))
  PROVE  /\ IsFiniteSet(NewsInTasks(m)') /\ Listings(m) \in Nat /\ Listings(m)' \in Nat
         /\ Listings(m)' <= Listings(m) + 1
         /\ Listings(m)' # Listings(m) => /\ conn = [phase |-> "live", at |-> g]
                                          /\ log[found[g].event].msg = m
<1> DEFINE W == Cardinality(NewsInWire(m))
           T == Cardinality(NewsInTasks(m))
           f == [kind |-> "new",
                 page |-> [Nothing EXCEPT ![log[found[g].event].msg] = found[g].shows]]
<1>0. /\ IsFiniteSet(NewsInWire(m)) /\ W \in Nat /\ T \in Nat
      /\ Entries(m) \in Nat /\ Listings(m) = Entries(m) + W + T
  BY WireCount, FS_CardinalityType, CopyLengths DEF IInv, Entries, Listings
<1>1. /\ UNCHANGED <<tasks, copies>>
      /\ wire' = IF conn = [phase |-> "live", at |-> g] THEN Append(wire, f) ELSE wire
  BY DEF BroadcastMessage, Deliver, tabVars
<1>2. NewsInTasks(m)' = NewsInTasks(m) /\ Entries(m)' = Entries(m)
  BY <1>1 DEF NewsInTasks, IsNews, Entries
<1>3. Listings(m)' = Entries(m) + W' + T
  BY <1>2 DEF Listings
<1>4. found[g] \in Body /\ log[found[g].event].msg \in Message
  BY LogFacts DEF BroadcastMessage, IInv, Behind, TypeOK
<1>5. f \in Frame /\ (IsNews(f, m) => log[found[g].event].msg = m)
  <2>1. f \in Frame
    BY <1>4, PageFacts DEF Frame, Body, IInv
  <2>2. ASSUME log[found[g].event].msg # m
        PROVE  f.page[m] = 0
    BY <2>2 DEF Nothing
  <2> QED BY <2>1, <2>2 DEF IsNews
<1>6. /\ W' \in Nat /\ W' <= W + 1
      /\ W' # W => conn = [phase |-> "live", at |-> g] /\ IsNews(f, m)
  <2> HIDE DEF f
  <2>1. CASE conn = [phase |-> "live", at |-> g]
    <3>1. wire' = Append(wire, f)
      BY <1>1, <2>1
    <3> QED BY <1>5, <2>1, <3>1, WireAppend
  <2>2. CASE conn # [phase |-> "live", at |-> g]
    <3>1. UNCHANGED wire
      BY <1>1, <2>2
    <3>2. W' = W
      BY <3>1 DEF NewsInWire, IsNews
    <3> HIDE DEF W
    <3> QED BY <1>0, <3>2
  <2> QED BY <2>1, <2>2
<1> HIDE DEF W, T, f
<1> QED BY <1>0, <1>2, <1>3, <1>5, <1>6
-----------------------------------------------------------------------------
\* A message is sent once.
LEMMA SentOnceStep ==
  ASSUME IInv, SentOnce, [Next]_vars
  PROVE  SentOnce'
<1>1. CASE UNCHANGED log
  BY <1>1 DEF SentOnce, Sent, Changes
<1>2. ASSUME NEW op \in {"created", "edited", "deleted"}, NEW x \in Message, MakeChange(op, x)
      PROVE  SentOnce'
  <2>1. /\ \A i \in DOMAIN log : log'[i] = log[i]
        /\ log'[Len(log) + 1] = [op |-> op, msg |-> x]
        /\ \A m \in Message : Changes(m)' = IF m = x THEN Changes(m) \union {Len(log) + 1}
                                            ELSE Changes(m)
    BY <1>2, LogStep
  <2>2. op = "created" => Changes(x) = {}
    BY <1>2, LatestFacts DEF MakeChange, IInv
  <2>3. ASSUME NEW m \in Message, NEW i \in Sent(m)', NEW j \in Sent(m)'
        PROVE  i = j
    <3>1. i \in Changes(m)' /\ log'[i].op = "created" /\ j \in Changes(m)' /\ log'[j].op = "created"
      BY DEF Sent
    <3>2. \A k \in Changes(m) : k \in DOMAIN log
      BY DEF Changes
    <3>3. CASE m = x /\ op = "created"
      BY <2>1, <2>2, <3>1, <3>3
    <3>4. CASE ~(m = x /\ op = "created")
      <4>1. \A k \in Changes(m)' : log'[k].op = "created" => k \in Sent(m)
        BY <2>1, <3>2, <3>4 DEF Sent
      <4> QED BY <3>1, <4>1 DEF SentOnce
    <3> QED BY <3>3, <3>4
  <2> QED BY <2>3 DEF SentOnce
<1> QED BY <1>1, <1>2, LogMoves

\* How a gateway moves on: a consumer only forward, and it holds what it has just read.
LEMMA GatewayMoves ==
  ASSUME IInv, NEW g \in Gateway, GatewayStep(g), NEW h \in Gateway
  PROVE  /\ \A k \in Subject : next'[h][k] >= next[h][k]
         /\ \/ next'[h]["created"] = next[h]["created"]
               /\ (found'[h] = found[h] \/ (BroadcastMessage(g) /\ h = g /\ found'[h] = None))
            \/ found[h] = None /\ found'[h] = None
            \/ \E i \in DOMAIN log :
                 /\ IsNext(g, "created", i) /\ h = g /\ found[g] = None
                 /\ next'[g]["created"] = i + 1
                 /\ found'[g] = [event |-> i, shows |-> Latest(log[i].msg)]
<1>0. /\ next \in [Gateway -> [Subject -> Nat \ {0}]] /\ found \in [Gateway -> Body]
      /\ Subject = {"created", "updated"}
  BY DEF IInv, TypeOK, Subject
<1>1. CASE GetMessage(g)
  <2>1. PICK i \in DOMAIN log :
          /\ IsNext(g, "created", i) /\ found[g] = None
          /\ next' = [next EXCEPT ![g]["created"] = i + 1]
          /\ found' = [found EXCEPT ![g] = [event |-> i, shows |-> Latest(log[i].msg)]]
    BY <1>1 DEF GetMessage
  <2>2. i \in Nat /\ i >= next[g]["created"]
    BY <1>0, <2>1, LogFacts DEF IsNext, IInv
  <2>3. CASE h = g
    <3>1. next'[g]["created"] = i + 1 /\ next'[g]["updated"] = next[g]["updated"]
          /\ found'[g] = [event |-> i, shows |-> Latest(log[i].msg)]
      BY <1>0, <2>1
    <3> QED BY <1>0, <2>1, <2>2, <2>3, <3>1
  <2>4. CASE h # g
    BY <1>0, <2>1, <2>4
  <2> QED BY <2>3, <2>4
<1>2. CASE BroadcastMessage(g)
  <2>1. found' = [found EXCEPT ![g] = None] /\ UNCHANGED next
    BY <1>2 DEF BroadcastMessage
  <2> QED BY <1>0, <1>2, <2>1
<1>3. CASE BroadcastUpdate(g)
  <2>1. PICK i \in DOMAIN log :
          IsNext(g, "updated", i) /\ next' = [next EXCEPT ![g]["updated"] = i + 1]
          /\ UNCHANGED found
    BY <1>3 DEF BroadcastUpdate
  <2>2. i \in Nat /\ i >= next[g]["updated"]
    BY <1>0, <2>1, LogFacts DEF IsNext, IInv
  <2>3. next'[h]["created"] = next[h]["created"]
    BY <1>0, <2>1
  <2>4. next'[h]["updated"] >= next[h]["updated"]
    BY <1>0, <2>1, <2>2
  <2> QED BY <1>0, <2>1, <2>3, <2>4
<1>4. ASSUME NEW k \in Subject, LookupFails(g, k) \/ LoseConsumer(g, k)
      PROVE  /\ \A l \in Subject : next'[h][l] >= next[h][l]
             /\ \/ next'[h]["created"] = next[h]["created"] /\ found'[h] = found[h]
                \/ found[h] = None /\ found'[h] = None
  <2>1. PICK n \in Nat : Skip(g, k, n) /\ n >= next[g][k]
    <3>1. CASE LookupFails(g, k)
      BY <1>0, <3>1, LogFacts DEF LookupFails, IsNext, IInv
    <3>2. Len(log) \in Nat
      BY DEF IInv, TypeOK
    <3>3. CASE LoseConsumer(g, k)
      BY <1>0, <3>2, <3>3 DEF LoseConsumer
    <3> QED BY <1>4, <3>1, <3>3
  <2>2. /\ next' = [next EXCEPT ![g][k] = n] /\ UNCHANGED found
        /\ k = "created" => found[g] = None
    BY <2>1 DEF Skip
  <2>3. \A l \in Subject : next'[h][l] = IF h = g /\ l = k THEN n ELSE next[h][l]
    BY <1>0, <2>2
  <2> QED BY <1>0, <2>1, <2>2, <2>3
<1> QED BY <1>1, <1>2, <1>3, <1>4 DEF GatewayStep

LEMMA FoundNewStep ==
  ASSUME IInv, FoundNew, [Next]_vars
  PROVE  FoundNew'
<1>1. CASE UNCHANGED <<next, found, log>>
  BY <1>1 DEF FoundNew
<1>2. ASSUME NEW op \in {"created", "edited", "deleted"}, NEW x \in Message, MakeChange(op, x)
      PROVE  FoundNew'
  <2>1. UNCHANGED <<next, found>> /\ \A i \in DOMAIN log : log'[i] = log[i]
    BY <1>2, LogStep DEF MakeChange, gatewayVars
  <2> QED BY <2>1 DEF FoundNew, IInv, Behind
<1>3. ASSUME NEW g \in Gateway, GatewayStep(g)
      PROVE  FoundNew'
  <2>1. UNCHANGED log
    BY <1>3 DEF GatewayStep, GetMessage, BroadcastMessage, BroadcastUpdate, LookupFails,
                LoseConsumer, Skip
  <2>2. ASSUME NEW h \in Gateway, found'[h] # None
        PROVE  found'[h].event < next'[h]["created"] /\ log[found'[h].event].op = "created"
    <3>1. CASE next'[h]["created"] = next[h]["created"] /\ found'[h] = found[h]
      BY <2>2, <3>1 DEF FoundNew
    <3>2. ASSUME NEW i \in DOMAIN log, IsNext(g, "created", i), h = g,
                 next'[g]["created"] = i + 1,
                 found'[g] = [event |-> i, shows |-> Latest(log[i].msg)]
          PROVE  found'[h].event < next'[h]["created"] /\ log[found'[h].event].op = "created"
      <4>1. i \in Nat
        BY LogFacts DEF IInv
      <4> QED BY <3>2, <4>1 DEF IsNext, Mine
    <3>3. \/ next'[h]["created"] = next[h]["created"] /\ found'[h] = found[h]
          \/ \E i \in DOMAIN log :
               /\ IsNext(g, "created", i) /\ h = g
               /\ next'[g]["created"] = i + 1
               /\ found'[g] = [event |-> i, shows |-> Latest(log[i].msg)]
      BY <1>3, <2>2, GatewayMoves, Zenon
    <3> QED BY <3>1, <3>2, <3>3
  <2> QED BY <2>1, <2>2 DEF FoundNew
<1> QED BY <1>1, <1>2, <1>3, SourceMoves

\* A gateway that has broadcast a message, or gone past it, does not do so again.
LEMMA UntoldStep ==
  ASSUME IInv, SentOnce, FoundNew, [Next]_vars, NEW m \in Message
  PROVE  /\ Untold(m)' \subseteq Untold(m)
         /\ \A g \in Gateway : BroadcastMessage(g) /\ log[found[g].event].msg = m
              => g \in Untold(m) /\ g \notin Untold(m)'
<1>0. /\ \A i \in Sent(m) : i \in Nat /\ i \in DOMAIN log
      /\ \A g \in Gateway : next[g]["created"] \in Nat /\ next[g]["updated"] \in Nat
  BY LogFacts DEF IInv, TypeOK, Sent, Changes, Subject
<1>1. ASSUME UNCHANGED log
      PROVE  Sent(m)' = Sent(m)
  BY <1>1 DEF Sent, Changes
<1>2. ASSUME UNCHANGED <<next, found, log>>
      PROVE  Untold(m)' = Untold(m) /\ UNCHANGED found
  <2>1. Sent(m)' = Sent(m) /\ UNCHANGED <<next, found>>
    BY <1>1, <1>2
  <2> QED BY <2>1 DEF Untold
<1>3. ASSUME NEW op \in {"created", "edited", "deleted"}, NEW x \in Message, MakeChange(op, x)
      PROVE  Untold(m)' \subseteq Untold(m) /\ UNCHANGED found
  <2>1. UNCHANGED <<next, found>> /\ \A i \in DOMAIN log : log'[i] = log[i]
    BY <1>3, LogStep DEF MakeChange, gatewayVars
  <2>2. Changes(m) \subseteq Changes(m)'
    BY <1>3, LogStep
  <2>3. Sent(m) \subseteq Sent(m)'
    BY <2>1, <2>2 DEF Sent, Changes
  <2> QED BY <2>1, <2>3 DEF Untold
<1>4. ASSUME NEW g \in Gateway, GatewayStep(g)
      PROVE  Untold(m)' \subseteq Untold(m)
  <2>1. Sent(m)' = Sent(m)
    <3>1. UNCHANGED log
      BY <1>4 DEF GatewayStep, GetMessage, BroadcastMessage, BroadcastUpdate, LookupFails,
                  LoseConsumer, Skip
    <3> QED BY <1>1, <3>1
  <2>2. ASSUME NEW h \in Untold(m)', NEW i \in Sent(m)
        PROVE  next[h]["created"] <= i \/ (found[h] # None /\ found[h].event = i)
    <3>1. h \in Gateway /\ (next'[h]["created"] <= i \/ (found'[h] # None /\ found'[h].event = i))
      BY <2>1 DEF Untold
    <3>2. next'[h]["created"] >= next[h]["created"] /\ next'[h]["created"] \in Nat
      <4>1. TypeOK'
        BY TypeStep DEF IInv
      <4> QED BY <1>4, <3>1, <4>1, GatewayMoves DEF TypeOK, Subject
    <3>3. CASE next'[h]["created"] <= i
      BY <1>0, <3>1, <3>2, <3>3
    <3>4. CASE found'[h] # None /\ found'[h].event = i
      <4>1. CASE found'[h] = found[h]
        BY <3>4, <4>1
      <4>2. ASSUME NEW j \in DOMAIN log, IsNext(g, "created", j), h = g,
                   found'[g] = [event |-> j, shows |-> Latest(log[j].msg)]
            PROVE  next[h]["created"] <= i
        BY <1>0, <3>1, <3>4, <4>2 DEF IsNext
      <4>3. \/ found'[h] = found[h]
            \/ \E j \in DOMAIN log :
                 /\ IsNext(g, "created", j) /\ h = g
                 /\ found'[g] = [event |-> j, shows |-> Latest(log[j].msg)]
        BY <1>4, <3>1, <3>4, GatewayMoves, Zenon
      <4> QED BY <4>1, <4>2, <4>3
    <3> QED BY <3>1, <3>3, <3>4
  <2> QED BY <2>1, <2>2 DEF Untold
<1>5. ASSUME NEW g \in Gateway, BroadcastMessage(g), log[found[g].event].msg = m
      PROVE  g \in Untold(m) /\ g \notin Untold(m)'
  <2>1. /\ found[g] # None /\ UNCHANGED <<log, next>> /\ found' = [found EXCEPT ![g] = None]
    BY <1>5 DEF BroadcastMessage
  <2>2. found[g].event \in Sent(m) /\ found[g].event < next[g]["created"]
    BY <1>5, <2>1 DEF FoundNew, IInv, Behind, Sent, Changes
  <2>3. g \in Untold(m)
    BY <2>1, <2>2 DEF Untold, SentOnce
  <2>4. found'[g] = None /\ found[g].event \in Sent(m)'
    BY <1>1, <2>1, <2>2 DEF IInv, TypeOK
  <2>5. ~(next'[g]["created"] <= found[g].event)
    BY <1>0, <2>1, <2>2
  <2> QED BY <2>3, <2>4, <2>5 DEF Untold
<1> QED BY <1>2, <1>3, <1>4, <1>5, SourceMoves

\* The chance goes when the gateway of the tab broadcasts; a broken connection
\* may bring it back.
LEMMA ChanceStep ==
  ASSUME IInv, SentOnce, FoundNew, [Next]_vars, NEW m \in Message
  PROVE  /\ Chance(m) \in {0, 1} /\ Chance(m)' \in {0, 1}
         /\ breaks \in Nat /\ breaks' \in Nat /\ breaks' >= breaks
         /\ breaks' = breaks => Chance(m)' <= Chance(m)
<1>1. Chance(m) \in {0, 1} /\ Chance(m)' \in {0, 1}
  BY DEF Chance
<1>2. TypeOK'
  BY TypeStep DEF IInv
<1>3. breaks \in Nat /\ breaks' \in Nat
  BY <1>2 DEF IInv, TypeOK
<1>4. Break \/ UNCHANGED breaks
  BY ZenonT(60) DEF Next, vars, gatewayVars, tabVars, GatewayStep, SessionStep, TabStep, MakeChange,
         GetMessage, BroadcastMessage, BroadcastUpdate, LookupFails, LoseConsumer, Skip, Register,
         GetHistory, GetHistoryFails, WriteHistory, Notice, Open, SelectChat, Refresh, Receive,
         EditDecrypted, Decrypted
<1>5. CASE Break
  BY <1>1, <1>3, <1>5 DEF Break
<1>6. CASE UNCHANGED breaks
  <2>1. Connected => Connected' /\ conn'.at = conn.at
    <3>1. ~Break
      BY <1>3, <1>6 DEF Break
    <3>2. CASE UNCHANGED conn
      BY <3>2 DEF Connected
    <3>3. CASE Register
      BY <3>3 DEF Register, Connected, IInv, TypeOK
    <3>4. CASE Notice
      BY <3>4 DEF Notice, Connected
    <3>5. ASSUME NEW g \in Gateway, Open(g)
          PROVE  ~Connected
      BY <3>5 DEF Open, Connected
    <3> QED BY ZenonT(60), <3>1, <3>2, <3>3, <3>4, <3>5
            DEF Next, vars, gatewayVars, tabVars, GatewayStep, SessionStep, TabStep, MakeChange,
                GetMessage, BroadcastMessage, BroadcastUpdate, LookupFails, LoseConsumer, Skip,
                GetHistory, GetHistoryFails, WriteHistory, SelectChat, Refresh, Receive,
                EditDecrypted, Decrypted
  <2>2. Untold(m)' \subseteq Untold(m)
    BY UntoldStep
  <2>3. Chance(m) = 0 => Chance(m)' = 0
    BY <2>1, <2>2 DEF Chance
  <2> QED BY <1>1, <1>3, <1>6, <2>3
<1> QED BY <1>4, <1>5, <1>6

LEMMA BudgetStep ==
  ASSUME CopiesInv, [Next]_vars
  PROVE  Budget'
<1> SUFFICES ASSUME NEW m \in Message
             PROVE  /\ IsFiniteSet(NewsInTasks(m)')
                    /\ Listings(m)' + Cardinality(Untold(m)') <= 1 + Cardinality(Gateway)
                    /\ Listings(m)' + Chance(m)' <= 2 + breaks'
  BY DEF Budget
<1>0. /\ IInv /\ SentOnce /\ FoundNew
      /\ IsFiniteSet(NewsInTasks(m))
      /\ Listings(m) + Cardinality(Untold(m)) <= 1 + Cardinality(Gateway)
      /\ Listings(m) + Chance(m) <= 2 + breaks
  BY DEF CopiesInv, Budget
<1>1. /\ IsFiniteSet(Gateway) /\ IsFiniteSet(Untold(m)) /\ IsFiniteSet(Untold(m)')
      /\ Cardinality(Untold(m)') <= Cardinality(Untold(m))
  <2>1. Untold(m) \in SUBSET Gateway
    BY DEF Untold
  <2>2. IsFiniteSet(Untold(m))
    BY <2>1, DeliveryAssumption, FS_Subset
  <2>3. Untold(m)' \in SUBSET Untold(m)
    BY <1>0, UntoldStep
  <2> QED BY <2>2, <2>3, DeliveryAssumption, FS_Subset
<1>2. /\ Cardinality(Gateway) \in Nat /\ Cardinality(Untold(m)) \in Nat
      /\ Cardinality(Untold(m)') \in Nat
  BY <1>1, FS_CardinalityType
<1>3. /\ Chance(m) \in {0, 1} /\ Chance(m)' \in {0, 1}
      /\ breaks \in Nat /\ breaks' \in Nat /\ breaks' >= breaks
      /\ breaks' = breaks => Chance(m)' <= Chance(m)
  BY <1>0, ChanceStep
<1>4. CASE ~ \E g \in Gateway : BroadcastMessage(g)
  <2>1. /\ IsFiniteSet(NewsInTasks(m)') /\ Listings(m) \in Nat /\ Listings(m)' \in Nat
        /\ Listings(m)' <= Listings(m)
    BY <1>0, <1>4, ListingsKept
  <2> QED BY <1>0, <1>1, <1>2, <1>3, <2>1
<1>5. ASSUME NEW g \in Gateway, BroadcastMessage(g)
      PROVE  /\ IsFiniteSet(NewsInTasks(m)')
             /\ Listings(m)' + Cardinality(Untold(m)') <= 1 + Cardinality(Gateway)
             /\ Listings(m)' + Chance(m)' <= 2 + breaks'
  <2>1. /\ IsFiniteSet(NewsInTasks(m)') /\ Listings(m) \in Nat /\ Listings(m)' \in Nat
        /\ Listings(m)' <= Listings(m) + 1
        /\ Listings(m)' # Listings(m) => /\ conn = [phase |-> "live", at |-> g]
                                         /\ log[found[g].event].msg = m
    BY <1>0, <1>5, ListingsGrow
  <2>2. UNCHANGED <<breaks, conn>>
    BY <1>5 DEF BroadcastMessage
  <2>3. CASE Listings(m)' = Listings(m)
    BY <1>0, <1>1, <1>2, <1>3, <2>1, <2>2, <2>3
  <2>4. CASE Listings(m)' # Listings(m)
    <3>1. g \in Untold(m) /\ g \notin Untold(m)' /\ Untold(m)' \subseteq Untold(m)
      BY <1>0, <1>5, <2>1, <2>4, UntoldStep
    <3>2. Cardinality(Untold(m)') < Cardinality(Untold(m))
      <4>1. /\ IsFiniteSet(Untold(m) \ {g})
            /\ Cardinality(Untold(m) \ {g}) = Cardinality(Untold(m)) - 1
        BY <1>1, <3>1, FS_RemoveElement
      <4>2. Untold(m)' \in SUBSET (Untold(m) \ {g})
        BY <3>1
      <4>3. Cardinality(Untold(m)') <= Cardinality(Untold(m) \ {g})
        BY <4>1, <4>2, FS_Subset
      <4> QED BY <1>2, <4>1, <4>3
    <3>3. Chance(m) = 1 /\ Chance(m)' = 0
      <4>1. Connected /\ Connected' /\ conn.at = g /\ conn'.at = g
        BY <2>1, <2>2, <2>4 DEF Connected
      <4> QED BY <3>1, <4>1 DEF Chance
    <3>4. UNCHANGED breaks
      BY <2>2
    <3> QED BY <1>0, <1>2, <1>3, <2>1, <3>2, <3>3, <3>4
  <2> QED BY <2>3, <2>4
<1> QED BY <1>4, <1>5

\* A message has at most one entry for every gateway and one from a page, and more
\* than two only after a break: no gateway delivers an event twice, and the frames
\* and handlers that still list the message are counted with its entries.
THEOREM FewListed == Spec => []FewCopies
<1>1. Init => CopiesInv
  <2> SUFFICES ASSUME Init
               PROVE  CopiesInv
    OBVIOUS
  <2>1. IInv
    BY InitIInv
  <2>2. SentOnce /\ FoundNew
    BY DEF Init, SentOnce, Sent, Changes, FoundNew
  <2>3. ASSUME NEW m \in Message
        PROVE  /\ IsFiniteSet(NewsInTasks(m))
               /\ Listings(m) + Cardinality(Untold(m)) <= 1 + Cardinality(Gateway)
               /\ Listings(m) + Chance(m) <= 2 + breaks
    <3>1. NewsInWire(m) = {} /\ NewsInTasks(m) = {}
      BY DEF Init, NewsInWire, NewsInTasks, EmptyBag, SetToBag
    <3>2. Entries(m) = 1
      BY DEF Init, Entries
    <3>3. Listings(m) = 1 /\ IsFiniteSet(NewsInTasks(m))
      BY <3>1, <3>2, FS_EmptySet DEF Listings
    <3>4. Untold(m) \in SUBSET Gateway
      BY DEF Untold
    <3>5. Cardinality(Untold(m)) <= Cardinality(Gateway)
      BY <3>4, DeliveryAssumption, FS_Subset
    <3>6. Cardinality(Untold(m)) \in Nat /\ Cardinality(Gateway) \in Nat
      BY <3>4, DeliveryAssumption, FS_Subset, FS_CardinalityType
    <3>7. Chance(m) = 1 /\ breaks = 0
      BY DEF Init, Chance, Connected
    <3> QED BY <3>3, <3>5, <3>6, <3>7
  <2> QED BY <2>1, <2>2, <2>3 DEF CopiesInv, Budget
<1>2. CopiesInv /\ [Next]_vars => CopiesInv'
  BY Inductive, SentOnceStep, FoundNewStep, BudgetStep DEF CopiesInv
<1>3. CopiesInv => FewCopies
  <2> SUFFICES ASSUME CopiesInv, NEW m \in Message
               PROVE  Len(copies[m]) <= 2 + breaks /\ Len(copies[m]) <= 1 + Cardinality(Gateway)
    BY DEF FewCopies
  <2>1. /\ IInv /\ IsFiniteSet(NewsInTasks(m))
        /\ Listings(m) + Cardinality(Untold(m)) <= 1 + Cardinality(Gateway)
        /\ Listings(m) + Chance(m) <= 2 + breaks
    BY DEF CopiesInv, Budget
  <2>2. Untold(m) \in SUBSET Gateway
    BY DEF Untold
  <2>3. Cardinality(Untold(m)) \in Nat /\ Cardinality(Gateway) \in Nat
    BY <2>2, DeliveryAssumption, FS_Subset, FS_CardinalityType
  <2>4. Cardinality(NewsInWire(m)) \in Nat /\ Cardinality(NewsInTasks(m)) \in Nat
    BY <2>1, WireCount, FS_CardinalityType
  <2>5. Len(copies[m]) \in Nat /\ Len(copies[m]) <= Entries(m) /\ Entries(m) \in Nat
    BY <2>1, CopyLengths DEF IInv, Entries
  <2>6. Chance(m) \in {0, 1} /\ breaks \in Nat
    BY <2>1 DEF Chance, IInv, TypeOK
  <2>7. Len(copies[m]) <= Listings(m) /\ Listings(m) \in Nat
    BY <2>4, <2>5 DEF Listings
  <2> QED BY <2>1, <2>3, <2>5, <2>6, <2>7
<1> QED BY <1>1, <1>2, <1>3, PTL DEF Spec
-----------------------------------------------------------------------------
(***************************************************************************)
(* What a message that is listed shows.                                    *)
(***************************************************************************)

Updates(m) == {i \in Changes(m) : log[i].op # "created"}

\* A body of message m that is on its way to be listed shows change j.
Carried(m, j) ==
  \/ \E g \in Gateway : found[g] # None /\ log[found[g].event].msg = m /\ found[g].shows = j
  \/ \E f \in ToSet(wire) \union DOMAIN tasks : Brings(f, m) /\ f.page[m] = j
  \/ \E p \in ToSet(answer) : p[m] # 0 /\ p[m] = j

\* An update with change j is on the wire.
Told(m, j) == \E f \in ToSet(wire) : f.kind = "update" /\ f.page[m] # 0 /\ f.page[m] = j

Awaited(m, j) == \E c \in ToSet(copies[m]) : j \in c.pending

Shown(m, j) == \E c \in ToSet(copies[m]) : c.shows = j

\* What the tab shows or will show are changes of the message.
Genuine ==
  \A m \in Message : \A j \in Nat :
    /\ Carried(m, j) \/ Awaited(m, j) \/ Shown(m, j) => j \in Changes(m)
    /\ Told(m, j) => j \in Updates(m)

\* A message is sent first and deleted last.
LogOrder ==
  \A m \in Message : \A i, j \in Changes(m) :
    /\ log[i].op = "created" => i <= j
    /\ log[i].op = "deleted" => j <= i

\* An update is about one message, and what waits for a decryption is none.
Plain ==
  /\ \A f \in ToSet(wire) : f.kind = "update" =>
       \A x, y \in Message : f.page[x] # 0 /\ f.page[y] # 0 => x = y
  /\ \A f \in DOMAIN tasks : f.kind # "update"

Single == \A m \in Message \ raced : Len(copies[m]) <= 1

Placed ==
  /\ conn.phase = "down" => wire = <<>>
  /\ conn.phase # "down" => conn.at \in Gateway
  /\ answer # <<>> => conn.phase = "live"

\* No body of a message that is not raced is older than an update that some
\* gateway has announced, and no update on the wire than one that this gateway has.
NoneOlder ==
  \A m \in Message \ raced : \A i \in Updates(m), j \in Nat :
    /\ Carried(m, j) /\ (\E g \in Gateway : next[g]["updated"] > i) => i <= j
    /\ Told(m, j) /\ conn.phase # "down" /\ next[conn.at]["updated"] > i => i <= j

\* The gateway of the tab has the last update of the message still to announce.
ToCome(m) == Latest(m) \in Updates(m) /\ next[conn.at]["updated"] <= Latest(m)

\* The first entry of message m shows the last change when all that is on the wire
\* and all decryptions are done.
Settles(m) ==
  /\ copies[m] # <<>>
  /\ \A j \in copies[m][1].pending : j = Latest(m)
  /\ \/ copies[m][1].shows = Latest(m)
     \/ Latest(m) \in copies[m][1].pending
     \/ Told(m, Latest(m))

Current ==
  Connected /\ asked => \A m \in Recent \ raced : ToCome(m) \/ Coming(m) \/ Settles(m)

ShowsInv ==
  IInv /\ Genuine /\ LogOrder /\ Plain /\ Single /\ Placed /\ NoneOlder /\ Current

\* The elements of a sequence that grows at its end or loses its head.
LEMMA ToSetFacts ==
  ASSUME NEW S, NEW s \in Seq(S)
  PROVE  /\ \A f \in ToSet(s) : f \in S
         /\ \A x \in S : ToSet(Append(s, x)) = ToSet(s) \union {x}
         /\ s # <<>> => /\ Head(s) \in ToSet(s)
                        /\ ToSet(s) = ToSet(Tail(s)) \union {Head(s)}
<1>1. \A f \in ToSet(s) : f \in S
  BY DEF ToSet
<1>2. ASSUME NEW x \in S
      PROVE  ToSet(Append(s, x)) = ToSet(s) \union {x}
  <2>1. /\ DOMAIN Append(s, x) = DOMAIN s \union {Len(s) + 1} /\ Append(s, x)[Len(s) + 1] = x
        /\ \A n \in DOMAIN s : Append(s, x)[n] = s[n]
    OBVIOUS
  <2> QED BY <2>1 DEF ToSet
<1>3. ASSUME s # <<>>
      PROVE  /\ Head(s) \in ToSet(s)
             /\ ToSet(s) = ToSet(Tail(s)) \union {Head(s)}
  <2>1. /\ Len(s) \in Nat /\ DOMAIN s = 1 .. Len(s) /\ 1 \in DOMAIN s /\ Head(s) = s[1]
        /\ Tail(s) \in Seq(S) /\ Len(Tail(s)) = Len(s) - 1
        /\ \A n \in 1 .. Len(s) - 1 : Tail(s)[n] = s[n + 1]
    BY <1>3
  <2>2. Head(s) \in ToSet(s)
    BY <2>1 DEF ToSet
  <2>3. DOMAIN Tail(s) = 1 .. Len(s) - 1
    BY <2>1
  <2>4. \A n \in 1 .. Len(s) - 1 : n + 1 \in DOMAIN s
    BY <2>1
  <2>5. \A f \in ToSet(Tail(s)) : f \in ToSet(s)
    <3>1. ASSUME NEW n \in DOMAIN Tail(s)
          PROVE  Tail(s)[n] \in ToSet(s)
      <4>1. n + 1 \in DOMAIN s /\ Tail(s)[n] = s[n + 1]
        BY <2>1, <2>3, <2>4
      <4> QED BY <4>1 DEF ToSet
    <3> QED BY <3>1 DEF ToSet
  <2>6. \A f \in ToSet(s) : f \in ToSet(Tail(s)) \/ f = Head(s)
    <3>1. ASSUME NEW n \in DOMAIN s, n # 1
          PROVE  s[n] \in ToSet(Tail(s))
      <4>1. n - 1 \in DOMAIN Tail(s) /\ Tail(s)[n - 1] = s[n]
        BY <2>1, <2>3, <3>1
      <4> QED BY <4>1 DEF ToSet
    <3> QED BY <2>1, <3>1 DEF ToSet
  <2> QED BY <2>2, <2>5, <2>6
<1> QED BY <1>1, <1>2, <1>3

\* The entries that a handler leaves were there, or come from its frame.
LEMMA CopyEntries ==
  ASSUME TypeOK, NEW m \in Message
  PROVE  /\ \A x \in Message, i \in Nat : \A c \in ToSet(Update(x, i)[m]) :
              \E d \in ToSet(copies[m]) :
                /\ c.shows = d.shows \/ (x = m /\ c.shows = i)
                /\ \A j \in c.pending : j \in d.pending \/ (x = m /\ j = i)
         /\ \A p \in Page : \A c \in ToSet(Pushed(p)[m]) :
              c \in ToSet(copies[m]) \/ (p[m] # 0 /\ c = NewCopy(p[m]))
         /\ \A p \in Page : \A c \in ToSet(Merged(p)[m]) :
              c \in ToSet(copies[m]) \/ (p[m] # 0 /\ c = NewCopy(p[m]))
<1>0. copies \in [Message -> Seq(Copy)]
  BY DEF TypeOK
<1>1. ASSUME NEW x \in Message, NEW i \in Nat, NEW c \in ToSet(Update(x, i)[m])
      PROVE  \E d \in ToSet(copies[m]) :
                /\ c.shows = d.shows \/ (x = m /\ c.shows = i)
                /\ \A j \in c.pending : j \in d.pending \/ (x = m /\ j = i)
  <2>1. CASE copies[x] = <<>> \/ x # m
    <3>1. Update(x, i)[m] = copies[m]
      BY <1>0, <2>1 DEF Update
    <3> QED BY <1>1, <3>1
  <2>2. CASE copies[x] # <<>> /\ x = m
    <3>1. copies[m] \in Seq(Copy) /\ 1 \in DOMAIN copies[m] /\ copies[m][1] \in Copy
      BY <1>0, <2>2
    <3> DEFINE new == IF Deleted(i) THEN [copies[m][1] EXCEPT !.shows = i]
                      ELSE [copies[m][1] EXCEPT !.pending = @ \union {i}]
    <3>2. Update(x, i)[m] = [copies[m] EXCEPT ![1] = new]
      BY <1>0, <2>2, <3>1 DEF Update
    <3>3. /\ new.shows = copies[m][1].shows \/ new.shows = i
          /\ \A j \in new.pending : j \in copies[m][1].pending \/ j = i
      BY <3>1 DEF Copy
    <3> HIDE DEF new
    <3>4. PICK n \in DOMAIN copies[m] : c = IF n = 1 THEN new ELSE copies[m][n]
      BY <1>1, <3>1, <3>2 DEF ToSet
    <3>5. copies[m][n] \in ToSet(copies[m])
      BY <3>4 DEF ToSet
    <3> QED BY <2>2, <3>3, <3>4, <3>5
  <2> QED BY <2>1, <2>2
<1>2. ASSUME NEW p \in Page, NEW c \in ToSet(Pushed(p)[m])
      PROVE  c \in ToSet(copies[m]) \/ (p[m] # 0 /\ c = NewCopy(p[m]))
  <2>1. CASE p[m] = 0
    BY <1>2, <2>1 DEF Pushed
  <2>2. CASE p[m] # 0
    <3>1. Pushed(p)[m] = Append(copies[m], NewCopy(p[m])) /\ NewCopy(p[m]) \in Copy
      BY <2>2 DEF Pushed, NewCopy, Copy, Page
    <3>2. ToSet(Append(copies[m], NewCopy(p[m]))) = ToSet(copies[m]) \union {NewCopy(p[m])}
      BY <1>0, <3>1, ToSetFacts
    <3> QED BY <1>2, <2>2, <3>1, <3>2
  <2> QED BY <2>1, <2>2
<1>3. ASSUME NEW p \in Page, NEW c \in ToSet(Merged(p)[m])
      PROVE  c \in ToSet(copies[m]) \/ (p[m] # 0 /\ c = NewCopy(p[m]))
  <2>0. \A d : ToSet(<<d>>) = {d}
    BY DEF ToSet
  <2>1. CASE p[m] # 0
    <3>1. Merged(p)[m] = <<NewCopy(p[m])>>
      BY <2>1 DEF Merged
    <3> QED BY <1>3, <2>0, <2>1, <3>1
  <2>2. CASE p[m] = 0 /\ copies[m] = <<>>
    <3>1. Merged(p)[m] = copies[m]
      BY <2>2 DEF Merged
    <3> QED BY <1>3, <3>1
  <2>3. CASE p[m] = 0 /\ copies[m] # <<>>
    <3>1. Merged(p)[m] = <<Last(copies[m])>>
      BY <2>3 DEF Merged
    <3>2. Len(copies[m]) \in DOMAIN copies[m]
      BY <1>0, <2>3
    <3>3. Last(copies[m]) \in ToSet(copies[m])
      BY <3>2 DEF Last, ToSet
    <3> QED BY <1>3, <2>0, <3>1, <3>3
  <2> QED BY <2>1, <2>2, <2>3
<1> QED BY <1>1, <1>2, <1>3

\* The entry whose edit is decrypted shows what it showed or the edit.
LEMMA DecryptedEntries ==
  ASSUME TypeOK, NEW m \in Message, NEW x \in Message, NEW n \in DOMAIN copies[x],
         NEW i \in copies[x][n].pending, EditDecrypted(x, n, i), NEW c \in ToSet(copies'[m])
  PROVE  \E d \in ToSet(copies[m]) : /\ c.shows = d.shows \/ c.shows \in d.pending
                                     /\ c.pending \subseteq d.pending
<1>0. copies \in [Message -> Seq(Copy)]
  BY DEF TypeOK
<1> DEFINE new == [shows |-> IF Deleted(copies[x][n].shows) THEN copies[x][n].shows ELSE i,
                   pending |-> copies[x][n].pending \ {i}]
<1>1. copies'[m] = IF x = m THEN [copies[m] EXCEPT ![n] = new] ELSE copies[m]
  BY <1>0 DEF EditDecrypted
<1>2. /\ new.shows = copies[x][n].shows \/ new.shows \in copies[x][n].pending
      /\ new.pending \subseteq copies[x][n].pending
  OBVIOUS
<1> HIDE DEF new
<1>3. CASE x = m
  <2>1. PICK k \in DOMAIN copies[m] : c = IF k = n THEN new ELSE copies[m][k]
    BY <1>0, <1>1, <1>3 DEF ToSet
  <2>2. copies[m][k] \in ToSet(copies[m])
    BY <2>1 DEF ToSet
  <2> QED BY <1>2, <1>3, <2>1, <2>2
<1>4. CASE x # m
  BY <1>1, <1>4
<1> QED BY <1>3, <1>4
-----------------------------------------------------------------------------
\* The frame of a new message that gateway g looked up, and of update i.
News(g) ==
  [kind |-> "new", page |-> [Nothing EXCEPT ![log[found[g].event].msg] = found[g].shows]]

Report(i) == [kind |-> "update", page |-> [Nothing EXCEPT ![log[i].msg] = i]]

\* Gateway g broadcasts update i.
Announces(g, i) ==
  /\ IsNext(g, "updated", i)
  /\ next' = [next EXCEPT ![g]["updated"] = i + 1]
  /\ Deliver(g, Report(i))
  /\ raced' = Overtaking({i})
  /\ UNCHANGED <<log, found, conn, asks, answer, tasks, copies, asked>>

LEMMA UpdateAnnounced ==
  ASSUME NEW g \in Gateway, BroadcastUpdate(g)
  PROVE  \E i \in DOMAIN log : Announces(g, i)
BY DEF BroadcastUpdate, Announces, Report, tabVars

\* What is in the log stays there.
LEMMA LogKept ==
  ASSUME IInv, [Next]_vars
  PROVE  /\ \A i \in DOMAIN log : i \in DOMAIN log' /\ log'[i] = log[i]
         /\ \A m \in Message : Changes(m) \subseteq Changes(m)' /\ Updates(m) \subseteq Updates(m)'
<1>1. \A i \in DOMAIN log : i \in DOMAIN log' /\ log'[i] = log[i]
  <2>1. CASE UNCHANGED log
    BY <2>1
  <2>2. ASSUME NEW op \in {"created", "edited", "deleted"}, NEW m \in Message, MakeChange(op, m)
        PROVE  \A i \in DOMAIN log : i \in DOMAIN log' /\ log'[i] = log[i]
    BY <2>2, LogStep
  <2> QED BY <2>1, <2>2, LogMoves
<1> QED BY <1>1 DEF Changes, Updates

\* What comes onto the wire.
LEMMA WireMoves ==
  ASSUME IInv, [Next]_vars, NEW f \in ToSet(wire)'
  PROVE  \/ f \in ToSet(wire)
         \/ \E g \in Gateway : BroadcastMessage(g) /\ f = News(g)
         \/ \E g \in Gateway : \E i \in DOMAIN log :
              Announces(g, i) /\ conn = [phase |-> "live", at |-> g] /\ f = Report(i)
         \/ WriteHistory /\ f = [kind |-> "history", page |-> Head(answer)]
<1>0. wire \in Seq(Frame) /\ ToSet(wire)' = ToSet(wire')
  BY DEF IInv, TypeOK, ToSet
<1>1. CASE UNCHANGED wire
  BY <1>0, <1>1
<1>2. ASSUME NEW h \in Frame, wire' = Append(wire, h)
      PROVE  f \in ToSet(wire) \/ f = h
  BY <1>0, <1>2, ToSetFacts
<1>3. ASSUME NEW g \in Gateway, BroadcastMessage(g)
      PROVE  f \in ToSet(wire) \/ f = News(g)
  <2>1. News(g) \in Frame
    <3>1. found[g] \in Body /\ log[found[g].event].msg \in Message
      BY <1>3, LogFacts DEF BroadcastMessage, IInv, Behind, TypeOK
    <3> QED BY <3>1, PageFacts DEF News, Frame, Body, IInv
  <2>2. wire' = Append(wire, News(g)) \/ wire' = wire
    BY <1>3 DEF BroadcastMessage, Deliver, News
  <2> QED BY <1>0, <1>2, <2>1, <2>2
<1>4. ASSUME NEW g \in Gateway, NEW i \in DOMAIN log, Announces(g, i)
      PROVE  f \in ToSet(wire) \/ (conn = [phase |-> "live", at |-> g] /\ f = Report(i))
  <2>1. Report(i) \in Frame
    BY LogFacts, PageFacts DEF Report, Frame, IInv
  <2>2. wire' = IF conn = [phase |-> "live", at |-> g] THEN Append(wire, Report(i)) ELSE wire
    BY <1>4 DEF Announces, Deliver
  <2> QED BY <1>0, <1>2, <2>1, <2>2
<1>5. CASE WriteHistory
  <2>1. [kind |-> "history", page |-> Head(answer)] \in Frame
    BY <1>5 DEF WriteHistory, Frame, IInv, TypeOK
  <2> QED BY <1>2, <1>5, <2>1 DEF WriteHistory
<1>6. CASE Notice
  BY <1>0, <1>6 DEF Notice, ToSet
<1>7. CASE Receive
  <2>1. wire # <<>> /\ wire' = Tail(wire)
    BY <1>7 DEF Receive
  <2> QED BY <1>0, <2>1, ToSetFacts
<1> QED BY <1>1, <1>3, <1>4, <1>5, <1>6, <1>7, UpdateAnnounced
        DEF Next, vars, gatewayVars, tabVars, GatewayStep, SessionStep, TabStep, MakeChange,
            GetMessage, LookupFails, LoseConsumer, Skip, Register, GetHistory, GetHistoryFails,
            Break, Open, SelectChat, Refresh, EditDecrypted, Decrypted

\* A handler starts with a frame from the wire.
LEMMA TaskMoves ==
  ASSUME IInv, [Next]_vars, NEW f \in DOMAIN tasks'
  PROVE  f \in DOMAIN tasks \/ (f \in ToSet(wire) /\ f.kind # "update")
<1>0. wire \in Seq(Frame) /\ IsABag(tasks)
  BY DEF IInv, TypeOK
<1>1. CASE Receive
  <2>1. wire # <<>> /\ Head(wire) \in ToSet(wire)
    BY <1>0, <1>1, ToSetFacts DEF Receive
  <2>2. CASE Head(wire).kind # "update"
    <3>1. DOMAIN tasks' = DOMAIN tasks \union {Head(wire)}
      BY <1>0, <1>1, <2>2, BagFacts DEF Receive
    <3> QED BY <2>1, <2>2, <3>1
  <2>3. CASE Head(wire).kind = "update"
    BY <1>1, <2>3 DEF Receive
  <2> QED BY <2>2, <2>3
<1>2. ASSUME NEW h \in DOMAIN tasks, Decrypted(h)
      PROVE  f \in DOMAIN tasks
  BY <1>0, <1>2, BagFacts DEF Decrypted
<1>3. CASE UNCHANGED tasks
  BY <1>3
<1> QED BY <1>1, <1>2, <1>3
        DEF Next, vars, gatewayVars, tabVars, GatewayStep, SessionStep, TabStep, MakeChange,
            GetMessage, BroadcastMessage, BroadcastUpdate, LookupFails, LoseConsumer, Skip,
            Register, GetHistory, GetHistoryFails, WriteHistory, Break, Notice, Open, SelectChat,
            Refresh, EditDecrypted

\* A session answers with the messages as they are.
LEMMA AnswerMoves ==
  ASSUME [Next]_vars, NEW p \in ToSet(answer)'
  PROVE  p \in ToSet(answer) \/ (p = Snapshot /\ UNCHANGED log)
<1>1. CASE UNCHANGED answer
  BY <1>1 DEF ToSet
<1>2. CASE answer' = <<>>
  BY <1>2 DEF ToSet
<1>3. CASE GetHistory
  BY <1>3 DEF GetHistory, ToSet
<1> QED BY ZenonT(60), <1>1, <1>2, <1>3
        DEF Next, vars, gatewayVars, tabVars, GatewayStep, SessionStep, TabStep, MakeChange,
            GetMessage, BroadcastMessage, BroadcastUpdate, LookupFails, LoseConsumer, Skip,
            Register, GetHistoryFails, WriteHistory, Break, Notice, Open, SelectChat, Refresh,
            Receive, EditDecrypted, Decrypted

\* A body that sets out shows the last change.
LEMMA CarriedMoves ==
  ASSUME IInv, [Next]_vars, NEW m \in Message, NEW j, Carried(m, j)'
  PROVE  Carried(m, j) \/ (j = Latest(m) /\ Changes(m) # {} /\ UNCHANGED log)
<1>1. ASSUME NEW h \in Gateway, found'[h] # None, log'[found'[h].event].msg = m,
             found'[h].shows = j
      PROVE  Carried(m, j) \/ (j = Latest(m) /\ Changes(m) # {} /\ UNCHANGED log)
  <2>1. CASE found'[h] = found[h]
    <3>1. log'[found'[h].event] = log[found[h].event]
      BY <1>1, <2>1, LogKept DEF IInv, Behind
    <3> QED BY <1>1, <2>1, <3>1 DEF Carried
  <2>2. ASSUME NEW g \in Gateway, GatewayStep(g), found'[h] # found[h]
        PROVE  j = Latest(m) /\ Changes(m) # {} /\ UNCHANGED log
    <3>1. UNCHANGED log
      BY <2>2 DEF GatewayStep, GetMessage, BroadcastMessage, BroadcastUpdate, LookupFails,
                  LoseConsumer, Skip
    <3>2. PICK i \in DOMAIN log :
            h = g /\ found'[g] = [event |-> i, shows |-> Latest(log[i].msg)]
      BY <1>1, <2>2, GatewayMoves, Zenon
    <3>3. j = Latest(log[i].msg) /\ log[i].msg = m
      BY <1>1, <3>1, <3>2
    <3> QED BY <3>1, <3>3 DEF Changes
  <2> QED BY <2>1, <2>2, SourceMoves DEF MakeChange, gatewayVars
<1>2. ASSUME NEW f \in ToSet(wire)' \union DOMAIN tasks', Brings(f, m), f.page[m] = j
      PROVE  Carried(m, j)
  <2>1. CASE f \in ToSet(wire) \union DOMAIN tasks
    BY <1>2, <2>1 DEF Carried
  <2>2. ASSUME NEW g \in Gateway, BroadcastMessage(g), f = News(g)
        PROVE  Carried(m, j)
    <3>1. f.page = [Nothing EXCEPT ![log[found[g].event].msg] = found[g].shows] /\ f.page[m] # 0
      BY <1>2, <2>2 DEF News, Brings
    <3>2. log[found[g].event].msg = m /\ found[g].shows = j
      BY <1>2, <3>1 DEF Nothing
    <3> QED BY <2>2, <3>2 DEF Carried, BroadcastMessage
  <2>3. ASSUME NEW i \in DOMAIN log, f = Report(i)
        PROVE  FALSE
    BY <1>2, <2>3 DEF Report, Brings
  <2>4. ASSUME WriteHistory, f = [kind |-> "history", page |-> Head(answer)]
        PROVE  Carried(m, j)
    <3>1. Head(answer) \in ToSet(answer)
      BY <2>4, ToSetFacts DEF WriteHistory, IInv, TypeOK
    <3>2. f.page = Head(answer)
      BY <2>4
    <3> QED BY <1>2, <3>1, <3>2 DEF Carried, Brings
  <2> QED BY <1>2, <2>1, <2>2, <2>3, <2>4, WireMoves, TaskMoves
<1>3. ASSUME NEW p \in ToSet(answer)', p[m] # 0, p[m] = j
      PROVE  Carried(m, j) \/ (j = Latest(m) /\ Changes(m) # {} /\ UNCHANGED log)
  <2>1. CASE p \in ToSet(answer)
    BY <1>3, <2>1 DEF Carried
  <2>2. CASE p = Snapshot /\ UNCHANGED log
    <3>1. p[m] = Latest(m)
      BY <1>3, <2>2 DEF Snapshot
    <3> QED BY <1>3, <2>2, <3>1, LatestFacts DEF IInv
  <2> QED BY <1>3, <2>1, <2>2, AnswerMoves
<1> QED BY <1>1, <1>2, <1>3 DEF Carried, Brings

\* An update comes onto the wire when the gateway of the tab announces it.
LEMMA ToldMoves ==
  ASSUME IInv, [Next]_vars, NEW m \in Message, NEW j, Told(m, j)'
  PROVE  \/ Told(m, j)
         \/ \E g \in Gateway :
              Announces(g, j) /\ conn = [phase |-> "live", at |-> g] /\ j \in Updates(m)
<1>1. PICK f \in ToSet(wire)' : f.kind = "update" /\ f.page[m] # 0 /\ f.page[m] = j
  BY DEF Told
<1>2. CASE f \in ToSet(wire)
  BY <1>1, <1>2 DEF Told
<1>3. ASSUME NEW g \in Gateway, NEW i \in DOMAIN log, Announces(g, i),
             conn = [phase |-> "live", at |-> g], f = Report(i)
      PROVE  Announces(g, j) /\ conn = [phase |-> "live", at |-> g] /\ j \in Updates(m)
  <2>1. f.page = [Nothing EXCEPT ![log[i].msg] = i]
    BY <1>3 DEF Report
  <2>2. log[i].msg = m /\ i = j
    BY <1>1, <2>1 DEF Nothing
  <2>3. log[i].op # "created"
    BY <1>3 DEF Announces, IsNext, Mine
  <2> QED BY <1>3, <2>2, <2>3 DEF Updates, Changes
<1>4. ASSUME f.kind # "update"
      PROVE  FALSE
  BY <1>1, <1>4
<1> QED BY <1>1, <1>2, <1>3, <1>4, WireMoves DEF News

\* What an entry waits for was told, and what it shows was on its way.
LEMMA EntryMoves ==
  ASSUME IInv, Plain, [Next]_vars, NEW m \in Message, NEW j
  PROVE  /\ Awaited(m, j)' => Awaited(m, j) \/ Told(m, j)
         /\ Shown(m, j)' => Shown(m, j) \/ Awaited(m, j) \/ Told(m, j) \/ Carried(m, j)
<1> SUFFICES ASSUME NEW c \in ToSet(copies'[m])
             PROVE  /\ j \in c.pending => Awaited(m, j) \/ Told(m, j)
                    /\ c.shows = j => Shown(m, j) \/ Awaited(m, j) \/ Told(m, j) \/ Carried(m, j)
  BY DEF Awaited, Shown, ToSet
<1>0. TypeOK
  BY DEF IInv
<1>1. CASE c \in ToSet(copies[m])
  BY <1>1 DEF Awaited, Shown
<1>2. CASE Receive
  <2>1. wire # <<>> /\ Head(wire) \in ToSet(wire) /\ Head(wire) \in Frame
    BY <1>2, ToSetFacts DEF Receive, IInv, TypeOK
  <2>2. CASE Head(wire).kind = "update"
    <3>1. PICK x \in Message : Head(wire).page[x] # 0 /\ copies' = Update(x, Head(wire).page[x])
      BY <1>2, <2>2 DEF Receive
    <3>2. Head(wire).page[x] \in Nat
      BY <2>1 DEF Frame, Page
    <3>3. PICK d \in ToSet(copies[m]) :
            /\ c.shows = d.shows \/ (x = m /\ c.shows = Head(wire).page[x])
            /\ \A k \in c.pending : k \in d.pending \/ (x = m /\ k = Head(wire).page[x])
      BY <1>0, <3>1, <3>2, CopyEntries
    <3>4. x = m => Told(m, Head(wire).page[x])
      BY <2>1, <2>2, <3>1 DEF Told
    <3> QED BY <3>3, <3>4 DEF Awaited, Shown
  <2>3. CASE Head(wire).kind # "update"
    BY <1>1, <1>2, <2>3 DEF Receive
  <2> QED BY <2>2, <2>3
<1>3. ASSUME NEW x \in Message, NEW n \in DOMAIN copies[x], NEW i \in copies[x][n].pending,
             EditDecrypted(x, n, i)
      PROVE  /\ j \in c.pending => Awaited(m, j) \/ Told(m, j)
             /\ c.shows = j => Shown(m, j) \/ Awaited(m, j) \/ Told(m, j) \/ Carried(m, j)
  <2>1. PICK d \in ToSet(copies[m]) : /\ c.shows = d.shows \/ c.shows \in d.pending
                                      /\ c.pending \subseteq d.pending
    BY <1>0, <1>3, DecryptedEntries
  <2> QED BY <2>1 DEF Awaited, Shown
<1>4. ASSUME NEW f \in DOMAIN tasks, Decrypted(f)
      PROVE  /\ j \in c.pending => Awaited(m, j) \/ Told(m, j)
             /\ c.shows = j => Shown(m, j) \/ Awaited(m, j) \/ Told(m, j) \/ Carried(m, j)
  <2>1. f.page \in Page
    BY DEF IInv, TypeOK, Frame
  <2>2. copies' = IF f.kind = "new" THEN Pushed(f.page) ELSE Merged(f.page)
    BY <1>4 DEF Decrypted
  <2>3. c \in ToSet(copies[m]) \/ (f.page[m] # 0 /\ c = NewCopy(f.page[m]))
    BY <1>0, <2>1, <2>2, CopyEntries
  <2>4. f.kind # "update"
    BY DEF Plain
  <2>5. f.page[m] # 0 => Carried(m, f.page[m])
    BY <2>4 DEF Carried, Brings
  <2> QED BY <1>1, <2>3, <2>5 DEF NewCopy
<1> QED BY ZenonT(60), <1>1, <1>2, <1>3, <1>4
        DEF Next, vars, gatewayVars, tabVars, GatewayStep, SessionStep, TabStep, MakeChange,
            GetMessage, BroadcastMessage, BroadcastUpdate, LookupFails, LoseConsumer, Skip,
            Register, GetHistory, GetHistoryFails, WriteHistory, Break, Notice, Open, SelectChat,
            Refresh

\* The last change of a message is one of its changes.
LEMMA LatestLast ==
  ASSUME IInv, NEW m \in Message, Changes(m) # {}
  PROVE  Latest(m) \in Changes(m) /\ \A j \in Changes(m) : j <= Latest(m)
BY DEF IInv, HasLast, Latest

\* Every message that is raced stays so.
LEMMA RacedStays ==
  ASSUME [Next]_vars
  PROVE  raced \subseteq raced'
BY ZenonT(60) DEF Next, vars, gatewayVars, tabVars, GatewayStep, SessionStep, TabStep, MakeChange,
       GetMessage, BroadcastMessage, BroadcastUpdate, LookupFails, LoseConsumer, Skip, Overtaking,
       Register, GetHistory, GetHistoryFails, WriteHistory, Break, Notice, Open, SelectChat,
       Refresh, Receive, EditDecrypted, Decrypted

LEMMA GenuineStep ==
  ASSUME IInv, Plain, Genuine, [Next]_vars
  PROVE  Genuine'
<1> SUFFICES ASSUME NEW m \in Message, NEW j \in Nat
             PROVE  /\ Carried(m, j)' \/ Awaited(m, j)' \/ Shown(m, j)' => j \in Changes(m)'
                    /\ Told(m, j)' => j \in Updates(m)'
  BY DEF Genuine
<1>1. Changes(m) \subseteq Changes(m)' /\ Updates(m) \subseteq Updates(m)'
  BY LogKept
<1>2. Updates(m) \subseteq Changes(m)
  BY DEF Updates
<1>3. Carried(m, j)' => j \in Changes(m)'
  BY <1>1, CarriedMoves, LatestLast DEF Genuine
<1>4. Told(m, j)' => j \in Updates(m)'
  BY <1>1, ToldMoves DEF Genuine
<1>5. Awaited(m, j)' \/ Shown(m, j)' => j \in Changes(m)'
  BY <1>1, <1>2, EntryMoves DEF Genuine
<1> QED BY <1>3, <1>4, <1>5

LEMMA LogOrderStep ==
  ASSUME IInv, LogOrder, [Next]_vars
  PROVE  LogOrder'
<1>1. CASE UNCHANGED log
  BY <1>1 DEF LogOrder, Changes
<1>2. ASSUME NEW op \in {"created", "edited", "deleted"}, NEW x \in Message, MakeChange(op, x)
      PROVE  LogOrder'
  <2> SUFFICES ASSUME NEW m \in Message, NEW i \in Changes(m)', NEW j \in Changes(m)'
               PROVE  /\ log'[i].op = "created" => i <= j
                      /\ log'[i].op = "deleted" => j <= i
    BY DEF LogOrder
  <2>1. /\ \A k \in DOMAIN log : log'[k] = log[k]
        /\ log'[Len(log) + 1] = [op |-> op, msg |-> x]
        /\ Changes(m)' = IF m = x THEN Changes(m) \union {Len(log) + 1} ELSE Changes(m)
    BY <1>2, LogStep
  <2>2. Len(log) \in Nat /\ \A k \in Changes(m) : k \in DOMAIN log /\ k \in Nat /\ k <= Len(log)
    BY LogFacts DEF Changes, IInv, TypeOK
  <2>3. CASE i \in Changes(m) /\ j \in Changes(m)
    BY <2>1, <2>2, <2>3 DEF LogOrder
  <2>4. CASE i = Len(log) + 1 /\ m = x
    <3>1. log'[i].op = "created" => j = i
      BY <1>2, <2>1, <2>4, LatestFacts DEF MakeChange, IInv
    <3> QED BY <2>1, <2>2, <2>4, <3>1
  <2>5. CASE i \in Changes(m) /\ j = Len(log) + 1 /\ m = x
    <3>1. Latest(m) \in Changes(m) /\ \A k \in Changes(m) : k <= Latest(m)
      BY <2>5, LatestLast
    <3>2. op # "created"
      BY <1>2, <2>2, <2>5, LatestFacts DEF MakeChange, IInv
    <3>3. ~Deleted(Latest(m))
      BY <1>2, <2>5, <3>2 DEF MakeChange
    <3>4. log[i].op # "deleted"
      <4>1. ASSUME log[i].op = "deleted"
            PROVE  i = Latest(m)
        <5>1. Latest(m) <= i /\ i <= Latest(m)
          BY <2>5, <3>1, <4>1 DEF LogOrder
        <5>2. Latest(m) \in Nat /\ i \in Nat
          BY <2>2, <2>5, <3>1
        <5> QED BY <5>1, <5>2
      <4> QED BY <2>2, <2>5, <3>3, <4>1 DEF Deleted
    <3> QED BY <2>1, <2>2, <2>5, <3>4
  <2> QED BY <2>1, <2>3, <2>4, <2>5
<1> QED BY <1>1, <1>2, LogMoves

LEMMA PlainStep ==
  ASSUME IInv, Plain, [Next]_vars
  PROVE  Plain'
<1>1. ASSUME NEW f \in ToSet(wire)', f.kind = "update", NEW x \in Message, NEW y \in Message,
             f.page[x] # 0, f.page[y] # 0
      PROVE  x = y
  <2>1. CASE f \in ToSet(wire)
    BY <1>1, <2>1 DEF Plain
  <2>2. ASSUME NEW i \in DOMAIN log, f = Report(i)
        PROVE  x = y
    <3>1. f.page = [Nothing EXCEPT ![log[i].msg] = i]
      BY <2>2 DEF Report
    <3> QED BY <1>1, <3>1 DEF Nothing
  <2> QED BY <1>1, <2>1, <2>2, WireMoves DEF News
<1>2. \A f \in DOMAIN tasks' : f.kind # "update"
  BY TaskMoves DEF Plain
<1> QED BY <1>1, <1>2 DEF Plain, ToSet

LEMMA SingleStep ==
  ASSUME IInv, Single, [Next]_vars
  PROVE  Single'
<1> SUFFICES ASSUME NEW m \in Message \ raced'
             PROVE  Len(copies'[m]) <= 1
  BY DEF Single
<1>1. m \in Message /\ Len(copies[m]) <= 1
  BY RacedStays DEF Single
<1>2. CASE UNCHANGED copies
  BY <1>1, <1>2
<1>3. CASE Receive
  <2>1. CASE Head(wire).kind = "update"
    <3>1. PICK x \in Message : copies' = Update(x, Head(wire).page[x])
      BY <1>3, <2>1 DEF Receive
    <3>2. Head(wire).page[x] \in Nat
      <4>1. Head(wire) \in Frame
        BY <1>3 DEF Receive, IInv, TypeOK
      <4> QED BY <4>1 DEF Frame, Page
    <3>3. Len(copies'[m]) = Len(copies[m])
      BY <3>1, <3>2, CopyLengths DEF IInv
    <3> QED BY <1>1, <3>3
  <2> QED BY <1>2, <1>3, <2>1 DEF Receive
<1>4. ASSUME NEW x \in Message, NEW n \in DOMAIN copies[x], NEW i \in copies[x][n].pending,
             EditDecrypted(x, n, i)
      PROVE  Len(copies'[m]) <= 1
  <2>1. Len(copies'[m]) = Len(copies[m])
    BY <1>4, CopyLengths DEF EditDecrypted, IInv
  <2> QED BY <1>1, <2>1
<1>5. ASSUME NEW f \in DOMAIN tasks, Decrypted(f)
      PROVE  Len(copies'[m]) <= 1
  <2>1. ~(Len(copies'[m]) > 1)
    BY <1>5 DEF Decrypted
  <2>2. copies'[m] \in Seq(Copy)
    <3>1. TypeOK'
      BY TypeStep DEF IInv
    <3> QED BY <3>1 DEF TypeOK
  <2>3. Len(copies'[m]) \in Nat
    BY <2>2
  <2> QED BY <2>1, <2>3
<1> QED BY ZenonT(60), <1>2, <1>3, <1>4, <1>5
        DEF Next, vars, gatewayVars, tabVars, GatewayStep, SessionStep, TabStep, MakeChange,
            GetMessage, BroadcastMessage, BroadcastUpdate, LookupFails, LoseConsumer, Skip,
            Register, GetHistory, GetHistoryFails, WriteHistory, Break, Notice, Open, SelectChat,
            Refresh

LEMMA PlacedStep ==
  ASSUME IInv, Placed, [Next]_vars
  PROVE  Placed'
<1> USE DEF Placed
<1>1. CASE UNCHANGED <<wire, conn, answer>>
  BY <1>1
<1>2. ASSUME NEW g \in Gateway, BroadcastMessage(g) \/ BroadcastUpdate(g)
      PROVE  Placed'
  <2>1. wire' = wire \/ conn.phase = "live"
    <3>1. \A f : Deliver(g, f) => wire' = wire \/ conn.phase = "live"
      BY DEF Deliver
    <3> QED BY <1>2, <3>1 DEF BroadcastMessage, BroadcastUpdate
  <2>2. UNCHANGED <<conn, answer>>
    BY <1>2 DEF BroadcastMessage, BroadcastUpdate
  <2> QED BY <2>1, <2>2
<1>3. CASE Register
  BY <1>3 DEF Register, IInv, TypeOK
<1>4. CASE GetHistory
  BY <1>4 DEF GetHistory
<1>5. CASE WriteHistory
  BY <1>5 DEF WriteHistory
<1>6. CASE Break
  BY <1>6 DEF Break, IInv, TypeOK
<1>7. CASE Notice
  BY <1>7 DEF Notice
<1>8. ASSUME NEW g \in Gateway, Open(g)
      PROVE  Placed'
  BY <1>8 DEF Open
<1>9. CASE Receive
  BY <1>9 DEF Receive
<1> QED BY <1>1, <1>2, <1>3, <1>4, <1>5, <1>6, <1>7, <1>8, <1>9
        DEF Next, vars, gatewayVars, tabVars, GatewayStep, SessionStep, TabStep, MakeChange,
            GetMessage, LookupFails, LoseConsumer, Skip, GetHistoryFails, SelectChat, Refresh,
            EditDecrypted, Decrypted
-----------------------------------------------------------------------------
\* If an update does not make its message raced, nothing older is on its way.
LEMMA NotOvertaken ==
  ASSUME IInv, Genuine, NEW m \in Message, NEW changes, NEW i \in changes, i \in Updates(m),
         m \notin Overtaking(changes), NEW j \in Nat, Carried(m, j) \/ Told(m, j) \/ Awaited(m, j)
  PROVE  i <= j
<1>1. i \in Nat /\ log[i].msg = m
  BY LogFacts DEF IInv, Updates, Changes
<1>2. j # 0
  <2>1. j \in Changes(m)
    BY DEF Genuine, Updates
  <2> QED BY <2>1, LogFacts DEF Changes, IInv
<1>3. ~OlderOnItsWay(m, i)
  BY <1>1 DEF Overtaking
<1>4. \A f \in ToSet(wire) \union DOMAIN tasks : f.page[m] = j => ~(j < i)
  BY <1>2, <1>3 DEF OlderOnItsWay
<1>5. Carried(m, j) => ~(j < i)
  BY <1>2, <1>3 DEF OlderOnItsWay, Carried
<1>6. Told(m, j) => ~(j < i)
  BY <1>4 DEF Told
<1>7. Awaited(m, j) => ~(j < i)
  BY <1>2, <1>3 DEF OlderOnItsWay, Awaited
<1> QED BY <1>1, <1>5, <1>6, <1>7

\* A gateway passes an update when it announces it, or loses it; then the message
\* is raced if something older is on its way.
LEMMA PassedBy ==
  ASSUME IInv, Genuine, [Next]_vars, NEW m \in Message \ raced', NEW i \in Updates(m),
         NEW g \in Gateway, next[g]["updated"] <= i, i < next'[g]["updated"]
  PROVE  /\ \A j \in Nat : Carried(m, j) \/ Told(m, j) \/ Awaited(m, j) => i <= j
         /\ Announces(g, i) \/ (asked' => asked /\ conn.at # g)
<1>0. /\ next \in [Gateway -> [Subject -> Nat \ {0}]] /\ Subject = {"created", "updated"}
      /\ i \in Nat /\ i \in DOMAIN log /\ Mine("updated", i)
  BY LogFacts DEF IInv, TypeOK, Subject, Updates, Changes, Mine
<1>1. PICK h \in Gateway : GatewayStep(h)
  <2>1. next' # next
    BY <1>0
  <2> QED BY <2>1, SourceMoves DEF MakeChange, gatewayVars
<1>2. ASSUME NEW k \in Subject, NEW n \in Nat, next' = [next EXCEPT ![h][k] = n]
      PROVE  h = g /\ k = "updated" /\ i < n
  BY <1>0, <1>2
<1>3. ~GetMessage(h)
  <2> SUFFICES ASSUME GetMessage(h)
               PROVE  FALSE
    OBVIOUS
  <2>1. PICK k \in DOMAIN log : next' = [next EXCEPT ![h]["created"] = k + 1]
    BY DEF GetMessage
  <2>2. k + 1 \in Nat
    BY LogFacts DEF IInv
  <2> QED BY <1>0, <1>2, <2>1, <2>2
<1>4. ~BroadcastMessage(h)
  BY <1>0 DEF BroadcastMessage
<1>5. ASSUME NEW k \in DOMAIN log, Announces(h, k)
      PROVE  Announces(g, i) /\ raced' = Overtaking({i})
  <2>1. next' = [next EXCEPT ![h]["updated"] = k + 1] /\ raced' = Overtaking({k})
    BY <1>5 DEF Announces
  <2>2. k \in Nat
    BY LogFacts DEF IInv
  <2>3. h = g /\ i < k + 1
    BY <1>0, <1>2, <2>1, <2>2
  <2>4. i = k
    BY <1>0, <1>5, <2>2, <2>3 DEF Announces, IsNext
  <2> QED BY <1>5, <2>1, <2>3, <2>4
<1>6. ASSUME NEW k \in Subject, LookupFails(h, k) \/ LoseConsumer(h, k)
      PROVE  /\ \E changes : i \in changes /\ raced' = Overtaking(changes)
             /\ asked' => asked /\ conn.at # g
  <2>1. PICK n \in Nat : Skip(h, k, n)
    <3>1. CASE LookupFails(h, k)
      BY <3>1, LogFacts DEF LookupFails, IInv
    <3>2. next[h][k] \in Nat /\ Len(log) \in Nat
      BY <1>0 DEF IInv, TypeOK
    <3>3. CASE LoseConsumer(h, k)
      BY <3>2, <3>3 DEF LoseConsumer
    <3> QED BY <1>6, <3>1, <3>3
  <2>2. /\ next' = [next EXCEPT ![h][k] = n] /\ asked' = (asked /\ conn.at # h)
        /\ raced' = Overtaking({c \in next[h][k] .. n - 1 : k = "updated" /\ Mine(k, c)})
    BY <2>1 DEF Skip
  <2>3. h = g /\ k = "updated" /\ i < n
    BY <1>2, <2>2
  <2>4. i \in {c \in next[h][k] .. n - 1 : k = "updated" /\ Mine(k, c)}
    BY <1>0, <2>3
  <2> QED BY <2>2, <2>3, <2>4
<1>7. /\ \E changes : i \in changes /\ raced' = Overtaking(changes)
      /\ Announces(g, i) \/ (asked' => asked /\ conn.at # g)
  BY <1>1, <1>3, <1>4, <1>5, <1>6, UpdateAnnounced DEF GatewayStep
<1>8. ASSUME NEW j \in Nat, Carried(m, j) \/ Told(m, j) \/ Awaited(m, j)
      PROVE  i <= j
  BY <1>7, <1>8, NotOvertaken
<1> QED BY <1>7, <1>8

\* The tab stays at its gateway until it opens another connection, with nothing
\* on the wire.
LEMMA ConnMoves ==
  ASSUME IInv, Placed, [Next]_vars
  PROVE  /\ conn'.phase # "down" => \/ conn.phase # "down" /\ conn'.at = conn.at
                                    \/ wire' = <<>>
         /\ Connected' => (Connected /\ conn'.at = conn.at) \/ \E g \in Gateway : Open(g)
<1>1. CASE UNCHANGED conn
  BY <1>1 DEF Connected
<1>2. CASE Register
  BY <1>2 DEF Register, Connected, IInv, TypeOK
<1>3. CASE Break
  BY <1>3 DEF Break, Connected, IInv, TypeOK
<1>4. CASE Notice
  BY <1>4 DEF Notice, Connected
<1>5. ASSUME NEW g \in Gateway, Open(g)
      PROVE  wire' = <<>>
  BY <1>5 DEF Open, Placed
<1> QED BY ZenonT(60), <1>1, <1>2, <1>3, <1>4, <1>5
        DEF Next, vars, gatewayVars, tabVars, GatewayStep, SessionStep, TabStep, MakeChange,
            GetMessage, BroadcastMessage, BroadcastUpdate, LookupFails, LoseConsumer, Skip,
            GetHistory, GetHistoryFails, WriteHistory, SelectChat, Refresh, Receive,
            EditDecrypted, Decrypted

LEMMA NoneOlderStep ==
  ASSUME IInv, Genuine, Placed, NoneOlder, [Next]_vars
  PROVE  NoneOlder'
<1> SUFFICES ASSUME NEW m \in Message \ raced', NEW i \in Updates(m)', NEW j \in Nat
             PROVE  /\ Carried(m, j)' /\ (\E g \in Gateway : next'[g]["updated"] > i) => i <= j
                    /\ Told(m, j)' /\ conn'.phase # "down" /\ next'[conn'.at]["updated"] > i
                         => i <= j
  BY DEF NoneOlder
<1>0. m \in Message \ raced
  BY RacedStays
<1>1. \A g \in Gateway : next[g]["updated"] \in Nat
  BY DEF IInv, TypeOK, Subject
<1>2. ASSUME NEW g \in Gateway, next'[g]["updated"] > i
      PROVE  i \in Updates(m) /\ i \in Nat /\ i <= Latest(m) /\ Latest(m) \in Nat
  <2>1. i \in Updates(m)
    <3>1. CASE UNCHANGED log
      BY <3>1 DEF Updates, Changes
    <3>2. ASSUME NEW op \in {"created", "edited", "deleted"}, NEW x \in Message, MakeChange(op, x)
          PROVE  i \in Updates(m)
      <4>1. /\ \A k \in DOMAIN log : log'[k] = log[k]
            /\ Changes(m)' = IF m = x THEN Changes(m) \union {Len(log) + 1} ELSE Changes(m)
        BY <3>2, LogStep
      <4>2. next[g]["updated"] <= Len(log) + 1 /\ UNCHANGED next /\ Len(log) \in Nat
        BY <3>2 DEF MakeChange, gatewayVars, IInv, TypeOK, Behind, Subject
      <4>3. i \in Changes(m)' /\ log'[i].op # "created"
        BY DEF Updates
      <4>4. i # Len(log) + 1
        BY <1>1, <1>2, <4>2
      <4> QED BY <4>1, <4>3, <4>4 DEF Updates, Changes
    <3> QED BY <3>1, <3>2, LogMoves
  <2>2. i \in Changes(m) /\ i \in Nat
    BY <2>1, LogFacts DEF Updates, Changes, IInv
  <2>3. i <= Latest(m) /\ Latest(m) \in Nat
    BY <2>2, LatestLast, LatestFacts DEF IInv
  <2> QED BY <2>1, <2>2, <2>3
<1>3. ASSUME NEW g \in Gateway, next'[g]["updated"] > i, Carried(m, j)'
      PROVE  i <= j
  <2>1. Carried(m, j) \/ j = Latest(m)
    BY <1>3, CarriedMoves
  <2>2. CASE next[g]["updated"] > i
    BY <1>0, <1>2, <1>3, <2>1, <2>2 DEF NoneOlder
  <2>3. CASE next[g]["updated"] <= i
    BY <1>2, <1>3, <2>1, <2>3, PassedBy
  <2> QED BY <1>1, <1>2, <1>3, <2>2, <2>3
<1>4. ASSUME Told(m, j)', conn'.phase # "down", next'[conn'.at]["updated"] > i
      PROVE  i <= j
  <2>1. conn.phase # "down" /\ conn'.at = conn.at
    <3>1. wire' # <<>>
      BY <1>4 DEF Told, ToSet
    <3> QED BY <1>4, <3>1, ConnMoves
  <2>2. conn.at \in Gateway /\ next'[conn.at]["updated"] > i
    BY <1>4, <2>1 DEF Placed
  <2>3. ASSUME Told(m, j)
        PROVE  i <= j
    <3>1. CASE next[conn.at]["updated"] > i
      BY <1>0, <1>2, <2>1, <2>2, <2>3, <3>1 DEF NoneOlder
    <3>2. CASE next[conn.at]["updated"] <= i
      BY <1>2, <2>2, <2>3, <3>2, PassedBy
    <3> QED BY <1>1, <1>2, <2>2, <3>1, <3>2
  <2>4. ASSUME NEW g \in Gateway, Announces(g, j), conn = [phase |-> "live", at |-> g]
        PROVE  i <= j
    <3>1. next'[g]["updated"] = j + 1
      BY <2>4 DEF Announces, IInv, TypeOK, Subject
    <3> QED BY <1>2, <2>2, <2>4, <3>1
  <2> QED BY <1>4, <2>3, <2>4, ToldMoves
<1> QED BY <1>3, <1>4
-----------------------------------------------------------------------------
\* Once the gateway of the tab is past the last update of a message, all that is
\* on its way shows the last change.
LEMMA OnlyLatest ==
  ASSUME IInv, Genuine, LogOrder, Placed, NoneOlder, Connected, NEW m \in Message \ raced,
         Changes(m) # {}, ~ToCome(m), NEW j \in Nat, Carried(m, j) \/ Told(m, j)
  PROVE  j = Latest(m)
<1>1. Latest(m) \in Changes(m) /\ j \in Changes(m) /\ j <= Latest(m) /\ Latest(m) \in Nat
  BY LatestLast, LatestFacts DEF Genuine, Updates, IInv
<1>2. CASE Latest(m) \in Updates(m)
  <2>1. conn.at \in Gateway /\ conn.phase # "down"
    BY DEF Connected, Placed
  <2>2. next[conn.at]["updated"] > Latest(m)
    BY <1>1, <1>2, <2>1 DEF ToCome, IInv, TypeOK, Subject
  <2>3. Latest(m) <= j
    BY <1>2, <2>1, <2>2 DEF NoneOlder
  <2> QED BY <1>1, <2>3
<1>3. CASE Latest(m) \notin Updates(m)
  <2>1. Latest(m) <= j
    BY <1>1, <1>3 DEF LogOrder, Updates
  <2> QED BY <1>1, <2>1
<1> QED BY <1>2, <1>3

\* A frame stays on the wire until the tab receives it.
LEMMA WireStays ==
  ASSUME IInv, [Next]_vars, Connected, NEW f \in ToSet(wire)
  PROVE  f \in ToSet(wire)' \/ (Receive /\ f = Head(wire))
<1>0. wire \in Seq(Frame)
  BY DEF IInv, TypeOK
<1>1. CASE UNCHANGED wire
  BY <1>1 DEF ToSet
<1>2. ASSUME NEW h \in Frame, wire' = Append(wire, h)
      PROVE  f \in ToSet(wire)'
  <2>1. ToSet(wire)' = ToSet(Append(wire, h))
    BY <1>2 DEF ToSet
  <2> QED BY <1>0, <2>1, ToSetFacts
<1>3. ASSUME NEW g \in Gateway, BroadcastMessage(g)
      PROVE  f \in ToSet(wire)'
  <2>1. News(g) \in Frame
    <3>1. found[g] \in Body /\ log[found[g].event].msg \in Message
      BY <1>3, LogFacts DEF BroadcastMessage, IInv, Behind, TypeOK
    <3> QED BY <3>1, PageFacts DEF News, Frame, Body, IInv
  <2>2. wire' = Append(wire, News(g)) \/ wire' = wire
    BY <1>3 DEF BroadcastMessage, Deliver, News
  <2> QED BY <1>1, <1>2, <2>1, <2>2
<1>4. ASSUME NEW g \in Gateway, NEW i \in DOMAIN log, Announces(g, i)
      PROVE  f \in ToSet(wire)'
  <2>1. Report(i) \in Frame
    BY LogFacts, PageFacts DEF Report, Frame, IInv
  <2>2. wire' = Append(wire, Report(i)) \/ wire' = wire
    BY <1>4 DEF Announces, Deliver
  <2> QED BY <1>1, <1>2, <2>1, <2>2
<1>5. CASE WriteHistory
  <2>1. [kind |-> "history", page |-> Head(answer)] \in Frame
    BY <1>5 DEF WriteHistory, Frame, IInv, TypeOK
  <2> QED BY <1>2, <1>5, <2>1 DEF WriteHistory
<1>6. CASE Receive
  <2>1. wire # <<>> /\ wire' = Tail(wire)
    BY <1>6 DEF Receive
  <2>2. ToSet(wire) = ToSet(Tail(wire)) \union {Head(wire)}
    BY <1>0, <2>1, ToSetFacts
  <2> QED BY <1>6, <2>1, <2>2 DEF ToSet
<1>7. ~Notice
  BY DEF Notice, Connected
<1> QED BY <1>1, <1>3, <1>4, <1>5, <1>6, <1>7, UpdateAnnounced
        DEF Next, vars, gatewayVars, tabVars, GatewayStep, SessionStep, TabStep, MakeChange,
            GetMessage, LookupFails, LoseConsumer, Skip, Register, GetHistory, GetHistoryFails,
            Break, Open, SelectChat, Refresh, EditDecrypted, Decrypted

\* A listed message that is settled stays so while its handlers end.
LEMMA SettlesStep ==
  ASSUME IInv, Genuine, LogOrder, Plain, Single, Placed, NoneOlder, [Next]_vars, UNCHANGED log,
         Connected, NEW m \in Message \ raced', Changes(m) # {}, ~ToCome(m), ~Coming(m), Settles(m)
  PROVE  Settles(m)'
<1>0. m \in Message \ raced /\ TypeOK /\ Latest(m)' = Latest(m)
  BY RacedStays DEF IInv, Latest, Changes
<1>1. PICK last \in Nat : last = Latest(m)
  BY <1>0, LatestFacts DEF IInv
<1>2. /\ last # 0 /\ last \in Changes(m) /\ \A i \in Changes(m) : i \in Nat /\ i <= last
      /\ Latest(m)' = last
  BY <1>0, <1>1, LatestLast, LatestFacts, LogFacts DEF IInv, Changes
<1>3. \A i \in Changes(m) : Deleted(i) => i = last
  <2>1. ASSUME NEW i \in Changes(m), Deleted(i)
        PROVE  i = last
    <3>1. last <= i /\ i <= last /\ i \in Nat
      BY <1>0, <1>2, <2>1 DEF LogOrder, Deleted
    <3> QED BY <3>1
  <2> QED BY <2>1
<1>4. /\ copies[m] \in Seq(Copy) /\ copies[m] # <<>> /\ DOMAIN copies[m] = {1}
      /\ copies[m][1] \in Copy /\ copies[m][1] \in ToSet(copies[m])
  <2>1. copies[m] \in Seq(Copy) /\ copies[m] # <<>> /\ Len(copies[m]) <= 1
    BY <1>0 DEF TypeOK, Settles, Single
  <2>2. Len(copies[m]) \in Nat /\ Len(copies[m]) # 0
    BY <1>0, <2>1, CopyLengths
  <2>3. Len(copies[m]) = 1
    <3>1. \A k \in Nat : k <= 1 /\ k # 0 => k = 1
      OBVIOUS
    <3> QED BY <2>1, <2>2, <3>1, Zenon
  <2> QED BY <2>1, <2>3 DEF ToSet
<1> DEFINE Fine(c) == /\ \A j \in c.pending : j = last
                      /\ c.shows = last \/ last \in c.pending \/ Told(m, last)'
<1>5. /\ \A j \in copies[m][1].pending : j = last
      /\ copies[m][1].shows = last \/ last \in copies[m][1].pending \/ Told(m, last)
  BY <1>1 DEF Settles
<1>6. ASSUME copies'[m] # <<>>, Fine(copies'[m][1])
      PROVE  Settles(m)'
  BY <1>2, <1>6 DEF Settles, Told, ToSet
<1>7. ASSUME copies'[m] = copies[m], Told(m, last) => Told(m, last)'
      PROVE  Settles(m)'
  BY <1>4, <1>5, <1>6, <1>7
<1>8. Told(m, last) => Told(m, last)' \/ (Receive /\ Head(wire).kind = "update")
  BY WireStays DEF Told
<1>9. CASE Receive
  <2>1. wire # <<>> /\ Head(wire) \in ToSet(wire) /\ Head(wire) \in Frame
    BY <1>9, ToSetFacts DEF Receive, IInv, TypeOK
  <2>2. CASE Head(wire).kind # "update"
    BY <1>7, <1>8, <1>9, <2>2 DEF Receive
  <2>3. CASE Head(wire).kind = "update"
    <3>1. PICK x \in Message : Head(wire).page[x] # 0 /\ copies' = Update(x, Head(wire).page[x])
      BY <1>9, <2>3 DEF Receive
    <3>2. CASE x # m
      <4>1. copies'[m] = copies[m]
        BY <1>0, <3>1, <3>2 DEF Update, TypeOK
      <4>2. Head(wire).page[m] = 0
        BY <1>0, <2>1, <2>3, <3>1, <3>2 DEF Plain
      <4>3. Told(m, last) => Told(m, last)'
        BY <4>2, WireStays DEF Told
      <4> QED BY <1>7, <4>1, <4>3
    <3>3. CASE x = m
      <4>1. Head(wire).page[m] = last
        <5>1. Told(m, Head(wire).page[m])
          BY <2>1, <2>3, <3>1, <3>3 DEF Told
        <5>2. Head(wire).page[m] \in Nat
          BY <1>0, <2>1 DEF Frame, Page
        <5> QED BY <1>0, <1>1, <5>1, <5>2, OnlyLatest
      <4> DEFINE c == IF Deleted(last) THEN [copies[m][1] EXCEPT !.shows = last]
                      ELSE [copies[m][1] EXCEPT !.pending = @ \union {last}]
      <4>2. copies' = [copies EXCEPT ![m] = [copies[m] EXCEPT ![1] = c]]
        BY <1>0, <1>4, <3>1, <3>3, <4>1 DEF Update, TypeOK
      <4>3. copies'[m] # <<>> /\ copies'[m][1] = c
        <5>1. c \in Copy
          BY <1>4 DEF Copy
        <5> HIDE DEF c
        <5>2. copies'[m] = [copies[m] EXCEPT ![1] = c]
          BY <1>0, <4>2 DEF TypeOK
        <5> QED BY <1>4, <5>1, <5>2
      <4>4. Fine(c)
        BY <1>4, <1>5 DEF Copy
      <4> HIDE DEF c, Fine
      <4> QED BY <1>6, <4>3, <4>4
    <3> QED BY <3>2, <3>3
  <2> QED BY <2>2, <2>3
<1>10. ASSUME NEW x \in Message, NEW n \in DOMAIN copies[x], NEW i \in copies[x][n].pending,
              EditDecrypted(x, n, i)
       PROVE  Settles(m)'
  <2>1. Told(m, last) => Told(m, last)'
    BY <1>10 DEF EditDecrypted, Told, ToSet
  <2>2. copies' = [copies EXCEPT ![x][n] =
                    [shows |-> IF Deleted(@.shows) THEN @.shows ELSE i,
                     pending |-> @.pending \ {i}]]
    BY <1>10 DEF EditDecrypted
  <2>3. CASE x # m
    <3>1. copies'[m] = copies[m]
      BY <1>0, <2>2, <2>3 DEF TypeOK
    <3> QED BY <1>7, <2>1, <3>1
  <2>4. CASE x = m
    <3>1. n = 1 /\ i = last
      BY <1>4, <1>5, <1>10, <2>4
    <3> DEFINE c == [shows |-> IF Deleted(copies[m][1].shows) THEN copies[m][1].shows ELSE last,
                     pending |-> copies[m][1].pending \ {last}]
    <3>2. copies'[m] # <<>> /\ copies'[m][1] = c
      BY <1>0, <1>4, <2>2, <2>4, <3>1 DEF TypeOK
    <3>3. Deleted(copies[m][1].shows) => copies[m][1].shows = last
      <4>1. Shown(m, copies[m][1].shows) /\ copies[m][1].shows \in Nat
        BY <1>4 DEF Shown, Copy
      <4> QED BY <1>0, <1>3, <4>1 DEF Genuine
    <3>4. Fine(c)
      BY <1>5, <3>3
    <3> HIDE DEF c, Fine
    <3> QED BY <1>6, <3>2, <3>4
  <2> QED BY <2>3, <2>4
<1>11. ASSUME NEW f \in DOMAIN tasks, Decrypted(f)
       PROVE  Settles(m)'
  <2>1. f.kind # "update" /\ f.page[m] = 0
    BY DEF Plain, Coming, Brings
  <2>2. f.page \in Page
    BY <1>0 DEF TypeOK, Frame
  <2>3. copies' = IF f.kind = "new" THEN Pushed(f.page) ELSE Merged(f.page)
    BY <1>11 DEF Decrypted
  <2>4. Told(m, last) => Told(m, last)'
    BY <1>11 DEF Decrypted, Told, ToSet
  <2>5. CASE f.kind = "new"
    <3>1. copies'[m] = copies[m]
      BY <1>0, <2>1, <2>3, <2>5 DEF Pushed
    <3> QED BY <1>7, <2>4, <3>1
  <2>6. CASE f.kind # "new"
    <3>1. copies'[m] = <<Last(copies[m])>>
      BY <1>0, <1>4, <2>1, <2>3, <2>6 DEF Merged
    <3>2. Last(copies[m]) = copies[m][1]
      BY <1>4 DEF Last
    <3>3. copies'[m] # <<>> /\ copies'[m][1] = copies[m][1]
      BY <3>1, <3>2
    <3>4. Fine(copies[m][1])
      BY <1>5, <2>4
    <3> HIDE DEF Fine
    <3> QED BY <1>6, <3>3, <3>4
  <2> QED BY <2>5, <2>6
<1>12. CASE UNCHANGED copies /\ ~Receive
  BY <1>7, <1>8, <1>12
<1> QED BY ZenonT(60), <1>9, <1>10, <1>11, <1>12
        DEF Next, vars, gatewayVars, tabVars, GatewayStep, SessionStep, TabStep, MakeChange,
            GetMessage, BroadcastMessage, BroadcastUpdate, LookupFails, LoseConsumer, Skip,
            Register, GetHistory, GetHistoryFails, WriteHistory, Break, Notice, Open, SelectChat,
            Refresh

\* What the tab lists is current, or will be.
LEMMA CurrentStep ==
  ASSUME ShowsInv, [Next]_vars
  PROVE  Current'
<1> SUFFICES ASSUME Connected', asked', NEW m \in Recent' \ raced'
             PROVE  ToCome(m)' \/ Coming(m)' \/ Settles(m)'
  BY DEF Current
<1>0. /\ IInv /\ Genuine /\ LogOrder /\ Plain /\ Single /\ Placed /\ NoneOlder
      /\ IInv' /\ TypeOK'
  BY Inductive DEF ShowsInv, IInv
<1>1. m \in Message \ raced /\ m \in Message \ raced'
  BY RacedStays DEF Recent
<1>2. /\ Connected => conn.at \in Gateway
      /\ \A g \in Gateway : next[g]["updated"] \in Nat /\ next'[g]["updated"] \in Nat
  <2>1. Connected => conn.at \in Gateway
    BY <1>0 DEF IInv, AskedFirst
  <2>2. /\ next \in [Gateway -> [Subject -> Nat \ {0}]]
        /\ next' \in [Gateway -> [Subject -> Nat \ {0}]]
    BY <1>0 DEF IInv, TypeOK
  <2> QED BY <2>1, <2>2 DEF Subject
<1>3. ASSUME UNCHANGED log
      PROVE  /\ m \in Recent /\ Changes(m) # {} /\ Latest(m)' = Latest(m)
             /\ Updates(m)' = Updates(m)
  BY <1>3 DEF Recent, Sent, SentAfter, Updates, Latest, Changes
<1>4. CASE Connected /\ asked /\ m \in Recent => Coming(m)
  <2>1. ASSUME NEW f \in DOMAIN tasks, Decrypted(f), Brings(f, m)
        PROVE  ToCome(m)' \/ Settles(m)'
    <3>1. /\ UNCHANGED <<log, next, conn>> /\ raced' = raced \union {x \in Message : Len(copies'[x]) > 1}
          /\ copies' = IF f.kind = "new" THEN Pushed(f.page) ELSE Merged(f.page)
      BY <2>1 DEF Decrypted, gatewayVars
    <3>2. Connected
      BY <3>1 DEF Connected
    <3>3. CASE ToCome(m)
      BY <1>3, <3>1, <3>3 DEF ToCome
    <3>4. CASE ~ToCome(m)
      <4>1. f.page \in Page /\ f.page[m] # 0 /\ f.page[m] \in Nat
        BY <1>0, <1>1, <2>1 DEF IInv, TypeOK, Frame, Page, Brings
      <4>2. f.page[m] = Latest(m)
        <5>1. Carried(m, f.page[m])
          BY <2>1 DEF Carried
        <5> QED BY <1>0, <1>1, <1>3, <3>1, <3>2, <3>4, <4>1, <5>1, OnlyLatest
      <4>3. copies'[m] = <<NewCopy(f.page[m])>>
        <5>1. CASE f.kind = "new"
          <6>1. Len(copies[m]) \in Nat /\ (copies[m] = <<>> <=> Len(copies[m]) = 0)
            BY <1>0, <1>1, CopyLengths DEF IInv
          <6>2. Len(copies'[m]) = Len(copies[m]) + 1
            BY <1>0, <1>1, <3>1, <4>1, <5>1, CopyLengths DEF IInv
          <6>3. ~(Len(copies'[m]) > 1)
            BY <1>1, <3>1
          <6>4. copies[m] = <<>>
            BY <6>1, <6>2, <6>3
          <6>5. \A c : Append(<<>>, c) = <<c>>
            OBVIOUS
          <6>6. copies'[m] = Append(<<>>, NewCopy(f.page[m]))
            BY <1>1, <3>1, <4>1, <5>1, <6>4 DEF Pushed
          <6> QED BY <6>5, <6>6
        <5>2. CASE f.kind # "new"
          BY <1>1, <3>1, <4>1, <5>2 DEF Merged
        <5> QED BY <5>1, <5>2
      <4>4. /\ copies'[m] # <<>> /\ copies'[m][1].shows = Latest(m)'
            /\ copies'[m][1].pending = {}
        BY <1>3, <3>1, <4>2, <4>3 DEF NewCopy
      <4> QED BY <4>4 DEF Settles
    <3> QED BY <3>3, <3>4
  <2> QED BY <1>0, <1>4, <2>1, ComingStep
<1>5. CASE Connected /\ asked /\ m \in Recent /\ ~Coming(m)
  <2>1. /\ copies[m] # <<>> /\ Changes(m) # {} /\ Sent(m) # {}
        /\ ToCome(m) \/ Settles(m)
    BY <1>0, <1>1, <1>5 DEF IInv, Due, Recent, Sent, ShowsInv, Current
  <2>2. conn.phase = "live" /\ conn'.at = conn.at /\ conn.at \in Gateway
    <3>1. conn.phase # "open"
      BY <1>0, <1>5 DEF IInv, AskedFirst, Coming
    <3>2. conn'.at = conn.at
      BY <1>0, <1>5, ConnMoves DEF Open, Connected
    <3> QED BY <1>2, <1>5, <3>1, <3>2 DEF Connected
  <2>3. Latest(m) \in Changes(m) /\ Latest(m) \in Nat /\ Latest(m) # 0
        /\ \A j \in Changes(m) : j <= Latest(m)
    BY <1>0, <1>1, <2>1, LatestLast, LatestFacts DEF IInv
  <2>4. CASE UNCHANGED log /\ ToCome(m)
    <3>1. CASE next'[conn.at]["updated"] <= Latest(m)
      BY <1>3, <2>2, <2>4, <3>1 DEF ToCome
    <3>2. CASE Latest(m) < next'[conn.at]["updated"]
      <4>1. PICK last \in Nat : last = Latest(m)
        BY <2>3
      <4>2. /\ \A j \in Nat : Awaited(m, j) => last <= j
            /\ Announces(conn.at, last)
        BY <1>0, <1>1, <2>2, <2>4, <3>2, <4>1, PassedBy DEF ToCome
      <4>3. /\ wire' = Append(wire, Report(last)) /\ UNCHANGED copies
            /\ log[last].msg = m /\ last \in DOMAIN log
        <5>1. conn = [phase |-> "live", at |-> conn.at]
          BY <1>0, <2>2 DEF IInv, TypeOK
        <5> QED BY <2>3, <4>1, <4>2, <5>1 DEF Announces, Deliver, Changes
      <4>4. Told(m, last)'
        <5>1. Report(last) \in Frame /\ wire \in Seq(Frame)
          BY <1>0, <4>3, LogFacts, PageFacts DEF Report, Frame, IInv, TypeOK
        <5>2. Report(last).kind = "update" /\ Report(last).page[m] = last
          BY <1>1, <4>3 DEF Report, Nothing
        <5>3. Report(last) \in ToSet(wire')
          BY <4>3, <5>1, ToSetFacts
        <5> QED BY <2>3, <4>1, <5>2, <5>3 DEF Told, ToSet
      <4>5. \A j \in copies[m][1].pending : j = last
        <5>1. ASSUME NEW j \in copies[m][1].pending
              PROVE  j = last
          <6>1. copies[m] \in Seq(Copy)
            BY <1>0, <1>1 DEF IInv, TypeOK
          <6>2. copies[m][1] \in Copy /\ copies[m][1] \in ToSet(copies[m])
            BY <2>1, <6>1 DEF ToSet
          <6>3. j \in Nat /\ Awaited(m, j)
            BY <6>2 DEF Copy, Awaited
          <6>4. j \in Changes(m)
            BY <1>0, <1>1, <6>3 DEF Genuine
          <6>5. last <= j /\ j <= last
            BY <2>3, <4>1, <4>2, <6>3, <6>4
          <6> QED BY <6>3, <6>5
        <5> QED BY <5>1
      <4>6. Latest(m)' = last
        BY <1>3, <2>4, <4>1
      <4> QED BY <2>1, <4>3, <4>4, <4>5, <4>6 DEF Settles, Told
    <3> QED BY <1>2, <2>2, <2>3, <3>1, <3>2
  <2>5. CASE UNCHANGED log /\ ~ToCome(m)
    BY <1>0, <1>1, <1>5, <2>1, <2>5, SettlesStep
  <2>6. ASSUME NEW op \in {"created", "edited", "deleted"}, NEW x \in Message, MakeChange(op, x)
        PROVE  ToCome(m)' \/ Settles(m)'
    <3>1. /\ UNCHANGED <<next, conn, wire, copies>> /\ Len(log) \in Nat
          /\ \A i \in DOMAIN log : log'[i] = log[i]
          /\ log'[Len(log) + 1] = [op |-> op, msg |-> x]
          /\ Changes(m)' = IF m = x THEN Changes(m) \union {Len(log) + 1} ELSE Changes(m)
      <4>1. UNCHANGED <<next, conn, wire, copies>>
        BY <2>6 DEF MakeChange, gatewayVars, tabVars
      <4>2. Len(log) \in Nat
        BY <1>0 DEF IInv, TypeOK
      <4> QED BY <1>0, <1>1, <2>6, <4>1, <4>2, LogStep
    <3>2. CASE m = x
      <4>1. op # "created"
        BY <2>3, <2>6, <3>2 DEF MakeChange
      <4>2. Len(log) + 1 \in Updates(m)' /\ \A j \in Changes(m)' : j <= Len(log) + 1
        BY <1>0, <3>1, <3>2, <4>1, LogFacts DEF Updates, Changes, IInv
      <4>3. Latest(m)' = Len(log) + 1
        <5>1. Latest(m)' \in Changes(m)' /\ \A j \in Changes(m)' : j <= Latest(m)'
          BY <1>0, <3>1, <3>2 DEF IInv, HasLast, Latest
        <5>2. Latest(m)' <= Len(log) + 1 /\ Len(log) + 1 <= Latest(m)'
          BY <4>2, <5>1 DEF Updates
        <5>3. Latest(m)' \in Nat
          BY <1>0, <3>1, <3>2, <5>1, LogFacts DEF IInv, Changes
        <5> QED BY <3>1, <5>2, <5>3
      <4>4. next[conn.at]["updated"] <= Len(log) + 1
        BY <1>0, <2>2 DEF IInv, Behind, Subject
      <4> QED BY <3>1, <4>2, <4>3, <4>4 DEF ToCome
    <3>3. CASE m # x
      <4>1. Changes(m)' = Changes(m)
        BY <3>1, <3>3
      <4>2. Latest(m)' = Latest(m) /\ Updates(m)' = Updates(m)
        <5>1. Latest(m)' = Latest(m)
          BY <4>1 DEF Latest
        <5>2. \A i \in Changes(m) : log'[i] = log[i]
          BY <3>1 DEF Changes
        <5> QED BY <4>1, <5>1, <5>2 DEF Updates
      <4>3. ToCome(m) => ToCome(m)'
        BY <3>1, <4>2 DEF ToCome
      <4>4. Settles(m) => Settles(m)'
        BY <3>1, <4>2 DEF Settles, Told
      <4> QED BY <2>1, <4>3, <4>4
    <3> QED BY <3>2, <3>3
  <2> QED BY <2>4, <2>5, <2>6, LogMoves
<1> QED BY <1>4, <1>5

\* A tab that asked for the history on its connection shows the messages of the last
\* page as they are once all has arrived, unless a message was updated with an older
\* body on its way or listed twice: whatever is still to come for a message, or was
\* the last to come, shows its last change.
THEOREM ShownUpToDate == Spec => []UpToDate
<1>1. Init => ShowsInv
  <2> SUFFICES ASSUME Init
               PROVE  ShowsInv
    OBVIOUS
  <2>1. IInv
    BY InitIInv
  <2>2. \A m \in Message : Changes(m) = {} /\ copies[m] = <<>>
    BY DEF Init, Changes
  <2>3. ToSet(wire) = {} /\ ToSet(answer) = {} /\ DOMAIN tasks = {}
    BY DEF Init, ToSet, EmptyBag, SetToBag
  <2>4. \A m \in Message : ToSet(copies[m]) = {}
    BY <2>2 DEF ToSet
  <2>5. \A m \in Message : \A j : ~Carried(m, j) /\ ~Told(m, j) /\ ~Awaited(m, j) /\ ~Shown(m, j)
    BY <2>3, <2>4 DEF Init, Carried, Told, Awaited, Shown
  <2>6. Genuine /\ LogOrder /\ Plain /\ NoneOlder
    BY <2>2, <2>3, <2>5 DEF Genuine, LogOrder, Plain, NoneOlder
  <2>7. Single
    BY <2>2 DEF Single
  <2>8. Placed /\ Current
    BY DEF Init, Placed, Current, Connected
  <2> QED BY <2>1, <2>6, <2>7, <2>8 DEF ShowsInv
<1>2. ShowsInv /\ [Next]_vars => ShowsInv'
  BY Inductive, GenuineStep, LogOrderStep, PlainStep, SingleStep, PlacedStep, NoneOlderStep,
     CurrentStep DEF ShowsInv
<1>3. ShowsInv => UpToDate
  <2> SUFFICES ASSUME ShowsInv, AtRest, asked, NEW m \in Recent \ raced
               PROVE  copies[m][1].shows = Latest(m)
    BY DEF UpToDate
  <2>1. Connected /\ found[conn.at] = None /\ asks = 0 /\ answer = <<>> /\ Len(wire) = 0
        /\ ToSet(wire) = {} /\ DOMAIN tasks = {}
    BY DEF AtRest, Connected, EmptyBag, SetToBag, ToSet
  <2>2. m \in Message /\ Changes(m) # {} /\ IInv
    BY DEF Recent, Sent, ShowsInv
  <2>3. ~ToCome(m)
    <3> SUFFICES ASSUME ToCome(m)
                 PROVE  FALSE
      OBVIOUS
    <3>1. Latest(m) \in DOMAIN log /\ Mine("updated", Latest(m))
      BY DEF ToCome, Updates, Changes, Mine
    <3>2. Latest(m) \in next[conn.at]["updated"] .. Len(log)
      <4>1. conn.at \in Gateway
        BY <2>1, <2>2 DEF IInv, AskedFirst
      <4>2. next[conn.at]["updated"] \in Nat /\ Len(log) \in Nat
        BY <2>2, <4>1 DEF IInv, TypeOK, Subject
      <4> QED BY <2>2, <3>1, <4>2, LogFacts DEF ToCome, IInv
    <3> QED BY <3>1, <3>2 DEF AtRest, Subject
  <2>4. ~Coming(m)
    <3>1. \A i \in next[conn.at]["created"] .. Len(log) : log[i].op # "created"
      BY DEF AtRest, Mine, Subject
    <3> QED BY <2>1, <3>1 DEF Coming
  <2>5. Settles(m)
    BY <2>1, <2>3, <2>4 DEF ShowsInv, Current
  <2>6. copies[m][1].pending = {}
    <3>1. copies[m] \in Seq(Copy) /\ copies[m] # <<>>
      BY <2>2, <2>5 DEF IInv, TypeOK, Settles
    <3>2. copies[m][1] \in ToSet(copies[m])
      BY <3>1 DEF ToSet
    <3> QED BY <2>2, <3>2 DEF AtRest
  <2> QED BY <2>1, <2>5, <2>6 DEF Settles, Told
<1> QED BY <1>1, <1>2, <1>3, PTL DEF Spec
=============================================================================

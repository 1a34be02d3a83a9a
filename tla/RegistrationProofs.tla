------------------------- MODULE RegistrationProofs -------------------------
(***************************************************************************)
(* What holds of the registrations of an address for any number of         *)
(* requests, accounts, mails and links.                                    *)
(***************************************************************************)
EXTENDS Registration, TLAPS

Registering == {"StoreCode", "Send", "Rollback"}

\* The request q can be at the step "at".
Fits(at, q) ==
  /\ at \in Registering \union {"Delete", "Mark", "StoreLink"} => q.account \in Account
  /\ at \in Registering \union {"Incr", "Expire"} => q.op = "register"
  /\ at \in {"Get", "Del"} => q.op = "verify"
  /\ at \in {"Release", "Delete", "Create"} => q.op \in {"register", "github"}
  /\ at = "GetByEmail" => q.op # "register"
  /\ at = "Consume" => q.op = "reset"

\* What the handler of r works on at each of its steps.
Known(r) ==
  /\ Fits(req[r].at, req[r])
  /\ req[r].at # "idle" /\ req[r].op = "verify" => req[r].code \in mailed

TypeInv == TypeOK /\ \A r \in Req : Known(r)
-----------------------------------------------------------------------------
LEMMA NoRequestType ==
  /\ NoRequest \in Request /\ NoRequest.at = "idle" /\ NoRequest.op = "register"
  /\ NoRequest.met = {} /\ NoRequest.was = {}
BY RegistrationAssumption DEF NoRequest, Request, Op, Step, None

LEMMA HolderType == Holder \in Account \/ (Holder = None /\ Holders = {})
BY DEF Holder, Holders

LEMMA HolderRow == Holder # None => Holder \in Account /\ row[Holder] \in {"pending", "verified"}
<1>1. CASE Holders = {}
  BY <1>1 DEF Holder
<1>2. CASE Holders # {}
  BY <1>2 DEF Holder, Holders
<1>3. QED
  BY <1>1, <1>2

\* Zero is no account.
LEMMA NoneIsNoAccount == None \notin Account
BY DEF None, Account

\* A request that goes on.
LEMMA GoReq ==
  ASSUME req \in [Req -> Request], NEW r \in Req, NEW at \in Step, Go(r, at)
  PROVE  /\ req' \in [Req -> Request]
         /\ req'[r] = [req[r] EXCEPT !.at = at]
         /\ req'[r].at = at /\ req'[r].op = req[r].op /\ req'[r].account = req[r].account
         /\ req'[r].code = req[r].code /\ req'[r].met = req[r].met
         /\ req'[r].was = req[r].was
         /\ \A q \in Req : q # r => req'[q] = req[q]
BY DEF Go, Request

LEMMA GoWithReq ==
  ASSUME req \in [Req -> Request], NEW r \in Req, NEW at \in Step, NEW a \in Account,
         GoWith(r, at, a)
  PROVE  /\ req' \in [Req -> Request]
         /\ req'[r].at = at /\ req'[r].op = req[r].op /\ req'[r].account = a
         /\ req'[r].code = req[r].code /\ req'[r].met = req[r].met
         /\ req'[r].was = req[r].was
         /\ \A q \in Req : q # r => req'[q] = req[q]
<1>1. a \in 0..MaxAccounts
  BY DEF Account
<1>2. req' = [req EXCEPT ![r] = [req[r] EXCEPT !.at = at, !.account = a]]
  BY DEF GoWith
<1>3. QED
  BY <1>1, <1>2 DEF Request

LEMMA DoneReq ==
  ASSUME req \in [Req -> Request], NEW r \in Req, Done(r)
  PROVE  /\ req' \in [Req -> Request]
         /\ req'[r] = NoRequest /\ req'[r].at = "idle"
         /\ \A q \in Req : q # r => req'[q] = req[q]
BY NoRequestType DEF Done

\* The registrations under way have accounts.
LEMMA OpenType ==
  ASSUME \A r \in Req : Known(r)
  PROVE  Open \subseteq Account
BY DEF Open, Known, Fits, Registering

LEMMA StartReq ==
  ASSUME TypeInv, NEW r \in Req, NEW op \in Op, NEW at \in Step \ {"idle"},
         NEW c \in Account \union {None}, Start(r, op, at, c)
  PROVE  /\ req' \in [Req -> Request]
         /\ req'[r].at = at /\ req'[r].op = op /\ req'[r].code = c
         /\ req'[r].met = (IF op \in {"verify", "github"} THEN Open \union seen.broken ELSE {})
         /\ req'[r].was = (IF op \in {"register", "github"} THEN Verified ELSE {})
         /\ req[r].at = "idle" /\ calls' = calls + 1
         /\ \A q \in Req : q # r => req'[q] = req[q]
<1> DEFINE met == IF op \in {"verify", "github"} THEN Open \union seen.broken ELSE {}
           was == IF op \in {"register", "github"} THEN Verified ELSE {}
           new == [op |-> op, at |-> at, account |-> None, code |-> c, met |-> met, was |-> was]
<1>1. met \in SUBSET Account /\ was \in SUBSET Account
  BY OpenType DEF TypeInv, TypeOK, Seen, Verified
<1>2. c \in 0..MaxAccounts /\ None \in 0..MaxAccounts
  BY RegistrationAssumption DEF Account, None
<1>3. new \in Request
  BY <1>1, <1>2 DEF Request
<1>4. req' = [req EXCEPT ![r] = new]
  BY DEF Start
<1>5. QED
  BY <1>3, <1>4 DEF Start, TypeInv, TypeOK
-----------------------------------------------------------------------------
LEMMA InitTypeInv == Init => TypeInv
<1> SUFFICES ASSUME Init PROVE TypeInv
  OBVIOUS
<1>1. TypeOK
  BY NoRequestType, RegistrationAssumption DEF Init, TypeOK, Row, Seen, None
<1>2. \A r \in Req : Known(r)
  BY NoRequestType DEF Init, Known, Fits, Registering
<1>3. QED
  BY <1>1, <1>2 DEF TypeInv

\* Requests that do not act keep what they know, since mail stays.
LEMMA OthersKnow ==
  ASSUME \A q \in Req : Known(q), mailed \subseteq mailed', NEW r \in Req,
         \A q \in Req : q # r => req'[q] = req[q],
         Known(r)'
  PROVE  \A q \in Req : Known(q)'
BY DEF Known

\* Rows that only move on keep the address with one holder.
LEMMA RowsUnique ==
  ASSUME TypeOK, NEW a \in Account, NEW v \in Row \ {"new"},
         v \in {"pending", "verified"} => row[a] \in {"pending", "verified"} \/ Holder = None,
         row' = [row EXCEPT ![a] = v]
  PROVE  /\ row' \in [Account -> Row]
         /\ \A b, c \in Account : {row'[b], row'[c]} \subseteq {"pending", "verified"} => b = c
<1>1. row \in [Account -> Row] /\ row' \in [Account -> Row]
  BY DEF TypeOK
<1>2. Holder = None => \A b \in Account : row[b] \notin {"pending", "verified"}
  BY HolderType, NoneIsNoAccount DEF Holders
<1>3. QED
  BY <1>1, <1>2 DEF TypeOK

\* A request that moves on.
LEMMA GoKnow ==
  ASSUME TypeInv, NEW r \in Req, NEW at \in Step, Go(r, at), req[r].at # "idle",
         Fits(at, req[r]), mailed \subseteq mailed'
  PROVE  req' \in [Req -> Request] /\ \A q \in Req : Known(q)'
<1>1. /\ req' \in [Req -> Request]
      /\ req'[r].at = at /\ req'[r].op = req[r].op /\ req'[r].account = req[r].account
      /\ req'[r].code = req[r].code
      /\ \A q \in Req : q # r => req'[q] = req[q]
  BY GoReq DEF TypeInv, TypeOK
<1>2. Known(r)'
  BY <1>1 DEF TypeInv, Known, Fits
<1>3. QED
  BY <1>1, <1>2, OthersKnow DEF TypeInv

LEMMA GoWithKnow ==
  ASSUME TypeInv, NEW r \in Req, NEW at \in {"Delete", "Mark", "StoreLink"},
         NEW a \in Account, GoWith(r, at, a), req[r].at # "idle",
         at = "Delete" => req[r].op \in {"register", "github"}, mailed' = mailed
  PROVE  req' \in [Req -> Request] /\ \A q \in Req : Known(q)'
<1>1. /\ req' \in [Req -> Request]
      /\ req'[r].at = at /\ req'[r].op = req[r].op /\ req'[r].account = a
      /\ req'[r].code = req[r].code
      /\ \A q \in Req : q # r => req'[q] = req[q]
  BY GoWithReq DEF TypeInv, TypeOK, Step
<1>2. Known(r)'
  BY <1>1 DEF TypeInv, Known, Fits, Registering
<1>3. QED
  BY <1>1, <1>2, OthersKnow DEF TypeInv

LEMMA DoneType ==
  ASSUME TypeInv, NEW r \in Req, Done(r), mailed \subseteq mailed'
  PROVE  req' \in [Req -> Request] /\ \A q \in Req : Known(q)'
<1>1. /\ req' \in [Req -> Request] /\ req'[r] = NoRequest
      /\ \A q \in Req : q # r => req'[q] = req[q]
  BY DoneReq DEF TypeInv, TypeOK
<1>2. Known(r)'
  BY <1>1, NoRequestType DEF Known, Fits, Registering
<1>3. QED
  BY <1>1, <1>2, OthersKnow DEF TypeInv

LEMMA StartKnow ==
  ASSUME TypeInv, NEW r \in Req, NEW op \in Op, NEW at \in Step \ {"idle"},
         NEW c \in Account \union {None}, Start(r, op, at, c),
         \/ op = "register" /\ at = "Incr"
         \/ op = "github" /\ at = "Release"
         \/ op = "verify" /\ at = "Get" /\ c \in mailed
         \/ op = "forgot" /\ at = "GetByEmail"
         \/ op = "reset" /\ at = "Consume"
  PROVE  TypeInv'
<1>1. UNCHANGED <<row, code, mailed, links, sends, seen>> /\ calls' = calls + 1
  BY StartReq DEF Start
<1>2. TypeOK'
  BY <1>1, StartReq DEF TypeInv, TypeOK
<1>3. Known(r)'
  BY <1>1, StartReq DEF Known, Fits, Registering
<1>4. QED
  BY <1>1, <1>2, <1>3, StartReq, OthersKnow DEF TypeInv
-----------------------------------------------------------------------------
\* A request that looks for the account changes nothing of the history.
LEMMA GivenSeen ==
  ASSUME TypeInv, NEW r \in Req, GetByEmail(r)
  PROVE  /\ seen' \in Seen
         /\ seen'.used = seen.used /\ seen'.late = seen.late
         /\ seen'.broken = seen.broken /\ seen'.unlimited = seen.unlimited
<1> DEFINE g == IF req[r].op = "github" THEN seen.given \union (Holders \ Verified)
                ELSE seen.given
<1>1. seen \in Seen
  BY DEF TypeInv, TypeOK
<1>2. g \in SUBSET Account
  BY <1>1 DEF Seen, Holders
<1>3. seen' = [seen EXCEPT !.given = g]
  BY DEF GetByEmail
<1> HIDE DEF g
<1>4. QED
  BY <1>1, <1>2, <1>3 DEF Seen

LEMMA StepTypeInv == TypeInv /\ [Next]_vars => TypeInv'
<1> SUFFICES ASSUME TypeInv, [Next]_vars PROVE TypeInv'
  OBVIOUS
<1> USE DEF TypeInv
<1>1. ASSUME NEW r \in Req, Register(r) PROVE TypeInv'
  BY <1>1, StartKnow DEF Register, Op, Step
<1>2. ASSUME NEW r \in Req, LoginWithGitHub(r) PROVE TypeInv'
  BY <1>2, StartKnow DEF LoginWithGitHub, Op, Step
<1>3. ASSUME NEW r \in Req, VerifyEmail(r) PROVE TypeInv'
  BY <1>3, StartKnow DEF VerifyEmail, Op, Step, TypeOK
<1>4. ASSUME NEW r \in Req, RequestPasswordReset(r) PROVE TypeInv'
  BY <1>4, StartKnow DEF RequestPasswordReset, Op, Step
<1>5. ASSUME NEW r \in Req, ResetPassword(r) PROVE TypeInv'
  BY <1>5, StartKnow DEF ResetPassword, Op, Step
<1>6. ASSUME NEW r \in Req, GiveUp(r) PROVE TypeInv'
  <2>1. req' \in [Req -> Request] /\ \A q \in Req : Known(q)'
    BY <1>6, DoneType DEF GiveUp
  <2>2. seen' \in Seen
    <3> DEFINE broken == seen.broken \union (IF req[r].at \in Registering
                                            THEN {req[r].account} ELSE {})
               unlimited == seen.unlimited \/ req[r].at = "Expire"
    <3>1. broken \in SUBSET Account /\ unlimited \in BOOLEAN /\ seen \in Seen
      BY DEF TypeOK, Seen, Known, Fits
    <3>2. seen' = [seen EXCEPT !.broken = broken, !.unlimited = unlimited]
      BY <1>6 DEF GiveUp, Registering
    <3>3. seen' = [given |-> seen.given, used |-> seen.used, late |-> seen.late, broken |-> broken,
                   unlimited |-> unlimited]
      BY <3>1, <3>2 DEF Seen
    <3> HIDE DEF broken, unlimited
    <3>4. QED
      BY <3>1, <3>3 DEF Seen
  <2>3. QED
    BY <1>6, <2>1, <2>2 DEF GiveUp, TypeOK
<1>7. ASSUME NEW r \in Req, Incr(r) PROVE TypeInv'
  <2>1. sends' \in [count : 0..(MaxSends + 1), ttl : BOOLEAN]
    BY <1>7, RegistrationAssumption DEF Incr, TypeOK
  <2>2. CASE Done(r)
    BY <1>7, <2>1, <2>2, DoneType DEF Incr, TypeOK
  <2>3. CASE Go(r, "Expire")
    BY <1>7, <2>1, <2>3, GoKnow DEF Incr, TypeOK, Step, Known, Fits, Registering
  <2>4. CASE Go(r, "Release")
    BY <1>7, <2>1, <2>4, GoKnow DEF Incr, TypeOK, Step, Known, Fits, Registering
  <2>5. QED
    BY <1>7, <2>2, <2>3, <2>4 DEF Incr
<1>8. ASSUME NEW r \in Req, SetExpire(r) PROVE TypeInv'
  BY <1>8, GoKnow DEF SetExpire, TypeOK, Step, Known, Fits, Registering
<1>9. ASSUME NEW r \in Req, Release(r) PROVE TypeInv'
  <2>1. CASE Done(r)
    BY <1>9, <2>1, DoneType DEF Release, TypeOK
  <2>2. CASE Go(r, Released(r))
    BY <1>9, <2>2, GoKnow DEF Release, Released, TypeOK, Step, Known, Fits, Registering
  <2>3. CASE Releasable(r) /\ GoWith(r, "Delete", Holder)
    <3>1. Holder \in Account
      BY <2>3, HolderRow DEF Releasable
    <3>2. QED
      BY <1>9, <2>3, <3>1, GoWithKnow DEF Release, TypeOK, Step, Known, Fits, Registering
  <2>4. QED
    BY <1>9, <2>1, <2>2, <2>3 DEF Release
<1>10. ASSUME NEW r \in Req, Delete(r) PROVE TypeInv'
  <2>1. /\ row' \in [Account -> Row]
        /\ \A b, c \in Account : {row'[b], row'[c]} \subseteq {"pending", "verified"} => b = c
    BY <1>10, RowsUnique DEF Delete, Row, Known, Fits
  <2>2. QED
    BY <1>10, <2>1, GoKnow DEF Delete, Released, TypeOK, Step, Known, Fits, Registering
<1>11. ASSUME NEW r \in Req, Create(r) PROVE TypeInv'
  <2>1. CASE Done(r) /\ UNCHANGED row
    BY <1>11, <2>1, DoneType DEF Create, TypeOK
  <2>2. ASSUME NEW a \in Account, Free, Done(r), row' = [row EXCEPT ![a] = "verified"]
        PROVE  TypeInv'
    <3>1. /\ row' \in [Account -> Row]
          /\ \A b, c \in Account : {row'[b], row'[c]} \subseteq {"pending", "verified"} => b = c
      BY <2>2, RowsUnique DEF Row, Free
    <3>2. QED
      BY <1>11, <2>2, <3>1, DoneType DEF Create, TypeOK
  <2>3. ASSUME NEW a \in Account, Free, row' = [row EXCEPT ![a] = "pending"],
               req[r].op # "github",
               req' = [q \in Req |->
                  IF q = r THEN [req[q] EXCEPT !.at = "StoreCode", !.account = a]
                  ELSE IF req[q].at # "idle" /\ req[q].op \in {"verify", "github"}
                  THEN [req[q] EXCEPT !.met = @ \union {a}] ELSE req[q]]
        PROVE  TypeInv'
    <3>1. /\ row' \in [Account -> Row]
          /\ \A b, c \in Account : {row'[b], row'[c]} \subseteq {"pending", "verified"} => b = c
      BY <2>3, RowsUnique DEF Row, Free
    <3>2. a \in 0..MaxAccounts
      BY DEF Account
    <3>3. req' \in [Req -> Request]
      <4>1. \A q \in Req : [req[q] EXCEPT !.at = "StoreCode", !.account = a] \in Request
        <5>1. \A q \in Req : [req[q] EXCEPT !.at = "StoreCode"] \in Request
          BY DEF TypeOK, Request, Step
        <5>2. \A q \in Request : [q EXCEPT !.account = a] \in Request
          BY <3>2 DEF Request
        <5>3. \A q \in Req : [req[q] EXCEPT !.at = "StoreCode", !.account = a]
                             = [[req[q] EXCEPT !.at = "StoreCode"] EXCEPT !.account = a]
          OBVIOUS
        <5>4. QED
          BY <5>1, <5>2, <5>3
      <4>2. \A q \in Req : [req[q] EXCEPT !.met = @ \union {a}] \in Request
        BY DEF TypeOK, Request
      <4>3. \A q \in Req : req'[q] \in Request
        BY <2>3, <4>1, <4>2 DEF TypeOK
      <4>4. QED
        BY <2>3, <4>3
    <3>4. req[r].op = "register"
      BY <1>11, <2>3 DEF Create, Known, Fits
    <3>5. \A q \in Req : Known(q)'
      <4>1. mailed' = mailed
        BY <1>11 DEF Create
      <4>2. \A q \in Req : /\ req'[q].op = req[q].op /\ req'[q].code = req[q].code
                           /\ q # r => req'[q].at = req[q].at
                           /\ q # r => req'[q].account = req[q].account
        BY ZenonT(60), <2>3 DEF TypeOK, Request
      <4>3. req'[r].at = "StoreCode" /\ req'[r].account = a
        BY ZenonT(60), <2>3 DEF TypeOK, Request
      <4>4. QED
        BY <3>4, <4>1, <4>2, <4>3 DEF Known, Fits, Registering
    <3>6. QED
      BY <1>11, <3>1, <3>3, <3>5 DEF Create, TypeOK
  <2>4. QED
    BY <1>11, <2>1, <2>2, <2>3 DEF Create
<1>12. ASSUME NEW r \in Req, StoreCode(r) PROVE TypeInv'
  <2>1. req[r].account \in Account /\ req[r].account \in 0..MaxAccounts
    BY <1>12 DEF StoreCode, Known, Fits, Registering, Account
  <2>2. code' \in 0..MaxAccounts /\ seen' \in Seen
    BY <1>12, <2>1 DEF StoreCode, Stored, TypeOK, Seen
  <2>3. QED
    BY <1>12, <2>2, GoKnow DEF StoreCode, TypeOK, Step, Known, Fits, Registering
<1>13. ASSUME NEW r \in Req, Send(r) PROVE TypeInv'
  <2>1. req[r].account \in Account
    BY <1>13 DEF Send, Known, Fits, Registering
  <2>2. mailed' \subseteq Account /\ mailed \subseteq mailed'
    BY <1>13, <2>1 DEF Send, TypeOK
  <2>3. CASE Done(r)
    BY <1>13, <2>2, <2>3, DoneType DEF Send, TypeOK
  <2>4. CASE Go(r, "Rollback")
    BY <1>13, <2>2, <2>4, GoKnow DEF Send, TypeOK, Step, Known, Fits, Registering
  <2>5. QED
    BY <1>13, <2>3, <2>4 DEF Send
<1>14. ASSUME NEW r \in Req, Rollback(r) PROVE TypeInv'
  <2>1. /\ row' \in [Account -> Row]
        /\ \A b, c \in Account : {row'[b], row'[c]} \subseteq {"pending", "verified"} => b = c
    BY <1>14, RowsUnique DEF Rollback, Row, Known, Fits, Registering
  <2>2. QED
    BY <1>14, <2>1, DoneType DEF Rollback, TypeOK
<1>15. ASSUME NEW r \in Req, Get(r) PROVE TypeInv'
  <2>1. CASE Done(r)
    BY <1>15, <2>1, DoneType DEF Get, TypeOK
  <2>2. CASE Go(r, "Del")
    BY <1>15, <2>2, GoKnow DEF Get, TypeOK, Step, Known, Fits, Registering
  <2>3. QED
    BY <1>15, <2>1, <2>2 DEF Get
<1>16. ASSUME NEW r \in Req, Del(r) PROVE TypeInv'
  <2>1. req[r].code \in Account
    BY <1>16 DEF Del, Known, Fits, TypeOK
  <2>2. code' \in 0..MaxAccounts /\ seen' \in Seen
    BY <1>16, <2>1, RegistrationAssumption DEF Del, Deleted, None, TypeOK, Seen
  <2>3. QED
    BY <1>16, <2>2, GoKnow DEF Del, TypeOK, Step, Known, Fits, Registering
<1>17. ASSUME NEW r \in Req, Consume(r) PROVE TypeInv'
  <2>1. links' \in 0..MaxLinks
    BY <1>17, RegistrationAssumption DEF Consume, TypeOK
  <2>2. CASE Done(r)
    BY <1>17, <2>1, <2>2, DoneType DEF Consume, TypeOK
  <2>3. CASE Go(r, "GetByEmail")
    BY <1>17, <2>1, <2>3, GoKnow DEF Consume, TypeOK, Step, Known, Fits, Registering
  <2>4. QED
    BY <1>17, <2>2, <2>3 DEF Consume
<1>18. ASSUME NEW r \in Req, GetByEmail(r) PROVE TypeInv'
  <2>0. seen' \in Seen
    BY <1>18, GivenSeen DEF TypeInv
  <2>1. CASE Done(r)
    BY <1>18, <2>0, <2>1, DoneType DEF GetByEmail, TypeOK
  <2>2. CASE req[r].op = "github" /\ Go(r, "Create")
    BY <1>18, <2>0, <2>2, GoKnow DEF GetByEmail, TypeOK, Step, Known, Fits, Registering
  <2>3. ASSUME NEW at \in {"Mark", "StoreLink"}, Holder # None, GoWith(r, at, Holder)
        PROVE  TypeInv'
    <3>1. Holder \in Account
      BY <2>3, HolderRow
    <3>2. QED
      BY <1>18, <2>0, <2>3, <3>1, GoWithKnow DEF GetByEmail, TypeOK, Step, Known, Fits, Registering
  <2>4. CASE Holder = None
    BY <1>18, <2>1, <2>2, <2>4 DEF GetByEmail
  <2>5. CASE Holder # None
    <3>1. CASE req[r].op = "verify"
      BY <1>18, <2>3, <2>5, <3>1 DEF GetByEmail
    <3>2. CASE req[r].op = "forgot"
      BY <1>18, <2>3, <2>5, <3>2 DEF GetByEmail
    <3>3. CASE req[r].op = "reset"
      BY <1>18, <2>1, <2>3, <2>5, <3>3 DEF GetByEmail
    <3>4. CASE req[r].op = "github"
      BY <1>18, <2>1, <2>5, <3>4 DEF GetByEmail
    <3>5. QED
      BY <3>1, <3>2, <3>3, <3>4, <1>18 DEF TypeOK, Request, Op, Known, Fits, GetByEmail
  <2>6. QED
    BY <2>4, <2>5
<1>19. ASSUME NEW r \in Req, StoreLink(r) PROVE TypeInv'
  <2>1. links' \in 0..MaxLinks
    BY <1>19, RegistrationAssumption DEF StoreLink, TypeOK
  <2>2. QED
    BY <1>19, <2>1, DoneType DEF StoreLink, TypeOK
<1>20. ASSUME NEW r \in Req, Mark(r) PROVE TypeInv'
  <2> DEFINE a == req[r].account
             v == IF row[a] = "pending" THEN "verified" ELSE row[a]
  <2>1. a \in Account /\ row' = [row EXCEPT ![a] = v]
    BY <1>20 DEF Mark, Known, Fits
  <2>2. /\ row' \in [Account -> Row]
        /\ \A b, c \in Account : {row'[b], row'[c]} \subseteq {"pending", "verified"} => b = c
    BY <2>1 DEF TypeOK, Row
  <2>3. QED
    BY <1>20, <2>2, DoneType DEF Mark, TypeOK
<1>21. ASSUME DeleteAccount PROVE TypeInv'
  <2>1. PICK a \in Account : row' = [row EXCEPT ![a] = "gone"]
    BY <1>21 DEF DeleteAccount, Verified, Holders
  <2>2. /\ row' \in [Account -> Row]
        /\ \A b, c \in Account : {row'[b], row'[c]} \subseteq {"pending", "verified"} => b = c
    BY <2>1, RowsUnique DEF Row
  <2>3. QED
    BY <1>21, <2>2 DEF DeleteAccount, TypeOK, Known
<1>22. ASSUME KeyExpires PROVE TypeInv'
  <2>1. sends' \in [count : 0..(MaxSends + 1), ttl : BOOLEAN]
    <3>1. 0 \in 0..(MaxSends + 1)
      BY RegistrationAssumption
    <3>2. CASE sends' = [count |-> 0, ttl |-> FALSE]
      BY <3>1, <3>2
    <3>3. CASE UNCHANGED sends
      BY <3>3 DEF TypeOK
    <3>4. QED
      BY <1>22, <3>2, <3>3 DEF KeyExpires
  <2>2. links' \in 0..MaxLinks /\ code' \in 0..MaxAccounts
    BY <1>22, RegistrationAssumption DEF KeyExpires, TypeOK, None
  <2>3. QED
    BY <1>22, <2>1, <2>2 DEF KeyExpires, TypeOK, Known
<1>23. CASE UNCHANGED vars
  BY <1>23 DEF vars, TypeOK, Known, Holder, Holders
<1>24. QED
  BY <1>1, <1>2, <1>3, <1>4, <1>5, <1>6, <1>7, <1>8, <1>9, <1>10, <1>11, <1>12, <1>13,
     <1>14, <1>15, <1>16, <1>17, <1>18, <1>19, <1>20, <1>21, <1>22, <1>23 DEF Next

\* Whatever requests do at the same time, every variable keeps its type, and the
\* address belongs to one row at most.
THEOREM TypeCorrect == Spec => []TypeOK
<1>1. TypeInv => TypeOK
  BY DEF TypeInv
<1>2. Spec => []TypeInv
  BY InitTypeInv, StepTypeInv, PTL DEF Spec
<1>3. QED
  BY <1>1, <1>2, PTL
-----------------------------------------------------------------------------
(* What rows may do, and what is left of the requests that do not act.     *)

\* q is where it was; a Create may have added to "met".
Same(q) ==
  /\ req'[q].at = req[q].at /\ req'[q].op = req[q].op
  /\ req'[q].account = req[q].account /\ req'[q].code = req[q].code
  /\ req'[q].was = req[q].was /\ req[q].met \subseteq req'[q].met

\* r creates the pending row a.
Inserts(r, a) ==
  /\ req[r].at = "Create" /\ req[r].op = "register" /\ row[a] = "new" /\ Holder = None
  /\ row' = [row EXCEPT ![a] = "pending"]
  /\ req'[r].at = "StoreCode" /\ req'[r].op = "register" /\ req'[r].account = a
  /\ req'[r].was = req[r].was
  /\ \A q \in Req : q # r => Same(q)
  /\ \A q \in Req : q # r /\ req[q].at # "idle" /\ req[q].op \in {"verify", "github"}
                     => req'[q].met = req[q].met \union {a}

\* r is sent.
Begins(r) ==
  /\ req[r].at = "idle" /\ UNCHANGED <<row, code, mailed, links, sends, seen>>
  /\ req'[r].at \in {"Incr", "Release", "Get", "GetByEmail", "Consume"}
  /\ req'[r].op = "github" => req'[r].at = "Release"
  /\ req'[r].op = "verify" => req'[r].at = "Get"
  /\ req'[r].was \subseteq Verified
  /\ req'[r].op \in {"verify", "github"} => req'[r].met = Open \union seen.broken
  /\ \A q \in Req : q # r => req'[q] = req[q]

\* What request r does to itself.
Moves(r) ==
  \/ Done(r)
  \/ Begins(r)
  \/ \E at \in Step \ {"idle", "StoreCode", "Delete", "Mark", "StoreLink"} :
       /\ Go(r, at) /\ req[r].at # "idle"
       /\ at \in Registering => req[r].at \in Registering
  \/ \E at \in {"Delete", "Mark", "StoreLink"} :
       /\ GoWith(r, at, Holder) /\ Holder # None /\ req[r].at # "idle" /\ UNCHANGED row
       /\ at = "Delete" => Holder \notin Verified
  \/ \E a \in Account : Inserts(r, a)

LEMMA CreateCases ==
  ASSUME TypeInv, NEW r \in Req, Create(r)
  PROVE  \/ Done(r) /\ UNCHANGED row
         \/ Done(r) /\ \E a \in Account : row[a] = "new" /\ row' = [row EXCEPT ![a] = "verified"]
         \/ \E a \in Account : Inserts(r, a)
<1>1. SUFFICES ASSUME NEW a \in Account, row[a] = "new", Free,
               row' = [row EXCEPT ![a] = "pending"], req[r].op # "github",
               req' = [q \in Req |->
                  IF q = r THEN [req[q] EXCEPT !.at = "StoreCode", !.account = a]
                  ELSE IF req[q].at # "idle" /\ req[q].op \in {"verify", "github"}
                  THEN [req[q] EXCEPT !.met = @ \union {a}] ELSE req[q]]
               PROVE Inserts(r, a)
  BY DEF Create
<1>2. req[r].at = "Create" /\ req[r].op = "register"
  BY <1>1 DEF Create, TypeInv, Known, Fits
<1>3. /\ req'[r].at = "StoreCode" /\ req'[r].op = "register" /\ req'[r].account = a
      /\ req'[r].was = req[r].was
  BY <1>1, <1>2 DEF TypeInv, TypeOK, Request
<1>4. \A q \in Req : q # r => Same(q)
  BY ZenonT(60), <1>1 DEF TypeInv, TypeOK, Request, Same
<1>5. \A q \in Req : q # r /\ req[q].at # "idle" /\ req[q].op \in {"verify", "github"}
                     => req'[q].met = req[q].met \union {a}
  BY <1>1 DEF TypeInv, TypeOK, Request
<1>6. QED
  BY <1>1, <1>2, <1>3, <1>4, <1>5 DEF Inserts, Free

Acts(r) ==
  \/ Register(r) \/ Incr(r) \/ SetExpire(r) \/ Release(r) \/ Delete(r)
  \/ Create(r) \/ StoreCode(r) \/ Send(r) \/ Rollback(r)
  \/ LoginWithGitHub(r) \/ GetByEmail(r)
  \/ VerifyEmail(r) \/ Get(r) \/ Del(r) \/ Mark(r)
  \/ RequestPasswordReset(r) \/ StoreLink(r)
  \/ ResetPassword(r) \/ Consume(r)
  \/ GiveUp(r)

LEMMA StartBegins ==
  ASSUME TypeInv, NEW r \in Req,
         Register(r) \/ LoginWithGitHub(r) \/ VerifyEmail(r) \/ RequestPasswordReset(r)
           \/ ResetPassword(r)
  PROVE  Begins(r)
<1>1. ASSUME NEW op \in Op, NEW at \in {"Incr", "Release", "Get", "GetByEmail", "Consume"},
             NEW c \in Account \union {None}, Start(r, op, at, c),
             op = "github" => at = "Release", op = "verify" => at = "Get"
      PROVE  Begins(r)
  <2>1. at \in Step \ {"idle"}
    BY DEF Step
  <2>2. /\ req'[r].at = at /\ req'[r].op = op
        /\ req'[r].met = (IF op \in {"verify", "github"} THEN Open \union seen.broken ELSE {})
        /\ req'[r].was = (IF op \in {"register", "github"} THEN Verified ELSE {})
        /\ req[r].at = "idle"
        /\ \A q \in Req : q # r => req'[q] = req[q]
    BY ZenonT(60), <1>1, <2>1, StartReq
  <2>3. UNCHANGED <<row, code, mailed, links, sends, seen>>
    BY <1>1 DEF Start
  <2>4. QED
    BY <1>1, <2>2, <2>3 DEF Begins
<1>2. mailed \subseteq Account
  BY DEF TypeInv, TypeOK
<1>3. QED
  BY <1>1, <1>2 DEF Register, LoginWithGitHub, VerifyEmail, RequestPasswordReset,
                    ResetPassword, Op

LEMMA ActMoves == ASSUME TypeInv, NEW r \in Req, Acts(r) PROVE Moves(r)
<1> USE DEF Registering, Step
<1>1. CASE Register(r) \/ LoginWithGitHub(r) \/ VerifyEmail(r)
           \/ RequestPasswordReset(r) \/ ResetPassword(r)
  BY <1>1, StartBegins DEF Moves
<1>2. CASE Incr(r) \/ SetExpire(r)
  BY <1>2 DEF Incr, SetExpire, Moves
<1>3. CASE Release(r)
  BY <1>3 DEF Release, Released, Releasable, Moves
<1>4. CASE Delete(r)
  BY <1>4 DEF Delete, Released, Moves
<1>5. CASE Create(r)
  BY <1>5, CreateCases DEF Moves
<1>6. CASE StoreCode(r) \/ Send(r) \/ Rollback(r)
  BY <1>6 DEF StoreCode, Send, Rollback, Moves
<1>7. CASE GetByEmail(r)
  <2>1. CASE Holder = None
    BY <1>7, <2>1 DEF GetByEmail, Moves
  <2>2. CASE Holder # None /\ req[r].op = "verify"
    BY <1>7, <2>2 DEF GetByEmail, Moves
  <2>3. CASE Holder # None /\ req[r].op = "forgot"
    BY <1>7, <2>3 DEF GetByEmail, Moves
  <2>4. CASE Holder # None /\ req[r].op = "reset"
    BY <1>7, <2>4 DEF GetByEmail, Moves
  <2>5. CASE Holder # None /\ req[r].op = "github"
    BY <1>7, <2>5 DEF GetByEmail, Moves
  <2>6. QED
    BY <2>1, <2>2, <2>3, <2>4, <2>5, <1>7
       DEF TypeInv, TypeOK, Request, Op, Known, Fits, GetByEmail
<1>8. CASE Get(r) \/ Del(r) \/ Mark(r) \/ StoreLink(r) \/ Consume(r) \/ GiveUp(r)
  BY <1>8 DEF Get, Del, Mark, StoreLink, Consume, GiveUp, Moves
<1>9. QED
  BY <1>1, <1>2, <1>3, <1>4, <1>5, <1>6, <1>7, <1>8 DEF Acts

LEMMA OthersSame ==
  ASSUME TypeInv, NEW r \in Req, Acts(r), NEW q \in Req, q # r
  PROVE  Same(q)
<1>1. req \in [Req -> Request]
  BY DEF TypeInv, TypeOK
<1>2. CASE \E a \in Account : Inserts(r, a)
  BY <1>2 DEF Inserts
<1>3. CASE req'[q] = req[q]
  BY <1>3 DEF Same
<1>4. CASE Done(r)
  BY <1>1, <1>3, <1>4, DoneReq
<1>5. CASE Begins(r)
  BY <1>3, <1>5 DEF Begins
<1>6. ASSUME NEW at \in Step, Go(r, at) PROVE Same(q)
  BY <1>1, <1>3, <1>6, GoReq
<1>7. ASSUME NEW at \in Step, Holder # None, GoWith(r, at, Holder) PROVE Same(q)
  BY <1>1, <1>3, <1>7, GoWithReq, HolderRow
<1>8. QED
  BY <1>2, <1>4, <1>5, <1>6, <1>7, ActMoves DEF Moves, Step

\* Rows are created, verified and deleted in this order.
Forward ==
  \A a \in Account : /\ row[a] # "new" => row'[a] # "new"
                     /\ row[a] \in {"verified", "gone"} => row'[a] \in {"verified", "gone"}
                     /\ row'[a] = "pending" => row[a] \in {"new", "pending"}

LEMMA ActForward == ASSUME TypeInv, NEW r \in Req, Acts(r) PROVE Forward
<1>1. row \in [Account -> Row]
  BY DEF TypeInv, TypeOK
<1>2. CASE UNCHANGED row
  BY <1>2 DEF Forward
<1>3. CASE Delete(r) \/ Rollback(r)
  BY <1>1, <1>3 DEF Delete, Rollback, Forward
<1>4. CASE Mark(r)
  BY <1>1, <1>4 DEF Mark, Forward, Row
<1>5. CASE Create(r)
  BY <1>1, <1>5, CreateCases DEF Inserts, Forward
<1>6. QED
  BY <1>2, <1>3, <1>4, <1>5
     DEF Acts, Register, LoginWithGitHub, VerifyEmail, RequestPasswordReset, ResetPassword,
         Start, Incr, SetExpire, Release, StoreCode, Send, GetByEmail, Get, Del, StoreLink,
         Consume, GiveUp
-----------------------------------------------------------------------------
(* An account that was verified stays.                                     *)

WasKept(r) ==
  /\ \A a \in req[r].was : row[a] \in {"verified", "gone"}
  /\ req[r].at \in Registering \union {"Delete"} => req[r].account \notin req[r].was

LEMMA ActWas ==
  ASSUME TypeInv, \A q \in Req : WasKept(q), NEW r \in Req, Acts(r)
  PROVE  \A q \in Req : WasKept(q)'
<1> USE DEF Registering
<1>1. req \in [Req -> Request] /\ \A q \in Req : req[q].was \subseteq Account
  BY DEF TypeInv, TypeOK, Request
<1>2. Forward /\ Moves(r)
  BY ActForward, ActMoves
<1>3. ASSUME NEW q \in Req, q # r PROVE WasKept(q)'
  <2>1. Same(q)
    BY <1>3, OthersSame
  <2>2. QED
    BY <1>1, <1>2, <2>1 DEF WasKept, Same, Forward
<1>4. WasKept(r)'
  <2>1. CASE Done(r)
    BY <1>1, <2>1, DoneReq, NoRequestType DEF WasKept
  <2>2. CASE Begins(r)
    BY <2>2 DEF Begins, WasKept, Verified
  <2>3. ASSUME NEW at \in Step \ {"idle", "StoreCode", "Delete", "Mark", "StoreLink"}, Go(r, at),
               at \in Registering => req[r].at \in Registering
        PROVE  WasKept(r)'
    <3>1. /\ req'[r].at = at /\ req'[r].account = req[r].account
          /\ req'[r].was = req[r].was
      BY <1>1, <2>3, GoReq
    <3>2. QED
      BY <1>1, <1>2, <2>3, <3>1 DEF WasKept, Forward
  <2>4. ASSUME NEW at \in {"Delete", "Mark", "StoreLink"}, GoWith(r, at, Holder),
               Holder # None, UNCHANGED row, at = "Delete" => Holder \notin Verified
        PROVE  WasKept(r)'
    <3>1. /\ req'[r].at = at /\ req'[r].account = Holder
          /\ req'[r].was = req[r].was
      BY <1>1, <2>4, GoWithReq, HolderRow DEF Step
    <3>2. at = "Delete" => row[Holder] = "pending"
      BY <2>4, HolderRow DEF Verified
    <3>3. QED
      BY <1>1, <2>4, <3>1, <3>2 DEF WasKept
  <2>5. ASSUME NEW a \in Account, Inserts(r, a) PROVE WasKept(r)'
    BY <1>1, <1>2, <2>5 DEF WasKept, Inserts, Forward
  <2>6. QED
    BY <1>2, <2>1, <2>2, <2>3, <2>4, <2>5 DEF Moves
<1>5. QED
  BY <1>3, <1>4

LEMMA StepWas == TypeInv /\ (\A q \in Req : WasKept(q)) /\ [Next]_vars => \A q \in Req : WasKept(q)'
<1> SUFFICES ASSUME TypeInv, \A q \in Req : WasKept(q), [Next]_vars
             PROVE  \A q \in Req : WasKept(q)'
  OBVIOUS
<1>1. CASE \E r \in Req : Acts(r)
  BY <1>1, ActWas
<1>2. CASE DeleteAccount
  <2>1. \A a \in Account : row[a] \in {"verified", "gone"} => row'[a] \in {"verified", "gone"}
    BY <1>2 DEF DeleteAccount, TypeInv, TypeOK
  <2>2. \A q \in Req : req[q].was \subseteq Account
    BY DEF TypeInv, TypeOK, Request
  <2>3. req' = req
    BY <1>2 DEF DeleteAccount
  <2>4. QED
    BY <2>1, <2>2, <2>3 DEF WasKept
<1>3. CASE KeyExpires
  BY <1>3 DEF KeyExpires, WasKept
<1>4. CASE UNCHANGED vars
  BY <1>4 DEF vars, WasKept
<1>5. QED
  BY <1>1, <1>2, <1>3, <1>4 DEF Next, Acts

\* No registration and no login with GitHub deletes an account that was verified
\* when it began (releasePendingRegistration, rollbackRegistration).
THEOREM VerifiedKept == Spec => VerifiedStays
<1>1. Init => \A q \in Req : WasKept(q)
  BY NoRequestType DEF Init, WasKept, Registering
<1>2. Spec => [](TypeInv /\ \A q \in Req : WasKept(q))
  <2>1. TypeInv /\ (\A q \in Req : WasKept(q)) /\ [Next]_vars
          => (TypeInv /\ \A q \in Req : WasKept(q))'
    BY StepTypeInv, StepWas
  <2>2. QED
    BY <1>1, <2>1, InitTypeInv, PTL DEF Spec
<1>3. (\A q \in Req : WasKept(q)) =>
        \A r \in Req : req[r].at \in {"Delete", "Rollback"} /\ req'[r].at # req[r].at /\ row' # row
          => req[r].account \notin req[r].was
  BY DEF WasKept, Registering
<1>4. QED
  BY <1>2, <1>3, PTL DEF VerifiedStays
-----------------------------------------------------------------------------
(* The limiter.                                                            *)

LEMMA StepLimiter == TypeInv /\ LimiterRecovers /\ [Next]_vars => LimiterRecovers'
<1> SUFFICES ASSUME TypeInv, LimiterRecovers, [Next]_vars, sends'.count > 0, ~seen'.unlimited
             PROVE  sends'.ttl \/ \E r \in Req : req'[r].at = "Expire"
  BY DEF LimiterRecovers
<1>0. /\ req \in [Req -> Request] /\ sends \in [count : 0..(MaxSends + 1), ttl : BOOLEAN]
      /\ seen \in Seen /\ MaxSends \in Nat
  BY RegistrationAssumption DEF TypeInv, TypeOK
<1>1. ASSUME UNCHANGED sends, seen'.unlimited = seen.unlimited,
             NEW r \in Req, Acts(r), req[r].at # "Expire"
      PROVE  sends'.ttl \/ \E q \in Req : req'[q].at = "Expire"
  BY <1>1, OthersSame DEF LimiterRecovers, Same
<1>2. ASSUME NEW r \in Req, Incr(r)
      PROVE  sends'.ttl \/ \E q \in Req : req'[q].at = "Expire"
  <2> DEFINE n == IF sends.count > MaxSends THEN sends.count ELSE sends.count + 1
  <2>1. sends' = [sends EXCEPT !.count = n] /\ seen' = seen
    BY <1>2 DEF Incr
  <2>2. CASE n = 1
    <3>1. Go(r, "Expire")
      BY <1>2, <2>2 DEF Incr, ExpireDue
    <3>2. QED
      BY <1>0, <3>1, GoReq DEF Step
  <2>3. CASE n # 1
    <3>1. sends.count > 0 /\ sends'.ttl = sends.ttl
      BY <1>0, <2>1, <2>3
    <3>2. req[r].at = "Incr" /\ Acts(r)
      BY <1>2 DEF Incr, Acts
    <3>3. QED
      BY <2>1, <3>1, <3>2, OthersSame DEF LimiterRecovers, Same
  <2>4. QED
    BY <2>2, <2>3
<1>3. ASSUME NEW r \in Req, SetExpire(r) PROVE sends'.ttl
  BY <1>0, <1>3 DEF SetExpire
<1>4. ASSUME NEW r \in Req, GiveUp(r)
      PROVE  sends'.ttl \/ \E q \in Req : req'[q].at = "Expire"
  <2>1. seen'.unlimited = (seen.unlimited \/ req[r].at = "Expire")
    BY <1>0, <1>4 DEF GiveUp, Seen
  <2>2. req[r].at # "Expire" /\ ~seen.unlimited
    BY <2>1
  <2>3. UNCHANGED sends /\ Acts(r)
    BY <1>4 DEF GiveUp, Acts
  <2>4. QED
    BY <2>2, <2>3, OthersSame DEF LimiterRecovers, Same
<1>5. ASSUME NEW r \in Req, StoreCode(r) \/ Del(r) \/ GetByEmail(r)
      PROVE  sends'.ttl \/ \E q \in Req : req'[q].at = "Expire"
  <2>1. seen'.unlimited = seen.unlimited /\ UNCHANGED sends /\ req[r].at # "Expire" /\ Acts(r)
    BY <1>0, <1>5, GivenSeen DEF StoreCode, Del, GetByEmail, Seen, Acts
  <2>2. QED
    BY <2>1, <1>1
<1>6. ASSUME NEW r \in Req, Acts(r), UNCHANGED <<sends, seen>>, req[r].at # "Expire"
      PROVE  sends'.ttl \/ \E q \in Req : req'[q].at = "Expire"
  BY <1>6, <1>1
<1>7. CASE \E r \in Req : Acts(r)
  <2> PICK r \in Req : Acts(r)
    BY <1>7
  <2>1. CASE Incr(r) \/ SetExpire(r) \/ GiveUp(r) \/ StoreCode(r) \/ Del(r) \/ GetByEmail(r)
    BY <2>1, <1>2, <1>3, <1>4, <1>5
  <2>2. CASE ~(Incr(r) \/ SetExpire(r) \/ GiveUp(r) \/ StoreCode(r) \/ Del(r) \/ GetByEmail(r))
    <3>1. UNCHANGED <<sends, seen>> /\ req[r].at # "Expire"
      BY <2>2 DEF Acts, Register, LoginWithGitHub, VerifyEmail, RequestPasswordReset,
           ResetPassword, Start, Release, Delete, Create, Send, Rollback, Get,
           Mark, StoreLink, Consume
    <3>2. QED
      BY <3>1, <1>6
  <2>3. QED
    BY <2>1, <2>2
<1>8. CASE DeleteAccount
  BY <1>8 DEF DeleteAccount, LimiterRecovers
<1>9. CASE KeyExpires
  BY <1>0, <1>9 DEF KeyExpires, LimiterRecovers
<1>10. CASE UNCHANGED vars
  BY <1>10 DEF vars, LimiterRecovers
<1>11. QED
  BY <1>7, <1>8, <1>9, <1>10 DEF Next, Acts

\* Unless an EXPIRE was lost, the count of the send limiter starts again.
THEOREM LimiterRestarts == Spec => []LimiterRecovers
<1>1. Init => LimiterRecovers
  BY DEF Init, LimiterRecovers
<1>2. TypeInv /\ LimiterRecovers /\ [Next]_vars => (TypeInv /\ LimiterRecovers)'
  BY StepTypeInv, StepLimiter
<1>3. QED
  BY <1>1, <1>2, InitTypeInv, PTL DEF Spec
-----------------------------------------------------------------------------
(* A login with GitHub.                                                    *)

Pending == {a \in Account : row[a] = "pending"}

\* A pending row that r has not met is the one it is about to delete.
GithubKnows(r) ==
  req[r].op = "github" =>
    /\ req[r].at = "Delete" => Pending \subseteq req[r].met \union {req[r].account}
    /\ req[r].at = "GetByEmail" => Pending \subseteq req[r].met

LEMMA NewPending ==
  ASSUME TypeInv, NEW r \in Req, Acts(r), NEW a \in Pending', a \notin Pending
  PROVE  Inserts(r, a)
<1>0. row \in [Account -> Row] /\ a \in Account /\ row'[a] = "pending" /\ row[a] # "pending"
  BY DEF TypeInv, TypeOK, Pending
<1>1. CASE UNCHANGED row
  BY <1>0, <1>1
<1>2. CASE Delete(r) \/ Rollback(r) \/ Mark(r)
  BY <1>0, <1>2 DEF Delete, Rollback, Mark
<1>3. CASE Create(r)
  <2>1. CASE \E b \in Account : Inserts(r, b)
    BY <1>0, <2>1 DEF Inserts
  <2>2. CASE \E b \in Account : row' = [row EXCEPT ![b] = "verified"]
    BY <1>0, <2>2
  <2>3. QED
    BY <1>1, <1>3, <2>1, <2>2, CreateCases
<1>4. QED
  BY <1>1, <1>2, <1>3
     DEF Acts, Register, LoginWithGitHub, VerifyEmail, RequestPasswordReset, ResetPassword,
         Start, Incr, SetExpire, Release, StoreCode, Send, GetByEmail, Get, Del, StoreLink,
         Consume, GiveUp

\* What is pending belongs to the holder of the address.
LEMMA PendingIsHolder ==
  ASSUME TypeOK, NEW a \in Pending PROVE a = Holder
<1>1. a \in Holders /\ Holders # {}
  BY DEF Pending, Holders
<1>2. Holder \in Holders
  BY <1>1 DEF Holder
<1>3. QED
  BY <1>1, <1>2 DEF Holders, TypeOK

LEMMA ActGithub ==
  ASSUME TypeInv, \A q \in Req : GithubKnows(q), NEW r \in Req, Acts(r)
  PROVE  \A q \in Req : GithubKnows(q)'
<1>0. req \in [Req -> Request] /\ TypeOK /\ Known(r)
  BY DEF TypeInv, TypeOK
<1>1. ASSUME NEW q \in Req, q # r PROVE GithubKnows(q)'
  <2>1. Same(q)
    BY <1>1, OthersSame
  <2>2. ASSUME NEW a \in Pending', a \notin Pending, req[q].op = "github", req[q].at # "idle"
        PROVE  a \in req'[q].met
    BY <1>1, <2>2, NewPending DEF Inserts
  <2>3. QED
    BY <2>1, <2>2 DEF GithubKnows, Same
<1>2. ASSUME req'[r].op # "github" \/ req'[r].at \notin {"Delete", "GetByEmail"}
      PROVE  GithubKnows(r)'
  BY <1>2 DEF GithubKnows
<1>3. ASSUME req'[r].op = "github", req'[r].at = "Delete" PROVE GithubKnows(r)'
  <2>1. Moves(r)
    BY ActMoves
  <2>2. GoWith(r, "Delete", Holder) /\ Holder # None /\ UNCHANGED row
    <3>1. ~Done(r) /\ ~Begins(r) /\ \A a \in Account : ~Inserts(r, a)
      BY <1>0, <1>3, DoneReq DEF Begins, Inserts
    <3>2. \A at \in Step : Go(r, at) => at = "Delete"
      BY <1>0, <1>3, GoReq
    <3>3. \A at \in Step : Holder # None /\ GoWith(r, at, Holder) => at = "Delete"
      BY <1>0, <1>3, GoWithReq, HolderRow
    <3>4. QED
      BY <2>1, <3>1, <3>2, <3>3 DEF Moves, Step
  <2>3. req'[r].account = Holder
    BY <1>0, <2>2, GoWithReq, HolderRow DEF Step
  <2>4. Pending' = Pending
    BY <2>2 DEF Pending
  <2>5. QED
    BY <1>0, <1>3, <2>3, <2>4, PendingIsHolder DEF GithubKnows
<1>4. ASSUME req'[r].op = "github", req'[r].at = "GetByEmail" PROVE GithubKnows(r)'
  <2>1. Moves(r)
    BY ActMoves
  <2>2. Go(r, "GetByEmail") /\ req[r].at # "idle"
    <3>1. ~Done(r) /\ ~Begins(r) /\ \A a \in Account : ~Inserts(r, a)
      BY <1>0, <1>4, DoneReq DEF Begins, Inserts
    <3>2. \A at \in Step : Go(r, at) => at = "GetByEmail"
      BY <1>0, <1>4, GoReq
    <3>3. \A at \in Step : Holder # None /\ GoWith(r, at, Holder) => at = "GetByEmail"
      BY <1>0, <1>4, GoWithReq, HolderRow
    <3>4. QED
      BY <2>1, <3>1, <3>2, <3>3 DEF Moves, Step
  <2>3. req[r].op = "github" /\ req'[r].met = req[r].met
    BY <1>0, <1>4, <2>2, GoReq DEF Step
  <2>4. Release(r) \/ Delete(r)
    <3>1. /\ ~Register(r) /\ ~LoginWithGitHub(r) /\ ~VerifyEmail(r)
          /\ ~RequestPasswordReset(r) /\ ~ResetPassword(r)
      BY <2>2 DEF Register, LoginWithGitHub, VerifyEmail, RequestPasswordReset,
                  ResetPassword, Start
    <3>2. /\ ~Incr(r) /\ ~SetExpire(r) /\ ~StoreCode(r) /\ ~Send(r) /\ ~Rollback(r)
          /\ ~Get(r) /\ ~Del(r)
      BY <1>0, <2>3 DEF Incr, SetExpire, StoreCode, Send, Rollback, Get, Del, Known, Fits,
                        Registering
    <3>3. ~Consume(r) /\ ~GetByEmail(r) /\ ~Mark(r) /\ ~StoreLink(r) /\ ~GiveUp(r)
      <4>1. ~Done(r)
        BY <1>0, <1>4, DoneReq
      <4>2. ~Go(r, "Create")
        BY <1>0, <1>4, GoReq DEF Step
      <4>3. req[r].at # "Consume"
        BY <2>3, <1>0 DEF TypeInv, Known, Fits
      <4>4. QED
        BY <2>3, <4>1, <4>2, <4>3 DEF Consume, GetByEmail, Mark, StoreLink, GiveUp
    <3>4. ~Create(r)
      <4>1. ~Done(r) /\ \A a \in Account : ~Inserts(r, a)
        BY <1>0, <1>4, DoneReq DEF Inserts
      <4>2. QED
        BY <4>1, CreateCases
    <3>5. QED
      BY <3>1, <3>2, <3>3, <3>4 DEF Acts
  <2>5. CASE Release(r)
    <3>1. UNCHANGED row /\ (Holder = None \/ Holder \in Verified)
      BY <1>0, <1>4, <2>5, GoWithReq, HolderRow DEF Release, Releasable, Step
    <3>2. Pending = {}
      BY <1>0, <3>1, PendingIsHolder, NoneIsNoAccount DEF Pending, Verified
    <3>3. QED
      BY <3>1, <3>2 DEF GithubKnows, Pending
  <2>6. CASE Delete(r)
    <3>1. row' = [row EXCEPT ![req[r].account] = "gone"] /\ row \in [Account -> Row]
      BY <1>0, <2>6 DEF Delete, TypeOK
    <3>2. Pending' \subseteq Pending \ {req[r].account}
      BY <3>1 DEF Pending
    <3>3. Pending \subseteq req[r].met \union {req[r].account}
      BY <2>3, <2>6 DEF GithubKnows, Delete
    <3>4. QED
      BY <2>3, <3>2, <3>3 DEF GithubKnows
  <2>7. QED
    BY <2>4, <2>5, <2>6
<1>5. QED
  BY <1>1, <1>2, <1>3, <1>4

LEMMA StepGithub ==
  TypeInv /\ (\A q \in Req : GithubKnows(q)) /\ [Next]_vars => \A q \in Req : GithubKnows(q)'
<1> SUFFICES ASSUME TypeInv, \A q \in Req : GithubKnows(q), [Next]_vars
             PROVE  \A q \in Req : GithubKnows(q)'
  OBVIOUS
<1>1. CASE \E r \in Req : Acts(r)
  BY <1>1, ActGithub
<1>2. ASSUME req' = req, Pending' \subseteq Pending PROVE \A q \in Req : GithubKnows(q)'
  BY <1>2 DEF GithubKnows
<1>3. CASE DeleteAccount
  BY <1>2, <1>3 DEF DeleteAccount, Pending, TypeInv, TypeOK
<1>4. CASE KeyExpires \/ UNCHANGED vars
  BY <1>2, <1>4 DEF KeyExpires, vars, Pending
<1>5. QED
  BY <1>1, <1>3, <1>4 DEF Next, Acts

\* A login with GitHub is given the tokens of an account that is verified, or
\* whose registration ran at the same time: a pending row is deleted first.
THEOREM GitHubGetsVerified == Spec => GitHubVerified
<1>1. Init => \A q \in Req : GithubKnows(q)
  BY NoRequestType DEF Init, GithubKnows
<1>2. Spec => [](TypeInv /\ \A q \in Req : GithubKnows(q))
  <2>1. TypeInv /\ (\A q \in Req : GithubKnows(q)) /\ [Next]_vars
          => (TypeInv /\ \A q \in Req : GithubKnows(q))'
    BY StepTypeInv, StepGithub
  <2>2. QED
    BY <1>1, <2>1, InitTypeInv, PTL DEF Spec
<1>3. (\A q \in Req : GithubKnows(q)) =>
        \A r \in Req :
          req[r].op = "github" /\ req[r].at = "GetByEmail" /\ req'[r].at = "idle" /\ Holder # None
            => Holder \in Verified \/ Holder \in req[r].met
  BY HolderRow DEF GithubKnows, Pending, Verified
<1>4. QED
  BY <1>2, <1>3, PTL DEF GitHubVerified
-----------------------------------------------------------------------------
(* Codes.                                                                  *)

\* No code is stored again once it was deleted by a verification: an account's
\* is stored once, before it is mailed.
CodesFresh ==
  /\ code \notin seen.used
  /\ seen.used \subseteq mailed
  /\ \A a \in mailed : row[a] # "new"
  /\ \A r \in Req : req[r].at \in Registering => row[req[r].account] # "new"
  /\ \A r \in Req : req[r].at = "StoreCode" => req[r].account \notin mailed
  /\ \A r, q \in Req : r # q /\ {req[r].at, req[q].at} \subseteq Registering
                      => req[r].account # req[q].account

\* What a step makes of the codes.
LEMMA ActCodes ==
  ASSUME TypeInv, NEW r \in Req, Acts(r)
  PROVE  /\ \/ UNCHANGED mailed
            \/ Send(r) /\ req[r].at = "Send" /\ mailed' = mailed \union {req[r].account}
         /\ \/ UNCHANGED <<code, seen>>
            \/ (GiveUp(r) \/ GetByEmail(r)) /\ code' = code /\ seen'.used = seen.used
            \/ StoreCode(r) /\ code' = req[r].account /\ seen'.used = seen.used
            \/ Del(r) /\ code' = None /\ seen'.used = seen.used \union {req[r].code}
<1>1. seen \in Seen
  BY DEF TypeInv, TypeOK
<1>2. CASE Send(r) \/ GiveUp(r)
  BY <1>1, <1>2 DEF Send, GiveUp, Seen
<1>7. CASE GetByEmail(r)
  BY <1>1, <1>7, GivenSeen DEF GetByEmail
<1>5. CASE StoreCode(r)
  BY <1>1, <1>5 DEF StoreCode, Stored, Seen
<1>6. CASE Del(r)
  BY <1>1, <1>6 DEF Del, Deleted, Seen
<1>3. CASE ~(Send(r) \/ GiveUp(r) \/ StoreCode(r) \/ Del(r) \/ GetByEmail(r))
  BY <1>3 DEF Acts, Register, LoginWithGitHub, VerifyEmail, RequestPasswordReset,
     ResetPassword, Start, Incr, SetExpire, Release, Delete, Create, Rollback,
     Get, Mark, StoreLink, Consume
<1>4. QED
  BY <1>2, <1>3, <1>5, <1>6, <1>7

\* Who registers after a step registered before it, or inserts.
LEMMA ActRegisters ==
  ASSUME TypeInv, NEW r \in Req, Acts(r)
  PROVE  \/ \E a \in Account : Inserts(r, a)
         \/ req'[r].at \notin Registering
         \/ /\ req[r].at \in Registering /\ req'[r].at # "StoreCode"
            /\ req'[r].account = req[r].account /\ req'[r].op = req[r].op
<1>0. req \in [Req -> Request]
  BY DEF TypeInv, TypeOK
<1>1. CASE Done(r)
  BY <1>0, <1>1, DoneReq DEF Registering
<1>2. CASE Begins(r)
  BY <1>2 DEF Begins, Registering
<1>3. ASSUME NEW at \in Step \ {"idle", "StoreCode", "Delete", "Mark", "StoreLink"}, Go(r, at),
             at \in Registering => req[r].at \in Registering
      PROVE  \/ req'[r].at \notin Registering
             \/ /\ req[r].at \in Registering /\ req'[r].at # "StoreCode"
                /\ req'[r].account = req[r].account /\ req'[r].op = req[r].op
  BY <1>0, <1>3, GoReq
<1>4. ASSUME NEW at \in {"Delete", "Mark", "StoreLink"}, Holder # None, GoWith(r, at, Holder)
      PROVE  req'[r].at \notin Registering
  BY <1>0, <1>4, GoWithReq, HolderRow DEF Step, Registering
<1>5. QED
  BY <1>1, <1>2, <1>3, <1>4, ActMoves DEF Moves

LEMMA ActFresh ==
  ASSUME TypeInv, CodesFresh, NEW r \in Req, Acts(r)
  PROVE  CodesFresh'
<1>0. /\ req \in [Req -> Request] /\ Forward /\ mailed \subseteq Account
      /\ \A q \in Req : Known(q)
  BY ActForward DEF TypeInv, TypeOK
<1>1. \A q \in Req : req[q].at \in Registering => req[q].account \in Account
  BY <1>0 DEF Known, Fits
<1>2. \A q \in Req : q # r => Same(q)
  BY OthersSame
<1>3. code' \notin seen'.used /\ seen'.used \subseteq mailed'
  <2>1. mailed \subseteq mailed'
    BY ActCodes
  <2>2. CASE \/ UNCHANGED <<code, seen>>
             \/ code' = code /\ seen'.used = seen.used
    BY <2>1, <2>2 DEF CodesFresh
  <2>3. CASE StoreCode(r) /\ code' = req[r].account /\ seen'.used = seen.used
    BY <2>1, <2>3 DEF StoreCode, CodesFresh
  <2>4. CASE Del(r) /\ code' = None /\ seen'.used = seen.used \union {req[r].code}
    BY <1>0, <2>1, <2>4, NoneIsNoAccount DEF Del, Known, Fits, CodesFresh
  <2>5. QED
    BY <2>2, <2>3, <2>4, ActCodes
<1>4. \A a \in mailed' : row'[a] # "new"
  <2>1. \A a \in mailed' : a \in Account /\ row[a] # "new"
    BY <1>0, <1>1, ActCodes DEF CodesFresh, Registering
  <2>2. QED
    BY <1>0, <2>1 DEF Forward
<1>5. ASSUME NEW a \in Account, Inserts(r, a) PROVE CodesFresh'
  <2>1. req[r].at = "Create" /\ row[a] = "new" /\ row' = [row EXCEPT ![a] = "pending"]
        /\ req'[r].account = a /\ req'[r].at = "StoreCode"
    BY <1>5 DEF Inserts
  <2>2. mailed' = mailed
    BY <2>1, ActCodes
  <2>3. \A q \in Req : req'[q].at \in Registering => row'[req'[q].account] # "new"
    BY <1>0, <1>1, <1>2, <2>1 DEF CodesFresh, Same, Forward, TypeInv, TypeOK
  <2>4. \A q \in Req : req'[q].at = "StoreCode" => req'[q].account \notin mailed'
    BY <1>2, <2>1, <2>2 DEF CodesFresh, Same
  <2>5. \A p, q \in Req : p # q /\ {req'[p].at, req'[q].at} \subseteq Registering
                        => req'[p].account # req'[q].account
    BY <1>2, <2>1 DEF CodesFresh, Same
  <2>6. QED
    BY <1>3, <1>4, <2>3, <2>4, <2>5 DEF CodesFresh
<1>6. ASSUME \/ req'[r].at \notin Registering
             \/ /\ req[r].at \in Registering /\ req'[r].at # "StoreCode"
                /\ req'[r].account = req[r].account
      PROVE  CodesFresh'
  <2>1. \A q \in Req : req'[q].at \in Registering =>
          req[q].at \in Registering /\ req'[q].account = req[q].account
    BY <1>2, <1>6 DEF Same
  <2>2. \A q \in Req : req'[q].at \in Registering => row'[req'[q].account] # "new"
    BY <1>0, <1>1, <2>1 DEF CodesFresh, Forward
  <2>3. \A q \in Req : req'[q].at = "StoreCode" => req'[q].account \notin mailed'
    <3>1. ASSUME NEW q \in Req, req'[q].at = "StoreCode"
          PROVE  q # r /\ req[q].at = "StoreCode" /\ req'[q].account = req[q].account
      BY <1>2, <1>6, <3>1 DEF Same, Registering
    <3>2. ASSUME NEW q \in Req, req'[q].at = "StoreCode", req[r].at = "Send"
          PROVE  req'[q].account # req[r].account
      BY <3>1, <3>2 DEF CodesFresh, Registering
    <3>3. QED
      BY <3>1, <3>2, ActCodes DEF CodesFresh
  <2>4. \A p, q \in Req : p # q /\ {req'[p].at, req'[q].at} \subseteq Registering
                        => req'[p].account # req'[q].account
    BY <2>1 DEF CodesFresh
  <2>5. QED
    BY <1>3, <1>4, <2>2, <2>3, <2>4 DEF CodesFresh
<1>7. QED
  BY <1>5, <1>6, ActRegisters

LEMMA StepFresh == TypeInv /\ CodesFresh /\ [Next]_vars => CodesFresh'
<1> SUFFICES ASSUME TypeInv, CodesFresh, [Next]_vars PROVE CodesFresh'
  OBVIOUS
<1>1. CASE \E r \in Req : Acts(r)
  BY <1>1, ActFresh
<1>2. ASSUME req' = req, mailed' = mailed, seen' = seen, code' \in {code, None},
             \A a \in Account : row[a] # "new" => row'[a] # "new"
      PROVE  CodesFresh'
  <2>1. \A q \in Req : req[q].at \in Registering => req[q].account \in Account
    BY DEF TypeInv, Known, Fits
  <2>2. mailed \subseteq Account
    BY DEF TypeInv, TypeOK
  <2>3. code' \notin seen.used
    BY <1>2, <2>2, NoneIsNoAccount DEF CodesFresh
  <2>4. QED
    BY <1>2, <2>1, <2>2, <2>3 DEF CodesFresh
<1>3. CASE DeleteAccount
  BY <1>2, <1>3 DEF DeleteAccount, TypeInv, TypeOK
<1>4. CASE KeyExpires \/ UNCHANGED vars
  BY <1>2, <1>4 DEF KeyExpires, vars
<1>5. QED
  BY <1>1, <1>3, <1>4 DEF Next, Acts

LEMMA GetIsFresh ==
  ASSUME TypeInv, CodesFresh, [Next]_vars, NEW r \in Req,
         req[r].at = "Get", req'[r].at = "Del"
  PROVE  req[r].code \notin seen.used
<1>1. CASE DeleteAccount \/ KeyExpires \/ UNCHANGED vars
  BY <1>1 DEF DeleteAccount, KeyExpires, vars
<1>2. ASSUME NEW q \in Req, Acts(q), q # r PROVE FALSE
  BY <1>2, OthersSame DEF Same
<1>3. CASE Acts(r)
  <2>1. Get(r) \/ Done(r)
    BY <1>3 DEF Acts, Register, LoginWithGitHub, VerifyEmail, RequestPasswordReset,
       ResetPassword, Start, Incr, SetExpire, Release, Delete, Create, StoreCode, Send,
       Rollback, GetByEmail, Del, Mark, StoreLink, Consume, GiveUp
  <2>2. ~Done(r)
    BY DoneReq DEF TypeInv, TypeOK
  <2>3. code = req[r].code
    BY <2>1, <2>2 DEF Get
  <2>4. QED
    BY <2>3 DEF CodesFresh
<1>4. QED
  BY <1>1, <1>2, <1>3 DEF Next, Acts

\* A code that a verification has deleted is refused by every later one: no
\* registration stores it again.
THEOREM CodesWorkOnce == Spec => UsedOnce
<1>1. Init => CodesFresh
  BY NoRequestType DEF Init, CodesFresh, Registering
<1>2. TypeInv /\ CodesFresh /\ [Next]_vars => (TypeInv /\ CodesFresh)'
  BY StepTypeInv, StepFresh
<1>3. TypeInv /\ CodesFresh /\ [Next]_vars =>
        [\A r \in Req :
           req[r].at = "Get" /\ req'[r].at = "Del" => req[r].code \notin seen.used]_vars
  BY GetIsFresh
<1>4. QED
  BY <1>1, <1>2, <1>3, InitTypeInv, PTL DEF Spec, UsedOnce
-----------------------------------------------------------------------------
(* Codes and accounts.                                                     *)

\* The registrations that are not over, or that broke off.
Underway == Open \union seen.broken

\* Those of them whose code was perhaps not stored.
Unstored ==
  seen.broken \union {req[r].account : r \in {q \in Req : req[q].at \in {"StoreCode", "Rollback"}}}

\* A pending row has its own code, no code, or one that was stored too late.
StoredCode == \A h \in Pending \ Unstored : code = None \/ code = h \/ code \in seen.late

\* A verification has met the registrations that are under way.
Meets(r) ==
  req[r].op = "verify" /\ req[r].at # "idle" => Pending \intersect Underway \subseteq req[r].met

\* What a verification has learnt from the code.
Learnt(r) ==
  req[r].op = "verify" /\ req[r].at \in {"Del", "GetByEmail", "Mark"} =>
    \A h \in Pending : h = req[r].code \/ h \in req[r].met \/ req[r].code \in seen.late

CodeInv == StoredCode /\ \A r \in Req : Meets(r) /\ Learnt(r)

\* The history only grows.
LEMMA ActSeen ==
  ASSUME TypeInv, NEW r \in Req, Acts(r)
  PROVE  /\ seen.late \subseteq seen'.late /\ seen.broken \subseteq seen'.broken
         /\ \/ seen'.broken = seen.broken
            \/ /\ GiveUp(r) /\ req[r].at \in Registering
               /\ seen'.broken = seen.broken \union {req[r].account}
<1>0. seen \in Seen
  BY DEF TypeInv, TypeOK
<1>1. CASE GiveUp(r)
  BY <1>0, <1>1 DEF GiveUp, Seen, Registering
<1>2. CASE StoreCode(r)
  BY <1>0, <1>2 DEF StoreCode, Seen
<1>3. CASE Del(r)
  BY <1>0, <1>3 DEF Del, Seen
<1>4. CASE UNCHANGED seen
  BY <1>4
<1>6. CASE GetByEmail(r)
  BY <1>6, GivenSeen
<1>5. QED
  BY <1>1, <1>2, <1>3, <1>4, <1>6
     DEF Acts, Register, LoginWithGitHub, VerifyEmail, RequestPasswordReset, ResetPassword,
         Start, Incr, SetExpire, Release, Delete, Create, Send, Rollback, Get,
         Mark, StoreLink, Consume

\* What is under way after a step was so before it, or is inserted.
LEMMA ActUnderway ==
  ASSUME TypeInv, NEW r \in Req, Acts(r), NEW h \in Underway', h \notin Underway
  PROVE  Inserts(r, h)
<1>1. h \notin seen'.broken
  BY ActSeen DEF Underway, Open, Registering
<1>2. PICK q \in Req : req'[q].at \in Registering /\ req'[q].account = h
  BY <1>1 DEF Underway, Open, Registering
<1>3. ~(req[q].at \in Registering /\ req[q].account = h)
  BY DEF Underway, Open, Registering
<1>4. q = r
  BY <1>2, <1>3, OthersSame DEF Same
<1>5. QED
  BY <1>2, <1>3, <1>4, ActRegisters DEF Inserts

\* A row that stays pending leaves Unstored when its code is stored.
LEMMA ActUnstored ==
  ASSUME TypeInv, NEW r \in Req, Acts(r), NEW h \in Pending', h \in Unstored, h \notin Unstored'
  PROVE  StoreCode(r) /\ code' = h
<1>0. req \in [Req -> Request] /\ row \in [Account -> Row] /\ Known(r)
  BY DEF TypeInv, TypeOK
<1>1. h \notin seen.broken
  BY ActSeen DEF Unstored
<1>2. PICK q \in Req : req[q].at \in {"StoreCode", "Rollback"} /\ req[q].account = h
  BY <1>1 DEF Unstored
<1>3. ~(req'[q].at \in {"StoreCode", "Rollback"} /\ req'[q].account = h)
  BY DEF Unstored
<1>4. q = r
  BY <1>2, <1>3, OthersSame DEF Same
<1>5. ~GiveUp(r)
  <2>1. GiveUp(r) => h \in seen'.broken
    BY <1>0, <1>2, <1>4 DEF GiveUp, TypeInv, TypeOK, Seen
  <2>2. QED
    BY <2>1 DEF Unstored
<1>6. StoreCode(r) \/ Rollback(r)
  BY <1>2, <1>4, <1>5
     DEF Acts, Register, LoginWithGitHub, VerifyEmail, RequestPasswordReset, ResetPassword,
         Start, Incr, SetExpire, Release, Delete, Create, Send, GetByEmail, Get, Del, Mark,
         StoreLink, Consume
<1>7. ~Rollback(r)
  BY <1>0, <1>2, <1>4 DEF Rollback, Pending
<1>8. ~Go(r, "Rollback")
  BY <1>0, <1>2, <1>3, <1>4, GoReq DEF Step
<1>9. QED
  BY <1>2, <1>4, <1>6, <1>7, <1>8 DEF StoreCode, Stored

\* A verification under way has begun, or was under way.
LEMMA ActVerifies ==
  ASSUME TypeInv, NEW r \in Req, Acts(r), req'[r].op = "verify", req'[r].at # "idle"
  PROVE  /\ \A a \in Account : ~Inserts(r, a)
         /\ \/ Begins(r)
            \/ /\ req[r].op = "verify" /\ req[r].at # "idle"
               /\ req'[r].met = req[r].met /\ req'[r].code = req[r].code
<1>0. req \in [Req -> Request]
  BY DEF TypeInv, TypeOK
<1>1. \A a \in Account : ~Inserts(r, a)
  BY DEF Inserts
<1>2. ~Done(r)
  BY <1>0, DoneReq
<1>3. ASSUME NEW at \in Step, Go(r, at)
      PROVE  req'[r].op = req[r].op /\ req'[r].met = req[r].met /\ req'[r].code = req[r].code
  BY <1>0, <1>3, GoReq
<1>4. ASSUME NEW at \in Step, Holder # None, GoWith(r, at, Holder)
      PROVE  req'[r].op = req[r].op /\ req'[r].met = req[r].met /\ req'[r].code = req[r].code
  BY <1>0, <1>4, GoWithReq, HolderRow
<1>5. QED
  BY <1>1, <1>2, <1>3, <1>4, ActMoves DEF Moves, Step

\* It goes on after it has read its code.
LEMMA ActLearns ==
  ASSUME TypeInv, NEW r \in Req, Acts(r), req[r].op = "verify", req[r].at # "idle",
         req'[r].at # "idle"
  PROVE  \/ req[r].at \in {"Del", "GetByEmail", "Mark"}
         \/ req[r].at = "Get" /\ code = req[r].code
<1>0. /\ req \in [Req -> Request] /\ Known(r)
  BY DEF TypeInv, TypeOK
<1>1. ~Done(r)
  BY <1>0, DoneReq
<1>2. req[r].at \in {"Get", "Del", "GetByEmail", "Mark", "StoreLink"}
  BY <1>0 DEF Known, Fits, Registering, Request, Step
<1>3. CASE req[r].at = "Get"
  <2>1. Get(r)
    BY <1>1, <1>3
       DEF Acts, Register, LoginWithGitHub, VerifyEmail, RequestPasswordReset, ResetPassword,
           Start, Incr, SetExpire, Release, Delete, Create, StoreCode, Send, Rollback,
           GetByEmail, Del, Mark, StoreLink, Consume, GiveUp
  <2>2. QED
    BY <1>1, <1>3, <2>1 DEF Get
<1>4. CASE req[r].at = "StoreLink"
  BY <1>1, <1>4
     DEF Acts, Register, LoginWithGitHub, VerifyEmail, RequestPasswordReset, ResetPassword,
         Start, Incr, SetExpire, Release, Delete, Create, StoreCode, Send, Rollback,
         GetByEmail, Get, Del, Mark, StoreLink, Consume, GiveUp
<1>5. QED
  BY <1>2, <1>3, <1>4

LEMMA ActStoredCode ==
  ASSUME TypeInv, StoredCode, NEW r \in Req, Acts(r)
  PROVE  StoredCode'
<1> SUFFICES ASSUME NEW h \in Pending', h \notin Unstored'
             PROVE  code' = None \/ code' = h \/ code' \in seen'.late
  BY DEF StoredCode
<1>0. seen.late \subseteq seen'.late
  BY ActSeen
<1>1. h \in Pending
  <2>1. h \in Account /\ (Inserts(r, h) => h \in Unstored')
    BY DEF Pending, Inserts, Unstored
  <2>2. QED
    BY <2>1, NewPending
<1>2. CASE StoreCode(r) /\ code' = req[r].account
  <2>1. req[r].account \in Account
    BY <1>2 DEF StoreCode, TypeInv, Known, Fits, Registering
  <2>2. CASE row[req[r].account] = "pending"
    BY <1>1, <1>2, <2>1, <2>2, PendingIsHolder DEF Pending, TypeInv
  <2>3. CASE row[req[r].account] # "pending"
    <3>1. Go(r, "Send") \/ Go(r, "Rollback")
      BY <1>2 DEF StoreCode
    <3>2. CASE seen' = [seen EXCEPT !.late = @ \union {req[r].account}]
      BY <1>2, <3>2 DEF TypeInv, TypeOK, Seen
    <3>3. CASE code' = code /\ seen' = seen
      <4>1. h \in Unstored => FALSE
        BY <1>1, <1>2, <2>1, <2>3, ActUnstored DEF Pending
      <4>2. QED
        BY <1>1, <3>3, <4>1 DEF StoredCode
    <3>4. QED
      BY <1>2, <2>3, <3>2, <3>3 DEF StoreCode
  <2>4. QED
    BY <2>2, <2>3
<1>3. CASE code' = None
  BY <1>3
<1>4. CASE code' = code
  <2>1. CASE h \in Unstored
    BY <2>1, ActUnstored
  <2>2. CASE h \notin Unstored
    BY <1>0, <1>1, <1>4, <2>2 DEF StoredCode
  <2>3. QED
    BY <2>1, <2>2
<1>5. QED
  BY <1>2, <1>3, <1>4, ActCodes

LEMMA ActMeets ==
  ASSUME TypeInv, \A q \in Req : Meets(q), NEW r \in Req, Acts(r)
  PROVE  \A q \in Req : Meets(q)'
<1>1. ASSUME NEW h \in Pending' \intersect Underway', \A a \in Account : ~Inserts(r, a)
      PROVE  h \in Pending \intersect Underway
  BY <1>1, NewPending, ActUnderway DEF Pending
<1>2. ASSUME NEW q \in Req, q # r, NEW h \in Pending' \intersect Underway',
             req'[q].op = "verify", req'[q].at # "idle"
      PROVE  h \in req'[q].met
  <2>1. Same(q)
    BY <1>2, OthersSame
  <2>2. CASE Inserts(r, h)
    BY <1>2, <2>1, <2>2 DEF Inserts, Same
  <2>3. CASE h \in Pending \intersect Underway
    BY <1>2, <2>1, <2>3 DEF Meets, Same
  <2>4. QED
    BY <1>2, <2>2, <2>3, NewPending, ActUnderway
<1>3. ASSUME NEW h \in Pending' \intersect Underway', req'[r].op = "verify", req'[r].at # "idle"
      PROVE  h \in req'[r].met
  <2>1. h \in Pending \intersect Underway
    BY <1>1, <1>3, ActVerifies
  <2>2. QED
    BY <1>3, <2>1, ActVerifies DEF Begins, Underway, Meets
<1>4. QED
  BY <1>2, <1>3 DEF Meets

LEMMA ActLearnt ==
  ASSUME TypeInv, CodeInv, NEW r \in Req, Acts(r)
  PROVE  \A q \in Req : Learnt(q)'
<1>0. seen.late \subseteq seen'.late
  BY ActSeen
<1>1. ASSUME NEW q \in Req, q # r, NEW h \in Pending',
             req'[q].op = "verify", req'[q].at \in {"Del", "GetByEmail", "Mark"}
      PROVE  h = req'[q].code \/ h \in req'[q].met \/ req'[q].code \in seen'.late
  <2>1. Same(q)
    BY <1>1, OthersSame
  <2>2. CASE Inserts(r, h)
    BY <1>1, <2>1, <2>2 DEF Inserts, Same
  <2>3. CASE h \in Pending
    BY <1>0, <1>1, <2>1, <2>3 DEF CodeInv, Learnt, Same
  <2>4. QED
    BY <2>2, <2>3, NewPending
<1>2. ASSUME NEW h \in Pending',
             req'[r].op = "verify", req'[r].at \in {"Del", "GetByEmail", "Mark"}
      PROVE  h = req'[r].code \/ h \in req'[r].met \/ req'[r].code \in seen'.late
  <2>1. /\ req[r].op = "verify" /\ req[r].at # "idle"
        /\ req'[r].met = req[r].met /\ req'[r].code = req[r].code
    BY <1>2, ActVerifies DEF Begins
  <2>2. h \in Pending
    BY <1>2, NewPending, ActVerifies DEF Pending
  <2>3. CASE req[r].at \in {"Del", "GetByEmail", "Mark"}
    BY <1>0, <2>1, <2>2, <2>3 DEF CodeInv, Learnt
  <2>4. CASE req[r].at = "Get" /\ code = req[r].code
    <3>1. code # None
      BY <2>1, <2>4, NoneIsNoAccount DEF TypeInv, TypeOK, Known
    <3>2. CASE h \in Underway
      BY <2>1, <2>2, <3>2 DEF CodeInv, Meets
    <3>3. CASE h \notin Underway
      <4>1. h \notin Unstored
        BY <3>3 DEF Underway, Open, Unstored
      <4>2. QED
        BY <1>0, <2>1, <2>2, <2>4, <3>1, <4>1 DEF CodeInv, StoredCode
    <3>4. QED
      BY <3>2, <3>3
  <2>5. QED
    BY <1>2, <2>1, <2>3, <2>4, ActLearns
<1>3. QED
  BY <1>1, <1>2 DEF Learnt

LEMMA StepCodeInv == TypeInv /\ CodeInv /\ [Next]_vars => CodeInv'
<1> SUFFICES ASSUME TypeInv, CodeInv, [Next]_vars PROVE CodeInv'
  OBVIOUS
<1>1. CASE \E r \in Req : Acts(r)
  BY <1>1, ActStoredCode, ActMeets, ActLearnt DEF CodeInv
<1>2. ASSUME req' = req, seen' = seen, code' \in {code, None}, Pending' \subseteq Pending
      PROVE  CodeInv'
  <2>1. Underway' = Underway /\ Unstored' = Unstored
    BY <1>2 DEF Underway, Open, Unstored
  <2>2. StoredCode'
    BY <1>2, <2>1 DEF CodeInv, StoredCode
  <2>3. \A r \in Req : Meets(r)' /\ Learnt(r)'
    BY <1>2, <2>1 DEF CodeInv, Meets, Learnt
  <2>4. QED
    BY <2>2, <2>3 DEF CodeInv
<1>3. CASE DeleteAccount
  BY <1>2, <1>3 DEF DeleteAccount, Pending, TypeInv, TypeOK
<1>4. CASE KeyExpires \/ UNCHANGED vars
  BY <1>2, <1>4 DEF KeyExpires, vars, Pending
<1>5. QED
  BY <1>1, <1>3, <1>4 DEF Next, Acts

\* A code verifies the account it was mailed for, and another one only if that
\* one's registration was under way meanwhile or broke off, or if the code was
\* stored when its own account was gone (VerifyEmail, GenerateAndStore).
THEOREM CodesVerifyTheirOwn == Spec => OwnCode
<1>1. Init => CodeInv
  BY NoRequestType DEF Init, CodeInv, StoredCode, Meets, Learnt, Pending
<1>2. Spec => [](TypeInv /\ CodeInv)
  <2>1. TypeInv /\ CodeInv /\ [Next]_vars => (TypeInv /\ CodeInv)'
    BY StepTypeInv, StepCodeInv
  <2>2. QED
    BY <1>1, <2>1, InitTypeInv, PTL DEF Spec
<1>3. TypeInv /\ CodeInv =>
        \A r \in Req :
          LET a == req[r].account IN
          /\ req[r].op = "verify" /\ req[r].at = "Mark"
          /\ row[a] = "pending" /\ row'[a] = "verified"
          => a = req[r].code \/ a \in req[r].met \/ req[r].code \in seen.late
  BY DEF TypeInv, Known, Fits, CodeInv, Learnt, Pending
<1>4. QED
  BY <1>2, <1>3, PTL DEF OwnCode
=============================================================================

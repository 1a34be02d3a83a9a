---------------------------- MODULE SessionsProofs ----------------------------
(***************************************************************************)
(* What holds of the sessions of an account for any number of tabs and     *)
(* browsers, any lifetimes of tokens and any number of requests.           *)
(***************************************************************************)
EXTENDS Sessions, SequenceTheorems, TLAPS

\* What the handler of c's request works on at each of its steps: Claim is given
\* the time that was left of the token when it was checked.
Fits(c) ==
  LET q == call[c] IN
  /\ q.token <= Len(tokens)
  /\ q.at \in {"RevokedAfter", "Claim"} => q.op = "refresh"
  /\ q.at = "Claim" => /\ q.token # None /\ q.ttl >= 0
                       /\ now + q.ttl >= tokens[q.token].iat + RefreshTTL
  /\ q.at = "Issue" /\ q.op = "refresh" => q.token # None
  /\ q.at = "answer" /\ q.op # "logout" => q.token # None

\* Tokens were issued in the past.
Issued == \A t \in DOMAIN tokens : 1 <= tokens[t].iat /\ tokens[t].iat <= now

TypeInv == TypeOK /\ Issued /\ \A c \in Tab : Fits(c)
-----------------------------------------------------------------------------
LEMMA TokenType ==
  ASSUME tokens \in Seq(Token)
  PROVE  /\ Len(tokens) \in Nat /\ DOMAIN tokens = 1..Len(tokens)
         /\ \A t \in DOMAIN tokens : /\ tokens[t] \in Token
                                   /\ tokens[t].iat \in Nat /\ tokens[t].pw \in Nat
                                   /\ tokens[t].apart \in BOOLEAN
<1>1. Len(tokens) \in Nat /\ DOMAIN tokens = 1..Len(tokens)
  OBVIOUS
<1>2. \A t \in 1..Len(tokens) : tokens[t] \in Token
  BY ElementOfSeq
<1>3. QED
  BY <1>1, <1>2 DEF Token

LEMMA NoCallType ==
  NoCall \in Call /\ NoCall.at = "idle" /\ NoCall.token = None /\ NoCall.op = "refresh"
BY DEF NoCall, Call, Op, Step, None

LEMMA GoCall ==
  ASSUME call \in [Tab -> Call], NEW c \in Tab, NEW at \in Step, Go(c, at)
  PROVE  /\ call' \in [Tab -> Call]
         /\ call'[c].at = at /\ call'[c].op = call[c].op /\ call'[c].token = call[c].token
         /\ call'[c].pw = call[c].pw /\ call'[c].ttl = call[c].ttl
         /\ call'[c].apart = call[c].apart /\ call'[c].since = call[c].since
         /\ \A d \in Tab : d # c => call'[d] = call[d]
BY DEF Go, Call

LEMMA DoneCall ==
  ASSUME call \in [Tab -> Call], NEW c \in Tab, Done(c)
  PROVE  /\ call' \in [Tab -> Call]
         /\ call'[c] = NoCall /\ call'[c].at = "idle"
         /\ \A d \in Tab : d # c => call'[d] = call[d]
BY NoCallType DEF Done

LEMMA SendCall ==
  ASSUME call \in [Tab -> Call], now \in Nat, NEW c \in Tab, NEW op \in Op, NEW at \in Step,
         NEW token \in Nat, NEW pw \in Nat, NEW retry \in BOOLEAN,
         Send(c, op, at, token, pw, retry)
  PROVE  /\ call' \in [Tab -> Call]
         /\ call'[c].at = at /\ call'[c].op = op /\ call'[c].token = token
         /\ call'[c].apart = ~Changing /\ call'[c].since = now
         /\ \A d \in Tab : d # c => call'[d] = call[d]
<1> DEFINE new == [op |-> op, at |-> at, token |-> token, pw |-> pw, ttl |-> 0,
                   since |-> now, retry |-> retry, apart |-> ~Changing]
<1>1. new \in Call
  <2>1. (~Changing) \in BOOLEAN
    OBVIOUS
  <2>2. QED
    BY <2>1 DEF Call
<1>2. call' = [call EXCEPT ![c] = new]
  BY DEF Send
<1>3. QED
  BY <1>1, <1>2

\* Tokens are only added, and time does not go back.
Grows ==
  /\ Len(tokens) <= Len(tokens') /\ now <= now'
  /\ \A t \in DOMAIN tokens : tokens'[t].iat = tokens[t].iat

\* The request of d is where it was, though it may not be apart any more.
Same(d) ==
  /\ call'[d].at = call[d].at /\ call'[d].op = call[d].op
  /\ call'[d].token = call[d].token /\ call'[d].ttl = call[d].ttl
  /\ call'[d].pw = call[d].pw
  /\ call'[d].apart => call[d].apart

LEMMA SameFits ==
  ASSUME TypeOK, now' \in Nat, Grows, NEW d \in Tab, Fits(d), Same(d), Len(tokens') \in Nat
  PROVE  Fits(d)'
<1>1. call[d] \in Call /\ tokens \in Seq(Token) /\ now \in Nat
  BY DEF TypeOK
<1>2. call[d].token \in Nat /\ call[d].ttl \in Int
  BY <1>1 DEF Call
<1>3. call[d].token # None => call[d].token \in DOMAIN tokens
  BY <1>1, <1>2 DEF Fits, None
<1>4. \A t \in DOMAIN tokens : tokens[t].iat \in Nat
  BY <1>1, TokenType
<1>5. RefreshTTL \in Nat
  BY SessionsAssumption
<1>6. ASSUME call'[d].at = "Claim"
      PROVE  now' + call'[d].ttl >= tokens'[call'[d].token].iat + RefreshTTL
  <2> DEFINE t == call[d].token
             iat == tokens[t].iat
             ttl == call[d].ttl
  <2>1. t \in DOMAIN tokens /\ iat \in Nat /\ now + ttl >= iat + RefreshTTL
    BY <1>3, <1>4, <1>6 DEF Fits, Same
  <2>2. call'[d].token = t /\ call'[d].ttl = ttl /\ tokens'[t].iat = iat /\ now <= now'
    BY <2>1 DEF Same, Grows
  <2>3. ttl \in Int
    BY <1>2
  <2>4. /\ iat \in Nat /\ now <= now' /\ now' \in Nat /\ now \in Nat
        /\ now + ttl >= iat + RefreshTTL
    BY <1>1, <2>1, <2>2
  <2>5. tokens'[call'[d].token].iat = iat /\ call'[d].ttl = ttl
    BY <2>2
  <2>6. \A n, m, a, b, s \in Int : n <= m /\ n + a >= b + s => m + a >= b + s
    OBVIOUS
  <2>7. now' + ttl >= iat + RefreshTTL
    BY SMTT(30), <1>5, <2>3, <2>4, <2>6
  <2>8. QED
    BY <2>5, <2>7
<1>7. QED
  BY <1>1, <1>2, <1>6 DEF Fits, Same, Grows
-----------------------------------------------------------------------------
LEMMA InitTypeInv == Init => TypeInv
<1> SUFFICES ASSUME Init PROVE TypeInv
  OBVIOUS
<1> DEFINE first == [iat |-> now, pw |-> password, apart |-> TRUE]
<1>1. first \in Token /\ tokens = <<first>> /\ now = 1
  BY DEF Init, Token
<1>2. tokens \in Seq(Token) /\ Len(tokens) = 1 /\ tokens[1] = first /\ DOMAIN tokens = {1}
  BY <1>1
<1>3. NoKey \in Key /\ MaxTokens \in Nat /\ Len(tokens) <= MaxTokens
  BY <1>2, SessionsAssumption DEF NoKey, Key, None
<1>4. cookie \in [Browser -> 0..1] /\ access \in [Tab -> Nat]
  BY <1>1 DEF Init, None
<1>5. seen \in Seen
  BY DEF Init, Seen, None
<1>6. \A c \in Tab : call[c] = NoCall
  BY DEF Init
<1>7. \A c \in Tab : call[c].token <= Len(tokens) /\ Fits(c)
  <2> SUFFICES ASSUME NEW c \in Tab PROVE call[c].token <= Len(tokens) /\ Fits(c)
    OBVIOUS
  <2>1. call[c].at = "idle" /\ call[c].token = 0
    BY <1>6, NoCallType DEF None
  <2>2. QED
    BY <1>2, <2>1 DEF Fits
<1>8. TypeOK
  <2>1. call \in [Tab -> Call]
    BY NoCallType DEF Init
  <2>2. spent \in [1..MaxTokens -> Key] /\ revoked \in Key /\ changed \in Key
    BY <1>3 DEF Init
  <2>3. now = 1 /\ password = 1 /\ ~deleted /\ calls = 0
    BY DEF Init
  <2>6. deleted \in BOOLEAN
    BY DEF Init
  <2>4. cookie \in [Browser -> 0..Len(tokens)]
    BY <1>2, <1>4
  <2>5. QED
    BY <1>2, <1>3, <1>4, <1>5, <1>7, <2>1, <2>2, <2>3, <2>4, <2>6 DEF TypeOK
<1>9. Issued
  BY <1>1, <1>2 DEF Issued
<1>10. QED
  BY <1>7, <1>8, <1>9 DEF TypeInv

\* A step that leaves the tokens and the clock alone, and moves one request.
LEMMA CallStep ==
  ASSUME TypeInv, NEW c \in Tab, UNCHANGED <<now, tokens>>,
         call' \in [Tab -> Call], \A d \in Tab : d # c => call'[d] = call[d], Fits(c)'
  PROVE  (\A d \in Tab : Fits(d)') /\ (\A d \in Tab : call'[d].token <= Len(tokens')) /\ Issued'
<1>1. \A d \in Tab : Fits(d)'
  BY DEF TypeInv, Fits
<1>2. QED
  BY <1>1 DEF TypeInv, Fits, Issued

\* The same if the request goes on to a step at which nothing is to be shown.
LEMMA GoStep ==
  ASSUME TypeInv, NEW c \in Tab, UNCHANGED <<now, tokens>>,
         NEW at \in Step \ {"RevokedAfter", "Claim"}, Go(c, at),
         at \in {"Issue", "answer"} => \/ call[c].op \in {"logout"} /\ at = "answer"
                                       \/ call[c].op # "refresh" /\ at = "Issue"
                                       \/ call[c].token # None
  PROVE  /\ call' \in [Tab -> Call]
         /\ \A d \in Tab : Fits(d)'
         /\ \A d \in Tab : call'[d].token <= Len(tokens')
         /\ Issued'
<1>1. /\ call' \in [Tab -> Call] /\ call'[c].at = at /\ call'[c].op = call[c].op
      /\ call'[c].token = call[c].token
      /\ \A d \in Tab : d # c => call'[d] = call[d]
  BY GoCall DEF TypeInv, TypeOK
<1>2. Fits(c)'
  BY <1>1 DEF TypeInv, Fits
<1>3. QED
  BY <1>1, <1>2, CallStep

LEMMA DoneStep ==
  ASSUME TypeInv, NEW c \in Tab, UNCHANGED <<now, tokens>>, Done(c)
  PROVE  /\ call' \in [Tab -> Call]
         /\ \A d \in Tab : Fits(d)'
         /\ \A d \in Tab : call'[d].token <= Len(tokens')
         /\ Issued'
<1>1. /\ call' \in [Tab -> Call] /\ call'[c] = NoCall
      /\ \A d \in Tab : d # c => call'[d] = call[d]
  BY DoneCall DEF TypeInv, TypeOK
<1>2. Len(tokens) \in Nat
  BY DEF TypeInv, TypeOK
<1>3. Fits(c)'
  BY <1>1, <1>2, NoCallType DEF Fits, None
<1>4. QED
  BY <1>1, <1>3, CallStep

LEMMA RefuseStep ==
  ASSUME TypeInv, NEW c \in Tab, UNCHANGED <<now, tokens>>, Refuse(c)
  PROVE  /\ call' \in [Tab -> Call]
         /\ \A d \in Tab : Fits(d)'
         /\ \A d \in Tab : call'[d].token <= Len(tokens')
         /\ Issued'
BY GoStep, DoneStep DEF Refuse, Step

LEMMA SendStep ==
  ASSUME TypeInv, NEW c \in Tab, UNCHANGED <<now, tokens>>, NEW op \in Op,
         NEW at \in Step \ {"Claim", "Issue", "answer"}, NEW token \in 0..Len(tokens),
         NEW pw \in Nat, NEW retry \in BOOLEAN, at = "RevokedAfter" => op = "refresh",
         Send(c, op, at, token, pw, retry)
  PROVE  /\ call' \in [Tab -> Call]
         /\ \A d \in Tab : Fits(d)'
         /\ \A d \in Tab : call'[d].token <= Len(tokens')
         /\ Issued'
<1>1. /\ call' \in [Tab -> Call] /\ call'[c].at = at /\ call'[c].op = op
      /\ call'[c].token = token
      /\ \A d \in Tab : d # c => call'[d] = call[d]
  BY SendCall DEF TypeInv, TypeOK
<1>2. Fits(c)'
  BY <1>1 DEF Fits
<1>3. QED
  BY <1>1, <1>2, CallStep

LEMMA StartStep ==
  ASSUME TypeInv, NEW c \in Tab, RestUnchanged, NEW op \in Op,
         NEW at \in Step \ {"Claim", "Issue", "answer"}, NEW token \in 0..Len(tokens),
         NEW pw \in Nat, at = "RevokedAfter" => op = "refresh",
         Start(c, op, at, token, pw)
  PROVE  TypeInv'
<1>1. UNCHANGED <<now, tokens, seen, password, deleted, spent, revoked, changed, cookie, access>>
  BY DEF RestUnchanged, UserUnchanged, KeysUnchanged, ClientUnchanged
<1>2. /\ call' \in [Tab -> Call]
      /\ \A d \in Tab : Fits(d)'
      /\ \A d \in Tab : call'[d].token <= Len(tokens')
      /\ Issued'
  BY <1>1, SendStep DEF Start
<1>3. calls' \in Nat
  BY DEF Start, TypeInv, TypeOK
<1>4. TypeOK'
  BY <1>1, <1>2, <1>3 DEF TypeInv, TypeOK
<1>5. QED
  BY <1>2, <1>4 DEF TypeInv
-----------------------------------------------------------------------------
\* The type of a key that is set now, and of what is left of one.
LEMMA KeyType ==
  ASSUME now \in Nat, NEW ttl \in Int, ttl >= 0
  PROVE  SetKey(ttl) \in Key /\ NoKey \in Key
<1>1. now + ttl \in Nat
  OBVIOUS
<1>2. QED
  BY <1>1 DEF SetKey, Key, NoKey, None

LEMMA RefreshesTypeInv ==
  ASSUME TypeInv, NEW c \in Tab, CheckRevoked(c) \/ Claim(c) \/ Punish(c)
  PROVE  TypeInv'
<1> USE DEF TypeInv
<1>0. /\ call \in [Tab -> Call] /\ tokens \in Seq(Token) /\ now \in Nat /\ Fits(c)
      /\ spent \in [1..MaxTokens -> Key] /\ Len(tokens) <= MaxTokens /\ seen \in Seen
  BY DEF TypeOK
<1>1. call[c].token \in Nat /\ call[c].ttl \in Int
  BY <1>0 DEF Call
<1>2. call[c].token # None => call[c].token \in DOMAIN tokens /\ call[c].token \in 1..MaxTokens
  BY <1>0, <1>1, SessionsAssumption DEF Fits, None
<1>3. CASE CheckRevoked(c)
  <2>1. UNCHANGED <<now, tokens, seen, password, deleted, spent, revoked, changed, cookie,
                    access, calls>>
    BY <1>3 DEF CheckRevoked, RestUnchanged, UserUnchanged, KeysUnchanged, ClientUnchanged
  <2>2. CASE Refuse(c)
    BY <2>1, <2>2, RefuseStep DEF TypeOK
  <2>3. CASE ~Refuse(c)
    <3> DEFINE t == call[c].token
               left == tokens[t].iat + RefreshTTL - now
    <3>1. /\ call' = [call EXCEPT ![c] = [call[c] EXCEPT !.at = "Claim", !.ttl = left]]
          /\ Alive(t) /\ call[c].at = "RevokedAfter"
      BY <1>3, <2>3 DEF CheckRevoked
    <3>2. t # None /\ left \in Int /\ left >= 0 /\ now + left >= tokens[t].iat + RefreshTTL
      <4>1. t # None /\ now < tokens[t].iat + RefreshTTL
        BY <3>1 DEF Alive
      <4>2. tokens[t].iat \in Nat
        BY <1>0, <1>2, <4>1, TokenType
      <4>3. \A iat, n, ttl \in Nat : n < iat + ttl =>
              /\ iat + ttl - n \in Int /\ iat + ttl - n >= 0
              /\ n + (iat + ttl - n) >= iat + ttl
        OBVIOUS
      <4>4. QED
        BY <1>0, <4>1, <4>2, <4>3, SessionsAssumption
    <3>3. [call[c] EXCEPT !.at = "Claim", !.ttl = left] \in Call
      <4>1. [call[c] EXCEPT !.at = "Claim"] \in Call
        BY <1>0 DEF Call, Step
      <4>2. \A q \in Call : [q EXCEPT !.ttl = left] \in Call
        BY <3>2 DEF Call
      <4>3. QED
        BY <4>1, <4>2
    <3>4. /\ call' \in [Tab -> Call] /\ call'[c].at = "Claim" /\ call'[c].op = call[c].op
          /\ call'[c].token = t /\ call'[c].ttl = left
          /\ \A d \in Tab : d # c => call'[d] = call[d]
      BY <1>0, <3>1, <3>3 DEF Call
    <3>6. Fits(c)'
      BY <1>0, <2>1, <3>1, <3>2, <3>4 DEF Fits
    <3>7. QED
      BY <2>1, <3>4, <3>6, CallStep DEF TypeOK
  <2>4. QED
    BY <2>2, <2>3
<1>4. CASE Claim(c)
  <2>1. UNCHANGED <<now, tokens, password, deleted, revoked, changed, cookie, access, calls>>
    BY <1>4 DEF Claim, UserUnchanged, ClientUnchanged
  <2>2. call[c].token # None /\ call[c].ttl >= 0
    BY <1>0, <1>4 DEF Claim, Fits
  <2>3. spent' \in [1..MaxTokens -> Key]
    BY <1>0, <1>1, <1>4, <2>2, KeyType DEF Claim
  <2>4. seen' \in Seen
    BY <1>0, <1>2, <1>4, <2>2 DEF Claim, Seen
  <2>5. CASE Refuse(c)
    BY <2>1, <2>3, <2>4, <2>5, RefuseStep DEF TypeOK
  <2>6. CASE Go(c, "Punish") \/ Go(c, "Issue")
    BY <2>1, <2>2, <2>3, <2>4, <2>6, GoStep DEF TypeOK, Step
  <2>7. QED
    BY <1>4, <2>5, <2>6 DEF Claim
<1>5. CASE Punish(c)
  <2>1. UNCHANGED <<now, tokens, spent, password, deleted, changed, cookie, access, calls>>
    BY <1>5 DEF Punish, UserUnchanged, ClientUnchanged
  <2>2. revoked' \in Key
    BY <1>0, <1>5, KeyType, SessionsAssumption DEF Punish
  <2>3. seen' \in Seen
    BY <1>0, <1>5, TokenType DEF Punish, Marked, Seen
  <2>4. QED
    BY <1>5, <2>1, <2>2, <2>3, RefuseStep DEF Punish, TypeOK
<1>6. QED
  BY <1>3, <1>4, <1>5

LEMMA IssueTypeInv ==
  ASSUME TypeInv, NEW c \in Tab, Issue(c)
  PROVE  TypeInv' /\ Grows
<1> USE DEF TypeInv
<1> DEFINE t == call[c].token
           apart == call[c].apart /\ (call[c].op # "refresh" \/ tokens[t].apart)
           pw == IF call[c].op = "refresh" THEN tokens[t].pw ELSE call[c].pw
           new == [iat |-> now, pw |-> pw, apart |-> apart]
<1>0. /\ call \in [Tab -> Call] /\ tokens \in Seq(Token) /\ now \in Nat \ {0} /\ Fits(c)
      /\ MaxTokens \in Nat /\ cookie \in [Browser -> 0..Len(tokens)]
  BY SessionsAssumption DEF TypeOK
<1>1. t \in Nat /\ call[c].pw \in Nat /\ call[c].apart \in BOOLEAN /\ call[c].at = "Issue"
  BY <1>0 DEF Call, Issue
<1>2. call[c].op = "refresh" => t \in DOMAIN tokens
  BY <1>0, <1>1 DEF Fits, None
<1>3. new \in Token
  <2>1. pw \in Nat
    BY <1>0, <1>1, <1>2, TokenType
  <2>2. apart \in BOOLEAN
    OBVIOUS
  <2>3. QED
    BY <1>0, <2>1, <2>2 DEF Token
<1>4. tokens' = Append(tokens, new) /\ Len(tokens) < MaxTokens
  BY DEF Issue
<1>5. /\ tokens' \in Seq(Token) /\ Len(tokens') = Len(tokens) + 1
      /\ \A i \in 1..Len(tokens) : tokens'[i] = tokens[i]
      /\ tokens'[Len(tokens) + 1] = new
  BY <1>0, <1>3, <1>4, AppendProperties
<1>6. UNCHANGED <<now, calls, seen, password, deleted, spent, revoked, changed, cookie, access>>
  BY DEF Issue, UserUnchanged, KeysUnchanged, ClientUnchanged
<1>7. Grows
  BY <1>0, <1>5, <1>6, TokenType DEF Grows
<1>8. /\ call' \in [Tab -> Call] /\ call'[c].at = "answer" /\ call'[c].op = call[c].op
      /\ call'[c].token = Len(tokens) + 1
      /\ \A d \in Tab : d # c => call'[d] = call[d]
  <2>1. call' = [call EXCEPT ![c] = [call[c] EXCEPT !.at = "answer", !.token = Len(tokens) + 1]]
    BY DEF Issue
  <2>2. [call[c] EXCEPT !.at = "answer"] \in Call
    BY <1>0 DEF Call, Step
  <2>3. \A q \in Call : [q EXCEPT !.token = Len(tokens) + 1] \in Call
    <3>1. Len(tokens) + 1 \in Nat
      BY <1>0, TokenType
    <3>2. QED
      BY <3>1 DEF Call
  <2>4. [call[c] EXCEPT !.at = "answer", !.token = Len(tokens) + 1] \in Call
    BY <2>2, <2>3
  <2>5. QED
    BY <1>0, <2>1, <2>4 DEF Call
<1>9. \A d \in Tab : Fits(d)'
  <2>1. \A d \in Tab : d # c => Same(d)
    BY <1>8 DEF Same
  <2>2. \A d \in Tab : d # c => Fits(d)'
    BY <1>0, <1>5, <1>6, <1>7, <2>1, SameFits, TokenType
  <2>3. Fits(c)'
    BY <1>0, <1>5, <1>8, TokenType DEF Fits, None
  <2>4. QED
    BY <2>2, <2>3
<1>10. Issued'
  <2>1. DOMAIN tokens' = 1..(Len(tokens) + 1)
    BY <1>5
  <2>2. \A i \in 1..(Len(tokens) + 1) : i \in DOMAIN tokens \/ i = Len(tokens) + 1
    BY <1>0, TokenType
  <2>3. QED
    BY <1>0, <1>5, <1>6, <2>1, <2>2, TokenType DEF Issued
<1>11. cookie' \in [Browser -> 0..Len(tokens')]
  BY <1>0, <1>5, <1>6, TokenType
<1>12. \A d \in Tab : call'[d].token <= Len(tokens')
  BY <1>9 DEF Fits
<1>13. QED
  BY <1>0, <1>4, <1>5, <1>6, <1>7, <1>8, <1>9, <1>10, <1>11, <1>12, TokenType DEF TypeOK

LEMMA MarkTypeInv ==
  ASSUME TypeInv, NEW c \in Tab, MarkAllRevoked(c)
  PROVE  /\ TypeInv' /\ Grows /\ Len(tokens') = Len(tokens)
         /\ \A d \in Tab : d # c => Same(d) /\ ~call'[d].apart
         /\ call'[c].at = "MarkChanged" /\ call'[c].op = call[c].op
         /\ call'[c].apart = call[c].apart
         /\ \A t \in DOMAIN tokens :
              /\ tokens'[t].iat = tokens[t].iat /\ tokens'[t].pw = tokens[t].pw
              /\ tokens'[t].apart <=> tokens[t].apart /\ tokens[t].iat # now
<1> USE DEF TypeInv
<1>0. /\ call \in [Tab -> Call] /\ tokens \in Seq(Token) /\ now \in Nat \ {0}
      /\ Len(tokens) \in Nat /\ DOMAIN tokens = 1..Len(tokens)
  BY TokenType DEF TypeOK
<1>1. UNCHANGED <<now, calls, spent, changed, password, deleted, cookie, access>>
  BY DEF MarkAllRevoked, UserUnchanged, ClientUnchanged
<1>2. /\ tokens' \in Seq(Token) /\ Len(tokens') = Len(tokens)
      /\ \A t \in DOMAIN tokens :
           /\ tokens'[t].iat = tokens[t].iat /\ tokens'[t].pw = tokens[t].pw
           /\ tokens'[t].apart <=> tokens[t].apart /\ tokens[t].iat # now
  <2> DEFINE old(t) == tokens[t].apart /\ tokens[t].iat # now
  <2>1. \A t \in 1..Len(tokens) : [tokens[t] EXCEPT !.apart = old(t)] \in Token
    <3> SUFFICES ASSUME NEW t \in 1..Len(tokens)
                 PROVE  [tokens[t] EXCEPT !.apart = old(t)] \in Token
      OBVIOUS
    <3>1. old(t) \in BOOLEAN /\ tokens[t] \in Token
      BY <1>0, TokenType
    <3> HIDE DEF old
    <3>2. QED
      BY <3>1 DEF Token
  <2>2. tokens' = [t \in 1..Len(tokens) |-> [tokens[t] EXCEPT !.apart = old(t)]]
    BY <1>0 DEF MarkAllRevoked
  <2>3. tokens' \in [1..Len(tokens) -> Token]
    BY <2>1, <2>2
  <2>4. tokens' \in Seq(Token) /\ Len(tokens') = Len(tokens)
    BY <1>0, <2>3, SeqDef, LenProperties
  <2>5. ASSUME NEW t \in DOMAIN tokens
        PROVE  /\ tokens'[t].iat = tokens[t].iat /\ tokens'[t].pw = tokens[t].pw
               /\ tokens'[t].apart <=> old(t)
    <3>1. tokens'[t] = [tokens[t] EXCEPT !.apart = old(t)] /\ tokens[t] \in Token
      BY <1>0, <2>2, TokenType
    <3> HIDE DEF old
    <3>2. QED
      BY <3>1 DEF Token
  <2>6. QED
    BY <2>4, <2>5
<1>3. Grows
  BY <1>0, <1>1, <1>2 DEF Grows
<1>4. /\ call' \in [Tab -> Call] /\ call'[c].at = "MarkChanged" /\ call'[c].op = call[c].op
      /\ call'[c].apart = call[c].apart /\ call'[c].token = call[c].token
      /\ \A d \in Tab : d # c => Same(d) /\ ~call'[d].apart
  BY ZenonT(60), <1>0 DEF MarkAllRevoked, Call, Step, Same
<1>5. \A d \in Tab : Fits(d)'
  <2>1. Fits(c)'
    BY <1>2, <1>4 DEF Fits
  <2>2. QED
    BY <1>0, <1>1, <1>2, <1>3, <1>4, <2>1, SameFits
<1>6. Issued'
  BY <1>0, <1>1, <1>2, TokenType DEF Issued
<1>7. revoked' \in Key
  BY <1>0, KeyType, SessionsAssumption DEF MarkAllRevoked
<1>8. seen' \in Seen
  BY <1>0 DEF MarkAllRevoked, Marked, Seen, TypeOK
<1>9. \A d \in Tab : call'[d].token <= Len(tokens')
  BY <1>5 DEF Fits
<1>10. QED
  BY <1>0, <1>1, <1>2, <1>3, <1>4, <1>5, <1>6, <1>7, <1>8, <1>9 DEF TypeOK

LEMMA TickTypeInv ==
  ASSUME TypeInv, Tick
  PROVE  TypeInv' /\ Grows /\ \A d \in Tab : Same(d)
<1> USE DEF TypeInv
<1>0. now \in Nat \ {0} /\ tokens \in Seq(Token) /\ spent \in [1..MaxTokens -> Key]
  BY DEF TypeOK
<1>1. UNCHANGED <<tokens, call, calls, cookie, password, deleted>> /\ now' = now + 1
  BY DEF Tick, UserUnchanged
<1>2. \A key \in Key : Expire(key, now + 1) \in Key
  BY <1>0, KeyType DEF Expire
<1>3. spent' \in [1..MaxTokens -> Key] /\ revoked' \in Key /\ changed' \in Key
  BY <1>0, <1>2 DEF Tick, TypeOK
<1>4. access' \in [Tab -> Nat]
  BY DEF Tick, TypeOK, None
<1>5. seen' \in Seen
  BY DEF Tick, TypeOK, Seen
<1>6. Grows /\ \A d \in Tab : Same(d)
  BY <1>0, <1>1 DEF Grows, Same
<1>7. \A d \in Tab : Fits(d)'
  BY <1>0, <1>1, <1>6, SameFits
<1>8. Issued'
  BY <1>0, <1>1, TokenType DEF Issued
<1>9. QED
  BY <1>0, <1>1, <1>3, <1>4, <1>5, <1>6, <1>7, <1>8 DEF TypeOK

LEMMA UpdateTypeInv ==
  ASSUME TypeInv, NEW c \in Tab, Update(c)
  PROVE  /\ TypeInv' /\ UNCHANGED <<now, tokens, seen, spent, revoked, changed, access, cookie>>
         /\ password' = password + 1
         /\ \A d \in Tab : d # c => call'[d] = call[d]
         /\ \/ call'[c] = NoCall
            \/ /\ call'[c].at = "Issue" /\ call'[c].op = "change"
               /\ call'[c].pw = password + 1 /\ call'[c].apart = call[c].apart
<1> USE DEF TypeInv
<1>0. call \in [Tab -> Call] /\ tokens \in Seq(Token) /\ password \in Nat
  BY DEF TypeOK
<1>1. /\ UNCHANGED <<now, calls, tokens, seen, spent, revoked, changed, cookie, access>>
      /\ password' = password + 1 /\ deleted' \in BOOLEAN
  BY DEF Update, KeysUnchanged, ClientUnchanged, TypeOK
<1>2. CASE Done(c)
  <2>1. /\ call' \in [Tab -> Call]
        /\ \A d \in Tab : Fits(d)'
        /\ \A d \in Tab : call'[d].token <= Len(tokens')
        /\ Issued'
    BY <1>1, <1>2, DoneStep
  <2>2. QED
    BY <1>0, <1>1, <1>2, <2>1, DoneCall DEF TypeOK
<1>3. CASE call[c].op = "change"
  <2>1. call' = [call EXCEPT ![c] = [call[c] EXCEPT !.at = "Issue", !.pw = password + 1]]
    BY <1>3 DEF Update
  <2>2. [call[c] EXCEPT !.at = "Issue"] \in Call
    BY <1>0 DEF Call, Step
  <2>3. \A q \in Call : [q EXCEPT !.pw = password + 1] \in Call
    <3>1. password + 1 \in Nat
      BY <1>0
    <3>2. QED
      BY <3>1 DEF Call
  <2>4. [call[c] EXCEPT !.at = "Issue", !.pw = password + 1] \in Call
    BY <2>2, <2>3
  <2>5. /\ call' \in [Tab -> Call] /\ call'[c].at = "Issue" /\ call'[c].op = "change"
        /\ call'[c].pw = password + 1 /\ call'[c].apart = call[c].apart
        /\ call'[c].token = call[c].token
        /\ \A d \in Tab : d # c => call'[d] = call[d]
    BY <1>0, <1>3, <2>1, <2>4 DEF Call
  <2>6. Fits(c)'
    BY <1>1, <2>5 DEF Fits
  <2>7. /\ \A d \in Tab : Fits(d)'
        /\ \A d \in Tab : call'[d].token <= Len(tokens')
        /\ Issued'
    BY <1>1, <2>5, <2>6, CallStep
  <2>8. password' \in Nat
    BY <1>0, <1>1
  <2>9. TypeOK'
    BY <1>1, <2>5, <2>7, <2>8 DEF TypeOK
  <2>10. QED
    BY <1>1, <2>5, <2>7, <2>9
<1>4. QED
  BY <1>2, <1>3 DEF Update, Done

LEMMA StepTypeInv == TypeInv /\ [Next]_vars => TypeInv'
<1> SUFFICES ASSUME TypeInv, [Next]_vars PROVE TypeInv'
  OBVIOUS
<1> USE DEF TypeInv
<1>0. /\ call \in [Tab -> Call] /\ tokens \in Seq(Token) /\ now \in Nat \ {0}
      /\ Len(tokens) \in Nat /\ cookie \in [Browser -> 0..Len(tokens)]
      /\ spent \in [1..MaxTokens -> Key] /\ Len(tokens) <= MaxTokens /\ seen \in Seen
      /\ \A c \in Tab : home[c] \in Browser
  BY TokenType, SessionsAssumption DEF TypeOK
<1>1. ASSUME NEW c \in Tab, Refresh(c) PROVE TypeInv'
  <2>1. cookie[home[c]] \in 0..Len(tokens)
    BY <1>0
  <2>2. QED
    BY <1>1, <2>1, StartStep DEF Refresh, Op, Step
<1>2. ASSUME NEW c \in Tab, CheckRevoked(c) \/ Claim(c) \/ Punish(c) PROVE TypeInv'
  BY <1>2, RefreshesTypeInv
<1>3. ASSUME NEW c \in Tab, Login(c) PROVE TypeInv'
  <2>1. PICK p \in 1..password : Start(c, "login", "GetByEmail", None, p)
    BY <1>3 DEF Login
  <2>2. None \in 0..Len(tokens) /\ p \in Nat /\ RestUnchanged
    BY <1>0, <1>3 DEF None, Login, TypeOK
  <2>3. QED
    BY <2>1, <2>2, StartStep DEF Op, Step
<1>4. ASSUME NEW c \in Tab, Logout(c) PROVE TypeInv'
  <2>1. cookie[home[c]] \in 0..Len(tokens)
    BY <1>0
  <2>2. QED
    BY <1>4, <2>1, StartStep DEF Logout, Op, Step
<1>5. ASSUME NEW c \in Tab, NEW op \in {"change", "delete"}, Protected(c, op) PROVE TypeInv'
  <2>1. PICK p \in 1..password : Start(c, op, "Stale", None, p)
    BY <1>5 DEF Protected
  <2>2. None \in 0..Len(tokens) /\ p \in Nat /\ RestUnchanged
    BY <1>0, <1>5 DEF None, Protected, TypeOK
  <2>3. QED
    BY <2>1, <2>2, StartStep DEF Op, Step
<1>6. ASSUME NEW c \in Tab, ResetPassword(c) PROVE TypeInv'
  <2>1. None \in 0..Len(tokens)
    BY <1>0 DEF None
  <2>2. QED
    BY <1>6, <2>1, StartStep DEF ResetPassword, Op, Step
<1>7. ASSUME NEW c \in Tab, GetByEmail(c) \/ Stale(c) \/ GetByID(c) PROVE TypeInv'
  <2>1. UNCHANGED <<now, tokens, seen, password, deleted, spent, revoked, changed, cookie,
                    access, calls>>
    BY <1>7 DEF GetByEmail, Stale, GetByID, RestUnchanged, UserUnchanged, KeysUnchanged,
                ClientUnchanged
  <2>2. CASE Refuse(c)
    BY <2>1, <2>2, RefuseStep DEF TypeOK
  <2>3. CASE Go(c, "MarkAllRevoked") \/ Go(c, "GetByID")
    BY <2>1, <2>3, GoStep DEF TypeOK, Step
  <2>4. CASE call[c].op = "login" /\ Go(c, "Issue")
    BY <2>1, <2>4, GoStep DEF TypeOK, Step
  <2>5. QED
    BY <1>7, <2>2, <2>3, <2>4 DEF GetByEmail, Stale, GetByID
<1>8. ASSUME NEW c \in Tab, Issue(c) PROVE TypeInv'
  BY <1>8, IssueTypeInv
<1>9. ASSUME NEW c \in Tab, Answer(c) PROVE TypeInv'
  <2> DEFINE t == call[c].token
  <2>1. UNCHANGED <<now, tokens, seen, password, deleted, spent, revoked, changed, calls>>
    BY <1>9 DEF Answer, UserUnchanged, KeysUnchanged
  <2>2. t \in 1..Len(tokens)
    BY <1>0, <1>9 DEF Answer, Fits, Call, None
  <2>3. cookie' \in [Browser -> 0..Len(tokens)]
    BY <1>0, <1>9, <2>2 DEF Answer
  <2>4. access' \in [Tab -> Nat]
    BY <1>0, <1>9, <2>2, TokenType DEF Answer, TypeOK
  <2>5. QED
    BY <1>9, <2>1, <2>3, <2>4, DoneStep DEF Answer, TypeOK
<1>10. ASSUME NEW c \in Tab, Retry(c) PROVE TypeInv'
  <2>1. UNCHANGED <<now, tokens, seen, password, deleted, spent, revoked, changed, cookie,
                    access, calls>>
    BY <1>10 DEF Retry, RestUnchanged, UserUnchanged, KeysUnchanged, ClientUnchanged
  <2>2. cookie[home[c]] \in 0..Len(tokens)
    BY <1>0
  <2>3. QED
    BY <1>10, <2>1, <2>2, SendStep DEF Retry, Op, Step, TypeOK
<1>11. ASSUME NEW c \in Tab, Lose(c) PROVE TypeInv'
  <2>1. UNCHANGED <<now, tokens, password, deleted, spent, revoked, changed, cookie, calls>>
    BY <1>11 DEF Lose, UserUnchanged, KeysUnchanged
  <2>2. access' \in [Tab -> Nat] /\ seen' \in Seen
    BY <1>0, <1>11 DEF Lose, TypeOK, None, Seen
  <2>3. QED
    BY <1>11, <2>1, <2>2, DoneStep DEF Lose, TypeOK
<1>12. ASSUME NEW c \in Tab, Revoke(c) PROVE TypeInv'
  <2> DEFINE t == call[c].token
  <2>1. UNCHANGED <<now, tokens, password, deleted, revoked, changed, cookie, calls>>
    BY <1>12 DEF Revoke, UserUnchanged
  <2>2. CASE Alive(t)
    <3>1. t \in 1..Len(tokens) /\ t \in 1..MaxTokens /\ tokens[t].iat \in Nat
      BY SMTT(30), <1>0, <2>2, TokenType, SessionsAssumption DEF Alive, Fits, Call, None
    <3>2. \A iat, n, ttl \in Nat : n < iat + ttl =>
            iat + ttl - n \in Int /\ iat + ttl - n >= 0
      OBVIOUS
    <3>3. spent' \in [1..MaxTokens -> Key]
      <4>1. SetKey(tokens[t].iat + RefreshTTL - now) \in Key
        BY <1>0, <2>2, <3>1, <3>2, KeyType, SessionsAssumption DEF Alive
      <4>2. QED
        BY <1>0, <1>12, <2>2, <4>1 DEF Revoke
    <3>4. seen' \in Seen
      <4>1. seen' = [seen EXCEPT !.gone = seen.gone \union {t}]
        BY <1>12, <2>2 DEF Revoke
      <4>2. seen \in Seen
        BY <1>0 DEF TypeOK
      <4>3. QED
        BY <3>1, <4>1, <4>2 DEF Seen
    <3>5. call[c].token # None
      BY <2>2 DEF Alive
    <3>6. QED
      BY <1>12, <2>1, <2>2, <3>3, <3>4, <3>5, GoStep DEF Revoke, TypeOK, Step
  <2>3. CASE ~Alive(t)
    <3>1. access' \in [Tab -> Nat]
      BY <1>12, <2>3 DEF Revoke, TypeOK, None
    <3>2. QED
      BY <1>12, <2>1, <2>3, <3>1, DoneStep DEF Revoke, TypeOK
  <2>4. QED
    BY <2>2, <2>3
<1>13. ASSUME NEW c \in Tab, LoggedOut(c) PROVE TypeInv'
  <2>1. UNCHANGED <<now, tokens, seen, password, deleted, spent, revoked, changed, calls>>
    BY <1>13 DEF LoggedOut, UserUnchanged, KeysUnchanged
  <2>2. cookie' \in [Browser -> 0..Len(tokens)] /\ access' \in [Tab -> Nat]
    BY <1>0, <1>13 DEF LoggedOut, TypeOK, None
  <2>3. QED
    BY <1>13, <2>1, <2>2, DoneStep DEF LoggedOut, TypeOK
<1>14. ASSUME NEW c \in Tab, MarkAllRevoked(c) PROVE TypeInv'
  BY <1>14, MarkTypeInv
<1>15. ASSUME NEW c \in Tab, MarkChanged(c) PROVE TypeInv'
  <2>1. UNCHANGED <<now, tokens, password, deleted, spent, revoked, cookie, access, calls>>
    BY <1>15 DEF MarkChanged, UserUnchanged, ClientUnchanged
  <2>2. changed' \in Key
    BY <1>0, <1>15, KeyType, SessionsAssumption DEF MarkChanged
  <2>4. seen' \in Seen
    BY <1>0, <1>15 DEF MarkChanged, Seen
  <2>3. QED
    BY <1>15, <2>1, <2>2, <2>4, GoStep DEF MarkChanged, TypeOK, Step
<1>16. ASSUME NEW c \in Tab, Update(c) PROVE TypeInv'
  BY <1>16, UpdateTypeInv
<1>17. CASE Tick
  BY <1>17, TickTypeInv
<1>18. CASE UNCHANGED vars
  BY <1>18 DEF vars, TypeOK, Fits, Issued
<1>19. QED
  BY <1>1, <1>2, <1>3, <1>4, <1>5, <1>6, <1>7, <1>8, <1>9, <1>10, <1>11, <1>12, <1>13,
     <1>14, <1>15, <1>16, <1>17, <1>18 DEF Next

\* Whatever tabs do at the same time, every variable keeps its type, and no
\* request and no cookie holds a token that was not issued.
THEOREM TypeCorrect == Spec => []TypeOK
<1>1. TypeInv => TypeOK
  BY DEF TypeInv
<1>2. QED
  BY <1>1, InitTypeInv, StepTypeInv, PTL DEF Spec
-----------------------------------------------------------------------------
(* What a step makes of the clock, the tokens and the keys.                *)

\* A token that was not there before is issued now, behind the others.
Appends ==
  /\ Grows
  /\ \A t \in DOMAIN tokens' : t \in DOMAIN tokens \/ (tokens'[t].iat = now /\ now' = now)

\* The revocation keys stay, are set, or expire.
KeysMove ==
  \/ UNCHANGED <<now, revoked, changed>>
       /\ seen'.mark = seen.mark /\ seen'.issued = seen.issued /\ seen'.change = seen.change
  \/ /\ UNCHANGED <<now, changed>> /\ seen'.change = seen.change
     /\ revoked' = SetKey(RefreshTTL) /\ seen'.mark = now
     /\ seen'.issued = Len(tokens) /\ Len(tokens') = Len(tokens)
  \/ /\ UNCHANGED <<now, revoked>> /\ seen'.mark = seen.mark /\ seen'.issued = seen.issued
     /\ changed' = SetKey(AccessTTL) /\ seen'.change = now
  \/ /\ now' = now + 1 /\ seen'.change = seen.change /\ seen'.mark = seen.mark
     /\ seen'.issued = seen.issued /\ UNCHANGED tokens
     /\ revoked' = Expire(revoked, now + 1) /\ changed' = Expire(changed, now + 1)

Acts(c) ==
  \/ Refresh(c) \/ CheckRevoked(c) \/ Claim(c) \/ Punish(c)
  \/ Login(c) \/ GetByEmail(c)
  \/ Logout(c) \/ Revoke(c) \/ LoggedOut(c)
  \/ Protected(c, "change") \/ Protected(c, "delete") \/ Stale(c) \/ GetByID(c)
  \/ ResetPassword(c)
  \/ MarkAllRevoked(c) \/ MarkChanged(c) \/ Update(c)
  \/ Issue(c) \/ Answer(c) \/ Retry(c) \/ Lose(c)

LEMMA ActMoves ==
  ASSUME TypeInv, NEW c \in Tab, Acts(c)
  PROVE  Appends /\ KeysMove
<1>0. /\ tokens \in Seq(Token) /\ now \in Nat \ {0} /\ seen \in Seen
      /\ Len(tokens) \in Nat
  BY TokenType DEF TypeInv, TypeOK
<1>1. ASSUME UNCHANGED <<now, tokens>> PROVE Appends
  BY <1>0, <1>1 DEF Appends, Grows
<1>2. CASE MarkAllRevoked(c)
  <2>1. Appends
    BY <1>0, <1>2, MarkTypeInv, TokenType DEF TypeInv, TypeOK, Appends, MarkAllRevoked
  <2>2. /\ UNCHANGED <<now, changed>> /\ revoked' = SetKey(RefreshTTL) /\ seen' = Marked
    BY <1>2 DEF MarkAllRevoked
  <2>3. Len(tokens') = Len(tokens)
    BY <1>2, MarkTypeInv
  <2>4. seen'.mark = now /\ seen'.issued = Len(tokens) /\ seen'.change = seen.change
    BY <1>0, <2>2 DEF Marked, Seen
  <2>5. QED
    BY <2>1, <2>2, <2>3, <2>4 DEF KeysMove
<1>3. CASE Punish(c)
  <2>1. /\ UNCHANGED <<now, tokens, changed>>
        /\ revoked' = SetKey(RefreshTTL) /\ seen' = Marked
    BY <1>3 DEF Punish
  <2>2. seen'.mark = now /\ seen'.issued = Len(tokens) /\ seen'.change = seen.change
    BY <1>0, <2>1 DEF Marked, Seen
  <2>3. QED
    BY <1>1, <2>1, <2>2 DEF KeysMove
<1>4. CASE MarkChanged(c)
  <2>1. /\ UNCHANGED <<now, tokens, revoked>> /\ changed' = SetKey(AccessTTL)
        /\ seen'.mark = seen.mark /\ seen'.issued = seen.issued /\ seen'.change = now
    BY <1>0, <1>4 DEF MarkChanged, Seen
  <2>2. QED
    BY <1>1, <2>1 DEF KeysMove
<1>5. CASE Issue(c)
  <2>1. UNCHANGED <<now, revoked, changed, seen>>
    BY <1>5 DEF Issue, KeysUnchanged
  <2>2. Grows /\ tokens' \in Seq(Token)
    BY <1>5, IssueTypeInv DEF TypeInv, TypeOK
  <2>3. \A t \in DOMAIN tokens' : t \in DOMAIN tokens \/ tokens'[t].iat = now
    <3> DEFINE new == [iat |-> now,
                       pw |-> IF call[c].op = "refresh" THEN tokens[call[c].token].pw
                              ELSE call[c].pw,
                       apart |-> call[c].apart /\ (call[c].op # "refresh"
                                                     \/ tokens[call[c].token].apart)]
    <3>1. tokens' = Append(tokens, new)
      BY <1>5 DEF Issue
    <3>2. new.iat = now
      OBVIOUS
    <3> HIDE DEF new
    <3>3. QED
      BY <1>0, <3>1, <3>2
  <2>4. QED
    BY <2>1, <2>2, <2>3 DEF Appends, KeysMove
<1>6. CASE Claim(c) \/ Revoke(c) \/ Lose(c)
  <2>1. UNCHANGED <<now, tokens, revoked, changed>>
    BY <1>6 DEF Claim, Revoke, Lose, KeysUnchanged
  <2>2. seen'.mark = seen.mark /\ seen'.issued = seen.issued /\ seen'.change = seen.change
    <3>1. CASE Claim(c)
      BY <1>0, <3>1 DEF Claim, Seen
    <3>2. CASE Revoke(c)
      BY <1>0, <3>2 DEF Revoke, Seen
    <3>3. CASE Lose(c)
      BY <1>0, <3>3 DEF Lose, Seen
    <3>4. QED
      BY <1>6, <3>1, <3>2, <3>3
  <2>3. QED
    BY <1>1, <2>1, <2>2 DEF KeysMove
<1>7. CASE ~(\/ MarkAllRevoked(c) \/ Punish(c) \/ MarkChanged(c) \/ Issue(c) \/ Claim(c)
             \/ Revoke(c) \/ Lose(c))
  <2>1. UNCHANGED <<now, tokens, revoked, changed, seen>>
    BY <1>7 DEF Acts, Refresh, CheckRevoked, Login, GetByEmail, Logout, LoggedOut, Protected,
       Stale, GetByID, ResetPassword, Update, Answer, Retry, RestUnchanged, KeysUnchanged
  <2>2. QED
    BY <1>1, <2>1 DEF KeysMove
<1>8. QED
  BY <1>2, <1>3, <1>4, <1>5, <1>6, <1>7

LEMMA StepMoves == TypeInv /\ [Next]_vars => Appends /\ KeysMove
<1> SUFFICES ASSUME TypeInv, [Next]_vars PROVE Appends /\ KeysMove
  OBVIOUS
<1>0. /\ tokens \in Seq(Token) /\ now \in Nat \ {0} /\ seen \in Seen /\ Len(tokens) \in Nat
  BY TokenType DEF TypeInv, TypeOK
<1>1. CASE \E c \in Tab : Acts(c)
  BY <1>1, ActMoves
<1>2. CASE Tick
  <2>1. Grows /\ UNCHANGED tokens /\ now' = now + 1
    BY <1>2, TickTypeInv DEF Tick
  <2>2. /\ revoked' = Expire(revoked, now + 1) /\ changed' = Expire(changed, now + 1)
        /\ seen'.mark = seen.mark /\ seen'.issued = seen.issued /\ seen'.change = seen.change
    BY <1>0, <1>2 DEF Tick, Seen
  <2>3. QED
    BY <2>1, <2>2 DEF Appends, KeysMove
<1>3. CASE UNCHANGED vars
  BY <1>0, <1>3 DEF vars, Appends, Grows, KeysMove
<1>4. QED
  BY <1>1, <1>2, <1>3 DEF Next, Acts
-----------------------------------------------------------------------------
(* Revocations.                                                            *)

\* The key of what happened in second s, with this lifetime: it stands, or its
\* time is over.
Stands(key, s, ttl) ==
  \/ s # None /\ key = [at |-> s, until |-> s + ttl]
  \/ key = NoKey /\ (s = None \/ s + ttl <= now)

RevokedInv ==
  /\ seen.mark <= now /\ seen.change <= now
  /\ Stands(revoked, seen.mark, RefreshTTL)
  /\ Stands(changed, seen.change, AccessTTL)
  /\ \A t \in DOMAIN tokens : t > seen.issued => seen.mark <= tokens[t].iat

LEMMA StandsExpires ==
  ASSUME now \in Nat \ {0}, NEW s \in Nat, NEW ttl \in Nat, NEW key, Stands(key, s, ttl)
  PROVE  \/ s # None /\ Expire(key, now + 1) = [at |-> s, until |-> s + ttl]
         \/ Expire(key, now + 1) = NoKey /\ (s = None \/ s + ttl <= now + 1)
BY DEF Stands, Expire, NoKey, None

LEMMA StepRevoked == TypeInv /\ RevokedInv /\ [Next]_vars => RevokedInv'
<1> SUFFICES ASSUME TypeInv, RevokedInv, [Next]_vars PROVE RevokedInv'
  OBVIOUS
<1>0. /\ now \in Nat \ {0} /\ RefreshTTL \in Nat /\ AccessTTL \in Nat
      /\ seen.mark \in Nat /\ seen.change \in Nat /\ seen.issued \in Nat
      /\ tokens \in Seq(Token) /\ Len(tokens) \in Nat
      /\ tokens' \in Seq(Token) /\ Len(tokens') \in Nat
  BY SMTT(30), StepTypeInv, TokenType, SessionsAssumption DEF TypeInv, TypeOK, Seen
<1>1. Appends /\ KeysMove
  BY StepMoves
<1>2. DOMAIN tokens = 1..Len(tokens) /\ DOMAIN tokens' = 1..Len(tokens')
  BY <1>0
<1>3. ASSUME seen'.mark = seen.mark, seen'.issued = seen.issued
      PROVE  \A t \in DOMAIN tokens' : t > seen'.issued => seen'.mark <= tokens'[t].iat
  BY <1>1, <1>3 DEF Appends, Grows, RevokedInv
<1>4. CASE UNCHANGED <<now, revoked, changed>>
             /\ seen'.mark = seen.mark /\ seen'.issued = seen.issued /\ seen'.change = seen.change
  BY <1>3, <1>4 DEF RevokedInv, Stands
<1>5. CASE /\ UNCHANGED <<now, changed>> /\ seen'.change = seen.change
           /\ revoked' = SetKey(RefreshTTL) /\ seen'.mark = now
           /\ seen'.issued = Len(tokens) /\ Len(tokens') = Len(tokens)
  <2>1. \A t \in DOMAIN tokens' : ~(t > seen'.issued)
    BY <1>0, <1>2, <1>5
  <2>2. Stands(revoked, seen.mark, RefreshTTL)'
    BY <1>0, <1>5 DEF Stands, SetKey, None
  <2>3. Stands(changed, seen.change, AccessTTL)'
    BY <1>5 DEF RevokedInv, Stands
  <2>4. seen'.mark <= now' /\ seen'.change <= now'
    BY <1>0, <1>5 DEF RevokedInv
  <2>5. QED
    BY <2>1, <2>2, <2>3, <2>4 DEF RevokedInv
<1>6. CASE /\ UNCHANGED <<now, revoked>> /\ seen'.mark = seen.mark /\ seen'.issued = seen.issued
           /\ changed' = SetKey(AccessTTL) /\ seen'.change = now
  <2>1. Stands(changed, seen.change, AccessTTL)'
    BY <1>0, <1>6 DEF Stands, SetKey, None
  <2>2. Stands(revoked, seen.mark, RefreshTTL)'
    BY <1>6 DEF RevokedInv, Stands
  <2>3. seen'.mark <= now' /\ seen'.change <= now'
    BY <1>0, <1>6 DEF RevokedInv
  <2>4. QED
    BY <1>3, <1>6, <2>1, <2>2, <2>3 DEF RevokedInv
<1>7. CASE /\ now' = now + 1 /\ seen'.change = seen.change /\ seen'.mark = seen.mark
           /\ seen'.issued = seen.issued /\ UNCHANGED tokens
           /\ revoked' = Expire(revoked, now + 1) /\ changed' = Expire(changed, now + 1)
  <2>1. Stands(revoked, seen.mark, RefreshTTL)'
    BY <1>0, <1>7, StandsExpires DEF RevokedInv, Stands
  <2>2. Stands(changed, seen.change, AccessTTL)'
    BY <1>0, <1>7, StandsExpires DEF RevokedInv, Stands
  <2>3. seen'.mark <= now' /\ seen'.change <= now'
    BY <1>0, <1>7 DEF RevokedInv
  <2>4. QED
    BY <1>3, <1>7, <2>1, <2>2, <2>3 DEF RevokedInv
<1>8. QED
  BY <1>1, <1>4, <1>5, <1>6, <1>7 DEF KeysMove

LEMMA RevokedHolds == Spec => [](TypeInv /\ RevokedInv)
<1>1. Init => RevokedInv
  <2> SUFFICES ASSUME Init PROVE RevokedInv
    OBVIOUS
  <2>1. /\ now = 1 /\ seen.mark = 0 /\ seen.change = 0 /\ revoked = NoKey /\ changed = NoKey
    BY DEF Init, None
  <2>2. \A t \in DOMAIN tokens : tokens[t].iat \in Nat
    BY InitTypeInv, TokenType DEF TypeInv, TypeOK
  <2>3. QED
    BY <2>1, <2>2 DEF RevokedInv, Stands, None
<1>2. TypeInv /\ RevokedInv /\ [Next]_vars => (TypeInv /\ RevokedInv)'
  BY StepTypeInv, StepRevoked
<1>3. QED
  BY <1>1, <1>2, InitTypeInv, PTL DEF Spec

\* What a revocation ended stays ended until it expires of itself: the keys of
\* MarkAllRevoked and MarkChanged are kept as long as what they end could live.
THEOREM EndedForGood == Spec => []EndedStaysEnded
<1>1. TypeInv /\ RevokedInv => EndedStaysEnded
  <2> SUFFICES ASSUME TypeInv, RevokedInv PROVE EndedStaysEnded
    OBVIOUS
  <2>0. /\ now \in Nat \ {0} /\ RefreshTTL \in Nat /\ AccessTTL \in Nat
        /\ seen.mark \in Nat /\ seen.change \in Nat
        /\ \A t \in DOMAIN tokens : tokens[t].iat \in Nat
        /\ access \in [Tab -> Nat]
    BY TokenType, SessionsAssumption DEF TypeInv, TypeOK, Seen
  <2>1. ASSUME NEW t \in DOMAIN tokens, Alive(t), tokens[t].iat < seen.mark
        PROVE  RevokedAfter(t)
    <3>1. now < tokens[t].iat + RefreshTTL
      BY <2>1 DEF Alive
    <3>2. now < seen.mark + RefreshTTL /\ seen.mark # None
      BY <2>0, <2>1, <3>1 DEF None
    <3>3. revoked = [at |-> seen.mark, until |-> seen.mark + RefreshTTL]
      BY <2>0, <3>2 DEF RevokedInv, Stands
    <3>4. QED
      BY <2>1, <3>2, <3>3 DEF RevokedAfter, Get
  <2>2. ASSUME NEW c \in Tab, access[c] < seen.change, Fresh(access[c]) PROVE FALSE
    <3>1. now < access[c] + AccessTTL
      BY <2>2 DEF Fresh
    <3>2. now < seen.change + AccessTTL /\ seen.change # None
      BY <2>0, <2>2, <3>1 DEF None
    <3>3. changed = [at |-> seen.change, until |-> seen.change + AccessTTL]
      BY <2>0, <3>2 DEF RevokedInv, Stands
    <3>4. QED
      BY <2>2, <3>2, <3>3 DEF Fresh, Get
  <2>3. QED
    BY <2>1, <2>2 DEF EndedStaysEnded
<1>2. QED
  BY <1>1, RevokedHolds, PTL

\* What is issued after a revocation is not ended by it, in the same second or
\* later: RevokedAfter compares whole seconds strictly.
THEOREM NewOnesWork == Spec => []NewTokensWork
<1>1. TypeInv /\ RevokedInv => NewTokensWork
  <2> SUFFICES ASSUME TypeInv, RevokedInv, NEW t \in DOMAIN tokens, t > seen.issued,
                      RevokedAfter(t)
               PROVE  FALSE
    BY DEF NewTokensWork
  <2>1. /\ seen.mark \in Nat /\ tokens[t].iat \in Nat /\ seen.mark <= tokens[t].iat
    BY TokenType DEF TypeInv, TypeOK, Seen, RevokedInv
  <2>2. Get(revoked) \in {seen.mark, 0}
    BY DEF RevokedInv, Stands, Get, NoKey, None
  <2>3. QED
    BY <2>1, <2>2 DEF RevokedAfter
<1>2. QED
  BY <1>1, RevokedHolds, PTL
-----------------------------------------------------------------------------
(* The blacklist.                                                          *)

\* The key of a token that is gone is there as long as the token lives.
SpentInv ==
  \A t \in seen.gone :
    /\ t \in DOMAIN tokens
    /\ now < tokens[t].iat + RefreshTTL =>
         spent[t].at # None /\ spent[t].until >= tokens[t].iat + RefreshTTL

\* Token t is spent, for at least what is left of its life.
Spends(t) ==
  \E ttl \in Int :
    /\ ttl >= 0 /\ now + ttl >= tokens[t].iat + RefreshTTL
    /\ spent' = [spent EXCEPT ![t] = SetKey(ttl)]
    /\ seen'.gone = seen.gone \union {t}
    /\ UNCHANGED <<now, tokens>>

SpentMoves ==
  \/ UNCHANGED <<now, spent>> /\ seen'.gone = seen.gone
  \/ \E t \in DOMAIN tokens : Spends(t)
  \/ /\ now' = now + 1 /\ seen'.gone = seen.gone /\ UNCHANGED tokens
     /\ spent' = [t \in DOMAIN spent |-> Expire(spent[t], now + 1)]

LEMMA StepSpends == TypeInv /\ [Next]_vars => SpentMoves
<1> SUFFICES ASSUME TypeInv, [Next]_vars PROVE SpentMoves
  OBVIOUS
<1>0. /\ call \in [Tab -> Call] /\ now \in Nat \ {0} /\ seen \in Seen
      /\ Len(tokens) \in Nat /\ tokens \in Seq(Token) /\ DOMAIN tokens = 1..Len(tokens)
      /\ \A t \in DOMAIN tokens : tokens[t].iat \in Nat
      /\ \A c \in Tab : call[c].token \in Nat /\ call[c].ttl \in Int /\ Fits(c)
  BY TokenType DEF TypeInv, TypeOK, Call
<1>1. ASSUME NEW c \in Tab, Claim(c) PROVE SpentMoves
  <2> DEFINE t == call[c].token
  <2>1. /\ t # None /\ call[c].ttl >= 0 /\ now + call[c].ttl >= tokens[t].iat + RefreshTTL
        /\ UNCHANGED <<now, tokens>>
    BY <1>0, <1>1 DEF Claim, Fits
  <2>2. t \in DOMAIN tokens
    BY <1>0, <2>1 DEF Fits, None
  <2>3. CASE Spent(t)
    BY <1>1, <2>1, <2>3 DEF Claim, SpentMoves
  <2>4. CASE ~Spent(t)
    <3>1. /\ spent' = [spent EXCEPT ![t] = SetKey(call[c].ttl)]
          /\ seen'.gone = seen.gone \union {t}
      BY <1>0, <1>1, <2>4 DEF Claim, Seen
    <3>2. Spends(t)
      BY <1>0, <2>1, <3>1 DEF Spends
    <3>3. QED
      BY <2>2, <3>2 DEF SpentMoves
  <2>5. QED
    BY <2>3, <2>4
<1>2. ASSUME NEW c \in Tab, Revoke(c) PROVE SpentMoves
  <2> DEFINE t == call[c].token
             left == tokens[t].iat + RefreshTTL - now
  <2>1. UNCHANGED <<now, tokens>>
    BY <1>2 DEF Revoke
  <2>2. CASE Alive(t)
    <3>1. t \in DOMAIN tokens /\ now < tokens[t].iat + RefreshTTL
      BY <1>0, <2>2 DEF Alive, Fits, None
    <3>2. /\ spent' = [spent EXCEPT ![t] = SetKey(left)]
          /\ seen'.gone = seen.gone \union {t}
      BY <1>0, <1>2, <2>2 DEF Revoke, Seen
    <3>3. \A iat, n, ttl \in Nat : n < iat + ttl =>
            /\ iat + ttl - n \in Int /\ iat + ttl - n >= 0
            /\ n + (iat + ttl - n) >= iat + ttl
      OBVIOUS
    <3>4. left \in Int /\ left >= 0 /\ now + left >= tokens[t].iat + RefreshTTL
      BY <1>0, <3>1, <3>3, SessionsAssumption
    <3>5. Spends(t)
      BY <2>1, <3>2, <3>4 DEF Spends
    <3>6. QED
      BY <3>1, <3>5 DEF SpentMoves
  <2>3. CASE ~Alive(t)
    BY <1>2, <2>1, <2>3 DEF Revoke, SpentMoves
  <2>4. QED
    BY <2>2, <2>3
<1>3. ASSUME NEW c \in Tab, Lose(c) \/ MarkAllRevoked(c) \/ Punish(c) \/ MarkChanged(c)
      PROVE  SpentMoves
  <2>1. UNCHANGED <<now, spent>>
    BY <1>3 DEF Lose, MarkAllRevoked, Punish, MarkChanged, KeysUnchanged
  <2>2. seen'.gone = seen.gone
    <3>1. CASE Lose(c)
      BY <1>0, <3>1 DEF Lose, Seen
    <3>2. CASE MarkAllRevoked(c) \/ Punish(c)
      BY <1>0, <3>2 DEF MarkAllRevoked, Punish, Marked, Seen
    <3>3. CASE MarkChanged(c)
      BY <1>0, <3>3 DEF MarkChanged, Seen
    <3>4. QED
      BY <1>3, <3>1, <3>2, <3>3
  <2>3. QED
    BY <2>1, <2>2 DEF SpentMoves
<1>4. ASSUME NEW c \in Tab, Acts(c),
             ~(\/ Claim(c) \/ Revoke(c) \/ Lose(c) \/ MarkAllRevoked(c) \/ Punish(c)
               \/ MarkChanged(c))
      PROVE  SpentMoves
  <2>1. UNCHANGED <<now, spent, seen>>
    BY <1>4 DEF Acts, Refresh, CheckRevoked, Login, GetByEmail, Logout, LoggedOut, Protected,
       Stale, GetByID, ResetPassword, Update, Answer, Retry, Issue, RestUnchanged,
       KeysUnchanged
  <2>2. QED
    BY <2>1 DEF SpentMoves
<1>5. CASE Tick
  BY <1>0, <1>5 DEF Tick, Seen, SpentMoves
<1>6. CASE UNCHANGED vars
  BY <1>6 DEF vars, SpentMoves
<1>7. QED
  BY <1>1, <1>2, <1>3, <1>4, <1>5, <1>6 DEF Next, Acts

LEMMA StepSpent == TypeInv /\ SpentInv /\ [Next]_vars => SpentInv'
<1> SUFFICES ASSUME TypeInv, SpentInv, [Next]_vars, NEW t \in seen'.gone
             PROVE  /\ t \in DOMAIN tokens'
                    /\ now' < tokens'[t].iat + RefreshTTL =>
                         /\ spent'[t].at # None
                         /\ spent'[t].until >= tokens'[t].iat + RefreshTTL
  BY DEF SpentInv
<1>0. /\ now \in Nat \ {0} /\ spent \in [1..MaxTokens -> Key] /\ RefreshTTL \in Nat
      /\ Len(tokens) \in Nat /\ tokens \in Seq(Token) /\ DOMAIN tokens = 1..Len(tokens)
      /\ \A k \in DOMAIN tokens : tokens[k].iat \in Nat
      /\ Len(tokens) <= MaxTokens /\ MaxTokens \in Nat
  BY TokenType, SessionsAssumption DEF TypeInv, TypeOK
<1>1. Grows /\ SpentMoves /\ tokens' \in Seq(Token)
  BY StepMoves, StepSpends, StepTypeInv DEF Appends, TypeInv, TypeOK
<1>2. \A k \in DOMAIN tokens : k \in DOMAIN tokens' /\ tokens'[k].iat = tokens[k].iat
  BY <1>0, <1>1 DEF Grows
<1>3. CASE UNCHANGED <<now, spent>> /\ seen'.gone = seen.gone
  BY <1>2, <1>3 DEF SpentInv
<1>4. ASSUME NEW k \in DOMAIN tokens, Spends(k)
      PROVE  /\ t \in DOMAIN tokens'
             /\ now' < tokens'[t].iat + RefreshTTL =>
                  spent'[t].at # None /\ spent'[t].until >= tokens'[t].iat + RefreshTTL
  <2>1. PICK ttl \in Int :
          /\ ttl >= 0 /\ now + ttl >= tokens[k].iat + RefreshTTL
          /\ spent' = [spent EXCEPT ![k] = SetKey(ttl)]
          /\ seen'.gone = seen.gone \union {k}
          /\ UNCHANGED <<now, tokens>>
    BY <1>4 DEF Spends
  <2>2. CASE t = k
    <3>1. spent'[k] = [at |-> now, until |-> now + ttl]
      BY <1>0, <2>1 DEF SetKey
    <3>2. QED
      BY <1>0, <2>1, <2>2, <3>1 DEF None
  <2>3. CASE t # k
    BY <1>0, <2>1, <2>3 DEF SpentInv
  <2>4. QED
    BY <2>2, <2>3
<1>5. CASE /\ now' = now + 1 /\ seen'.gone = seen.gone /\ UNCHANGED tokens
           /\ spent' = [k \in DOMAIN spent |-> Expire(spent[k], now + 1)]
  <2>1. t \in DOMAIN tokens /\ spent'[t] = Expire(spent[t], now + 1) /\ spent[t] \in Key
    BY <1>0, <1>5 DEF SpentInv
  <2>2. ASSUME now' < tokens'[t].iat + RefreshTTL
        PROVE  spent'[t].at # None /\ spent'[t].until >= tokens'[t].iat + RefreshTTL
    <3>1. /\ now + 1 < tokens[t].iat + RefreshTTL
          /\ spent[t].at # None /\ spent[t].until >= tokens[t].iat + RefreshTTL
      BY <1>0, <1>5, <2>1, <2>2 DEF SpentInv
    <3>2. now + 1 < spent[t].until
      BY SMTT(30), <1>0, <2>1, <3>1 DEF Key
    <3>3. QED
      BY <1>5, <2>1, <3>1, <3>2 DEF Expire
  <2>3. QED
    BY <1>5, <2>1, <2>2
<1>6. QED
  BY <1>1, <1>3, <1>4, <1>5 DEF SpentMoves

LEMMA ClaimIsFirst ==
  ASSUME TypeInv, SpentInv, [Next]_vars, NEW c \in Tab,
         call[c].at = "Claim", call'[c].at = "Issue"
  PROVE  call[c].token \notin seen.gone \/ ~Alive(call[c].token)
<1>0. call \in [Tab -> Call]
  BY DEF TypeInv, TypeOK
<1>1. Claim(c)
  <2>1. CASE Tick \/ UNCHANGED vars
    BY <2>1 DEF Tick, vars
  <2>2. ASSUME NEW d \in Tab, Acts(d), d # c PROVE FALSE
    <3>1. CASE MarkAllRevoked(d)
      BY <1>0, <2>2, <3>1 DEF MarkAllRevoked, Call
    <3>2. CASE ~MarkAllRevoked(d)
      BY <1>0, <2>2, <3>2 DEF Acts, Refresh, CheckRevoked, Claim, Punish, Login, GetByEmail,
         Logout, Revoke, LoggedOut, Protected, Stale, GetByID, ResetPassword, MarkChanged,
         Update, Issue, Answer, Retry, Lose, Go, Done, Refuse, Send, Start
    <3>3. QED
      BY <3>1, <3>2
  <2>3. ASSUME Acts(c), ~Claim(c) PROVE FALSE
    BY <2>3 DEF Acts, Refresh, CheckRevoked, Punish, Login, GetByEmail, Logout, Revoke,
       LoggedOut, Protected, Stale, GetByID, ResetPassword, MarkAllRevoked, MarkChanged,
       Update, Issue, Answer, Retry, Lose, Start, Idle
  <2>4. QED
    BY <2>1, <2>2, <2>3 DEF Next, Acts
<1>2. ~Spent(call[c].token)
  BY <1>0, <1>1, GoCall, DoneCall DEF Claim, Refuse, Step
<1>3. ASSUME call[c].token \in seen.gone, Alive(call[c].token) PROVE FALSE
  <2> DEFINE t == call[c].token
  <2>1. /\ t \in DOMAIN tokens /\ now < tokens[t].iat + RefreshTTL
        /\ spent[t].at # None /\ spent[t].until >= tokens[t].iat + RefreshTTL
    BY <1>3 DEF SpentInv, Alive
  <2>2. /\ t \in 1..MaxTokens /\ spent[t].until \in Nat /\ now \in Nat
        /\ tokens[t].iat \in Nat /\ RefreshTTL \in Nat
    BY SMTT(30), <2>1, TokenType, SessionsAssumption DEF TypeInv, TypeOK, Key
  <2>3. now < spent[t].until
    BY <2>1, <2>2
  <2>4. QED
    BY <1>2, <2>1, <2>3 DEF Spent, Get
<1>4. QED
  BY <1>3

\* A refresh token that was exchanged, or given up by a logout, is not exchanged
\* as long as it lives: Claim is one command, and its key outlives the token.
THEOREM SpentForGood == Spec => SpentStaysSpent
<1>1. Init => SpentInv
  BY DEF Init, SpentInv
<1>2. TypeInv /\ SpentInv /\ [Next]_vars => (TypeInv /\ SpentInv)'
  BY StepTypeInv, StepSpent
<1>3. TypeInv /\ SpentInv /\ [Next]_vars =>
        [\A c \in Tab :
           call[c].at = "Claim" /\ call'[c].at = "Issue"
             => \/ call[c].token \notin seen.gone
                \/ ~Alive(call[c].token)]_vars
  BY ClaimIsFirst
<1>4. QED
  BY <1>1, <1>2, <1>3, InitTypeInv, PTL DEF Spec, SpentStaysSpent
-----------------------------------------------------------------------------
(* Passwords.                                                              *)

Changes(c) == call[c].at \in {"MarkChanged", "Update"}

\* Token t lives, no revocation ended it, and it has met no change of the password.
Standing(t) ==
  now < tokens[t].iat + RefreshTTL /\ seen.mark <= tokens[t].iat /\ tokens[t].apart

\* What c is about to issue, if it has met no change, is for the password.
IssuesRight(c) ==
  call[c].apart =>
    /\ /\ call[c].at \in {"Claim", "Issue"} /\ call[c].op = "refresh"
       /\ tokens[call[c].token].apart
       => tokens[call[c].token].pw = password
    /\ call[c].at = "Issue" /\ call[c].op # "refresh" => call[c].pw = password

\* A change ends all tokens and meets all requests, those that are under way
\* when it begins and those that are sent until it is over.
PasswordInv ==
  /\ \A t \in DOMAIN tokens : Standing(t) => ~Changing /\ tokens[t].pw = password
  /\ \A c, d \in Tab : c # d /\ Changes(d) /\ call[c].at # "idle" => ~call[c].apart
  /\ \A c \in Tab : IssuesRight(c)

\* Steps of c that change neither tokens nor passwords.
LEMMA QuietStep ==
  ASSUME TypeInv, PasswordInv, NEW c \in Tab, UNCHANGED <<now, tokens, password>>,
         seen'.mark = seen.mark \/ seen'.mark = now, seen.mark <= now,
         \A d \in Tab : d # c => call'[d] = call[d],
         Changes(c)' => Changes(c),
         call'[c].at # "idle" /\ call'[c].apart
           => ~Changing \/ (call[c].at # "idle" /\ call[c].apart),
         IssuesRight(c)'
  PROVE  PasswordInv'
<1>0. /\ now \in Nat /\ seen.mark \in Nat /\ RefreshTTL \in Nat
      /\ \A t \in DOMAIN tokens : tokens[t].iat \in Nat
  BY TokenType, SessionsAssumption DEF TypeInv, TypeOK, Seen
<1>1. Changing' => Changing
  BY DEF Changing, Changes
<1>2. \A t \in DOMAIN tokens' : Standing(t)' => Standing(t)
  BY <1>0 DEF Standing
<1>3. \A t \in DOMAIN tokens' : Standing(t)' => ~Changing' /\ tokens'[t].pw = password'
  BY <1>1, <1>2 DEF PasswordInv
<1>4. ASSUME NEW x \in Tab, NEW d \in Tab, x # d, Changes(d)', call'[x].at # "idle",
             call'[x].apart
      PROVE  FALSE
  <2>1. Changes(d) /\ Changing
    BY <1>4 DEF Changes, Changing
  <2>2. call[x].at # "idle" /\ call[x].apart
    BY <1>4, <2>1
  <2>3. QED
    BY <1>4, <2>1, <2>2 DEF PasswordInv
<1>5. \A d \in Tab : d # c => IssuesRight(d)'
  BY DEF PasswordInv, IssuesRight
<1>6. QED
  BY <1>3, <1>4, <1>5 DEF PasswordInv

LEMMA QuietGo ==
  ASSUME TypeInv, PasswordInv, NEW c \in Tab, UNCHANGED <<now, tokens, password>>,
         seen'.mark = seen.mark \/ seen'.mark = now, seen.mark <= now,
         call[c].at # "idle",
         NEW at \in Step \ {"Claim", "Issue"}, Go(c, at),
         at \in {"MarkChanged", "Update"} => Changes(c)
  PROVE  PasswordInv'
<1>1. /\ call'[c].at = at /\ call'[c].apart = call[c].apart
      /\ \A d \in Tab : d # c => call'[d] = call[d]
  BY GoCall DEF TypeInv, TypeOK
<1>2. (Changes(c)' => Changes(c)) /\ IssuesRight(c)'
  BY <1>1 DEF Changes, IssuesRight
<1>3. QED
  BY <1>1, <1>2, QuietStep

LEMMA QuietDone ==
  ASSUME TypeInv, PasswordInv, NEW c \in Tab, UNCHANGED <<now, tokens, password>>,
         seen'.mark = seen.mark \/ seen'.mark = now, seen.mark <= now, Done(c)
  PROVE  PasswordInv'
<1>1. /\ call'[c].at = "idle"
      /\ \A d \in Tab : d # c => call'[d] = call[d]
  BY DoneCall DEF TypeInv, TypeOK
<1>2. (Changes(c)' => Changes(c)) /\ IssuesRight(c)'
  BY <1>1 DEF Changes, IssuesRight
<1>3. QED
  BY <1>1, <1>2, QuietStep

LEMMA QuietRefuse ==
  ASSUME TypeInv, PasswordInv, NEW c \in Tab, UNCHANGED <<now, tokens, password>>,
         seen'.mark = seen.mark \/ seen'.mark = now, seen.mark <= now,
         call[c].at # "idle", Refuse(c)
  PROVE  PasswordInv'
BY QuietGo, QuietDone DEF Refuse, Step

LEMMA QuietSend ==
  ASSUME TypeInv, PasswordInv, NEW c \in Tab, UNCHANGED <<now, tokens, password, seen>>,
         seen.mark <= now,
         NEW op \in Op, NEW at \in Step \ {"Claim", "Issue", "MarkChanged", "Update"},
         NEW token \in Nat, NEW pw \in Nat, NEW retry \in BOOLEAN,
         Send(c, op, at, token, pw, retry)
  PROVE  PasswordInv'
<1>1. /\ call'[c].at = at /\ call'[c].apart = ~Changing
      /\ \A d \in Tab : d # c => call'[d] = call[d]
  BY SendCall DEF TypeInv, TypeOK
<1>2. (Changes(c)' => Changes(c)) /\ IssuesRight(c)'
  BY <1>1 DEF Changes, IssuesRight
<1>3. QED
  BY <1>1, <1>2, QuietStep

LEMMA MarkPassword ==
  ASSUME TypeInv, PasswordInv, seen.mark <= now, NEW c \in Tab, MarkAllRevoked(c)
  PROVE  PasswordInv'
<1>0. /\ now \in Nat /\ tokens \in Seq(Token) /\ seen \in Seen /\ TypeInv'
      /\ Len(tokens') = Len(tokens)
      /\ DOMAIN tokens = 1..Len(tokens) /\ tokens' \in Seq(Token)
      /\ \A t \in DOMAIN tokens :
           /\ tokens'[t].iat = tokens[t].iat /\ tokens[t].iat \in Nat /\ tokens[t].iat <= now
           /\ tokens'[t].apart <=> tokens[t].apart /\ tokens[t].iat # now
  BY MarkTypeInv, TokenType DEF TypeInv, TypeOK, Issued
<1>1. /\ \A d \in Tab : d # c => ~call'[d].apart /\ call'[d].at = call[d].at
      /\ call'[c].at = "MarkChanged" /\ call'[c].apart = call[c].apart
      /\ call[c].at = "MarkAllRevoked"
  BY MarkTypeInv DEF Same, MarkAllRevoked
<1>2. seen'.mark = now /\ now' = now
  BY <1>0 DEF MarkAllRevoked, Marked, Seen
<1>3. \A t \in DOMAIN tokens' : ~Standing(t)'
  <2> SUFFICES ASSUME NEW t \in DOMAIN tokens', Standing(t)' PROVE FALSE
    OBVIOUS
  <2>1. t \in DOMAIN tokens
    BY <1>0
  <2>2. now <= tokens[t].iat /\ tokens[t].iat # now
    BY <1>0, <1>2, <2>1 DEF Standing
  <2>3. QED
    BY <1>0, <2>1, <2>2
<1>4. ASSUME NEW x \in Tab, NEW d \in Tab, x # d, Changes(d)', call'[x].at # "idle",
             call'[x].apart
      PROVE  FALSE
  <2>1. x = c
    BY <1>1, <1>4
  <2>2. Changes(d) /\ call[c].apart
    BY <1>1, <1>4, <2>1 DEF Changes
  <2>3. QED
    BY <1>1, <1>4, <2>1, <2>2 DEF PasswordInv
<1>5. \A d \in Tab : IssuesRight(d)'
  BY <1>1 DEF IssuesRight
<1>6. QED
  BY <1>3, <1>4, <1>5 DEF PasswordInv

LEMMA UpdatePassword ==
  ASSUME TypeInv, PasswordInv, NEW c \in Tab, Update(c)
  PROVE  PasswordInv'
<1>0. /\ UNCHANGED <<now, tokens, seen>> /\ password' = password + 1
      /\ \A d \in Tab : d # c => call'[d] = call[d]
      /\ \/ call'[c] = NoCall
         \/ /\ call'[c].at = "Issue" /\ call'[c].op = "change"
            /\ call'[c].pw = password + 1 /\ call'[c].apart = call[c].apart
  BY UpdateTypeInv
<1>1. Changes(c) /\ Changing /\ call[c].at # "idle"
  BY DEF Update, Changes, Changing
<1>2. \A t \in DOMAIN tokens' : ~Standing(t)'
  <2>1. \A t \in DOMAIN tokens : ~Standing(t)
    BY <1>1 DEF PasswordInv
  <2>2. QED
    BY <1>0, <2>1 DEF Standing
<1>3. ~Changes(c)'
  BY <1>0, NoCallType DEF Changes
<1>4. ASSUME NEW x \in Tab, NEW d \in Tab, x # d, Changes(d)', call'[x].at # "idle",
             call'[x].apart
      PROVE  FALSE
  <2>1. d # c /\ Changes(d)
    BY <1>0, <1>3, <1>4 DEF Changes
  <2>2. call[x].at # "idle" /\ call[x].apart
    BY <1>0, <1>1, <1>4, NoCallType
  <2>3. QED
    BY <1>4, <2>1, <2>2 DEF PasswordInv
<1>5. \A d \in Tab : IssuesRight(d)'
  <2>1. IssuesRight(c)'
    BY <1>0, NoCallType DEF IssuesRight
  <2>2. \A d \in Tab : d # c /\ call[d].at # "idle" => ~call[d].apart
    BY <1>1 DEF PasswordInv
  <2>3. QED
    BY <1>0, <2>1, <2>2 DEF IssuesRight
<1>6. QED
  BY <1>2, <1>4, <1>5 DEF PasswordInv

LEMMA IssuePassword ==
  ASSUME TypeInv, PasswordInv, NEW c \in Tab, Issue(c)
  PROVE  PasswordInv'
<1> DEFINE t == call[c].token
           apart == call[c].apart /\ (call[c].op # "refresh" \/ tokens[t].apart)
           pw == IF call[c].op = "refresh" THEN tokens[t].pw ELSE call[c].pw
           new == [iat |-> now, pw |-> pw, apart |-> apart]
<1>0. /\ call \in [Tab -> Call] /\ tokens \in Seq(Token) /\ Len(tokens) \in Nat
      /\ DOMAIN tokens = 1..Len(tokens)
      /\ \A d \in Tab : call[d].token \in Nat /\ Fits(d)
  BY TokenType DEF TypeInv, TypeOK, Call
<1>1. /\ UNCHANGED <<now, password, seen>> /\ call[c].at = "Issue"
      /\ tokens' = Append(tokens, new)
      /\ call' = [call EXCEPT ![c].at = "answer", ![c].token = Len(tokens) + 1]
  BY DEF Issue, UserUnchanged
<1>2. /\ call'[c].at = "answer" /\ call'[c].apart = call[c].apart
      /\ \A d \in Tab : d # c => call'[d] = call[d]
  BY <1>0, <1>1 DEF Call
<1>3. new.apart = apart /\ new.pw = pw
  OBVIOUS
<1> HIDE DEF new
<1>4. /\ DOMAIN tokens' = 1..(Len(tokens) + 1) /\ tokens'[Len(tokens) + 1] = new
      /\ \A k \in DOMAIN tokens : tokens'[k] = tokens[k]
  BY <1>0, <1>1
<1>5. Changing' = Changing
  BY <1>0, <1>1, <1>2 DEF Changing
<1>6. apart => pw = password /\ ~Changing
  <2>1. apart => pw = password
    BY <1>1 DEF PasswordInv, IssuesRight
  <2>2. call[c].apart => ~Changing
    BY <1>1 DEF PasswordInv, Changing, Changes
  <2>3. QED
    BY <2>1, <2>2
<1>7. \A k \in DOMAIN tokens' : Standing(k)' => ~Changing' /\ tokens'[k].pw = password'
  <2> SUFFICES ASSUME NEW k \in DOMAIN tokens', Standing(k)'
               PROVE  ~Changing' /\ tokens'[k].pw = password'
    OBVIOUS
  <2>1. CASE k \in DOMAIN tokens
    BY <1>1, <1>4, <1>5, <2>1 DEF PasswordInv, Standing
  <2>2. CASE k = Len(tokens) + 1
    BY <1>1, <1>3, <1>4, <1>5, <1>6, <2>2 DEF Standing
  <2>3. QED
    BY <1>0, <1>4, <2>1, <2>2
<1>8. \A x, d \in Tab : x # d /\ Changes(d)' /\ call'[x].at # "idle" => ~call'[x].apart
  BY ZenonT(60), <1>1, <1>2 DEF PasswordInv, Changes
<1>9. \A d \in Tab : IssuesRight(d)'
  <2>1. IssuesRight(c)'
    BY <1>2 DEF IssuesRight
  <2>2. ASSUME NEW d \in Tab, d # c PROVE IssuesRight(d)'
    <3>1. call[d].at \in {"Claim", "Issue"} /\ call[d].op = "refresh"
            => call[d].token \in DOMAIN tokens
      BY <1>0 DEF Fits, None
    <3>2. call'[d] = call[d] /\ password' = password /\ IssuesRight(d)
      BY <1>1, <1>2, <2>2 DEF PasswordInv
    <3>3. QED
      BY <1>4, <3>1, <3>2 DEF IssuesRight
  <2>3. QED
    BY <2>1, <2>2
<1>10. QED
  BY <1>7, <1>8, <1>9 DEF PasswordInv

\* The claim hands on what the check has seen.
LEMMA ClaimPassword ==
  ASSUME TypeInv, PasswordInv, seen.mark <= now, NEW c \in Tab, Claim(c)
  PROVE  PasswordInv'
<1>0. call \in [Tab -> Call] /\ seen \in Seen
  BY DEF TypeInv, TypeOK
<1>1. /\ UNCHANGED <<now, tokens, password>> /\ call[c].at = "Claim"
      /\ seen'.mark = seen.mark
  BY <1>0 DEF Claim, UserUnchanged, Seen
<1>2. CASE Go(c, "Issue")
  <2>1. /\ call'[c].at = "Issue" /\ call'[c].op = call[c].op /\ call'[c].token = call[c].token
        /\ call'[c].apart = call[c].apart
        /\ \A d \in Tab : d # c => call'[d] = call[d]
    BY <1>0, <1>2, GoCall DEF Step
  <2>2. call[c].op = "refresh"
    BY <1>1 DEF TypeInv, Fits
  <2>3. IssuesRight(c)'
    BY <1>1, <2>1, <2>2 DEF IssuesRight, PasswordInv
  <2>4. Changes(c)' => Changes(c)
    BY <2>1 DEF Changes
  <2>5. QED
    BY <1>1, <2>1, <2>3, <2>4, QuietStep
<1>3. CASE Go(c, "Punish")
  BY <1>1, <1>3, QuietGo DEF Step
<1>4. CASE Refuse(c)
  BY <1>1, <1>4, QuietRefuse
<1>5. QED
  BY <1>2, <1>3, <1>4 DEF Claim

\* The check finds a token that stands.
LEMMA CheckPassword ==
  ASSUME TypeInv, PasswordInv, RevokedInv, EndedStaysEnded, NEW c \in Tab, CheckRevoked(c)
  PROVE  PasswordInv'
<1>0. call \in [Tab -> Call] /\ seen \in Seen /\ seen.mark <= now
  BY DEF TypeInv, TypeOK, RevokedInv
<1>1. UNCHANGED <<now, tokens, password, seen>> /\ call[c].at = "RevokedAfter"
  BY DEF CheckRevoked, RestUnchanged, UserUnchanged
<1>2. CASE Refuse(c)
  BY <1>0, <1>1, <1>2, QuietRefuse
<1>3. CASE ~Refuse(c)
  <2> DEFINE t == call[c].token
  <2>1. /\ call'[c].at = "Claim" /\ call'[c].op = call[c].op /\ call'[c].token = t
        /\ call'[c].apart = call[c].apart
        /\ \A d \in Tab : d # c => call'[d] = call[d]
        /\ Alive(t) /\ ~RevokedAfter(t)
    BY <1>0, <1>3 DEF CheckRevoked, Call
  <2>2. t \in DOMAIN tokens /\ tokens[t].iat \in Nat /\ seen.mark \in Nat
    BY <1>0, <2>1, TokenType DEF TypeInv, TypeOK, Fits, Alive, Call, None, Seen
  <2>3. seen.mark <= tokens[t].iat
    BY <2>1, <2>2 DEF EndedStaysEnded
  <2>4. tokens[t].apart => tokens[t].pw = password
    BY <2>1, <2>2, <2>3 DEF PasswordInv, Standing, Alive
  <2>5. IssuesRight(c)'
    BY <1>1, <2>1, <2>4 DEF IssuesRight
  <2>6. Changes(c)' => Changes(c)
    BY <2>1 DEF Changes
  <2>7. QED
    BY <1>0, <1>1, <2>1, <2>5, <2>6, QuietStep
<1>4. QED
  BY <1>2, <1>3

\* A login goes on with the password of the account.
LEMMA LoginPassword ==
  ASSUME TypeInv, PasswordInv, seen.mark <= now, NEW c \in Tab, GetByEmail(c)
  PROVE  PasswordInv'
<1>1. UNCHANGED <<now, tokens, password, seen>> /\ call[c].at = "GetByEmail"
  BY DEF GetByEmail, RestUnchanged, UserUnchanged
<1>2. CASE Refuse(c)
  BY <1>1, <1>2, QuietRefuse
<1>3. CASE Go(c, "MarkAllRevoked")
  BY <1>1, <1>3, QuietGo DEF Step
<1>4. CASE call[c].op = "login" /\ call[c].pw = password /\ Go(c, "Issue")
  <2>1. /\ call'[c].at = "Issue" /\ call'[c].op = "login" /\ call'[c].pw = password
        /\ call'[c].apart = call[c].apart
        /\ \A d \in Tab : d # c => call'[d] = call[d]
    BY <1>4, GoCall DEF Step, TypeInv, TypeOK
  <2>2. IssuesRight(c)' /\ (Changes(c)' => Changes(c))
    BY <1>1, <2>1 DEF IssuesRight, Changes
  <2>3. QED
    BY <1>1, <2>1, <2>2, QuietStep
<1>5. QED
  BY <1>2, <1>3, <1>4 DEF GetByEmail

LEMMA StepPassword ==
  TypeInv /\ RevokedInv /\ EndedStaysEnded /\ PasswordInv /\ [Next]_vars => PasswordInv'
<1> SUFFICES ASSUME TypeInv, RevokedInv, EndedStaysEnded, PasswordInv, [Next]_vars
             PROVE  PasswordInv'
  OBVIOUS
<1>0. /\ seen.mark <= now /\ seen \in Seen /\ call \in [Tab -> Call]
      /\ \A b \in Browser : cookie[b] \in Nat
  BY TokenType DEF RevokedInv, TypeInv, TypeOK
<1>1. ASSUME NEW c \in Tab, Refresh(c) \/ Logout(c) \/ Retry(c) \/ ResetPassword(c)
      PROVE  PasswordInv'
  <2>1. UNCHANGED <<now, tokens, password, seen>>
    BY <1>1 DEF Refresh, Logout, Retry, ResetPassword, RestUnchanged, UserUnchanged
  <2>2. cookie[home[c]] \in Nat /\ None \in Nat
    BY <1>0, SessionsAssumption DEF None
  <2>3. QED
    BY <1>0, <1>1, <2>1, <2>2, QuietSend
       DEF Refresh, Logout, Retry, ResetPassword, Start, Op, Step
<1>2. ASSUME NEW c \in Tab, NEW op \in {"change", "delete"}, Login(c) \/ Protected(c, op)
      PROVE  PasswordInv'
  <2>1. UNCHANGED <<now, tokens, password, seen>>
    BY <1>2 DEF Login, Protected, RestUnchanged, UserUnchanged
  <2>2. None \in Nat /\ \A p \in 1..password : p \in Nat
    BY DEF None, TypeInv, TypeOK
  <2>3. QED
    BY <1>0, <1>2, <2>1, <2>2, QuietSend DEF Login, Protected, Start, Op, Step
<1>3. ASSUME NEW c \in Tab, Stale(c) \/ GetByID(c) PROVE PasswordInv'
  <2>1. UNCHANGED <<now, tokens, password, seen>> /\ call[c].at # "idle"
    BY <1>3 DEF Stale, GetByID, RestUnchanged, UserUnchanged
  <2>2. Refuse(c) \/ Go(c, "GetByID") \/ Go(c, "MarkAllRevoked")
    BY <1>3 DEF Stale, GetByID
  <2>3. QED
    BY <1>0, <2>1, <2>2, QuietRefuse, QuietGo DEF Step
<1>4. ASSUME NEW c \in Tab, Revoke(c) \/ Lose(c) \/ Answer(c) \/ LoggedOut(c)
      PROVE  PasswordInv'
  <2>1. UNCHANGED <<now, tokens, password>> /\ call[c].at # "idle"
    BY <1>4 DEF Revoke, Lose, Answer, LoggedOut, UserUnchanged
  <2>2. seen'.mark = seen.mark
    <3>1. CASE Revoke(c)
      BY <1>0, <3>1 DEF Revoke, Seen
    <3>2. CASE Lose(c)
      BY <1>0, <3>2 DEF Lose, Seen
    <3>3. QED
      BY <1>4, <3>1, <3>2 DEF Answer, LoggedOut
  <2>3. Done(c) \/ Go(c, "answer")
    BY <1>4 DEF Revoke, Lose, Answer, LoggedOut
  <2>4. QED
    BY <1>0, <2>1, <2>2, <2>3, QuietDone, QuietGo DEF Step
<1>5. ASSUME NEW c \in Tab, Punish(c) PROVE PasswordInv'
  <2>1. UNCHANGED <<now, tokens, password>> /\ call[c].at # "idle" /\ seen'.mark = now
    BY <1>0, <1>5 DEF Punish, UserUnchanged, Marked, Seen
  <2>2. QED
    BY <1>0, <1>5, <2>1, QuietRefuse DEF Punish
<1>6. ASSUME NEW c \in Tab, MarkChanged(c) PROVE PasswordInv'
  <2>1. /\ UNCHANGED <<now, tokens, password>> /\ call[c].at = "MarkChanged"
        /\ seen'.mark = seen.mark /\ Go(c, "Update")
    BY <1>0, <1>6 DEF MarkChanged, UserUnchanged, Seen
  <2>2. QED
    BY <1>0, <2>1, QuietGo DEF Step, Changes
<1>7. ASSUME NEW c \in Tab, \/ CheckRevoked(c) \/ Claim(c) \/ GetByEmail(c)
                            \/ MarkAllRevoked(c) \/ Update(c) \/ Issue(c)
      PROVE  PasswordInv'
  BY <1>0, <1>7, CheckPassword, ClaimPassword, LoginPassword, MarkPassword, UpdatePassword,
     IssuePassword
<1>8. CASE Tick
  <2>1. UNCHANGED <<tokens, password, call>> /\ now' = now + 1 /\ seen'.mark = seen.mark
    BY <1>0, <1>8 DEF Tick, UserUnchanged, Seen
  <2>2. \A t \in DOMAIN tokens : Standing(t)' => Standing(t)
    <3>1. /\ now \in Nat /\ RefreshTTL \in Nat
          /\ \A t \in DOMAIN tokens : tokens[t].iat \in Nat
      BY TokenType, SessionsAssumption DEF TypeInv, TypeOK
    <3>2. QED
      BY <2>1, <3>1 DEF Standing
  <2>3. QED
    BY <2>1, <2>2 DEF PasswordInv, IssuesRight, Changes, Changing
<1>9. CASE UNCHANGED vars
  BY <1>9 DEF vars, PasswordInv, Standing, IssuesRight, Changes, Changing
<1>10. QED
  BY <1>1, <1>2, <1>3, <1>4, <1>5, <1>6, <1>7, <1>8, <1>9 DEF Next

\* Once no password is being changed, a token that still works comes from a
\* session of the current password, unless its session met a change half way:
\* sessions are ended before the password is stored.
THEOREM OldOnesEnd == Spec => []OldPasswordEnds
<1>1. Init => PasswordInv
  <2> SUFFICES ASSUME Init PROVE PasswordInv
    OBVIOUS
  <2>1. \A c \in Tab : call[c] = NoCall
    BY DEF Init
  <2>2. ~Changing /\ \A c \in Tab : IssuesRight(c)
    BY <2>1, NoCallType DEF Changing, IssuesRight
  <2>3. \A t \in DOMAIN tokens : tokens[t].pw = password
    <3> DEFINE first == [iat |-> now, pw |-> password, apart |-> TRUE]
    <3>1. tokens = <<first>> /\ first.pw = password
      BY DEF Init
    <3> HIDE DEF first
    <3>2. QED
      BY <3>1
  <2>4. QED
    BY <2>1, <2>2, <2>3, NoCallType DEF PasswordInv
<1>2. TypeInv /\ RevokedInv /\ EndedStaysEnded /\ PasswordInv => OldPasswordEnds
  <2> SUFFICES ASSUME TypeInv, EndedStaysEnded, PasswordInv, ~Changing,
                      NEW t \in DOMAIN tokens, Alive(t), ~RevokedAfter(t), tokens[t].apart
               PROVE  tokens[t].pw = password
    BY DEF OldPasswordEnds
  <2>1. seen.mark \in Nat /\ tokens[t].iat \in Nat
    BY TokenType DEF TypeInv, TypeOK, Seen
  <2>2. seen.mark <= tokens[t].iat
    BY <2>1 DEF EndedStaysEnded
  <2>3. QED
    BY <2>2 DEF PasswordInv, Standing, Alive
<1>3. QED
  BY <1>1, <1>2, StepPassword, RevokedHolds, EndedForGood, PTL DEF Spec
-----------------------------------------------------------------------------
(* False alarms.                                                           *)

\* The answer of c hands out a token that nobody has seen yet.
Pending(c) == call[c].at = "answer" /\ call[c].op # "logout"

\* c presents a token, and it is not decided yet whether for the first time.
Presents(c) == call[c].op = "refresh" /\ call[c].at \in {"RevokedAfter", "Claim"}

\* The answer of c will put another token, or none, into the jar of its browser.
Replaces(c) == call[c].op \in {"refresh", "logout"} /\ call[c].at \in {"Issue", "answer"}

\* There is a key for t in the blacklist.
Used(t) == spent[t].at # None

\* A token is in one jar, and presented by the tabs of one browser.
OneBrowserEach ==
  /\ \A b \in Browser : cookie[b] # None =>
       /\ \A a \in Browser : a # b => cookie[a] # cookie[b]
       /\ \A c \in Tab : home[c] # b => call[c].token # cookie[b]
  /\ \A c, d \in Tab :
       home[c] # home[d] /\ call[c].token # None => call[d].token # call[c].token

\* A token that was not handed out yet is in no jar, with no other tab, and was
\* not presented.
PendingNew ==
  /\ \A t \in 1..MaxTokens : Used(t) => t <= Len(tokens) /\ spent[t].at <= now
  /\ \A c \in Tab : Pending(c) =>
       /\ ~Used(call[c].token)
       /\ \A b \in Browser : cookie[b] # call[c].token
       /\ \A d \in Tab : d # c => call[d].token # call[c].token

\* Requests of a browser without a slow exchange are not older than Slow.
OnTime ==
  \A c \in Tab : ~Idle(c) =>
    /\ call[c].since <= now
    /\ home[c] \notin seen.tardy => now <= call[c].since + Slow

\* While a jar has a token that was used already, its successor is on its way,
\* with the answer to a request that was sent before the use.
JarOnTime ==
  \A b \in Browser \ seen.tardy : cookie[b] # None /\ Used(cookie[b]) =>
    \E c \in Tab : home[c] = b /\ Replaces(c) /\ call[c].since <= spent[cookie[b]].at

\* So whoever presents such a token has found it in the jar soon after its use.
AskedOnTime ==
  \A c \in Tab :
    Presents(c) /\ home[c] \notin seen.tardy /\ call[c].token # None /\ Used(call[c].token)
      => call[c].since <= spent[call[c].token].at + Slow

AlarmInv ==
  /\ \A c \in Tab : call[c].at = "Revoke" => call[c].op = "logout"
  /\ OneBrowserEach /\ PendingNew /\ OnTime /\ JarOnTime /\ AskedOnTime /\ NoFalseAlarm

\* The request of d is what it was, as far as the invariant speaks of it.
Kept(d) ==
  /\ call'[d].at = call[d].at /\ call'[d].op = call[d].op
  /\ call'[d].token = call[d].token /\ call'[d].since = call[d].since

LEMMA ClockTypes ==
  ASSUME TypeInv
  PROVE  /\ now \in Nat /\ now # 0 /\ Slow \in Nat /\ Grace \in Nat /\ 2 * Slow <= Grace
         /\ MaxTokens \in Nat /\ Len(tokens) \in Nat /\ Len(tokens) <= MaxTokens
BY TokenType, SessionsAssumption DEF TypeInv, TypeOK

LEMMA KeyTypes ==
  ASSUME TypeInv
  PROVE  \A t \in 1..MaxTokens : spent[t].at \in Nat /\ spent[t].until \in Nat
BY DEF TypeInv, TypeOK, Key

LEMMA JarTypes ==
  ASSUME TypeInv, NEW b \in Browser
  PROVE  /\ cookie[b] \in Nat /\ cookie[b] <= Len(tokens)
         /\ cookie[b] # None => cookie[b] \in 1..MaxTokens
<1>1. cookie[b] \in 0..Len(tokens)
  BY DEF TypeInv, TypeOK
<1>2. QED
  BY <1>1, ClockTypes DEF None

LEMMA CallTypes ==
  ASSUME TypeInv, NEW c \in Tab
  PROVE  /\ call[c].since \in Nat /\ call[c].token \in Nat
         /\ call[c].token <= Len(tokens) /\ home[c] \in Browser
         /\ call[c].token # None => call[c].token \in 1..MaxTokens
<1>1. call[c] \in Call /\ call[c].token <= Len(tokens) /\ home[c] \in Browser
  BY SessionsAssumption DEF TypeInv, TypeOK
<1>2. call[c].since \in Nat /\ call[c].token \in Nat
  BY <1>1 DEF Call
<1>3. QED
  BY <1>1, <1>2, ClockTypes DEF None

\* A step of c that leaves jars and blacklist alone, and neither presents a token
\* nor gives up a successor that is on its way, unless it makes the browser tardy.
LEMMA PlainStep ==
  ASSUME TypeInv, AlarmInv, NEW c \in Tab, UNCHANGED <<now, cookie, spent>>,
         Len(tokens') = Len(tokens), seen.tardy \subseteq seen'.tardy,
         \A d \in Tab : d # c => Kept(d),
         \/ call'[c] = NoCall
         \/ /\ call'[c].token = call[c].token /\ call'[c].op = call[c].op
            /\ call'[c].since = call[c].since /\ ~Idle(c)
            /\ Presents(c)' => Presents(c)
            /\ Pending(c)' => Pending(c)
            /\ call'[c].at # "Revoke"
            /\ call'[c].at = "Punish" => home[c] \in seen'.tardy,
         Replaces(c) => Replaces(c)' \/ home[c] \in seen'.tardy
  PROVE  AlarmInv'
<1>0. /\ NoCall.at = "idle" /\ NoCall.token = None /\ NoCall.op = "refresh"
  BY NoCallType
<1>1. \A d \in Tab : call'[d].token = call[d].token \/ call'[d].token = None
  BY <1>0 DEF Kept
<1>2. \A d \in Tab : /\ (Presents(d)' => Presents(d) /\ call'[d].since = call[d].since
                                         /\ call'[d].token = call[d].token)
                     /\ (Pending(d)' => Pending(d) /\ call'[d].token = call[d].token)
                     /\ (~Idle(d)' => ~Idle(d) /\ call'[d].since = call[d].since)
                     /\ (Replaces(d) => \/ Replaces(d)' /\ call'[d].since = call[d].since
                                        \/ home[d] \in seen'.tardy)
  BY <1>0 DEF Kept, Presents, Pending, Replaces, Idle
<1>3. \A d \in Tab : (call'[d].at = "Revoke" => call'[d].op = "logout")
                     /\ (call'[d].at = "Punish" => home[d] \in seen'.tardy)
  BY <1>0 DEF Kept, AlarmInv, NoFalseAlarm
<1>4. OneBrowserEach'
  BY <1>1 DEF AlarmInv, OneBrowserEach
<1>5. PendingNew'
  <2>1. \A d \in Tab : Pending(d) => call[d].token # None
    BY DEF TypeInv, Fits, Pending
  <2>2. QED
    BY <1>1, <1>2, <2>1 DEF AlarmInv, PendingNew, Used
<1>6. OnTime'
  BY <1>2 DEF AlarmInv, OnTime
<1>7. JarOnTime'
  <2> SUFFICES ASSUME NEW b \in Browser \ seen'.tardy, cookie[b] # None, Used(cookie[b])
               PROVE  \E d \in Tab : /\ home[d] = b /\ Replaces(d)'
                                     /\ call'[d].since <= spent[cookie[b]].at
    BY DEF JarOnTime, Used
  <2>1. PICK d \in Tab : home[d] = b /\ Replaces(d) /\ call[d].since <= spent[cookie[b]].at
    BY DEF AlarmInv, JarOnTime
  <2>2. QED
    BY <1>2, <2>1
<1>8. AskedOnTime'
  BY <1>2 DEF AlarmInv, AskedOnTime, Used
<1>9. QED
  BY <1>3, <1>4, <1>5, <1>6, <1>7, <1>8 DEF AlarmInv, NoFalseAlarm

\* A request is sent, with the token of the jar or without one.
LEMMA SendAlarm ==
  ASSUME TypeInv, AlarmInv, NEW c \in Tab, UNCHANGED <<now, cookie, spent, tokens, seen>>,
         call[c].at \in {"idle", "refused"}, NEW op \in Op,
         NEW at \in {"RevokedAfter", "GetByEmail", "Revoke", "Stale"},
         NEW token \in {None, cookie[home[c]]}, NEW pw \in Nat, NEW retry \in BOOLEAN,
         at = "Revoke" => op = "logout",
         Send(c, op, at, token, pw, retry)
  PROVE  AlarmInv'
<1>0. /\ now \in Nat /\ Slow \in Nat /\ home[c] \in Browser /\ token \in Nat
      /\ \A d \in Tab : call[d].since \in Nat
      /\ \A t \in 1..MaxTokens : spent[t].at \in Nat
      /\ cookie[home[c]] # None => cookie[home[c]] \in 1..MaxTokens
  <2>1. None \in Nat
    BY DEF None
  <2>2. QED
    BY <2>1, ClockTypes, KeyTypes, JarTypes, CallTypes
<1>1. /\ call'[c].at = at /\ call'[c].op = op /\ call'[c].token = token
      /\ call'[c].since = now
      /\ \A d \in Tab : d # c => call'[d] = call[d]
  BY <1>0, SendCall DEF TypeInv, TypeOK, Step
<1>2. /\ ~Replaces(c) /\ ~Pending(c)' /\ at # "Punish" /\ at # "idle"
  BY <1>1 DEF Replaces, Pending
<1>3. OneBrowserEach'
  BY <1>0, <1>1 DEF AlarmInv, OneBrowserEach
<1>4. PendingNew'
  <2>1. \A d \in Tab : Pending(d) => call[d].token # None /\ call[d].token # token
    BY <1>0 DEF TypeInv, Fits, Pending, AlarmInv, PendingNew
  <2>2. \A d \in Tab : Pending(d)' => d # c /\ Pending(d)
    BY <1>1, <1>2 DEF Pending
  <2>3. QED
    BY <1>1, <2>1, <2>2 DEF AlarmInv, PendingNew, Used
<1>5. OnTime'
  BY <1>0, <1>1 DEF AlarmInv, OnTime, Idle
<1>6. JarOnTime'
  <2> SUFFICES ASSUME NEW b \in Browser \ seen.tardy, cookie[b] # None, Used(cookie[b])
               PROVE  \E d \in Tab : /\ home[d] = b /\ Replaces(d)'
                                     /\ call'[d].since <= spent[cookie[b]].at
    BY DEF JarOnTime, Used
  <2>1. PICK d \in Tab : home[d] = b /\ Replaces(d) /\ call[d].since <= spent[cookie[b]].at
    BY DEF AlarmInv, JarOnTime
  <2>2. d # c /\ Replaces(d)'
    BY <1>1, <1>2, <2>1 DEF Replaces
  <2>3. QED
    BY <1>1, <2>1, <2>2
<1>7. AskedOnTime'
  <2>1. ASSUME home[c] \notin seen.tardy, token # None, Used(token)
        PROVE  now <= spent[token].at + Slow
    <3>1. token = cookie[home[c]] /\ token \in 1..MaxTokens
      BY <1>0, <2>1
    <3>2. PICK d \in Tab : /\ home[d] = home[c] /\ Replaces(d)
                           /\ call[d].since <= spent[token].at
      BY <1>0, <2>1, <3>1 DEF AlarmInv, JarOnTime
    <3>3. now <= call[d].since + Slow
      BY <2>1, <3>2 DEF AlarmInv, OnTime, Replaces, Idle
    <3>4. QED
      BY <1>0, <3>1, <3>2, <3>3
  <2>2. QED
    BY <1>1, <2>1 DEF AlarmInv, AskedOnTime, Presents, Used
<1>8. QED
  BY <1>1, <1>2, <1>3, <1>4, <1>5, <1>6, <1>7 DEF AlarmInv, NoFalseAlarm

\* Token t is used now, and the request that used it goes on to its answer.
LEMMA UseAlarm ==
  ASSUME TypeInv, AlarmInv, NEW c \in Tab, UNCHANGED <<now, cookie, tokens>>,
         seen'.tardy = seen.tardy, ~Idle(c), ~Pending(c),
         NEW t \in 1..Len(tokens), t = call[c].token,
         spent'[t].at = now, \A k \in 1..MaxTokens : k # t => spent'[k] = spent[k],
         NEW at \in {"Issue", "answer"}, Go(c, at), Replaces(c)', ~Pending(c)'
  PROVE  AlarmInv'
<1>0. /\ now \in Nat /\ now # 0 /\ Slow \in Nat /\ MaxTokens \in Nat /\ t \in 1..MaxTokens
      /\ t # None
      /\ \A d \in Tab : /\ call[d].since \in Nat
                        /\ call[d].token # None => call[d].token \in 1..MaxTokens
      /\ \A k \in 1..MaxTokens : spent[k].at \in Nat
      /\ \A b \in Browser : cookie[b] # None => cookie[b] \in 1..MaxTokens
  <2>1. t \in 1..MaxTokens /\ t # None
    BY ClockTypes DEF None
  <2>2. QED
    BY <2>1, ClockTypes, KeyTypes, JarTypes, CallTypes
<1>1. /\ call'[c].at = at /\ call'[c].op = call[c].op /\ call'[c].token = t
      /\ call'[c].since = call[c].since
      /\ \A d \in Tab : d # c => call'[d] = call[d]
  BY GoCall DEF TypeInv, TypeOK, Step
<1>2. OneBrowserEach'
  BY <1>1 DEF AlarmInv, OneBrowserEach
<1>3. PendingNew'
  <2>1. \A k \in 1..MaxTokens : Used(k)' => k <= Len(tokens') /\ spent'[k].at <= now'
    BY <1>0 DEF AlarmInv, PendingNew, Used
  <2>2. \A d \in Tab : Pending(d)' => d # c /\ Pending(d) /\ call[d].token # t
    BY <1>1 DEF Pending, AlarmInv, PendingNew
  <2>3. \A d \in Tab : Pending(d) => call[d].token \in 1..MaxTokens
    BY <1>0 DEF TypeInv, Fits, Pending
  <2>4. \A d \in Tab : Pending(d)' => ~Used(call[d].token)'
    BY <1>1, <2>2, <2>3 DEF AlarmInv, PendingNew, Used
  <2>5. \A d \in Tab : call'[d].token = call[d].token
    BY <1>1
  <2>6. QED
    BY <2>1, <2>2, <2>4, <2>5 DEF AlarmInv, PendingNew
<1>4. OnTime'
  BY <1>1 DEF AlarmInv, OnTime, Idle
<1>5. JarOnTime'
  <2> SUFFICES ASSUME NEW b \in Browser \ seen.tardy, cookie[b] # None, Used(cookie[b])'
               PROVE  \E d \in Tab : /\ home[d] = b /\ Replaces(d)'
                                     /\ call'[d].since <= spent'[cookie[b]].at
    BY DEF JarOnTime, Used
  <2>1. CASE cookie[b] = t
    <3>1. home[c] = b
      BY <2>1 DEF AlarmInv, OneBrowserEach
    <3>2. call[c].since <= now
      BY DEF AlarmInv, OnTime
    <3>3. QED
      BY <1>1, <2>1, <3>1, <3>2
  <2>2. CASE cookie[b] # t
    <3>1. spent'[cookie[b]] = spent[cookie[b]]
      BY <1>0, <2>2
    <3>2. PICK d \in Tab : /\ home[d] = b /\ Replaces(d)
                           /\ call[d].since <= spent[cookie[b]].at
      BY <3>1 DEF AlarmInv, JarOnTime, Used
    <3>3. QED
      BY <1>1, <3>1, <3>2 DEF Replaces
  <2>3. QED
    BY <2>1, <2>2
<1>6. AskedOnTime'
  <2> SUFFICES ASSUME NEW d \in Tab, Presents(d)', home[d] \notin seen.tardy,
                      call'[d].token # None, Used(call[d].token)'
               PROVE  call'[d].since <= spent'[call'[d].token].at + Slow
    BY DEF AskedOnTime, Used
  <2>1. d # c /\ call'[d] = call[d] /\ Presents(d)
    BY <1>1 DEF Presents
  <2>2. CASE call[d].token = t
    <3>1. call[d].since <= now
      BY <2>1 DEF AlarmInv, OnTime, Presents, Idle
    <3>2. QED
      BY <1>0, <2>1, <2>2, <3>1
  <2>3. CASE call[d].token # t
    BY <1>0, <2>1, <2>3 DEF AlarmInv, AskedOnTime, Used
  <2>4. QED
    BY <2>2, <2>3
<1>7. QED
  BY <1>1, <1>2, <1>3, <1>4, <1>5, <1>6 DEF AlarmInv, NoFalseAlarm

\* What a step that only moves the request on, or ends it, has to show.
LEMMA DoneAlarm ==
  ASSUME TypeInv, AlarmInv, NEW c \in Tab, UNCHANGED <<now, cookie, spent, tokens>>,
         seen.tardy \subseteq seen'.tardy, Done(c),
         Replaces(c) => home[c] \in seen'.tardy
  PROVE  AlarmInv'
<1>1. call'[c] = NoCall /\ \A d \in Tab : d # c => call'[d] = call[d]
  BY DoneCall DEF TypeInv, TypeOK
<1>2. QED
  BY <1>1, PlainStep DEF Kept

LEMMA GoAlarm ==
  ASSUME TypeInv, AlarmInv, NEW c \in Tab, UNCHANGED <<now, cookie, spent, tokens>>,
         seen.tardy \subseteq seen'.tardy, ~Idle(c), ~Replaces(c),
         NEW at \in Step \ {"answer", "Revoke", "Punish"}, Go(c, at),
         at \in {"RevokedAfter", "Claim"} => Presents(c)
  PROVE  AlarmInv'
<1>1. /\ call'[c].at = at /\ call'[c].op = call[c].op
      /\ call'[c].token = call[c].token /\ call'[c].since = call[c].since
      /\ \A d \in Tab : d # c => call'[d] = call[d]
  BY GoCall DEF TypeInv, TypeOK
<1>2. (Presents(c)' => Presents(c)) /\ ~Pending(c)'
  BY <1>1 DEF Presents, Pending
<1>3. QED
  BY <1>1, <1>2, PlainStep DEF Kept

LEMMA RefuseAlarm ==
  ASSUME TypeInv, AlarmInv, NEW c \in Tab, UNCHANGED <<now, cookie, spent, tokens>>,
         seen.tardy \subseteq seen'.tardy, ~Idle(c), ~Replaces(c), Refuse(c)
  PROVE  AlarmInv'
BY GoAlarm, DoneAlarm DEF Refuse, Step

\* A token is issued, with a number of its own.
LEMMA IssueAlarm ==
  ASSUME TypeInv, AlarmInv, NEW c \in Tab, Issue(c)
  PROVE  AlarmInv'
<1> DEFINE n == Len(tokens) + 1
<1>0. /\ n \in 1..MaxTokens /\ n # None
      /\ \A d \in Tab : call[d].token \in Nat /\ call[d].token # n
      /\ \A b \in Browser : cookie[b] # n
  <2>1. Len(tokens) < MaxTokens
    BY DEF Issue
  <2>2. n \in 1..MaxTokens /\ n # None /\ \A k \in Nat : k <= Len(tokens) => k # n
    BY <2>1, ClockTypes DEF None
  <2>3. QED
    BY <2>2, JarTypes, CallTypes
<1>1. /\ UNCHANGED <<now, cookie, spent, seen>> /\ call[c].at = "Issue"
      /\ call'[c].at = "answer" /\ call'[c].op = call[c].op /\ call'[c].token = n
      /\ call'[c].since = call[c].since
      /\ \A d \in Tab : d # c => call'[d] = call[d]
  BY DEF Issue, KeysUnchanged, ClientUnchanged, TypeInv, TypeOK, Call
<1>2. Len(tokens) \in Nat /\ Len(tokens') = n
  BY DEF Issue, TypeInv, TypeOK
<1>3. ~Used(n)
  BY <1>0, <1>2 DEF AlarmInv, PendingNew
<1>4. OneBrowserEach'
  BY <1>0, <1>1 DEF AlarmInv, OneBrowserEach
<1>5. PendingNew'
  <2>1. \A t \in 1..MaxTokens : Used(t)' => t <= Len(tokens') /\ spent'[t].at <= now'
    BY <1>1, <1>2 DEF AlarmInv, PendingNew, Used
  <2>2. \A d \in Tab : d # c /\ Pending(d)' => Pending(d)
    BY <1>1 DEF Pending
  <2>3. QED
    BY <1>0, <1>1, <1>3, <2>1, <2>2 DEF AlarmInv, PendingNew, Used
<1>6. OnTime'
  BY <1>1 DEF AlarmInv, OnTime, Idle
<1>7. JarOnTime'
  <2>1. \A d \in Tab : Replaces(d) => Replaces(d)' /\ call'[d].since = call[d].since
    BY <1>1 DEF Replaces
  <2>2. QED
    BY <1>1, <2>1 DEF AlarmInv, JarOnTime, Used
<1>8. AskedOnTime'
  BY <1>1 DEF AlarmInv, AskedOnTime, Presents, Used
<1>9. QED
  BY <1>1, <1>4, <1>5, <1>6, <1>7, <1>8 DEF AlarmInv, NoFalseAlarm

\* An answer fills the jar with a token that was not used yet, or empties it.
LEMMA JarAlarm ==
  ASSUME TypeInv, AlarmInv, NEW c \in Tab, UNCHANGED <<now, spent, tokens, seen>>, Done(c),
         NEW t \in Nat, cookie' = [cookie EXCEPT ![home[c]] = t],
         t = None \/ (Pending(c) /\ t = call[c].token)
  PROVE  AlarmInv'
<1>0. NoCall.at = "idle" /\ NoCall.token = None
  BY NoCallType
<1>1. call'[c] = NoCall /\ \A d \in Tab : d # c => call'[d] = call[d]
  BY DoneCall DEF TypeInv, TypeOK
<1>2. /\ cookie'[home[c]] = t
      /\ \A b \in Browser : b # home[c] => cookie'[b] = cookie[b]
      /\ home[c] \in Browser
  BY CallTypes DEF TypeInv, TypeOK
<1>3. t # None => /\ ~Used(t)
                  /\ \A b \in Browser : cookie[b] # t
                  /\ \A d \in Tab : d # c => call[d].token # t
  BY DEF AlarmInv, PendingNew
<1>4. /\ ~Replaces(c)' /\ ~Presents(c)' /\ ~Pending(c)' /\ Idle(c)'
      /\ call'[c].at # "Revoke" /\ call'[c].at # "Punish"
  BY <1>0, <1>1 DEF Replaces, Presents, Pending, Idle
<1>5. OneBrowserEach'
  BY <1>0, <1>1, <1>2, <1>3 DEF AlarmInv, OneBrowserEach
<1>6. PendingNew'
  <2>1. \A d \in Tab : Pending(d)' => d # c /\ Pending(d)
    BY <1>1, <1>4 DEF Pending
  <2>2. \A d \in Tab : d # c /\ Pending(d) => call[d].token # None /\ call[d].token # t
    BY <1>3 DEF TypeInv, Fits, Pending
  <2>3. \A d \in Tab : Pending(d)' =>
          /\ ~Used(call[d].token)' /\ call'[d] = call[d]
          /\ \A b \in Browser : cookie'[b] # call[d].token
          /\ \A e \in Tab : e # d => call'[e].token # call[d].token
    BY <1>0, <1>1, <1>2, <2>1, <2>2 DEF AlarmInv, PendingNew, Used
  <2>4. \A k \in 1..MaxTokens : Used(k)' => k <= Len(tokens') /\ spent'[k].at <= now'
    BY DEF AlarmInv, PendingNew, Used
  <2>5. QED
    BY <2>3, <2>4 DEF PendingNew, Used
<1>7. OnTime'
  BY <1>1, <1>4 DEF AlarmInv, OnTime, Idle
<1>8. JarOnTime'
  <2> SUFFICES ASSUME NEW b \in Browser \ seen.tardy, cookie'[b] # None, Used(cookie'[b])
               PROVE  \E d \in Tab : /\ home[d] = b /\ Replaces(d)'
                                     /\ call'[d].since <= spent[cookie'[b]].at
    BY DEF JarOnTime, Used
  <2>1. b # home[c] /\ cookie'[b] = cookie[b]
    BY <1>2, <1>3
  <2>2. PICK d \in Tab : home[d] = b /\ Replaces(d) /\ call[d].since <= spent[cookie[b]].at
    BY <2>1 DEF AlarmInv, JarOnTime
  <2>3. QED
    BY <1>1, <2>1, <2>2 DEF Replaces
<1>9. AskedOnTime'
  BY <1>1, <1>4 DEF AlarmInv, AskedOnTime, Presents, Used
<1>10. QED
  BY <1>1, <1>4, <1>5, <1>6, <1>7, <1>8, <1>9 DEF AlarmInv, NoFalseAlarm

LEMMA TickAlarm ==
  ASSUME TypeInv, AlarmInv, Tick
  PROVE  AlarmInv'
<1> DEFINE slow == {b \in Browser : \E c \in Tab :
                      home[c] = b /\ ~Idle(c) /\ now + 1 > call[c].since + Slow}
<1>1. /\ now' = now + 1 /\ UNCHANGED <<tokens, call, cookie>>
      /\ \A t \in 1..MaxTokens : spent'[t] = Expire(spent[t], now + 1)
      /\ seen'.tardy = seen.tardy \union slow
  BY DEF Tick, TypeInv, TypeOK, Seen
<1>2. \A t \in 1..MaxTokens : spent'[t].at # None => spent'[t] = spent[t]
  BY <1>1 DEF Expire, NoKey, None
<1>3. OneBrowserEach'
  BY <1>1 DEF AlarmInv, OneBrowserEach
<1>4. PendingNew'
  <2>1. \A t \in 1..MaxTokens : Used(t)' => t <= Len(tokens') /\ spent'[t].at <= now'
    BY <1>1, <1>2, ClockTypes, KeyTypes DEF AlarmInv, PendingNew, Used
  <2>2. ASSUME NEW c \in Tab, Pending(c)
        PROVE  /\ ~Used(call[c].token)'
               /\ \A b \in Browser : cookie[b] # call[c].token
               /\ \A d \in Tab : d # c => call[d].token # call[c].token
    <3>1. call[c].token \in 1..MaxTokens
      BY <2>2, CallTypes DEF TypeInv, Fits, Pending
    <3>2. QED
      BY <1>1, <1>2, <2>2, <3>1 DEF AlarmInv, PendingNew, Used
  <2>3. QED
    BY <1>1, <2>1, <2>2 DEF PendingNew, Pending, Used
<1>5. OnTime'
  <2> SUFFICES ASSUME NEW c \in Tab, ~Idle(c)
               PROVE  /\ call[c].since <= now + 1
                      /\ home[c] \notin seen'.tardy => now + 1 <= call[c].since + Slow
    BY <1>1 DEF OnTime, Idle
  <2>1. call[c].since <= now /\ call[c].since \in Nat /\ home[c] \in Browser
    BY CallTypes DEF AlarmInv, OnTime
  <2>2. home[c] \notin seen'.tardy => ~(now + 1 > call[c].since + Slow)
    BY <1>1, <2>1
  <2>3. QED
    BY <2>1, <2>2, ClockTypes
<1>6. JarOnTime'
  <2> SUFFICES ASSUME NEW b \in Browser \ seen'.tardy, cookie[b] # None, Used(cookie[b])'
               PROVE  \E d \in Tab : /\ home[d] = b /\ Replaces(d)
                                     /\ call[d].since <= spent'[cookie[b]].at
    BY <1>1 DEF JarOnTime, Used, Replaces
  <2>1. cookie[b] \in 1..MaxTokens /\ b \notin seen.tardy
    BY <1>1, JarTypes
  <2>2. Used(cookie[b]) /\ spent'[cookie[b]] = spent[cookie[b]]
    BY <1>1, <1>2, <2>1 DEF Used
  <2>3. QED
    BY <2>1, <2>2 DEF AlarmInv, JarOnTime
<1>7. AskedOnTime'
  <2> SUFFICES ASSUME NEW c \in Tab, Presents(c), home[c] \notin seen'.tardy,
                      call[c].token # None, Used(call[c].token)'
               PROVE  call[c].since <= spent'[call[c].token].at + Slow
    BY <1>1 DEF AskedOnTime, Used, Presents
  <2>1. call[c].token \in 1..MaxTokens /\ home[c] \notin seen.tardy
    BY <1>1, CallTypes
  <2>2. QED
    BY <1>1, <1>2, <2>1 DEF AlarmInv, AskedOnTime, Used
<1>8. QED
  BY <1>1, <1>3, <1>4, <1>5, <1>6, <1>7 DEF AlarmInv, NoFalseAlarm

\* The first command of an exchange that may punish: only a slow one is late.
LEMMA ClaimAlarm ==
  ASSUME TypeInv, AlarmInv, NEW c \in Tab, Claim(c)
  PROVE  AlarmInv'
<1> DEFINE t == call[c].token
<1>0. /\ call[c].at = "Claim" /\ call[c].op = "refresh" /\ Presents(c)
      /\ t # None /\ t \in 1..MaxTokens /\ t \in 1..Len(tokens) /\ ~Idle(c) /\ ~Replaces(c)
      /\ ~Pending(c)
  <2>1. call[c].at = "Claim" /\ call[c].op = "refresh" /\ t # None
    BY DEF Claim, TypeInv, Fits
  <2>2. t \in 1..MaxTokens /\ t \in 1..Len(tokens)
    BY <2>1, CallTypes, ClockTypes DEF None
  <2>3. QED
    BY <2>1, <2>2 DEF Presents, Idle, Replaces, Pending
<1>1. UNCHANGED <<now, cookie, tokens>>
  BY DEF Claim, ClientUnchanged
<1>2. CASE Spent(t) /\ UNCHANGED <<spent, seen>> /\ now - Get(spent[t]) > Grace
           /\ Go(c, "Punish")
  <2>1. Used(t) /\ Get(spent[t]) = spent[t].at
    BY <1>2 DEF Spent, Get, Used
  <2>2. home[c] \in seen.tardy
    <3> SUFFICES ASSUME home[c] \notin seen.tardy PROVE FALSE
      OBVIOUS
    <3>1. call[c].since <= spent[t].at + Slow
      BY <1>0, <2>1 DEF AlarmInv, AskedOnTime
    <3>2. now <= call[c].since + Slow
      BY <1>0 DEF AlarmInv, OnTime
    <3>3. spent[t].at \in Nat /\ call[c].since \in Nat
      BY <1>0, KeyTypes, CallTypes
    <3>4. \A n, a, s, w, g \in Nat :
            s <= a + w /\ n <= s + w /\ 2 * w <= g => ~(n - a > g)
      OBVIOUS
    <3>5. QED
      BY <1>2, <2>1, <3>1, <3>2, <3>3, <3>4, ClockTypes
  <2>3. /\ call'[c].at = "Punish" /\ call'[c].op = call[c].op
        /\ call'[c].token = call[c].token /\ call'[c].since = call[c].since
        /\ \A d \in Tab : d # c => call'[d] = call[d]
    BY <1>2, GoCall DEF TypeInv, TypeOK, Step
  <2>4. ~Presents(c)' /\ ~Pending(c)'
    BY <2>3 DEF Presents, Pending
  <2>5. QED
    BY <1>0, <1>1, <1>2, <2>2, <2>3, <2>4, PlainStep DEF Kept
<1>3. CASE UNCHANGED <<spent, seen>> /\ Refuse(c)
  BY <1>0, <1>1, <1>3, RefuseAlarm
<1>4. CASE /\ ~Spent(t) /\ Go(c, "Issue") /\ spent' = [spent EXCEPT ![t] = SetKey(call[c].ttl)]
           /\ seen' = [seen EXCEPT !.gone = @ \union {t}]
  <2>1. /\ spent'[t].at = now /\ \A k \in 1..MaxTokens : k # t => spent'[k] = spent[k]
        /\ seen'.tardy = seen.tardy
    BY <1>0, <1>4 DEF SetKey, TypeInv, TypeOK, Seen
  <2>2. call'[c].at = "Issue" /\ call'[c].op = "refresh"
    BY <1>0, <1>4, GoCall DEF TypeInv, TypeOK, Step
  <2>3. Replaces(c)' /\ ~Pending(c)'
    BY <2>2 DEF Replaces, Pending
  <2>4. QED
    BY <1>0, <1>1, <1>4, <2>1, <2>3, UseAlarm
<1>5. QED
  BY <1>2, <1>3, <1>4 DEF Claim

LEMMA RevokeAlarm ==
  ASSUME TypeInv, AlarmInv, NEW c \in Tab, Revoke(c)
  PROVE  AlarmInv'
<1> DEFINE t == call[c].token
<1>1. /\ UNCHANGED <<now, cookie, tokens>> /\ call[c].at = "Revoke" /\ call[c].op = "logout"
      /\ ~Idle(c) /\ ~Pending(c) /\ ~Replaces(c)
  BY DEF Revoke, AlarmInv, Idle, Pending, Replaces
<1>2. CASE Alive(t)
  <2>1. t \in 1..Len(tokens) /\ t \in 1..MaxTokens
    BY <1>2, CallTypes, ClockTypes DEF Alive, None
  <2>2. /\ spent' = [spent EXCEPT ![t] = SetKey(tokens[t].iat + RefreshTTL - now)]
        /\ seen' = [seen EXCEPT !.gone = @ \union {t}] /\ Go(c, "answer")
    BY <1>2 DEF Revoke
  <2>3. /\ spent'[t].at = now /\ \A k \in 1..MaxTokens : k # t => spent'[k] = spent[k]
        /\ seen'.tardy = seen.tardy
    BY <2>1, <2>2 DEF SetKey, TypeInv, TypeOK, Seen
  <2>4. call'[c].at = "answer" /\ call'[c].op = "logout"
    BY <1>1, <2>2, GoCall DEF TypeInv, TypeOK, Step
  <2>5. Replaces(c)' /\ ~Pending(c)'
    BY <2>4 DEF Replaces, Pending
  <2>6. QED
    BY <1>1, <2>1, <2>2, <2>3, <2>5, UseAlarm
<1>3. CASE ~Alive(t)
  BY <1>1, <1>3, DoneAlarm DEF Revoke
<1>4. QED
  BY <1>2, <1>3

LEMMA StepAlarm == TypeInv /\ AlarmInv /\ [Next]_vars => AlarmInv'
<1> SUFFICES ASSUME TypeInv, AlarmInv, [Next]_vars PROVE AlarmInv'
  OBVIOUS
<1>0. call \in [Tab -> Call] /\ seen \in Seen /\ password \in Nat
  BY DEF TypeInv, TypeOK
<1>1. ASSUME NEW c \in Tab, Refresh(c) \/ Logout(c) \/ Retry(c) PROVE AlarmInv'
  <2>1. UNCHANGED <<now, cookie, spent, tokens, seen>>
    BY <1>1 DEF Refresh, Logout, Retry, RestUnchanged, KeysUnchanged, ClientUnchanged
  <2>2. QED
    BY <1>1, <2>1, SendAlarm DEF Refresh, Logout, Retry, Start, Idle, Op
<1>2. ASSUME NEW c \in Tab, NEW op \in {"change", "delete"},
             Login(c) \/ Protected(c, op) \/ ResetPassword(c)
      PROVE  AlarmInv'
  <2>1. UNCHANGED <<now, cookie, spent, tokens, seen>>
    BY <1>2 DEF Login, Protected, ResetPassword, RestUnchanged, KeysUnchanged, ClientUnchanged
  <2>2. \A p \in 1..password : p \in Nat
    BY <1>0
  <2>3. QED
    BY <1>2, <2>1, <2>2, SendAlarm DEF Login, Protected, ResetPassword, Start, Idle, Op
<1>3. ASSUME NEW c \in Tab, CheckRevoked(c) PROVE AlarmInv'
  <2>1. /\ UNCHANGED <<now, cookie, spent, tokens, seen>> /\ ~Idle(c) /\ ~Replaces(c)
        /\ Presents(c)
    BY <1>3 DEF CheckRevoked, RestUnchanged, KeysUnchanged, ClientUnchanged, Idle, Replaces,
       Presents, TypeInv, Fits
  <2>2. CASE Refuse(c)
    BY <2>1, <2>2, RefuseAlarm
  <2>3. CASE ~Refuse(c)
    <3>1. /\ call'[c].at = "Claim" /\ call'[c].op = call[c].op
          /\ call'[c].token = call[c].token /\ call'[c].since = call[c].since
          /\ \A d \in Tab : d # c => call'[d] = call[d]
      BY <1>0, <1>3, <2>3 DEF CheckRevoked, Call
    <3>2. ~Pending(c)'
      BY <3>1 DEF Pending
    <3>3. QED
      BY <2>1, <3>1, <3>2, PlainStep DEF Kept
  <2>4. QED
    BY <2>2, <2>3
<1>4. ASSUME NEW c \in Tab, GetByEmail(c) \/ Stale(c) \/ GetByID(c) PROVE AlarmInv'
  <2>1. UNCHANGED <<now, cookie, spent, tokens, seen>> /\ ~Idle(c) /\ ~Replaces(c)
    BY <1>4 DEF GetByEmail, Stale, GetByID, RestUnchanged, KeysUnchanged, ClientUnchanged,
       Idle, Replaces
  <2>2. \/ Refuse(c) \/ Go(c, "Issue") \/ Go(c, "MarkAllRevoked") \/ Go(c, "GetByID")
    BY <1>4 DEF GetByEmail, Stale, GetByID
  <2>3. QED
    BY <2>1, <2>2, RefuseAlarm, GoAlarm DEF Step
<1>5. ASSUME NEW c \in Tab, MarkAllRevoked(c) PROVE AlarmInv'
  <2>1. /\ UNCHANGED <<now, cookie, spent>> /\ ~Idle(c) /\ ~Replaces(c)
        /\ seen'.tardy = seen.tardy /\ Len(tokens') = Len(tokens)
    BY <1>0, <1>5, MarkTypeInv DEF MarkAllRevoked, ClientUnchanged, Idle, Replaces, Marked, Seen
  <2>2. /\ call'[c].at = "MarkChanged" /\ call'[c].op = call[c].op
        /\ call'[c].token = call[c].token /\ call'[c].since = call[c].since
        /\ \A d \in Tab : d # c => Kept(d)
    BY <1>0, <1>5 DEF MarkAllRevoked, Call, Kept
  <2>3. ~Presents(c)' /\ ~Pending(c)'
    BY <2>2 DEF Presents, Pending
  <2>4. QED
    BY <2>1, <2>2, <2>3, PlainStep
<1>6. ASSUME NEW c \in Tab, MarkChanged(c) \/ Punish(c) PROVE AlarmInv'
  <2>1. /\ UNCHANGED <<now, cookie, spent, tokens>> /\ ~Idle(c) /\ ~Replaces(c)
        /\ seen'.tardy = seen.tardy
    BY <1>0, <1>6 DEF MarkChanged, Punish, ClientUnchanged, Idle, Replaces, Marked, Seen
  <2>2. Refuse(c) \/ Go(c, "Update")
    BY <1>6 DEF MarkChanged, Punish
  <2>3. QED
    BY <2>1, <2>2, RefuseAlarm, GoAlarm DEF Step
<1>7. ASSUME NEW c \in Tab, Update(c) PROVE AlarmInv'
  <2>1. UNCHANGED <<now, cookie, spent, tokens, seen>> /\ ~Idle(c) /\ ~Replaces(c)
    BY <1>7 DEF Update, KeysUnchanged, ClientUnchanged, Idle, Replaces
  <2>2. /\ \A d \in Tab : d # c => call'[d] = call[d]
        /\ \/ call'[c] = NoCall
           \/ /\ call'[c].at = "Issue" /\ call'[c].op = call[c].op
              /\ call'[c].token = call[c].token /\ call'[c].since = call[c].since
    BY <1>0, <1>7 DEF Update, Call
  <2>3. call'[c].at = "Issue" => ~Presents(c)' /\ ~Pending(c)'
    BY DEF Presents, Pending
  <2>4. QED
    BY <2>1, <2>2, <2>3, PlainStep DEF Kept
<1>8. ASSUME NEW c \in Tab, Lose(c) PROVE AlarmInv'
  <2>1. /\ UNCHANGED <<now, cookie, spent, tokens>> /\ Done(c)
        /\ seen'.tardy = seen.tardy \union {home[c]}
    BY <1>0, <1>8 DEF Lose, KeysUnchanged, Seen
  <2>2. QED
    BY <2>1, DoneAlarm
<1>9. ASSUME NEW c \in Tab, Answer(c) \/ LoggedOut(c) PROVE AlarmInv'
  <2>1. UNCHANGED <<now, spent, tokens, seen>> /\ Done(c)
    BY <1>9 DEF Answer, LoggedOut, KeysUnchanged
  <2>2. call[c].token \in Nat /\ None \in Nat
    BY CallTypes DEF None
  <2>3. QED
    BY <1>9, <2>1, <2>2, JarAlarm DEF Answer, LoggedOut, Pending
<1>10. CASE UNCHANGED vars
  BY <1>10 DEF vars, AlarmInv, OneBrowserEach, PendingNew, OnTime, JarOnTime, AskedOnTime,
     NoFalseAlarm, Pending, Presents, Replaces, Used, Idle
<1>11. QED
  BY <1>1, <1>2, <1>3, <1>4, <1>5, <1>6, <1>7, <1>8, <1>9, <1>10, IssueAlarm, ClaimAlarm,
     RevokeAlarm, TickAlarm DEF Next

\* All sessions of a user are ended for a second use of a token only if an exchange of
\* that browser was lost or slow: an exchange in time replaces the token in the jar within
\* Slow of its use, and whoever has found it there asks within Slow of that, which is in
\* the grace period.
THEOREM AlarmsJustified == Spec => []NoFalseAlarm
<1>1. Init => AlarmInv
  <2> SUFFICES ASSUME Init PROVE AlarmInv
    OBVIOUS
  <2>1. \A c \in Tab : /\ call[c].at = "idle" /\ call[c].token = None
                       /\ call[c].op = "refresh"
    BY NoCallType DEF Init
  <2>2. \A t \in 1..MaxTokens : ~Used(t)
    BY DEF Init, NoKey, Used
  <2>3. \A a, b \in Browser : cookie[b] # None /\ a # b => cookie[a] # cookie[b]
    BY DEF Init, None
  <2>4. \A c \in Tab : ~Pending(c) /\ ~Presents(c) /\ Idle(c)
    BY <2>1 DEF Pending, Presents, Idle
  <2>5. OneBrowserEach
    BY <2>1, <2>3 DEF OneBrowserEach
  <2>6. \A b \in Browser : cookie[b] # None => cookie[b] \in 1..MaxTokens
    BY InitTypeInv, JarTypes
  <2>7. QED
    BY <2>1, <2>2, <2>4, <2>5, <2>6 DEF AlarmInv, PendingNew, OnTime, JarOnTime, AskedOnTime,
       NoFalseAlarm
<1>2. TypeInv /\ AlarmInv /\ [Next]_vars => (TypeInv /\ AlarmInv)'
  BY StepTypeInv, StepAlarm
<1>3. AlarmInv => NoFalseAlarm
  BY DEF AlarmInv
<1>4. QED
  BY <1>1, <1>2, <1>3, InitTypeInv, PTL DEF Spec
=============================================================================

------------------------------- MODULE Sessions -------------------------------
(***************************************************************************)
(* The sessions of one account: auth-service's Login, RefreshToken,        *)
(* Logout, ChangePassword, ResetPassword and DeleteAccount, and the tabs   *)
(* that call them (refreshAccessToken in frontend/js/api.js, handleLogout  *)
(* and handleChangePassword in frontend/js/main.js).                       *)
(*                                                                         *)
(* The tabs of a browser share one refresh cookie; each has an access      *)
(* token of its own.  A refresh token is known by its number, an access    *)
(* token by the second it was issued in.  A handler runs one command on    *)
(* Redis or PostgreSQL after another, and anything may happen in between.  *)
(* Time passes in whole seconds, the resolution of iat, exp and of the     *)
(* revocation keys; any number of steps may fall into one second.          *)
(***************************************************************************)
EXTENDS Integers, Sequences

CONSTANTS
  Tab, Browser,
  home,         \* home[c]: the browser of tab c
  AccessTTL, RefreshTTL, Grace,
  Slow,         \* an exchange that takes longer counts as slow
  MaxTime, MaxTokens, MaxPassword,
  MaxCalls      \* how many requests the tabs send, retries not counted

ASSUME SessionsAssumption ==
  /\ home \in [Tab -> Browser]
  /\ {AccessTTL, RefreshTTL, Grace, MaxTime, MaxTokens, MaxPassword, MaxCalls}
       \subseteq Nat \ {0}
  /\ Slow \in Nat /\ 2 * Slow <= Grace

VARIABLES
  now,          \* seconds
  password,     \* how often the password was set; the number of the current one
  deleted,      \* DeleteAccount has run
  tokens,       \* refresh tokens in the order they were issued
  spent,        \* spent[t]: the blacklist key of refresh token t
  revoked,      \* refresh-revoked-all-at
  changed,      \* password-changed-at
  cookie,       \* cookie[b]: the refresh token in the jar of browser b
  access,       \* access[c]: when the access token of tab c was issued
  call,         \* call[c]: the request of tab c
  calls,        \* how many requests were sent
  seen          \* history, see below

vars == <<now, password, deleted, tokens, spent, revoked, changed,
          cookie, access, call, calls, seen>>

None == 0       \* no token, and the second before the clock starts

(***************************************************************************)
(* A refresh token: when it was issued, the password that was current or   *)
(* proved when its session began, and whether no step of its session       *)
(* overlapped a change of the password or fell into the second of one.     *)
(***************************************************************************)
Token == [iat : Nat, pw : Nat, apart : BOOLEAN]

\* A key of Redis: the second it holds, and the second it expires in.
Key == [at : Nat, until : Nat]

NoKey == [at |-> None, until |-> None]

(***************************************************************************)
(* "at" is the next command of the handler.  "token" is the refresh token  *)
(* that was presented and, from the answer on, the one that was issued.    *)
(***************************************************************************)
Step == {"idle", "RevokedAfter", "Claim", "Punish", "GetByEmail", "Issue",
         "Stale", "GetByID", "MarkAllRevoked", "MarkChanged", "Update",
         "Revoke", "answer", "refused"}

Op == {"refresh", "login", "logout", "change", "reset", "delete"}

Call == [op : Op, at : Step, token : Nat, pw : Nat, ttl : Int, since : Nat,
         retry : BOOLEAN, apart : BOOLEAN]

NoCall == [op |-> "refresh", at |-> "idle", token |-> None, pw |-> 0, ttl |-> 0,
           since |-> 0, retry |-> FALSE, apart |-> TRUE]

\* One tab has logged in, with the first password.
Init ==
  /\ now = 1
  /\ password = 1
  /\ deleted = FALSE
  /\ tokens = <<[iat |-> now, pw |-> password, apart |-> TRUE]>>
  /\ spent = [t \in 1..MaxTokens |-> NoKey]
  /\ revoked = NoKey
  /\ changed = NoKey
  /\ \E c \in Tab :
       /\ cookie = [b \in Browser |-> IF b = home[c] THEN 1 ELSE None]
       /\ access = [d \in Tab |-> IF d = c THEN now ELSE None]
  /\ call = [c \in Tab |-> NoCall]
  /\ calls = 0
  /\ seen = [mark |-> None, change |-> None, issued |-> 0, gone |-> {}, tardy |-> {}]

(***************************************************************************)
(* History: the last MarkAllRevoked and MarkChanged, how many tokens there *)
(* were at the former, the tokens that were claimed or revoked by a logout *)
(* and the browsers in which an exchange was lost or slow.                 *)
(***************************************************************************)
Seen == [mark : Nat, change : Nat, issued : Nat, gone : SUBSET (1..MaxTokens),
         tardy : SUBSET Browser]

TypeOK ==
  /\ now \in Nat \ {0}
  /\ password \in Nat
  /\ deleted \in BOOLEAN
  /\ tokens \in Seq(Token) /\ Len(tokens) <= MaxTokens
  /\ spent \in [1..MaxTokens -> Key]
  /\ revoked \in Key
  /\ changed \in Key
  /\ cookie \in [Browser -> 0..Len(tokens)]
  /\ access \in [Tab -> Nat]
  /\ call \in [Tab -> Call]
  /\ \A c \in Tab : call[c].token <= Len(tokens)
  /\ calls \in Nat
  /\ seen \in Seen
-----------------------------------------------------------------------------
\* GET of a key: None when it was never set or has expired.
Get(key) == IF now < key.until THEN key.at ELSE None

SetKey(ttl) == [at |-> now, until |-> now + ttl]

\* Mutant: a revocation also hits what was issued in its own second.
RevokedAfterOrAt(t) == Get(revoked) # None /\ Get(revoked) >= tokens[t].iat

\* RevokedAfter: strictly after, in whole seconds.
RevokedAfter(t) == Get(revoked) > tokens[t].iat

\* Parse: the token has not expired.
Alive(t) == t # None /\ now < tokens[t].iat + RefreshTTL

\* The key of t is in the blacklist.
Spent(t) == Get(spent[t]) # None

\* IsAccessTokenStale and the expiry, for an access token issued at iat.
Fresh(iat) == iat # None /\ now < iat + AccessTTL /\ ~(Get(changed) > iat)

\* A password is being changed: sessions were ended, and the UPDATE is to come.
Changing == \E c \in Tab : call[c].at \in {"MarkChanged", "Update"}
-----------------------------------------------------------------------------
Go(c, at) == call' = [call EXCEPT ![c].at = at]

\* The tab is done with its request.
Done(c) == call' = [call EXCEPT ![c] = NoCall]

\* An error is the answer.  A first attempt to refresh will be repeated.
Refuse(c) ==
  IF call[c].op = "refresh" /\ ~call[c].retry THEN Go(c, "refused") ELSE Done(c)

\* A tab sends a request: its handler starts with the command at.
Send(c, op, at, token, pw, retry) ==
  call' = [call EXCEPT ![c] =
             [op |-> op, at |-> at, token |-> token, pw |-> pw, ttl |-> 0,
              since |-> now, retry |-> retry, apart |-> ~Changing]]

Idle(c) == call[c].at = "idle"

\* A tab without a request sends one.
Start(c, op, at, token, pw) ==
  /\ Idle(c)
  /\ calls < MaxCalls
  /\ calls' = calls + 1
  /\ Send(c, op, at, token, pw, FALSE)

UserUnchanged == UNCHANGED <<password, deleted>>

KeysUnchanged == UNCHANGED <<spent, revoked, changed>>

ClientUnchanged == UNCHANGED <<cookie, access>>

\* Only the request moves on.
RestUnchanged ==
  UNCHANGED <<now, tokens, seen>> /\ UserUnchanged /\ KeysUnchanged /\ ClientUnchanged
-----------------------------------------------------------------------------
(* RefreshToken.                                                           *)

\* refreshAccessToken: the cookie of the browser goes with the request.
Refresh(c) ==
  /\ Start(c, "refresh", "RevokedAfter", cookie[home[c]], 0)
  /\ RestUnchanged

\* ParseRefreshToken, RevokedAfter, and the ttl that Claim will be given.
CheckRevoked(c) ==
  LET t == call[c].token IN
  /\ call[c].at = "RevokedAfter"
  /\ IF Alive(t) /\ ~RevokedAfter(t)
     THEN call' = [call EXCEPT ![c].at = "Claim",
                               ![c].ttl = tokens[t].iat + RefreshTTL - now]
     ELSE Refuse(c)
  /\ UNCHANGED calls /\ RestUnchanged

\* Mutant: SET without NX, so that the key of an earlier claim is overwritten.
ClaimAgain(c) ==
  LET t == call[c].token IN
  /\ call[c].at = "Claim"
  /\ Go(c, "Issue")
  /\ spent' = [spent EXCEPT ![t] = SetKey(call[c].ttl)]
  /\ seen' = [seen EXCEPT !.gone = @ \union {t}]
  /\ UNCHANGED <<now, calls, tokens, revoked, changed>>
  /\ UserUnchanged /\ ClientUnchanged

\* Mutant: a second use is punished without a grace period.
ClaimNoGrace(c) ==
  LET t == call[c].token IN
  /\ call[c].at = "Claim"
  /\ IF Spent(t)
     THEN Go(c, "Punish") /\ UNCHANGED <<spent, seen>>
     ELSE /\ Go(c, "Issue")
          /\ spent' = [spent EXCEPT ![t] = SetKey(call[c].ttl)]
          /\ seen' = [seen EXCEPT !.gone = @ \union {t}]
  /\ UNCHANGED <<now, calls, tokens, revoked, changed>>
  /\ UserUnchanged /\ ClientUnchanged

\* Claim, SET NX GET: a second use is refused, and a late one is punished.
Claim(c) ==
  LET t == call[c].token IN
  /\ call[c].at = "Claim"
  /\ IF Spent(t)
     THEN /\ IF now - Get(spent[t]) > Grace THEN Go(c, "Punish") ELSE Refuse(c)
          /\ UNCHANGED <<spent, seen>>
     ELSE /\ Go(c, "Issue")
          /\ spent' = [spent EXCEPT ![t] = SetKey(call[c].ttl)]
          /\ seen' = [seen EXCEPT !.gone = @ \union {t}]
  /\ UNCHANGED <<now, calls, tokens, revoked, changed>>
  /\ UserUnchanged /\ ClientUnchanged

\* IssueAccessToken and IssueRefreshToken.
Issue(c) ==
  LET t == call[c].token
      apart == call[c].apart /\ (call[c].op # "refresh" \/ tokens[t].apart)
      pw == IF call[c].op = "refresh" THEN tokens[t].pw ELSE call[c].pw IN
  /\ call[c].at = "Issue"
  /\ Len(tokens) < MaxTokens
  /\ tokens' = Append(tokens, [iat |-> now, pw |-> pw, apart |-> apart])
  /\ call' = [call EXCEPT ![c].at = "answer", ![c].token = Len(tokens) + 1]
  /\ UNCHANGED <<now, calls, seen>> /\ UserUnchanged /\ KeysUnchanged /\ ClientUnchanged

\* The answer arrives: Set-Cookie, and the access token unless a password
\* was changed, which hands out a refresh token only.
Answer(c) ==
  LET t == call[c].token IN
  /\ call[c].at = "answer" /\ call[c].op # "logout"
  /\ cookie' = [cookie EXCEPT ![home[c]] = t]
  /\ access' = [access EXCEPT ![c] = IF call[c].op = "change" THEN @ ELSE tokens[t].iat]
  /\ Done(c)
  /\ UNCHANGED <<now, calls, tokens, seen>> /\ UserUnchanged /\ KeysUnchanged

\* A refresh is tried a second time, with the cookie as it is then.
Retry(c) ==
  /\ call[c].at = "refused"
  /\ Send(c, "refresh", "RevokedAfter", cookie[home[c]], 0, TRUE)
  /\ UNCHANGED calls /\ RestUnchanged

\* A command fails, a process dies, the answer is lost or the tab is closed.
\* A logout drops the access token all the same.  A request that ends before
\* the first write of its handler is like one that was never sent.
Lose(c) ==
  /\ call[c].at \in {"Issue", "MarkChanged", "Update", "answer"}
  /\ Done(c)
  /\ access' = [access EXCEPT ![c] = IF call[c].op = "logout" THEN None ELSE @]
  /\ seen' = [seen EXCEPT !.tardy = @ \union {home[c]}]
  /\ UNCHANGED <<now, calls, tokens, cookie>> /\ UserUnchanged /\ KeysUnchanged
-----------------------------------------------------------------------------
(* Login and Logout.                                                       *)

\* Login with a password the user has had, by a user whose address is verified.
\* Login and ChangePassword ask loginLimiter first: a request that it refuses is
\* like one that was never sent (Registration has a limiter of that kind).
Login(c) ==
  /\ \E p \in 1..password : Start(c, "login", "GetByEmail", None, p)
  /\ RestUnchanged

\* The account is found by its address, and the password compared.  A reset
\* looks for the account only.
GetByEmail(c) ==
  /\ call[c].at = "GetByEmail"
  /\ IF deleted \/ (call[c].op = "login" /\ call[c].pw # password) THEN Refuse(c)
     ELSE Go(c, IF call[c].op = "login" THEN "Issue" ELSE "MarkAllRevoked")
  /\ UNCHANGED calls /\ RestUnchanged

\* handleLogout: the cookie goes with the request.
Logout(c) ==
  /\ Start(c, "logout", "Revoke", cookie[home[c]], 0)
  /\ RestUnchanged

\* ParseRefreshToken and Revoke, a plain SET.  The tab drops its access token
\* even if the request fails.
Revoke(c) ==
  LET t == call[c].token IN
  /\ call[c].at = "Revoke"
  /\ IF Alive(t)
     THEN /\ spent' = [spent EXCEPT ![t] = SetKey(tokens[t].iat + RefreshTTL - now)]
          /\ seen' = [seen EXCEPT !.gone = @ \union {t}]
          /\ Go(c, "answer")
          /\ UNCHANGED access
     ELSE /\ access' = [access EXCEPT ![c] = None]
          /\ Done(c)
          /\ UNCHANGED <<spent, seen>>
  /\ UNCHANGED <<now, calls, tokens, revoked, changed, cookie>> /\ UserUnchanged

\* The answer clears the cookie.
LoggedOut(c) ==
  /\ call[c].op = "logout"
  /\ call[c].at = "answer"
  /\ cookie' = [cookie EXCEPT ![home[c]] = None]
  /\ access' = [access EXCEPT ![c] = None]
  /\ Done(c)
  /\ UNCHANGED <<now, calls, tokens, seen>> /\ UserUnchanged /\ KeysUnchanged
-----------------------------------------------------------------------------
(* ChangePassword, ResetPassword and DeleteAccount.                        *)

\* ChangePassword and DeleteAccount of a tab that has an access token, with a
\* password the user has had.
Protected(c, op) ==
  /\ access[c] # None
  /\ \E p \in 1..password : Start(c, op, "Stale", None, p)
  /\ RestUnchanged

\* AuthInterceptor: the access token has not expired, and no password was
\* changed after its second.
Stale(c) ==
  /\ call[c].at = "Stale"
  /\ IF Fresh(access[c]) THEN Go(c, "GetByID") ELSE Refuse(c)
  /\ UNCHANGED calls /\ RestUnchanged

\* Mutant: the password is stored without ending the sessions first.
GetByIDKeepSessions(c) ==
  /\ call[c].at = "GetByID"
  /\ IF deleted \/ call[c].pw # password THEN Refuse(c) ELSE Go(c, "Update")
  /\ UNCHANGED calls /\ RestUnchanged

\* The account is read and the password compared.
GetByID(c) ==
  /\ call[c].at = "GetByID"
  /\ IF deleted \/ call[c].pw # password THEN Refuse(c) ELSE Go(c, "MarkAllRevoked")
  /\ UNCHANGED calls /\ RestUnchanged

\* ResetPassword with a token that was mailed, and that Consume finds: it
\* works once, and the module Registration is about that.
ResetPassword(c) ==
  /\ Start(c, "reset", "GetByEmail", None, 0)
  /\ RestUnchanged

\* What history keeps of a revocation.
Marked == [seen EXCEPT !.mark = now, !.issued = Len(tokens)]

\* Mutant: the revocation is kept for the grace period only.
MarkAllRevokedShort(c) ==
  /\ call[c].at = "MarkAllRevoked"
  /\ revoked' = SetKey(Grace)
  /\ call' = [d \in Tab |-> IF d = c THEN [call[d] EXCEPT !.at = "MarkChanged"]
                                    ELSE [call[d] EXCEPT !.apart = FALSE]]
  /\ tokens' = [t \in DOMAIN tokens |->
                  [tokens[t] EXCEPT !.apart = @ /\ tokens[t].iat # now]]
  /\ seen' = Marked
  /\ UNCHANGED <<now, calls, spent, changed>> /\ UserUnchanged /\ ClientUnchanged

\* endSessions, its first command.  History: what is under way, or was issued
\* in this second, is not apart from the change.
MarkAllRevoked(c) ==
  /\ call[c].at = "MarkAllRevoked"
  /\ revoked' = SetKey(RefreshTTL)
  /\ call' = [d \in Tab |-> IF d = c THEN [call[d] EXCEPT !.at = "MarkChanged"]
                                    ELSE [call[d] EXCEPT !.apart = FALSE]]
  /\ tokens' = [t \in DOMAIN tokens |->
                  [tokens[t] EXCEPT !.apart = @ /\ tokens[t].iat # now]]
  /\ seen' = Marked
  /\ UNCHANGED <<now, calls, spent, changed>> /\ UserUnchanged /\ ClientUnchanged

\* MarkAllRevoked of RefreshToken, after a second use that came late.
Punish(c) ==
  /\ call[c].at = "Punish"
  /\ revoked' = SetKey(RefreshTTL)
  /\ seen' = Marked
  /\ Refuse(c)
  /\ UNCHANGED <<now, calls, tokens, spent, changed>> /\ UserUnchanged /\ ClientUnchanged

\* endSessions, its second command.
MarkChanged(c) ==
  /\ call[c].at = "MarkChanged"
  /\ changed' = SetKey(AccessTTL)
  /\ seen' = [seen EXCEPT !.change = now]
  /\ Go(c, "Update")
  /\ UNCHANGED <<now, calls, tokens, spent, revoked>> /\ UserUnchanged /\ ClientUnchanged

\* UpdatePasswordAndWrappedKey, UpdatePasswordAndKeyPair, Anonymize.  Only a
\* change answers with a token; after a reset the tab shows the login form,
\* and after a deletion it logs out.
Update(c) ==
  /\ call[c].at = "Update"
  /\ password < MaxPassword
  /\ password' = password + 1
  /\ deleted' = (deleted \/ call[c].op = "delete")
  /\ call' = [call EXCEPT ![c] = IF call[c].op = "change"
                                 THEN [@ EXCEPT !.at = "Issue", !.pw = password + 1]
                                 ELSE NoCall]
  /\ UNCHANGED <<now, calls, tokens, seen>> /\ KeysUnchanged /\ ClientUnchanged
-----------------------------------------------------------------------------
\* The key that is left of one when the second s begins.
Expire(key, s) == IF s < key.until THEN key ELSE NoKey

\* A second passes, and keys expire; an expired access token is as good as
\* none.  History: the exchanges that are slow by now.
Tick ==
  /\ now < MaxTime
  /\ now' = now + 1
  /\ spent' = [t \in DOMAIN spent |-> Expire(spent[t], now + 1)]
  /\ revoked' = Expire(revoked, now + 1)
  /\ changed' = Expire(changed, now + 1)
  /\ access' = [c \in Tab |-> IF now + 1 < access[c] + AccessTTL THEN access[c] ELSE None]
  /\ seen' = [seen EXCEPT !.tardy = @ \union
                {b \in Browser : \E c \in Tab :
                   home[c] = b /\ ~Idle(c) /\ now + 1 > call[c].since + Slow}]
  /\ UNCHANGED <<tokens, call, calls, cookie>> /\ UserUnchanged

Next ==
  \/ Tick
  \/ \E c \in Tab :
       \/ Refresh(c) \/ CheckRevoked(c) \/ Claim(c) \/ Punish(c)
       \/ Login(c) \/ GetByEmail(c)
       \/ Logout(c) \/ Revoke(c) \/ LoggedOut(c)
       \/ Protected(c, "change") \/ Protected(c, "delete") \/ Stale(c) \/ GetByID(c)
       \/ ResetPassword(c)
       \/ MarkAllRevoked(c) \/ MarkChanged(c) \/ Update(c)
       \/ Issue(c) \/ Answer(c) \/ Retry(c) \/ Lose(c)

Spec == Init /\ [][Next]_vars
-----------------------------------------------------------------------------
(* Properties.                                                             *)

\* A refresh token that was exchanged, or given up by a logout, is not
\* exchanged while it lives: the claim decides it, however many tabs and
\* retries present it, and its key in the blacklist outlives the token.
SpentStaysSpent ==
  [][\A c \in Tab :
       call[c].at = "Claim" /\ call'[c].at = "Issue"
         => \/ call[c].token \notin seen.gone
            \/ ~Alive(call[c].token)]_vars

\* What a revocation ended stays ended: the keys of Redis, which a later
\* revocation overwrites and which expire, outlive every refresh token issued
\* before the second of the revocation and every access token issued before
\* the second of the change.
EndedStaysEnded ==
  /\ \A t \in DOMAIN tokens :
       Alive(t) /\ tokens[t].iat < seen.mark => RevokedAfter(t)
  /\ \A c \in Tab : access[c] < seen.change => ~Fresh(access[c])

\* What was issued after the last revocation is not ended by it, though both
\* may fall into one second: the token that ChangePassword answers with works,
\* and so does a login right after a reset.
NewTokensWork ==
  \A t \in DOMAIN tokens : t > seen.issued => ~RevokedAfter(t)

\* Once no password is being changed, a refresh token that still works comes
\* from a session of the current password, or some step of its session
\* overlapped a change of the password or fell into its second.  A change that
\* fails half way leaves no session of a password that is not current.
OldPasswordEnds ==
  ~Changing =>
    \A t \in DOMAIN tokens :
      Alive(t) /\ ~Spent(t) /\ ~RevokedAfter(t) /\ tokens[t].apart
        => tokens[t].pw = password

\* All sessions of a user are ended for a second use of a token only if an
\* exchange of that browser was lost or slow before: tabs that refresh at the
\* same time, one retry each, are within the grace period.
NoFalseAlarm ==
  \A c \in Tab : call[c].at = "Punish" => home[c] \in seen.tardy
=============================================================================

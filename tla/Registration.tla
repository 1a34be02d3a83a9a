---------------------------- MODULE Registration ----------------------------
(***************************************************************************)
(* One e-mail address in auth-service: Register, VerifyEmail,              *)
(* LoginWithGitHub, RequestPasswordReset and ResetPassword, with the codes *)
(* and the send limiter that Redis keeps for the address.                  *)
(*                                                                         *)
(* A registration that was not verified yet does not block the address: a  *)
(* later one deletes its row.  So rows come and go, and an account is       *)
(* known by the number of its row, as it is by a UUID in the code.  A code *)
(* is known by the account it was generated for; codes of six digits that  *)
(* are equal by chance are left out.  Every request runs one statement or  *)
(* command after another, and anything may happen in between.              *)
(***************************************************************************)
EXTENDS Integers

CONSTANTS
  Req,
  MaxAccounts,  \* how many rows the address gets
  MaxSends,     \* EmailSendRateLimitMax
  MaxLinks,     \* reset links that are in the mailbox at a time
  MaxCalls      \* how many requests are sent

ASSUME RegistrationAssumption ==
  {MaxAccounts, MaxSends, MaxLinks, MaxCalls} \subseteq Nat \ {0}

VARIABLES
  row,          \* row[a]: the account numbered a
  code,         \* auth:email-verification: the code of which account is stored
  mailed,       \* the codes that reached the mailbox
  links,        \* how many reset links wait there for their use
  sends,        \* auth:email-sends: its count, and whether it has a TTL
  req,          \* req[r]: the request r
  calls,        \* how many requests were sent
  seen          \* tokens that were given, and history, see below

vars == <<row, code, mailed, links, sends, req, calls, seen>>

Account == 1..MaxAccounts

None == 0

\* "new": not created yet.  "gone": deleted, or anonymized by DeleteAccount.
Row == {"new", "pending", "verified", "gone"}

Op == {"register", "github", "verify", "forgot", "reset"}

Step == {"idle", "Incr", "Expire", "Release", "Delete", "Create", "StoreCode", "Send",
         "Rollback", "Get", "Del", "GetByEmail", "Mark", "Consume", "StoreLink"}

(***************************************************************************)
(* "account" is what the handler has read or created, "code" what the user *)
(* entered.  History: "met", the accounts whose registration was not       *)
(* finished at some instant of a verification or a login with GitHub, and  *)
(* "was", the accounts that were verified when a registration or such a    *)
(* login began.                                                            *)
(***************************************************************************)
Request == [op : Op, at : Step, account : 0..MaxAccounts, code : 0..MaxAccounts,
            met : SUBSET Account, was : SUBSET Account]

NoRequest == [op |-> "register", at |-> "idle", account |-> None, code |-> None,
              met |-> {}, was |-> {}]

(***************************************************************************)
(* "given": the pending accounts that a login with GitHub has been given   *)
(* the tokens of.  History: the codes that a verification has deleted, the *)
(* codes that were stored when their account was gone already, the         *)
(* registrations that broke off after their INSERT, and whether an EXPIRE  *)
(* was lost.                                                               *)
(***************************************************************************)
Seen == [given : SUBSET Account, used : SUBSET Account, late : SUBSET Account,
         broken : SUBSET Account, unlimited : BOOLEAN]

Init ==
  /\ row = [a \in Account |-> "new"]
  /\ code = None
  /\ mailed = {}
  /\ links = 0
  /\ sends = [count |-> 0, ttl |-> FALSE]
  /\ req = [r \in Req |-> NoRequest]
  /\ calls = 0
  /\ seen = [given |-> {}, used |-> {}, late |-> {}, broken |-> {}, unlimited |-> FALSE]

TypeOK ==
  /\ row \in [Account -> Row]
  /\ code \in 0..MaxAccounts
  /\ mailed \subseteq Account
  /\ links \in 0..MaxLinks
  /\ sends \in [count : 0..(MaxSends + 1), ttl : BOOLEAN]
  /\ req \in [Req -> Request]
  /\ calls \in Nat
  /\ seen \in Seen
  /\ \A a, b \in Account : {row[a], row[b]} \subseteq {"pending", "verified"} => a = b
-----------------------------------------------------------------------------
\* The account that GetByEmail finds, if any: the column is unique.
Holders == {a \in Account : row[a] \in {"pending", "verified"}}

Holder == IF Holders = {} THEN None ELSE CHOOSE a \in Holders : TRUE

Verified == {a \in Account : row[a] = "verified"}

\* The registrations that are between their INSERT and their end.
Open == {req[r].account : r \in {q \in Req : req[q].at \in {"StoreCode", "Send", "Rollback"}}}

\* A user sends a request, with a code if there is one to enter.
Start(r, op, at, c) ==
  /\ req[r].at = "idle"
  /\ calls < MaxCalls
  /\ calls' = calls + 1
  /\ req' = [req EXCEPT ![r] =
               [op |-> op, at |-> at, account |-> None, code |-> c,
                met |-> IF op \in {"verify", "github"} THEN Open \union seen.broken ELSE {},
                was |-> IF op \in {"register", "github"} THEN Verified ELSE {}]]
  /\ UNCHANGED <<row, code, mailed, links, sends, seen>>

Go(r, at) == req' = [req EXCEPT ![r].at = at]

GoWith(r, at, a) == req' = [req EXCEPT ![r].at = at, ![r].account = a]

\* The request is answered, with or without an error.
Done(r) == req' = [req EXCEPT ![r] = NoRequest]

\* A statement, a command or the mail server fails, or the process dies.  A
\* registration leaves its row behind.  A request that ends before its first
\* write is like one that was never sent, and Create may fail in any case.
GiveUp(r) ==
  /\ req[r].at \in {"Expire", "StoreCode", "Send", "Rollback", "GetByEmail", "Mark"}
  /\ Done(r)
  /\ seen' = [seen EXCEPT
       !.broken = @ \union (IF req[r].at \in {"StoreCode", "Send", "Rollback"}
                            THEN {req[r].account} ELSE {}),
       !.unlimited = @ \/ req[r].at = "Expire"]
  /\ UNCHANGED <<row, code, mailed, links, sends, calls>>
-----------------------------------------------------------------------------
(* The limiter, and what Redis forgets.                                    *)

\* Mutant: EXPIRE for the last mail that is allowed, not for the first.
ExpireLate(n) == n = MaxSends

\* The key was new.
ExpireDue(n) == n = 1

\* Allow: INCR, and EXPIRE if the key is new.  More than one above the limit
\* makes no difference.
Incr(r) ==
  LET n == IF sends.count > MaxSends THEN sends.count ELSE sends.count + 1 IN
  /\ req[r].at = "Incr"
  /\ sends' = [sends EXCEPT !.count = n]
  /\ IF ExpireDue(n) THEN Go(r, "Expire")
     ELSE IF n > MaxSends THEN Done(r) ELSE Go(r, "Release")
  /\ UNCHANGED <<row, code, mailed, links, calls, seen>>

SetExpire(r) ==
  /\ req[r].at = "Expire"
  /\ sends' = [sends EXCEPT !.ttl = TRUE]
  /\ Go(r, "Release")
  /\ UNCHANGED <<row, code, mailed, links, calls, seen>>

\* A key reaches the end of its TTL: the count, the code or a link.
KeyExpires ==
  /\ \/ /\ sends.ttl
        /\ sends' = [count |-> 0, ttl |-> FALSE]
        /\ UNCHANGED <<code, links>>
     \/ code # None /\ code' = None /\ UNCHANGED <<sends, links>>
     \/ links > 0 /\ links' = links - 1 /\ UNCHANGED <<sends, code>>
  /\ UNCHANGED <<row, mailed, req, calls, seen>>
-----------------------------------------------------------------------------
(* Register and LoginWithGitHub.                                           *)

Register(r) == Start(r, "register", "Incr", None)

LoginWithGitHub(r) == Start(r, "github", "Release", None)

\* What follows the release of the address.
Released(r) == IF req[r].op = "register" THEN "Create" ELSE "GetByEmail"

\* Mutant: whoever holds the address is released.
ReleasableAny(r) == Holder # None

\* Mutant: GitHub keeps a pending registration.
ReleasableForRegister(r) ==
  Holder # None /\ Holder \notin Verified /\ req[r].op = "register"

\* A pending registration gives way to a new one, and to GitHub.
Releasable(r) == Holder # None /\ Holder \notin Verified

\* releasePendingRegistration reads: a verified account keeps the address, and
\* only GitHub goes on with it.
Release(r) ==
  /\ req[r].at = "Release"
  /\ IF Releasable(r) THEN GoWith(r, "Delete", Holder)
     ELSE IF Holder = None \/ req[r].op = "github" THEN Go(r, Released(r)) ELSE Done(r)
  /\ UNCHANGED <<row, code, mailed, links, sends, calls, seen>>

\* DELETE of the id that was read, whatever has become of it.
Delete(r) ==
  /\ req[r].at = "Delete"
  /\ row' = [row EXCEPT ![req[r].account] = "gone"]
  /\ Go(r, Released(r))
  /\ UNCHANGED <<code, mailed, links, sends, calls, seen>>

\* No row has the address: users_email_key.
Free == Holder = None

\* Create, an error if the address or the tag is taken.  GitHub's accounts are
\* verified, and the answer to it has the tokens.
Create(r) ==
  /\ req[r].at = "Create"
  /\ \/ Done(r) /\ UNCHANGED row
     \/ /\ Free
        /\ \E a \in Account :
             /\ row[a] = "new" /\ \A b \in Account : b < a => row[b] # "new"
             /\ IF req[r].op = "github"
                THEN row' = [row EXCEPT ![a] = "verified"] /\ Done(r)
                ELSE /\ row' = [row EXCEPT ![a] = "pending"]
                     /\ req' = [q \in Req |->
                          IF q = r THEN [req[q] EXCEPT !.at = "StoreCode", !.account = a]
                          ELSE IF req[q].at # "idle" /\ req[q].op \in {"verify", "github"}
                          THEN [req[q] EXCEPT !.met = @ \union {a}] ELSE req[q]]
  /\ UNCHANGED <<code, mailed, links, sends, calls, seen>>

\* Mutant: SET NX, so that the code of an earlier registration stays.
StoredOnce(a) == IF code = None THEN a ELSE code

\* SET, over whatever code there was.
Stored(a) == a

\* GenerateAndStore.
StoreCode(r) ==
  LET a == req[r].account IN
  /\ req[r].at = "StoreCode"
  /\ \/ /\ code' = Stored(a)
        /\ seen' = [seen EXCEPT !.late = @ \union (IF row[a] = "pending" THEN {} ELSE {a})]
        /\ Go(r, "Send")
     \/ Go(r, "Rollback") /\ UNCHANGED <<code, seen>>
  /\ UNCHANGED <<row, mailed, links, sends, calls>>

\* SendVerificationCode: an error does not say that the mail was not delivered.
Send(r) ==
  /\ req[r].at = "Send"
  /\ \/ mailed' = mailed \union {req[r].account} /\ (Done(r) \/ Go(r, "Rollback"))
     \/ Go(r, "Rollback") /\ UNCHANGED mailed
  /\ UNCHANGED <<row, code, links, sends, calls, seen>>

\* rollbackRegistration deletes the row that was created.
Rollback(r) ==
  /\ req[r].at = "Rollback"
  /\ row' = [row EXCEPT ![req[r].account] = "gone"]
  /\ Done(r)
  /\ UNCHANGED <<code, mailed, links, sends, calls, seen>>
-----------------------------------------------------------------------------
(* VerifyEmail, RequestPasswordReset, ResetPassword, DeleteAccount.        *)

\* A user enters a code that was mailed; any other is refused.  VerifyEmail and
\* RequestPasswordReset have limiters under keys of their own, which work as the
\* one of Register does: a request that one of them refuses, or that fails
\* there, writes nothing else and is like one that was never sent.
VerifyEmail(r) == \E c \in mailed : Start(r, "verify", "Get", c)

RequestPasswordReset(r) == Start(r, "forgot", "GetByEmail", None)

ResetPassword(r) == Start(r, "reset", "Consume", None)

\* Verify, GET and the comparison.
Get(r) ==
  /\ req[r].at = "Get"
  /\ IF code = req[r].code THEN Go(r, "Del") ELSE Done(r)
  /\ UNCHANGED <<row, code, mailed, links, sends, calls, seen>>

\* Mutant: the code is left to its TTL.
DeletedNot == code

\* What DEL leaves of the key of the address, whatever code it had by then.
Deleted == None

\* Verify, DEL.
Del(r) ==
  /\ req[r].at = "Del"
  /\ code' = Deleted
  /\ seen' = [seen EXCEPT !.used = @ \union {req[r].code}]
  /\ Go(r, "GetByEmail")
  /\ UNCHANGED <<row, mailed, links, sends, calls>>

\* Consume, GETDEL: a link works once.
Consume(r) ==
  /\ req[r].at = "Consume"
  /\ IF links > 0 THEN links' = links - 1 /\ Go(r, "GetByEmail")
     ELSE Done(r) /\ UNCHANGED links
  /\ UNCHANGED <<row, code, mailed, sends, calls, seen>>

\* GetByEmail.  GitHub is given the tokens of the account it finds, or creates
\* one.  A reset ends the sessions and stores the password (Sessions), and
\* verifies an account that was not.
GetByEmail(r) ==
  LET op == req[r].op IN
  /\ req[r].at = "GetByEmail"
  /\ CASE Holder = None -> IF op = "github" THEN Go(r, "Create") ELSE Done(r)
       [] Holder # None /\ op = "verify" -> GoWith(r, "Mark", Holder)
       [] Holder # None /\ op = "forgot" -> GoWith(r, "StoreLink", Holder)
       [] Holder # None /\ op = "reset" ->
            IF Holder \in Verified THEN Done(r) ELSE GoWith(r, "Mark", Holder)
       [] Holder # None /\ op = "github" -> Done(r)
  /\ seen' = [seen EXCEPT
       !.given = IF op = "github" THEN @ \union (Holders \ Verified) ELSE @]
  /\ UNCHANGED <<row, code, mailed, links, sends, calls>>

\* passwordResets.GenerateAndStore and the mail.
StoreLink(r) ==
  /\ req[r].at = "StoreLink"
  /\ links < MaxLinks
  /\ links' = links + 1
  /\ Done(r)
  /\ UNCHANGED <<row, code, mailed, sends, calls, seen>>

\* MarkEmailVerified: no error if the row is gone.
Mark(r) ==
  LET a == req[r].account IN
  /\ req[r].at = "Mark"
  /\ row' = [row EXCEPT ![a] = IF @ = "pending" THEN "verified" ELSE @]
  /\ Done(r)
  /\ UNCHANGED <<code, mailed, links, sends, calls, seen>>

\* DeleteAccount of a user who has tokens, of a login to a verified account or
\* of one with GitHub that found a pending one: Anonymize frees the address.
DeleteAccount ==
  /\ \E a \in Verified \union (Holders \cap seen.given) : row' = [row EXCEPT ![a] = "gone"]
  /\ UNCHANGED <<code, mailed, links, sends, req, calls, seen>>

Next ==
  \/ \E r \in Req :
       \/ Register(r) \/ Incr(r) \/ SetExpire(r) \/ Release(r) \/ Delete(r)
       \/ Create(r) \/ StoreCode(r) \/ Send(r) \/ Rollback(r)
       \/ LoginWithGitHub(r) \/ GetByEmail(r)
       \/ VerifyEmail(r) \/ Get(r) \/ Del(r) \/ Mark(r)
       \/ RequestPasswordReset(r) \/ StoreLink(r)
       \/ ResetPassword(r) \/ Consume(r)
       \/ GiveUp(r)
  \/ DeleteAccount
  \/ KeyExpires

Spec == Init /\ [][Next]_vars
-----------------------------------------------------------------------------
(* Properties.                                                             *)

\* The count of the send limiter has a TTL, or gets one from a request that is
\* under way, unless an EXPIRE was lost: whoever was refused is let through
\* again when the window is over.
LimiterRecovers ==
  sends.count > 0 /\ ~seen.unlimited
    => sends.ttl \/ \E r \in Req : req[r].at = "Expire"

\* A code verifies the account it was mailed for.  It verifies another one only
\* if the registration of that one was under way during the verification or
\* broke off, or if the code was stored after its account had been released.
OwnCode ==
  [][\A r \in Req :
       LET a == req[r].account IN
       /\ req[r].op = "verify" /\ req[r].at = "Mark"
       /\ row[a] = "pending" /\ row'[a] = "verified"
       => a = req[r].code \/ a \in req[r].met \/ req[r].code \in seen.late]_vars

\* A code works once: a verification that reads it after another one has
\* deleted it is refused, however registrations follow one another.
UsedOnce ==
  [][\A r \in Req :
       req[r].at = "Get" /\ req'[r].at = "Del" => req[r].code \notin seen.used]_vars

\* No registration, neither its release of the address nor its rollback, and no
\* login with GitHub deletes an account that was verified when it began.
VerifiedStays ==
  [][\A r \in Req :
       req[r].at \in {"Delete", "Rollback"} /\ req'[r].at # req[r].at /\ row' # row
         => req[r].account \notin req[r].was]_vars

\* A login with GitHub is given the tokens of a verified account, or of one
\* whose registration was under way at the same time.  (A login with a
\* password requires a verified account in every case.)
GitHubVerified ==
  [][\A r \in Req :
       req[r].op = "github" /\ req[r].at = "GetByEmail" /\ req'[r].at = "idle" /\ Holder # None
         => Holder \in Verified \/ Holder \in req[r].met]_vars
=============================================================================

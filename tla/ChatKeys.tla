------------------------------ MODULE ChatKeys ------------------------------
(***************************************************************************)
(* The end-to-end keys of one chat: frontend/js/main.js (handleCreateChat, *)
(* getChatKey, reKeyChatForStalePeers, handleChangePassword,               *)
(* handleResetPassword) with frontend/js/crypto.js, and what auth-service  *)
(* and chat-service store for them.                                        *)
(*                                                                         *)
(* The chat has a symmetric key, and for each member a copy of it that is  *)
(* encrypted with the public key of the member.  A key pair is known by    *)
(* how often its user had one made before, a chat key by the order of      *)
(* creation.  The private key is on the server too, wrapped with the       *)
(* password.  A handler of a tab awaits one request after another, and     *)
(* anything may happen in between.                                         *)
(***************************************************************************)
EXTENDS Integers

CONSTANTS
  User,         \* the members; two in a private chat
  Tab,
  owner,        \* owner[c]: whose tab c is.  The tabs of a user share a browser
  MaxKeys,      \* how many chat keys are made
  MaxPairs,     \* how many key pairs a user has made
  MaxCalls      \* how often a user does something, messages not counted

ASSUME ChatKeysAssumption ==
  /\ owner \in [Tab -> User]
  /\ {MaxKeys, MaxPairs, MaxCalls} \subseteq Nat \ {0}

VARIABLES
  pair,         \* users.public_key: the pair it belongs to
  wrapped,      \* users.wrapped_private_key: the pair it belongs to
  copy,         \* chat_members: encrypted_chat_key and wrapped_for_public_key
  used,         \* the keys that messages of the chat were encrypted with
  session,      \* session[u]: the browser of u has a refresh token that works
  device,       \* device[u]: the private key in the IndexedDB of the browser
  private,      \* private[c]: cachedPrivateKey of the tab c
  cache,        \* cache[c]: chatKeyCache, the key of the chat
  task,         \* task[c]: the handler of the tab that waits for an answer
  keys,         \* how many chat keys were made
  calls,        \* how often a user did something
  twin          \* history: a CreateChat was answered with a chat that existed

vars == <<pair, wrapped, copy, used, session, device, private, cache, task, keys, calls, twin>>

None == 0

Key == 1..MaxKeys

Pair == 1..MaxPairs

\* A chat key, encrypted for a pair; wrapped_for_public_key is the pair.
Copy == [key : 0..MaxKeys, pair : 0..MaxPairs]

NoCopy == [key |-> None, pair |-> None]

(***************************************************************************)
(* "at" is the next request of the handler.  "peers" are the pairs that it *)
(* has read, of members for a new chat, or of the copies to be re-keyed;   *)
(* "todo" the members still to be looked at; "with" a chat key or, for a   *)
(* new password, the private key, as "pub" is the public key of the member *)
(* "for".  History: the users whose pair, or copy, changed since the       *)
(* handler began.                                                          *)
(***************************************************************************)
Rekey == {"ListChatKeys", "GetPublicKey", "UpdateChatKey"}

Step == {"idle", "Insert", "Created", "UpdateWrapped"} \union Rekey

Task == [at : Step, peers : [User -> 0..MaxPairs], todo : SUBSET User, for : SUBSET User,
         with : 0..(MaxKeys + MaxPairs), pub : 0..MaxPairs, changed : SUBSET User]

NoTask == [at |-> "idle", peers |-> [u \in User |-> None], todo |-> {}, for |-> {},
           with |-> None, pub |-> None, changed |-> {}]

\* Everyone is registered and logged in on one tab, and there is no chat.
Init ==
  /\ pair = [u \in User |-> 1]
  /\ wrapped = pair
  /\ copy = [u \in User |-> NoCopy]
  /\ used = {}
  /\ session = [u \in User |-> TRUE]
  /\ device = pair
  /\ private = [c \in Tab |-> 1]
  /\ cache = [c \in Tab |-> None]
  /\ task = [c \in Tab |-> NoTask]
  /\ keys = 0
  /\ calls = 0
  /\ twin = FALSE

TypeOK ==
  /\ pair \in [User -> Pair] /\ wrapped \in [User -> Pair]
  /\ copy \in [User -> Copy]
  /\ used \subseteq Key
  /\ session \in [User -> BOOLEAN]
  /\ device \in [User -> Pair]
  /\ private \in [Tab -> 0..MaxPairs]
  /\ cache \in [Tab -> 0..MaxKeys]
  /\ task \in [Tab -> Task]
  /\ keys \in 0..MaxKeys
  /\ calls \in Nat
  /\ twin \in BOOLEAN
-----------------------------------------------------------------------------
Me(c) == owner[c]

Exists == \E u \in User : copy[u] # NoCopy

\* The tab shows the app, and its requests may be let through: an access token
\* is replaced by means of the cookie of the browser, and lives for a while when
\* the session is over.  chat-service never asks whether it is stale, and for
\* auth-service one is not that was issued in the second of the change.
InApp(c) == private[c] # None

Ready(c) == InApp(c) /\ task[c].at = "idle"

\* A user does something.
Count == calls < MaxCalls /\ calls' = calls + 1

\* A handler begins.
Start(c, t) ==
  /\ Ready(c)
  /\ Count
  /\ task' = [task EXCEPT ![c] = t]

Go(c, at) == task' = [task EXCEPT ![c].at = at]

Done(c) == task' = [task EXCEPT ![c] = NoTask]

\* History, for passes under way: the pair or the copy of u changed.
Changed(u) == [c \in Tab |-> IF task[c].at \notin Rekey THEN task[c]
                             ELSE [task[c] EXCEPT !.changed = @ \union {u}]]

ServerUnchanged == UNCHANGED <<pair, wrapped, copy, used>>

BrowserUnchanged == UNCHANGED <<session, device, private>>

\* A request fails, or the session is over and the access token has expired.
GiveUp(c) ==
  /\ task[c].at # "idle"
  /\ Done(c)
  /\ UNCHANGED <<cache, keys, calls, twin>> /\ ServerUnchanged /\ BrowserUnchanged
-----------------------------------------------------------------------------
(* The session of a tab and its private key.                               *)

\* handleAuthSubmit: the wrapped key is fetched and unwrapped, and remembered
\* on the device.  The chat keys in memory are the ones from before.
Login(c) ==
  /\ private[c] = None
  /\ Count
  /\ private' = [private EXCEPT ![c] = wrapped[Me(c)]]
  /\ device' = [device EXCEPT ![Me(c)] = wrapped[Me(c)]]
  /\ session' = [session EXCEPT ![Me(c)] = TRUE]
  /\ UNCHANGED <<cache, task, keys, twin>> /\ ServerUnchanged

\* handleLogout ends the session of the browser; chatKeyCache stays.
Logout(c) ==
  /\ Ready(c)
  /\ Count
  /\ private' = [private EXCEPT ![c] = None]
  /\ session' = [session EXCEPT ![Me(c)] = FALSE]
  /\ UNCHANGED <<device, cache, task, keys, twin>> /\ ServerUnchanged

\* The page is loaded again: bootstrap and enterAppOrPromptUnlock.
Reload(c) ==
  /\ Count
  /\ private' = [private EXCEPT ![c] = IF session[Me(c)] THEN device[Me(c)] ELSE None]
  /\ cache' = [cache EXCEPT ![c] = None]
  /\ Done(c)
  /\ UNCHANGED <<session, device, keys, twin>> /\ ServerUnchanged

\* handleResetPassword on some login form, and UpdatePasswordAndKeyPair: a new
\* pair, and every session is over.
ResetPassword(u) ==
  /\ pair[u] < MaxPairs
  /\ Count
  /\ pair' = [pair EXCEPT ![u] = @ + 1]
  /\ wrapped' = [wrapped EXCEPT ![u] = pair[u] + 1]
  /\ session' = [session EXCEPT ![u] = FALSE]
  /\ task' = Changed(u)
  /\ UNCHANGED <<copy, used, device, private, cache, keys, twin>>

\* Mutant: a new private key is wrapped, as at a reset.
RewrappedAnew(c) == IF pair[Me(c)] < MaxPairs THEN pair[Me(c)] + 1 ELSE pair[Me(c)]

\* rewrapPrivateKey: the private key in memory.
Rewrapped(c) == private[c]

\* handleChangePassword: the private key is wrapped again, and the request
\* passes the checks of ChangePassword.
ChangePassword(c) ==
  /\ Start(c, [NoTask EXCEPT !.at = "UpdateWrapped", !.with = Rewrapped(c)])
  /\ UNCHANGED <<cache, keys, twin>> /\ ServerUnchanged /\ BrowserUnchanged

\* UpdatePasswordAndWrappedKey leaves the public key as it is.  The sessions of
\* the browser are over, but for the one that the answer brings.
UpdateWrapped(c) ==
  /\ task[c].at = "UpdateWrapped"
  /\ wrapped' = [wrapped EXCEPT ![Me(c)] = task[c].with]
  /\ \E answered \in BOOLEAN : session' = [session EXCEPT ![Me(c)] = answered]
  /\ Done(c)
  /\ UNCHANGED <<pair, copy, used, device, private, cache, keys, calls, twin>>
-----------------------------------------------------------------------------
(* A new chat.                                                             *)

\* handleCreateChat: the public keys are read, and a chat key is made.
CreateChat(c) ==
  /\ Start(c, [NoTask EXCEPT !.at = "Insert", !.peers = pair, !.with = keys + 1])
  /\ keys < MaxKeys
  /\ keys' = keys + 1
  /\ UNCHANGED <<cache, twin>> /\ ServerUnchanged /\ BrowserUnchanged

\* CreateChat of chat-service, which answers with the chat there is, if any.
Insert(c) ==
  /\ task[c].at = "Insert"
  /\ copy' = IF Exists THEN copy
             ELSE [u \in User |-> [key |-> task[c].with, pair |-> task[c].peers[u]]]
  /\ twin' = (twin \/ Exists)
  /\ Go(c, "Created")
  /\ UNCHANGED <<pair, wrapped, used, cache, keys, calls>> /\ BrowserUnchanged

\* The answer: the key that was made is the one of the chat from now on.
Created(c) ==
  /\ task[c].at = "Created"
  /\ cache' = [cache EXCEPT ![c] = task[c].with]
  /\ Done(c)
  /\ UNCHANGED <<keys, calls, twin>> /\ ServerUnchanged /\ BrowserUnchanged
-----------------------------------------------------------------------------
(* The use of a chat.                                                      *)

\* decryptChatKey works on a copy for the pair of the private key in memory.
Decrypts(c) == copy[Me(c)] # NoCopy /\ copy[Me(c)].pair = private[c]

\* Mutant: whoever cannot decrypt the copy makes a new key.
GetChatKeyAnew(c) == IF cache[c] # None THEN {cache[c]}
                     ELSE IF Decrypts(c) THEN {copy[Me(c)].key} ELSE {keys + 1} \intersect Key

\* getChatKey: from memory, or decrypted; otherwise it fails.
GetChatKey(c) == IF cache[c] # None THEN {cache[c]}
                 ELSE IF Decrypts(c) THEN {copy[Me(c)].key} ELSE {}

\* A message is encrypted and sent.
SendMessage(c) ==
  /\ Ready(c) /\ Exists
  /\ \E k \in GetChatKey(c) :
       /\ cache' = [cache EXCEPT ![c] = k]
       /\ used' = used \union {k}
  /\ UNCHANGED <<pair, wrapped, copy, task, keys, calls, twin>> /\ BrowserUnchanged

\* A chat is opened, and reKeyChatForStalePeers begins.
OpenChat(c) ==
  /\ Exists
  /\ \E k \in GetChatKey(c) :
       /\ cache' = [cache EXCEPT ![c] = k]
       /\ Start(c, [NoTask EXCEPT !.at = "ListChatKeys", !.with = k])
  /\ UNCHANGED <<keys, twin>> /\ ServerUnchanged /\ BrowserUnchanged

\* listChatKeys: what the copies of the others are for.
ListChatKeys(c) ==
  /\ task[c].at = "ListChatKeys"
  /\ task' = [task EXCEPT ![c].at = "GetPublicKey", ![c].todo = User \ {Me(c)},
                          ![c].peers = [u \in User |-> IF u = Me(c) THEN None
                                                       ELSE copy[u].pair]]
  /\ UNCHANGED <<cache, keys, calls, twin>> /\ ServerUnchanged /\ BrowserUnchanged

\* Mutant: the copy is renewed if it is for another pair than the tab's own.
FitsMine(c, u) == task[c].peers[u] = private[c]

\* The copy of u, as it was listed, is for the public key of u.
Fits(c, u) == task[c].peers[u] = pair[u]

\* The task after the member u.
After(c, u) == IF task[c].todo = {u} THEN NoTask
               ELSE [task[c] EXCEPT !.at = "GetPublicKey", !.todo = @ \ {u}, !.for = {},
                                    !.pub = None]

\* getPublicKey of one member after the other.
GetPublicKey(c) ==
  /\ task[c].at = "GetPublicKey"
  /\ \E u \in task[c].todo :
       task' = [task EXCEPT ![c] =
                  IF Fits(c, u) THEN After(c, u)
                  ELSE [@ EXCEPT !.at = "UpdateChatKey", !.for = {u}, !.pub = pair[u]]]
  /\ UNCHANGED <<cache, keys, calls, twin>> /\ ServerUnchanged /\ BrowserUnchanged

\* updateChatKey: a copy for the public key that was read.
UpdateChatKey(c) ==
  /\ task[c].at = "UpdateChatKey"
  /\ \E u \in task[c].for :
       /\ copy' = [copy EXCEPT ![u] = [key |-> task[c].with, pair |-> task[c].pub]]
       /\ task' = [Changed(u) EXCEPT ![c] = After(c, u)]
  /\ UNCHANGED <<pair, wrapped, used, cache, keys, calls, twin>> /\ BrowserUnchanged

Next ==
  \/ \E c \in Tab :
       \/ Login(c) \/ Logout(c) \/ Reload(c)
       \/ ChangePassword(c) \/ UpdateWrapped(c)
       \/ CreateChat(c) \/ Insert(c) \/ Created(c)
       \/ SendMessage(c)
       \/ OpenChat(c) \/ ListChatKeys(c) \/ GetPublicKey(c) \/ UpdateChatKey(c)
       \/ GiveUp(c)
  \/ \E u \in User : ResetPassword(u)

Spec == Init /\ [][Next]_vars
-----------------------------------------------------------------------------
(* Properties.                                                             *)

\* The keys that are about: of copies, in memory, of messages.
KeysInUse ==
  (used \union {copy[u].key : u \in User} \union {cache[c] : c \in Tab}) \ {None}

\* The chat has one key.  Copies that are made anew, tabs that were logged out
\* and in again, and messages all have the key the chat was created with, unless
\* a CreateChat was answered with a chat that existed already.
OneKey ==
  ~twin /\ Exists => \A j, k \in KeysInUse : j = k

\* Who never reset the password can read the copy after any login and reload,
\* whatever the others and they themselves do: no change of the password and no
\* re-keying takes the copy away.
CopyStaysReadable ==
  \A u \in User :
    pair[u] = 1 /\ copy[u] # NoCopy => copy[u].pair = 1 /\ wrapped[u] = 1

\* A pass over the other members leaves each of them with a copy for the public
\* key the member has, unless the member reset the password again, or another
\* pass wrote the copy, since the pass began.
RekeyHeals ==
  [][\A c \in Tab, u \in User :
       /\ GetPublicKey(c) \/ UpdateChatKey(c)
       /\ u \in task[c].todo \ task'[c].todo
       /\ u \notin task[c].changed
       => copy'[u].pair = pair[u]]_vars
-----------------------------------------------------------------------------
(* A property that the code does not have.                                 *)

\* The comment above chatKeyCache: the keys in memory are re-derived from the
\* server's copy.
CacheIsDerived ==
  \A c \in Tab : cache[c] # None => cache[c] = copy[Me(c)].key
=============================================================================

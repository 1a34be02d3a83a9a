---------------------------- MODULE ChatKeysProofs ----------------------------
(***************************************************************************)
(* What holds of the keys of a chat for any number of members and tabs,    *)
(* key pairs and chat keys.                                                *)
(***************************************************************************)
EXTENDS ChatKeys, TLAPS

\* The steps of a handler that holds the key of the chat.
Holding == {"Created"} \union Rekey

\* What the handler of the tab c holds at each of its steps.
TaskOK(c) ==
  /\ task[c].at \in Holding \union {"Insert"} => task[c].with \in Key
  /\ task[c].at = "UpdateWrapped" => task[c].with \in Pair
  /\ task[c].at = "UpdateChatKey" => task[c].for \subseteq task[c].todo

TypeInv ==
  /\ TypeOK
  /\ \A c \in Tab : TaskOK(c)
  /\ \A u \in User : copy[u] # NoCopy => copy[u].key \in Key
-----------------------------------------------------------------------------
LEMMA NoTaskType == NoTask \in Task /\ NoTask.at = "idle" /\ NoTask.todo = {} /\ NoTask.for = {}
BY ChatKeysAssumption DEF NoTask, Task, Step, None

LEMMA DoneTask ==
  ASSUME task \in [Tab -> Task], NEW c \in Tab, Done(c)
  PROVE  /\ task' \in [Tab -> Task] /\ task'[c] = NoTask
         /\ \A d \in Tab : d # c => task'[d] = task[d]
BY NoTaskType DEF Done

LEMMA GoTask ==
  ASSUME task \in [Tab -> Task], NEW c \in Tab, NEW at \in Step, Go(c, at)
  PROVE  /\ task' \in [Tab -> Task]
         /\ task'[c].at = at /\ task'[c].with = task[c].with
         /\ \A d \in Tab : d # c => task'[d] = task[d]
BY DEF Go, Task

LEMMA StartTask ==
  ASSUME TypeOK, NEW c \in Tab, NEW t \in Task, Start(c, t)
  PROVE  /\ task' \in [Tab -> Task] /\ task'[c] = t
         /\ \A d \in Tab : d # c => task'[d] = task[d]
         /\ task[c].at = "idle" /\ private[c] # None /\ calls' \in Nat
BY DEF Start, Ready, InApp, Count, TypeOK

LEMMA TaskExcept ==
  ASSUME NEW t \in Task
  PROVE  /\ \A at \in Step : [t EXCEPT !.at = at] \in Task
         /\ \A peers \in [User -> 0..MaxPairs] : [t EXCEPT !.peers = peers] \in Task
         /\ \A todo \in SUBSET User : [t EXCEPT !.todo = todo] \in Task
         /\ \A for \in SUBSET User : [t EXCEPT !.for = for] \in Task
         /\ \A with \in 0..(MaxKeys + MaxPairs) : [t EXCEPT !.with = with] \in Task
         /\ \A pub \in 0..MaxPairs : [t EXCEPT !.pub = pub] \in Task
BY DEF Task

\* A handler that begins with a key that was made or found, or a private key.
LEMMA NewTask ==
  ASSUME NEW with \in 0..(MaxKeys + MaxPairs), NEW at \in Step
  PROVE  [NoTask EXCEPT !.at = at, !.with = with] \in Task
<1>1. [NoTask EXCEPT !.at = at] \in Task
  BY NoTaskType, TaskExcept
<1>2. [[NoTask EXCEPT !.at = at] EXCEPT !.with = with] \in Task
  BY <1>1, TaskExcept
<1>3. QED
  BY <1>2

LEMMA NewInsert ==
  ASSUME NEW with \in 0..(MaxKeys + MaxPairs), NEW peers \in [User -> 0..MaxPairs]
  PROVE  [NoTask EXCEPT !.at = "Insert", !.peers = peers, !.with = with] \in Task
<1>1. [NoTask EXCEPT !.at = "Insert"] \in Task
  BY NoTaskType, TaskExcept DEF Step
<1>2. [[NoTask EXCEPT !.at = "Insert"] EXCEPT !.peers = peers] \in Task
  BY <1>1, TaskExcept
<1>3. [[[NoTask EXCEPT !.at = "Insert"] EXCEPT !.peers = peers] EXCEPT !.with = with] \in Task
  BY <1>2, TaskExcept
<1>4. QED
  BY <1>3

\* What history notes does not change what a handler does.
LEMMA ChangedTask ==
  ASSUME TypeOK, NEW u \in User
  PROVE  /\ Changed(u) \in [Tab -> Task]
         /\ \A d \in Tab :
              /\ Changed(u)[d].at = task[d].at /\ Changed(u)[d].with = task[d].with
              /\ Changed(u)[d].peers = task[d].peers /\ Changed(u)[d].todo = task[d].todo
              /\ Changed(u)[d].for = task[d].for /\ Changed(u)[d].pub = task[d].pub
              /\ Changed(u)[d].changed =
                   IF task[d].at \in Rekey THEN task[d].changed \union {u} ELSE task[d].changed
<1>1. \A d \in Tab : task[d] \in Task
  BY DEF TypeOK
<1>2. \A d \in Tab : [task[d] EXCEPT !.changed = @ \union {u}] \in Task
  BY <1>1 DEF Task
<1>3. QED
  BY <1>1, <1>2 DEF Changed, Task

LEMMA AfterTask ==
  ASSUME TypeOK, NEW c \in Tab, NEW u \in User
  PROVE  /\ After(c, u) \in Task
         /\ \/ After(c, u) = NoTask /\ task[c].todo = {u}
            \/ /\ After(c, u).at = "GetPublicKey" /\ After(c, u).with = task[c].with
               /\ After(c, u).peers = task[c].peers /\ After(c, u).changed = task[c].changed
               /\ After(c, u).todo = task[c].todo \ {u}
<1>1. task[c] \in Task
  BY DEF TypeOK
<1>2. CASE task[c].todo = {u}
  BY <1>2, NoTaskType DEF After
<1>3. CASE task[c].todo # {u}
  <2> DEFINE t == [at |-> "GetPublicKey", peers |-> task[c].peers,
                   todo |-> task[c].todo \ {u}, for |-> {}, with |-> task[c].with,
                   pub |-> None, changed |-> task[c].changed]
  <2>1. After(c, u) = t
    BY <1>1, <1>3 DEF After, Task
  <2>2. t \in Task
    BY <1>1, ChatKeysAssumption DEF Task, Step, Rekey, None
  <2>3. t.at = "GetPublicKey" /\ t.with = task[c].with /\ t.peers = task[c].peers
        /\ t.changed = task[c].changed /\ t.todo = task[c].todo \ {u}
    OBVIOUS
  <2> HIDE DEF t
  <2>4. QED
    BY <2>1, <2>2, <2>3
<1>4. QED
  BY <1>2, <1>3

LEMMA CopyType ==
  ASSUME NEW k \in Key, NEW p \in 0..MaxPairs
  PROVE  [key |-> k, pair |-> p] \in Copy
BY DEF Copy, Key

LEMMA NoneIsNothing == None \notin Key /\ None \notin Pair
BY DEF None, Key, Pair

\* The key that a tab uses is one that was made.
LEMMA GetChatKeyType ==
  ASSUME TypeInv, NEW c \in Tab, NEW k \in GetChatKey(c)
  PROVE  k \in Key /\ k \in 0..(MaxKeys + MaxPairs)
<1>1. cache[c] \in 0..MaxKeys /\ Me(c) \in User
  BY ChatKeysAssumption DEF TypeInv, TypeOK, Me
<1>2. k \in Key
  BY <1>1 DEF GetChatKey, Decrypts, TypeInv, None, Key
<1>3. QED
  BY <1>2, ChatKeysAssumption DEF Key
-----------------------------------------------------------------------------
LEMMA InitTypeInv == Init => TypeInv
<1> SUFFICES ASSUME Init PROVE TypeInv
  OBVIOUS
<1>1. NoCopy \in Copy /\ 1 \in Pair /\ 1 \in 0..MaxPairs /\ None \in 0..MaxKeys
      /\ 0 \in 0..MaxKeys
  BY ChatKeysAssumption DEF NoCopy, Copy, Pair, None
<1>2. TypeOK
  BY <1>1, NoTaskType DEF Init, TypeOK
<1>3. QED
  BY <1>2, NoTaskType DEF Init, TypeInv, TaskOK, Holding, Rekey

\* A step that leaves the server and the browser alone, but for one task.
LEMMA OthersOK ==
  ASSUME TypeInv, NEW c \in Tab, TaskOK(c)', \A d \in Tab : d # c => task'[d] = task[d]
  PROVE  \A d \in Tab : TaskOK(d)'
BY DEF TypeInv, TaskOK

LEMMA StepTypeInv == TypeInv /\ [Next]_vars => TypeInv'
<1> SUFFICES ASSUME TypeInv, [Next]_vars PROVE TypeInv'
  OBVIOUS
<1> USE DEF TypeInv
<1>0. /\ TypeOK /\ \A c \in Tab : TaskOK(c) /\ Me(c) \in User
      /\ task \in [Tab -> Task] /\ \A c \in Tab : task[c] \in Task
  BY ChatKeysAssumption DEF TypeOK, Me
<1>1. ASSUME NEW c \in Tab, Done(c)
      PROVE  task' \in [Tab -> Task] /\ \A d \in Tab : TaskOK(d)'
  <2>1. /\ task' \in [Tab -> Task] /\ task'[c] = NoTask
        /\ \A d \in Tab : d # c => task'[d] = task[d]
    BY <1>0, <1>1, DoneTask
  <2>2. TaskOK(c)'
    BY <2>1, NoTaskType DEF TaskOK, Holding, Rekey
  <2>3. QED
    BY <2>1, <2>2, OthersOK
<1>2. ASSUME NEW c \in Tab, Login(c) PROVE TypeInv'
  BY <1>0, <1>2 DEF Login, Count, ServerUnchanged, TypeOK, TaskOK, Pair
<1>3. ASSUME NEW c \in Tab, Logout(c) PROVE TypeInv'
  BY <1>0, <1>3, ChatKeysAssumption DEF Logout, Count, ServerUnchanged, TypeOK, TaskOK, None
<1>4. ASSUME NEW c \in Tab, Reload(c) PROVE TypeInv'
  <2>1. /\ private' \in [Tab -> 0..MaxPairs] /\ cache' \in [Tab -> 0..MaxKeys]
        /\ calls' \in Nat
    BY <1>0, <1>4, ChatKeysAssumption DEF Reload, Count, TypeOK, Pair, None
  <2>2. UNCHANGED <<session, device, keys, twin, pair, wrapped, copy, used>>
    BY <1>4 DEF Reload, ServerUnchanged
  <2>3. QED
    BY <1>1, <1>4, <2>1, <2>2 DEF Reload, TypeOK
<1>5. ASSUME NEW c \in Tab, GiveUp(c) PROVE TypeInv'
  BY <1>1, <1>5 DEF GiveUp, ServerUnchanged, BrowserUnchanged, TypeOK
<1>6. ASSUME NEW u \in User, ResetPassword(u) PROVE TypeInv'
  <2>1. pair' \in [User -> Pair] /\ wrapped' \in [User -> Pair]
    <3>1. pair[u] + 1 \in Pair
      BY <1>0, <1>6, ChatKeysAssumption DEF ResetPassword, TypeOK, Pair
    <3>2. QED
      BY <1>0, <1>6, <3>1 DEF ResetPassword, TypeOK
  <2>5. session' \in [User -> BOOLEAN]
    BY <1>0, <1>6 DEF ResetPassword, TypeOK
  <2>6. calls' \in Nat
    BY <1>0, <1>6 DEF ResetPassword, Count, TypeOK
  <2>2. task' = Changed(u) /\ UNCHANGED <<copy, used, device, private, cache, keys, twin>>
    BY <1>6 DEF ResetPassword
  <2>3. task' \in [Tab -> Task] /\ \A d \in Tab : TaskOK(d)'
    BY ZenonT(60), <1>0, <2>2, ChangedTask DEF TaskOK
  <2>4. QED
    BY <2>1, <2>2, <2>3, <2>5, <2>6 DEF TypeOK
<1>7. ASSUME NEW c \in Tab, ChangePassword(c) PROVE TypeInv'
  <2> DEFINE t == [NoTask EXCEPT !.at = "UpdateWrapped", !.with = private[c]]
  <2>1. private[c] \in 0..MaxPairs /\ private[c] \in 0..(MaxKeys + MaxPairs)
    BY <1>0, ChatKeysAssumption DEF TypeOK
  <2>2. t \in Task /\ Start(c, t)
    BY <1>7, <2>1, NewTask DEF ChangePassword, Rewrapped, Step
  <2>3. t.at = "UpdateWrapped" /\ t.with = private[c]
    BY DEF NoTask
  <2> HIDE DEF t
  <2>4. /\ task' \in [Tab -> Task] /\ task'[c] = t /\ private[c] # None /\ calls' \in Nat
        /\ \A d \in Tab : d # c => task'[d] = task[d]
    BY <2>2, StartTask
  <2>5. TaskOK(c)'
    BY <2>1, <2>3, <2>4 DEF TaskOK, Holding, Rekey, Pair, None
  <2>6. QED
    BY <1>7, <2>4, <2>5, OthersOK DEF ChangePassword, ServerUnchanged, BrowserUnchanged, TypeOK
<1>8. ASSUME NEW c \in Tab, UpdateWrapped(c) PROVE TypeInv'
  <2>1. wrapped' \in [User -> Pair] /\ session' \in [User -> BOOLEAN]
    BY <1>0, <1>8 DEF UpdateWrapped, TypeOK, TaskOK
  <2>2. QED
    BY <1>1, <1>8, <2>1 DEF UpdateWrapped, TypeOK
<1>9. ASSUME NEW c \in Tab, CreateChat(c) PROVE TypeInv'
  <2> DEFINE t == [NoTask EXCEPT !.at = "Insert", !.peers = pair, !.with = keys + 1]
  <2>1. /\ keys + 1 \in Key /\ keys + 1 \in 0..(MaxKeys + MaxPairs) /\ keys + 1 \in 0..MaxKeys
        /\ pair \in [User -> 0..MaxPairs]
    BY <1>0, <1>9, ChatKeysAssumption DEF CreateChat, TypeOK, Key, Pair
  <2>2. t \in Task /\ Start(c, t)
    BY <1>9, <2>1, NewInsert DEF CreateChat
  <2>3. t.at = "Insert" /\ t.with = keys + 1
    BY DEF NoTask
  <2> HIDE DEF t
  <2>4. /\ task' \in [Tab -> Task] /\ task'[c] = t /\ calls' \in Nat
        /\ \A d \in Tab : d # c => task'[d] = task[d]
    BY <2>2, StartTask
  <2>5. TaskOK(c)'
    BY <2>1, <2>3, <2>4 DEF TaskOK
  <2>6. QED
    BY <1>9, <2>1, <2>4, <2>5, OthersOK
       DEF CreateChat, ServerUnchanged, BrowserUnchanged, TypeOK
<1>10. ASSUME NEW c \in Tab, Insert(c) PROVE TypeInv'
  <2>1. task[c].with \in Key /\ task[c].peers \in [User -> 0..MaxPairs]
    BY <1>0, <1>10 DEF Insert, TaskOK, Task
  <2>2. /\ copy' \in [User -> Copy]
        /\ \A u \in User : copy'[u] # NoCopy => copy'[u].key \in Key
    BY <1>0, <1>10, <2>1, CopyType DEF Insert, TypeOK
  <2>3. /\ task' \in [Tab -> Task]
        /\ task'[c].at = "Created" /\ task'[c].with = task[c].with
        /\ \A d \in Tab : d # c => task'[d] = task[d]
    BY <1>0, <1>10, GoTask DEF Insert, Step
  <2>4. \A d \in Tab : TaskOK(d)'
    BY <2>1, <2>3, OthersOK DEF TaskOK
  <2>5. twin' \in BOOLEAN
    BY <1>10 DEF Insert, TypeOK
  <2>6. QED
    BY <1>10, <2>2, <2>3, <2>4, <2>5 DEF Insert, BrowserUnchanged, TypeOK
<1>11. ASSUME NEW c \in Tab, Created(c) PROVE TypeInv'
  <2>1. cache' \in [Tab -> 0..MaxKeys]
    BY <1>0, <1>11 DEF Created, TaskOK, Holding, TypeOK, Key
  <2>2. QED
    BY <1>1, <1>11, <2>1 DEF Created, ServerUnchanged, BrowserUnchanged, TypeOK
<1>12. ASSUME NEW c \in Tab, SendMessage(c) PROVE TypeInv'
  <2>1. PICK k \in GetChatKey(c) : cache' = [cache EXCEPT ![c] = k] /\ used' = used \union {k}
    BY <1>12 DEF SendMessage
  <2>2. k \in Key /\ k \in 0..MaxKeys
    BY <2>1, GetChatKeyType DEF Key
  <2>3. QED
    BY <1>0, <1>12, <2>1, <2>2 DEF SendMessage, BrowserUnchanged, TypeOK, TaskOK
<1>13. ASSUME NEW c \in Tab, OpenChat(c) PROVE TypeInv'
  <2>1. PICK k \in GetChatKey(c) :
          /\ cache' = [cache EXCEPT ![c] = k]
          /\ Start(c, [NoTask EXCEPT !.at = "ListChatKeys", !.with = k])
    BY <1>13 DEF OpenChat
  <2> DEFINE t == [NoTask EXCEPT !.at = "ListChatKeys", !.with = k]
  <2>2. k \in Key /\ k \in 0..MaxKeys /\ k \in 0..(MaxKeys + MaxPairs)
    BY <2>1, GetChatKeyType DEF Key
  <2>3. t \in Task
    BY <2>2, NewTask DEF Step, Rekey
  <2>4. t.at = "ListChatKeys" /\ t.with = k
    BY DEF NoTask
  <2> HIDE DEF t
  <2>5. /\ task' \in [Tab -> Task] /\ task'[c] = t /\ calls' \in Nat
        /\ \A d \in Tab : d # c => task'[d] = task[d]
    BY <2>1, <2>3, StartTask DEF t
  <2>6. TaskOK(c)'
    BY <2>2, <2>4, <2>5 DEF TaskOK
  <2>7. cache' \in [Tab -> 0..MaxKeys]
    BY <1>0, <2>1, <2>2 DEF TypeOK
  <2>8. QED
    BY <1>13, <2>5, <2>6, <2>7, OthersOK
       DEF OpenChat, ServerUnchanged, BrowserUnchanged, TypeOK
<1>14. ASSUME NEW c \in Tab, ListChatKeys(c) PROVE TypeInv'
  <2> DEFINE peers == [u \in User |-> IF u = Me(c) THEN None ELSE copy[u].pair]
             todo == User \ {Me(c)}
             t == [task[c] EXCEPT !.at = "GetPublicKey", !.todo = todo, !.peers = peers]
  <2>1. peers \in [User -> 0..MaxPairs] /\ todo \in SUBSET User
    BY <1>0, ChatKeysAssumption DEF TypeOK, Copy, None
  <2>2. task' = [task EXCEPT ![c] = t] /\ task[c].at = "ListChatKeys"
    BY <1>14 DEF ListChatKeys
  <2> HIDE DEF todo, peers
  <2>3. t \in Task
    <3>1. [task[c] EXCEPT !.at = "GetPublicKey"] \in Task
      BY <1>0, TaskExcept DEF Step, Rekey
    <3>2. [[task[c] EXCEPT !.at = "GetPublicKey"] EXCEPT !.todo = todo] \in Task
      BY <2>1, <3>1, TaskExcept
    <3>3. [[[task[c] EXCEPT !.at = "GetPublicKey"] EXCEPT !.todo = todo] EXCEPT !.peers = peers]
          \in Task
      BY <2>1, <3>2, TaskExcept
    <3>4. QED
      BY <3>3
  <2>4. t.at = "GetPublicKey" /\ t.with = task[c].with
    BY <1>0 DEF Task
  <2> HIDE DEF t
  <2>5. /\ task' \in [Tab -> Task] /\ task'[c] = t
        /\ \A d \in Tab : d # c => task'[d] = task[d]
    BY <1>0, <2>2, <2>3
  <2>6. TaskOK(c)'
    BY <1>0, <2>2, <2>4, <2>5 DEF TaskOK, Holding, Rekey
  <2>7. QED
    BY <1>14, <2>5, <2>6, OthersOK DEF ListChatKeys, ServerUnchanged, BrowserUnchanged, TypeOK
<1>15. ASSUME NEW c \in Tab, GetPublicKey(c) PROVE TypeInv'
  <2>1. PICK u \in task[c].todo :
          task' = [task EXCEPT ![c] =
                     IF Fits(c, u) THEN After(c, u)
                     ELSE [@ EXCEPT !.at = "UpdateChatKey", !.for = {u}, !.pub = pair[u]]]
    BY <1>15 DEF GetPublicKey
  <2>2. u \in User /\ task[c].with \in Key
    BY <1>0, <1>15 DEF Task, GetPublicKey, TaskOK, Holding, Rekey
  <2>3. CASE Fits(c, u)
    <3>1. /\ task' \in [Tab -> Task] /\ task'[c] = After(c, u)
          /\ \A d \in Tab : d # c => task'[d] = task[d]
      BY <1>0, <2>1, <2>2, <2>3, AfterTask
    <3>2. TaskOK(c)'
      BY <1>0, <2>2, <3>1, AfterTask, NoTaskType DEF TaskOK, Holding, Rekey
    <3>3. QED
      BY <1>15, <3>1, <3>2, OthersOK DEF GetPublicKey, ServerUnchanged, BrowserUnchanged, TypeOK
  <2>4. CASE ~Fits(c, u)
    <3> DEFINE t == [task[c] EXCEPT !.at = "UpdateChatKey", !.for = {u}, !.pub = pair[u]]
    <3>1. t \in Task
      <4>1. pair[u] \in 0..MaxPairs /\ {u} \in SUBSET User
        BY <1>0, <2>2 DEF TypeOK, Pair
      <4>2. [task[c] EXCEPT !.at = "UpdateChatKey"] \in Task
        BY <1>0, TaskExcept DEF Step, Rekey
      <4>3. [[task[c] EXCEPT !.at = "UpdateChatKey"] EXCEPT !.for = {u}] \in Task
        BY <4>1, <4>2, TaskExcept
      <4>4. [[[task[c] EXCEPT !.at = "UpdateChatKey"] EXCEPT !.for = {u}] EXCEPT !.pub = pair[u]]
            \in Task
        BY <4>1, <4>3, TaskExcept
      <4>5. QED
        BY <4>4
    <3>2. task' = [task EXCEPT ![c] = t]
      BY <2>1, <2>4
    <3>3. t.at = "UpdateChatKey" /\ t.with = task[c].with /\ t.for = {u} /\ t.todo = task[c].todo
      BY <1>0 DEF Task
    <3> HIDE DEF t
    <3>4. /\ task' \in [Tab -> Task] /\ task'[c] = t
          /\ \A d \in Tab : d # c => task'[d] = task[d]
      BY <1>0, <3>1, <3>2
    <3>5. TaskOK(c)'
      BY <2>2, <3>3, <3>4 DEF TaskOK
    <3>6. QED
      BY <1>15, <3>4, <3>5, OthersOK DEF GetPublicKey, ServerUnchanged, BrowserUnchanged, TypeOK
  <2>5. QED
    BY <2>3, <2>4
<1>16. ASSUME NEW c \in Tab, UpdateChatKey(c) PROVE TypeInv'
  <2>1. PICK u \in task[c].for :
          /\ copy' = [copy EXCEPT ![u] = [key |-> task[c].with, pair |-> task[c].pub]]
          /\ task' = [Changed(u) EXCEPT ![c] = After(c, u)]
    BY <1>16 DEF UpdateChatKey
  <2>2. u \in User /\ task[c].with \in Key /\ task[c].pub \in 0..MaxPairs
    BY <1>0, <1>16 DEF Task, UpdateChatKey, TaskOK, Holding, Rekey
  <2>3. /\ task' \in [Tab -> Task] /\ task'[c] = After(c, u)
        /\ \A d \in Tab : d # c => task'[d] = Changed(u)[d]
    BY <1>0, <2>1, <2>2, AfterTask, ChangedTask
  <2>4. TaskOK(c)'
    BY <1>0, <2>2, <2>3, AfterTask, NoTaskType DEF TaskOK, Holding, Rekey
  <2>5. \A d \in Tab : TaskOK(d)'
    <3> SUFFICES ASSUME NEW d \in Tab, d # c PROVE TaskOK(d)'
      BY <2>4
    <3>0. task'[d] = Changed(u)[d]
      BY <2>3
    <3>1. /\ task'[d].at = task[d].at /\ task'[d].with = task[d].with
          /\ task'[d].todo = task[d].todo /\ task'[d].for = task[d].for
      <4>1. /\ Changed(u)[d].at = task[d].at /\ Changed(u)[d].with = task[d].with
            /\ Changed(u)[d].todo = task[d].todo /\ Changed(u)[d].for = task[d].for
        BY <2>2, ChangedTask
      <4>2. QED
        BY <3>0, <4>1
    <3>2. QED
      BY <1>0, <3>1 DEF TaskOK
  <2>6. /\ copy' \in [User -> Copy]
        /\ \A v \in User : copy'[v] # NoCopy => copy'[v].key \in Key
    BY <1>0, <2>1, <2>2, CopyType DEF TypeOK
  <2>7. QED
    BY <1>16, <2>3, <2>5, <2>6 DEF UpdateChatKey, BrowserUnchanged, TypeOK
<1>17. CASE UNCHANGED vars
  BY <1>17 DEF vars, TypeOK, TaskOK
<1>18. QED
  BY <1>2, <1>3, <1>4, <1>5, <1>6, <1>7, <1>8, <1>9, <1>10, <1>11, <1>12, <1>13, <1>14,
     <1>15, <1>16, <1>17 DEF Next

\* Whatever tabs do at the same time, every variable keeps its type.
THEOREM TypeCorrect == Spec => []TypeOK
<1>1. TypeInv => TypeOK
  BY DEF TypeInv
<1>2. QED
  BY <1>1, InitTypeInv, StepTypeInv, PTL DEF Spec
-----------------------------------------------------------------------------
(* One key.                                                                *)

\* A tab can use k, or its handler holds k.
IsHeld(k) ==
  \E d \in Tab : k \in GetChatKey(d) \/ (task[d].at \in Holding /\ k = task[d].with)

\* Steps use and remember keys that are there.
Moves ==
  /\ \A k \in used' : k \in used \/ IsHeld(k)
  /\ \A d \in Tab : cache'[d] = None \/ cache'[d] = cache[d] \/ IsHeld(cache'[d])
  /\ \A d \in Tab : task'[d].at \in Holding => IsHeld(task'[d].with)

Acts(c) ==
  \/ Login(c) \/ Logout(c) \/ Reload(c)
  \/ ChangePassword(c) \/ UpdateWrapped(c)
  \/ CreateChat(c) \/ Insert(c) \/ Created(c)
  \/ SendMessage(c)
  \/ OpenChat(c) \/ ListChatKeys(c) \/ GetPublicKey(c) \/ UpdateChatKey(c)
  \/ GiveUp(c)

\* One request of one tab moves on, and holds what it held or what the tab can use.
LEMMA OneMoves ==
  ASSUME NEW c \in Tab, UNCHANGED used,
         \A d \in Tab : d # c => task'[d] = task[d] /\ cache'[d] = cache[d],
         cache'[c] = None \/ cache'[c] = cache[c] \/ IsHeld(cache'[c]),
         task'[c].at \in Holding => IsHeld(task'[c].with)
  PROVE  Moves
BY DEF Moves, IsHeld

LEMMA ActMoves ==
  ASSUME TypeInv, NEW c \in Tab, Acts(c), ~Insert(c)
  PROVE  Moves /\ UNCHANGED twin /\ (UNCHANGED copy \/ UpdateChatKey(c))
<1>0. /\ TypeOK /\ task \in [Tab -> Task] /\ cache \in [Tab -> 0..MaxKeys]
      /\ \A d \in Tab : task[d] \in Task
  BY DEF TypeInv, TypeOK
<1>1. UNCHANGED twin /\ (UNCHANGED copy \/ UpdateChatKey(c))
  BY DEF Acts, Login, Logout, Reload, ChangePassword, UpdateWrapped, CreateChat, Created,
     SendMessage, OpenChat, ListChatKeys, GetPublicKey, UpdateChatKey, GiveUp, ServerUnchanged
<1>2. CASE Login(c) \/ Logout(c)
  BY <1>2 DEF Login, Logout, ServerUnchanged, Moves, IsHeld
<1>3. CASE Reload(c) \/ GiveUp(c) \/ UpdateWrapped(c) \/ Created(c)
  <2>1. task'[c] = NoTask /\ \A d \in Tab : d # c => task'[d] = task[d]
    BY <1>0, <1>3, DoneTask DEF Reload, GiveUp, UpdateWrapped, Created
  <2>2. UNCHANGED used
    BY <1>3 DEF Reload, GiveUp, UpdateWrapped, Created, ServerUnchanged
  <2>3. \A d \in Tab : d # c => cache'[d] = cache[d]
    BY <1>0, <1>3 DEF Reload, GiveUp, UpdateWrapped, Created
  <2>4. cache'[c] = None \/ cache'[c] = cache[c] \/ IsHeld(cache'[c])
    BY <1>0, <1>3 DEF Reload, GiveUp, UpdateWrapped, Created, IsHeld, Holding
  <2>5. task'[c].at \notin Holding
    BY <2>1, NoTaskType DEF Holding, Rekey
  <2>6. QED
    BY <1>1, <2>1, <2>2, <2>3, <2>4, <2>5, OneMoves
<1>4. CASE ChangePassword(c) \/ CreateChat(c)
  <2>1. /\ task'[c].at \in {"UpdateWrapped", "Insert"}
        /\ \A d \in Tab : d # c => task'[d] = task[d]
    <3>1. CASE ChangePassword(c)
      <4> DEFINE new == [NoTask EXCEPT !.at = "UpdateWrapped", !.with = Rewrapped(c)]
      <4>1. new.at = "UpdateWrapped" /\ task' = [task EXCEPT ![c] = new]
        BY <3>1 DEF ChangePassword, Start, NoTask
      <4> HIDE DEF new
      <4>2. QED
        BY <1>0, <4>1
    <3>2. CASE CreateChat(c)
      <4> DEFINE new == [NoTask EXCEPT !.at = "Insert", !.peers = pair, !.with = keys + 1]
      <4>1. new.at = "Insert" /\ task' = [task EXCEPT ![c] = new]
        BY <3>2 DEF CreateChat, Start, NoTask
      <4> HIDE DEF new
      <4>2. QED
        BY <1>0, <4>1
    <3>3. QED
      BY <1>4, <3>1, <3>2
  <2>2. UNCHANGED <<used, cache>>
    BY <1>4 DEF ChangePassword, CreateChat, ServerUnchanged
  <2>3. task'[c].at \notin Holding
    BY <2>1 DEF Holding, Rekey
  <2>4. QED
    BY <1>1, <2>1, <2>2, <2>3, OneMoves
<1>5. CASE SendMessage(c)
  <2>1. PICK k \in GetChatKey(c) : cache' = [cache EXCEPT ![c] = k] /\ used' = used \union {k}
    BY <1>5 DEF SendMessage
  <2>2. IsHeld(k) /\ UNCHANGED task
    BY <1>5, <2>1 DEF IsHeld, SendMessage
  <2>3. QED
    BY <1>0, <1>1, <2>1, <2>2 DEF Moves, IsHeld
<1>6. CASE OpenChat(c)
  <2>1. PICK k \in GetChatKey(c) :
          /\ cache' = [cache EXCEPT ![c] = k]
          /\ Start(c, [NoTask EXCEPT !.at = "ListChatKeys", !.with = k])
    BY <1>6 DEF OpenChat
  <2> DEFINE t == [NoTask EXCEPT !.at = "ListChatKeys", !.with = k]
  <2>2. t.with = k /\ task' = [task EXCEPT ![c] = t]
    BY <2>1 DEF Start, NoTask
  <2> HIDE DEF t
  <2>3. task'[c].with = k /\ cache'[c] = k /\ IsHeld(k) /\ UNCHANGED used
    BY <1>0, <1>6, <2>1, <2>2 DEF IsHeld, OpenChat, ServerUnchanged
  <2>4. \A d \in Tab : d # c => task'[d] = task[d] /\ cache'[d] = cache[d]
    BY <1>0, <2>1, <2>2
  <2>5. QED
    BY <1>1, <2>3, <2>4, OneMoves
<1>7. CASE ListChatKeys(c) \/ GetPublicKey(c)
  <2>1. UNCHANGED <<used, cache>> /\ task[c].at \in Holding
    BY <1>7 DEF ListChatKeys, GetPublicKey, ServerUnchanged, Holding, Rekey
  <2>2. \A d \in Tab : d # c => task'[d] = task[d]
    BY <1>0, <1>7 DEF ListChatKeys, GetPublicKey
  <2>3. task'[c].at \in Holding => task'[c].with = task[c].with
    <3>1. CASE ListChatKeys(c)
      BY <1>0, <3>1 DEF ListChatKeys, Task
    <3>2. CASE GetPublicKey(c)
      <4>1. PICK u \in task[c].todo :
              task' = [task EXCEPT ![c] =
                         IF Fits(c, u) THEN After(c, u)
                         ELSE [@ EXCEPT !.at = "UpdateChatKey", !.for = {u}, !.pub = pair[u]]]
        BY <3>2 DEF GetPublicKey
      <4>2. u \in User
        BY <1>0 DEF Task
      <4>3. CASE Fits(c, u)
        BY <1>0, <4>1, <4>2, <4>3, AfterTask, NoTaskType DEF Holding, Rekey
      <4>4. CASE ~Fits(c, u)
        BY <1>0, <4>1, <4>4 DEF Task
      <4>5. QED
        BY <4>3, <4>4
    <3>3. QED
      BY <1>7, <3>1, <3>2
  <2>4. QED
    BY <1>1, <2>1, <2>2, <2>3, OneMoves DEF IsHeld
<1>8. CASE UpdateChatKey(c)
  <2>1. PICK u \in task[c].for : task' = [Changed(u) EXCEPT ![c] = After(c, u)]
    BY <1>8 DEF UpdateChatKey
  <2>2. u \in User /\ UNCHANGED <<used, cache>> /\ task[c].at \in Holding
    BY <1>0, <1>8 DEF Task, UpdateChatKey, Holding, Rekey
  <2>3. task'[c] = After(c, u) /\ \A d \in Tab : d # c => task'[d] = Changed(u)[d]
    BY <1>0, <2>1, <2>2, ChangedTask
  <2>4. task'[c].at \in Holding => task'[c].with = task[c].with
    BY <1>0, <2>2, <2>3, AfterTask, NoTaskType DEF Holding, Rekey
  <2>5. ASSUME NEW d \in Tab, d # c
        PROVE  task'[d].at = task[d].at /\ task'[d].with = task[d].with
    <3>1. Changed(u)[d].at = task[d].at /\ Changed(u)[d].with = task[d].with
      BY <1>0, <2>2, ChangedTask
    <3>2. task'[d] = Changed(u)[d]
      BY <2>3, <2>5
    <3>3. QED
      BY <3>1, <3>2
  <2>6. \A d \in Tab : task'[d].at \in Holding => IsHeld(task'[d].with)
    BY <2>2, <2>4, <2>5 DEF IsHeld
  <2>7. QED
    BY <1>1, <2>2, <2>6 DEF Moves
<1>9. QED
  BY <1>2, <1>3, <1>4, <1>5, <1>6, <1>7, <1>8 DEF Acts
-----------------------------------------------------------------------------
\* All members get their copies at once.  Before, nobody has a key of the chat;
\* after, all that is about is the key of any copy.
OneKeyInv ==
  /\ \A u, v \in User : copy[u] = NoCopy => copy[v] = NoCopy
  /\ ~Exists => used = {} /\ \A c \in Tab : cache[c] = None /\ task[c].at \notin Holding
  /\ ~twin /\ Exists => \A u \in User :
       /\ \A v \in User : copy[v].key = copy[u].key
       /\ \A k \in used : k = copy[u].key
       /\ \A c \in Tab : /\ cache[c] \in {None, copy[u].key}
                         /\ task[c].at \in Holding => task[c].with = copy[u].key

LEMMA HeldIsTheKey ==
  ASSUME TypeInv, OneKeyInv, NEW k, IsHeld(k)
  PROVE  Exists /\ (~twin => \A u \in User : k = copy[u].key)
<1>1. PICK d \in Tab : k \in GetChatKey(d) \/ (task[d].at \in Holding /\ k = task[d].with)
  BY DEF IsHeld
<1>2. Me(d) \in User
  BY ChatKeysAssumption DEF Me
<1>3. Exists
  BY <1>1, <1>2 DEF OneKeyInv, GetChatKey, Decrypts, Exists
<1>4. ASSUME ~twin, NEW u \in User PROVE k = copy[u].key
  BY <1>1, <1>2, <1>3, <1>4 DEF OneKeyInv, GetChatKey
<1>5. QED
  BY <1>3, <1>4

LEMMA StepOneKey == TypeInv /\ OneKeyInv /\ [Next]_vars => OneKeyInv'
<1> SUFFICES ASSUME TypeInv, OneKeyInv, [Next]_vars PROVE OneKeyInv'
  OBVIOUS
<1>0. /\ copy \in [User -> Copy] /\ task \in [Tab -> Task] /\ \A c \in Tab : TaskOK(c)
      /\ \A c \in Tab : task[c] \in Task
  BY DEF TypeInv, TypeOK
<1>1. ASSUME UNCHANGED <<copy, twin>>, Moves PROVE OneKeyInv'
  <2>1. Exists' = Exists
    BY <1>1 DEF Exists
  <2>2. ASSUME ~Exists'
        PROVE  used' = {} /\ \A c \in Tab : cache'[c] = None /\ task'[c].at \notin Holding
    <3>1. \A k : ~IsHeld(k)
      BY <2>1, <2>2, HeldIsTheKey
    <3>2. used = {} /\ \A c \in Tab : cache[c] = None
      BY <2>1, <2>2 DEF OneKeyInv
    <3>3. QED
      BY <1>1, <3>1, <3>2 DEF Moves
  <2>3. ASSUME ~twin, Exists, NEW u \in User
        PROVE  /\ \A v \in User : copy'[v].key = copy'[u].key
               /\ \A k \in used' : k = copy'[u].key
               /\ \A c \in Tab : /\ cache'[c] \in {None, copy'[u].key}
                                 /\ task'[c].at \in Holding => task'[c].with = copy'[u].key
    <3>1. \A k : IsHeld(k) => k = copy[u].key
      BY <2>3, HeldIsTheKey
    <3>2. /\ \A v \in User : copy[v].key = copy[u].key
          /\ \A k \in used : k = copy[u].key
          /\ \A c \in Tab : cache[c] \in {None, copy[u].key}
      BY <2>3 DEF OneKeyInv
    <3>3. QED
      BY <1>1, <3>1, <3>2 DEF Moves
  <2>4. \A u, v \in User : copy'[u] = NoCopy => copy'[v] = NoCopy
    BY <1>1 DEF OneKeyInv
  <2>5. QED
    BY <1>1, <2>1, <2>2, <2>3, <2>4 DEF OneKeyInv
<1>2. ASSUME NEW c \in Tab, Acts(c), ~Insert(c), ~UpdateChatKey(c) PROVE OneKeyInv'
  BY <1>1, <1>2, ActMoves
<1>3. ASSUME NEW c \in Tab, UpdateChatKey(c) PROVE OneKeyInv'
  <2>1. PICK u \in task[c].for :
          copy' = [copy EXCEPT ![u] = [key |-> task[c].with, pair |-> task[c].pub]]
    BY <1>3 DEF UpdateChatKey
  <2> DEFINE k == task[c].with
  <2>2. u \in User /\ k \in Key /\ k # None /\ task[c].at \in Holding
    BY <1>0, <1>3, NoneIsNothing DEF Task, UpdateChatKey, TaskOK, Holding, Rekey
  <2>3. Moves /\ UNCHANGED twin
    <3>1. ~Insert(c) /\ Acts(c)
      BY <1>3 DEF UpdateChatKey, Insert, Acts
    <3>2. QED
      BY <3>1, ActMoves
  <2>4. IsHeld(k)
    BY <2>2 DEF IsHeld
  <2>5. Exists /\ \A v \in User : copy[v] # NoCopy
    BY <2>4, HeldIsTheKey DEF OneKeyInv, Exists
  <2>6. \A v \in User : copy'[v] # NoCopy
    BY <1>0, <2>1, <2>2, <2>5 DEF NoCopy, Copy
  <2>7. ~twin => \A v \in User : copy'[v].key = k /\ copy[v].key = k
    <3>1. ~twin => \A v \in User : copy[v].key = k
      BY <2>4, HeldIsTheKey
    <3>2. QED
      BY <1>0, <2>1, <3>1 DEF Copy
  <2>8. ASSUME ~twin
        PROVE  /\ \A j \in used' : j = k
               /\ \A d \in Tab : /\ cache'[d] \in {None, k}
                                 /\ task'[d].at \in Holding => task'[d].with = k
    <3>1. \A j : IsHeld(j) => j = k
      BY <2>2, <2>7, <2>8, HeldIsTheKey
    <3>2. (\A j \in used : j = k) /\ \A d \in Tab : cache[d] \in {None, k}
      BY <2>2, <2>5, <2>7, <2>8 DEF OneKeyInv
    <3>3. QED
      BY <2>3, <3>1, <3>2 DEF Moves
  <2>9. Exists'
    BY <2>2, <2>6 DEF Exists
  <2>10. QED
    BY <2>3, <2>6, <2>7, <2>8, <2>9 DEF OneKeyInv
<1>4. ASSUME NEW c \in Tab, Insert(c) PROVE OneKeyInv'
  <2>1. /\ UNCHANGED <<used, cache>> /\ twin' = (twin \/ Exists)
        /\ task'[c].at = "Created" /\ task'[c].with = task[c].with
        /\ \A d \in Tab : d # c => task'[d] = task[d]
    BY <1>0, <1>4, GoTask DEF Insert, Step
  <2>2. Me(c) \in User /\ task[c].with \in Key /\ task[c].with # None
    BY <1>0, <1>4, ChatKeysAssumption, NoneIsNothing DEF Me, Insert, TaskOK
  <2>3. CASE Exists
    <3>1. UNCHANGED copy /\ twin' /\ Exists'
      BY <1>4, <2>1, <2>3 DEF Insert, Exists
    <3>2. QED
      BY <3>1 DEF OneKeyInv
  <2>4. CASE ~Exists
    <3>1. \A u \in User : copy'[u].key = task[c].with
      BY <1>4, <2>4 DEF Insert
    <3>2. \A u \in User : copy'[u] # NoCopy
      BY <2>2, <3>1 DEF NoCopy
    <3>3. used = {} /\ \A d \in Tab : cache[d] = None /\ task[d].at \notin Holding
      BY <2>4 DEF OneKeyInv
    <3>4. Exists'
      BY <2>2, <3>2 DEF Exists
    <3>5. QED
      BY <2>1, <3>1, <3>2, <3>3, <3>4 DEF OneKeyInv
  <2>5. QED
    BY <2>3, <2>4
<1>5. ASSUME NEW u \in User, ResetPassword(u) PROVE OneKeyInv'
  <2>1. UNCHANGED <<copy, twin, used, cache>> /\ task' = Changed(u)
    BY <1>5 DEF ResetPassword
  <2>2. \A d \in Tab : task'[d].at = task[d].at /\ task'[d].with = task[d].with
    <3>1. \A d \in Tab : Changed(u)[d].at = task[d].at /\ Changed(u)[d].with = task[d].with
      BY ChangedTask DEF TypeInv
    <3>2. QED
      BY <2>1, <3>1
  <2>3. Moves
    BY <2>1, <2>2 DEF Moves, IsHeld
  <2>4. QED
    BY <1>1, <2>1, <2>3
<1>6. CASE UNCHANGED vars
  BY <1>1, <1>6 DEF vars, Moves, IsHeld
<1>7. QED
  BY <1>2, <1>3, <1>4, <1>5, <1>6 DEF Next, Acts

\* The chat has one key, whatever copies are made anew, unless a CreateChat was
\* answered with a chat that existed: every key that is used comes from a copy.
THEOREM OneKeyOnly == Spec => []OneKey
<1>1. Init => OneKeyInv
  <2> SUFFICES ASSUME Init PROVE OneKeyInv
    OBVIOUS
  <2>1. \A u \in User : copy[u] = NoCopy
    BY DEF Init
  <2>2. ~Exists
    BY <2>1 DEF Exists
  <2>3. used = {} /\ \A c \in Tab : cache[c] = None /\ task[c].at \notin Holding
    BY NoTaskType DEF Init, Holding, Rekey
  <2>4. QED
    BY <2>1, <2>2, <2>3 DEF OneKeyInv
<1>2. TypeInv /\ OneKeyInv /\ [Next]_vars => (TypeInv /\ OneKeyInv)'
  BY StepTypeInv, StepOneKey
<1>3. OneKeyInv => OneKey
  <2> SUFFICES ASSUME OneKeyInv, ~twin, Exists, NEW j \in KeysInUse, NEW k \in KeysInUse
               PROVE  j = k
    BY DEF OneKey
  <2>1. PICK u \in User : copy[u] # NoCopy
    BY DEF Exists
  <2>2. \A i \in KeysInUse : i = copy[u].key
    BY DEF KeysInUse, OneKeyInv
  <2>3. QED
    BY <2>2
<1>4. QED
  BY <1>1, <1>2, <1>3, InitTypeInv, PTL DEF Spec
-----------------------------------------------------------------------------
(* The copy of a user who never reset the password.                        *)

\* What a handler is about to write keeps the copy of u readable.
WritesReadable(c, u) ==
  /\ task[c].at = "UpdateWrapped" /\ Me(c) = u => task[c].with = 1
  /\ task[c].at = "Insert" => task[c].peers[u] = 1
  /\ task[c].at = "UpdateChatKey" /\ u \in task[c].for => task[c].pub = 1

\* The first pair is everywhere: on the server, in the browser, in the tabs of
\* the user, and in what any tab is about to write.
ReadableInv ==
  \A u \in User : pair[u] = 1 =>
    /\ wrapped[u] = 1 /\ device[u] = 1
    /\ copy[u] # NoCopy => copy[u].pair = 1
    /\ \A c \in Tab : /\ Me(c) = u => private[c] \in {None, 1}
                      /\ WritesReadable(c, u)

LEMMA StepReadable == TypeInv /\ ReadableInv /\ [Next]_vars => ReadableInv'
<1> SUFFICES ASSUME TypeInv, ReadableInv, [Next]_vars, NEW u \in User, pair'[u] = 1
             PROVE  /\ wrapped'[u] = 1 /\ device'[u] = 1
                    /\ copy'[u] # NoCopy => copy'[u].pair = 1
                    /\ \A c \in Tab : /\ Me(c) = u => private'[c] \in {None, 1}
                                      /\ WritesReadable(c, u)'
  BY DEF ReadableInv, Me
<1> DEFINE Good == /\ wrapped'[u] = 1 /\ device'[u] = 1
                   /\ copy'[u] # NoCopy => copy'[u].pair = 1
                   /\ \A c \in Tab : /\ Me(c) = u => private'[c] \in {None, 1}
                                     /\ WritesReadable(c, u)'
<1>0. /\ TypeOK /\ copy \in [User -> Copy] /\ task \in [Tab -> Task] /\ pair \in [User -> Pair]
      /\ wrapped \in [User -> Pair] /\ device \in [User -> Pair]
      /\ private \in [Tab -> 0..MaxPairs]
      /\ \A c \in Tab : TaskOK(c) /\ task[c] \in Task /\ Me(c) \in User
  BY ChatKeysAssumption DEF TypeInv, TypeOK, Me
\* No handler of the tab c is left, or one that is about to write what is readable.
<1>1. ASSUME NEW c \in Tab, pair[u] = 1, WritesReadable(c, u)',
             \A d \in Tab : d # c => task'[d] = task[d]
      PROVE  \A d \in Tab : WritesReadable(d, u)'
  <2> SUFFICES ASSUME NEW d \in Tab, d # c PROVE WritesReadable(d, u)'
    BY <1>1
  <2>1. WritesReadable(d, u) /\ task'[d] = task[d]
    BY <1>1 DEF ReadableInv
  <2>2. QED
    BY <2>1 DEF WritesReadable, Me
<1>2. ASSUME NEW c \in Tab, pair[u] = 1, Done(c)
      PROVE  \A d \in Tab : WritesReadable(d, u)'
  <2>1. task'[c].at = "idle" /\ \A d \in Tab : d # c => task'[d] = task[d]
    BY <1>0, <1>2, DoneTask, NoTaskType
  <2>2. WritesReadable(c, u)'
    BY <2>1 DEF WritesReadable
  <2>3. QED
    BY <1>1, <1>2, <2>1, <2>2
<1> DEFINE Kept == /\ pair[u] = 1 /\ wrapped[u] = 1 /\ device[u] = 1
                   /\ copy[u] # NoCopy => copy[u].pair = 1
                   /\ \A c \in Tab : Me(c) = u => private[c] \in {None, 1}
<1>3. ASSUME UNCHANGED pair PROVE Kept
  BY <1>3 DEF ReadableInv
<1>4. ASSUME NEW c \in Tab, Login(c) PROVE Good
  <2>1. Kept /\ UNCHANGED <<copy, wrapped, task>>
    BY <1>3, <1>4 DEF Login, ServerUnchanged
  <2>2. \A d \in Tab : WritesReadable(d, u)'
    BY <2>1 DEF ReadableInv, WritesReadable, Me
  <2>3. Me(c) = u => device'[u] = 1 /\ private'[c] = 1
    BY <1>0, <1>4, <2>1 DEF Login
  <2>4. (Me(c) # u => device'[u] = device[u]) /\ \A d \in Tab : d # c => private'[d] = private[d]
    BY <1>0, <1>4 DEF Login
  <2>5. QED
    BY <2>1, <2>2, <2>3, <2>4
<1>5. ASSUME NEW c \in Tab, Logout(c) PROVE Good
  <2>1. Kept /\ UNCHANGED <<copy, wrapped, device, task>>
    BY <1>3, <1>5 DEF Logout, ServerUnchanged
  <2>2. \A d \in Tab : WritesReadable(d, u)'
    BY <2>1 DEF ReadableInv, WritesReadable, Me
  <2>3. \A d \in Tab : private'[d] \in {private[d], None}
    BY <1>0, <1>5 DEF Logout
  <2>4. QED
    BY <2>1, <2>2, <2>3
<1>6. ASSUME NEW c \in Tab, Reload(c) PROVE Good
  <2>1. Kept /\ UNCHANGED <<copy, wrapped, device>>
    BY <1>3, <1>6 DEF Reload, ServerUnchanged
  <2>2. \A d \in Tab : WritesReadable(d, u)'
    BY <1>2, <1>6, <2>1 DEF Reload
  <2>3. Me(c) = u => private'[c] \in {None, 1}
    BY <1>0, <1>6, <2>1 DEF Reload
  <2>4. \A d \in Tab : d # c => private'[d] = private[d]
    BY <1>0, <1>6 DEF Reload
  <2>5. QED
    BY <2>1, <2>2, <2>3, <2>4
<1>7. ASSUME NEW c \in Tab, GiveUp(c) \/ Created(c) PROVE Good
  <2>1. Kept /\ UNCHANGED <<copy, wrapped, device, private>> /\ Done(c)
    BY <1>3, <1>7 DEF GiveUp, Created, ServerUnchanged, BrowserUnchanged
  <2>2. QED
    BY <1>2, <2>1
<1>8. ASSUME NEW c \in Tab, UpdateWrapped(c) PROVE Good
  <2>1. Kept /\ UNCHANGED <<copy, device, private>> /\ Done(c)
    BY <1>3, <1>8 DEF UpdateWrapped
  <2>2. Me(c) = u => task[c].with = 1
    BY <1>8, <2>1 DEF UpdateWrapped, ReadableInv, WritesReadable
  <2>3. wrapped'[u] = 1
    BY <1>0, <1>8, <2>1, <2>2 DEF UpdateWrapped
  <2>4. QED
    BY <1>2, <2>1, <2>3
<1>9. ASSUME NEW c \in Tab, ChangePassword(c) PROVE Good
  <2> DEFINE t == [NoTask EXCEPT !.at = "UpdateWrapped", !.with = private[c]]
  <2>1. private[c] \in 0..(MaxKeys + MaxPairs)
    BY <1>0, ChatKeysAssumption
  <2>2. t \in Task /\ Start(c, t)
    BY <1>9, <2>1, NewTask DEF ChangePassword, Rewrapped, Step
  <2>3. t.at = "UpdateWrapped" /\ t.with = private[c]
    BY DEF NoTask
  <2> HIDE DEF t
  <2>4. /\ task'[c] = t /\ private[c] # None
        /\ \A d \in Tab : d # c => task'[d] = task[d]
    BY <1>0, <2>2, StartTask
  <2>5. Kept /\ UNCHANGED <<copy, wrapped, device, private>>
    BY <1>3, <1>9 DEF ChangePassword, ServerUnchanged, BrowserUnchanged
  <2>6. WritesReadable(c, u)'
    BY <2>3, <2>4, <2>5 DEF WritesReadable, Me
  <2>7. QED
    BY <1>1, <2>4, <2>5, <2>6
<1>10. ASSUME NEW c \in Tab, CreateChat(c) PROVE Good
  <2> DEFINE t == [NoTask EXCEPT !.at = "Insert", !.peers = pair, !.with = keys + 1]
  <2>1. keys + 1 \in 0..(MaxKeys + MaxPairs) /\ pair \in [User -> 0..MaxPairs]
    BY <1>0, <1>10, ChatKeysAssumption DEF CreateChat, TypeOK, Pair
  <2>2. t \in Task /\ Start(c, t)
    BY <1>10, <2>1, NewInsert DEF CreateChat
  <2>3. t.at = "Insert" /\ t.peers = pair
    BY DEF NoTask
  <2> HIDE DEF t
  <2>4. task'[c] = t /\ \A d \in Tab : d # c => task'[d] = task[d]
    BY <1>0, <2>2, StartTask
  <2>5. Kept /\ UNCHANGED <<copy, wrapped, device, private>>
    BY <1>3, <1>10 DEF CreateChat, ServerUnchanged, BrowserUnchanged
  <2>6. WritesReadable(c, u)'
    BY <2>3, <2>4, <2>5 DEF WritesReadable
  <2>7. QED
    BY <1>1, <2>4, <2>5, <2>6
<1>11. ASSUME NEW c \in Tab, Insert(c) PROVE Good
  <2>1. Kept /\ UNCHANGED <<wrapped, device, private>>
    BY <1>3, <1>11 DEF Insert, BrowserUnchanged
  <2>2. task[c].peers[u] = 1
    BY <1>11, <2>1 DEF Insert, ReadableInv, WritesReadable
  <2>3. copy'[u] # NoCopy => copy'[u].pair = 1
    BY <1>11, <2>1, <2>2 DEF Insert
  <2>4. task'[c].at = "Created" /\ \A d \in Tab : d # c => task'[d] = task[d]
    BY <1>0, <1>11, GoTask DEF Insert, Step
  <2>5. WritesReadable(c, u)'
    BY <2>4 DEF WritesReadable
  <2>6. QED
    BY <1>1, <2>1, <2>3, <2>4, <2>5
<1>12. ASSUME NEW c \in Tab, SendMessage(c) PROVE Good
  <2>1. Kept /\ UNCHANGED <<copy, wrapped, device, private, task>>
    BY <1>3, <1>12 DEF SendMessage, BrowserUnchanged
  <2>2. \A d \in Tab : WritesReadable(d, u)'
    BY <2>1 DEF ReadableInv, WritesReadable, Me
  <2>3. QED
    BY <2>1, <2>2
<1>13. ASSUME NEW c \in Tab, OpenChat(c) PROVE Good
  <2>1. PICK k \in GetChatKey(c) : Start(c, [NoTask EXCEPT !.at = "ListChatKeys", !.with = k])
    BY <1>13 DEF OpenChat
  <2> DEFINE t == [NoTask EXCEPT !.at = "ListChatKeys", !.with = k]
  <2>2. t.at = "ListChatKeys" /\ task' = [task EXCEPT ![c] = t]
    BY <2>1 DEF Start, NoTask
  <2> HIDE DEF t
  <2>3. task'[c].at = "ListChatKeys" /\ \A d \in Tab : d # c => task'[d] = task[d]
    BY <1>0, <2>2
  <2>4. Kept /\ UNCHANGED <<copy, wrapped, device, private>>
    BY <1>3, <1>13 DEF OpenChat, ServerUnchanged, BrowserUnchanged
  <2>5. WritesReadable(c, u)'
    BY <2>3 DEF WritesReadable
  <2>6. QED
    BY <1>1, <2>3, <2>4, <2>5
<1>14. ASSUME NEW c \in Tab, ListChatKeys(c) PROVE Good
  <2>1. task'[c].at = "GetPublicKey" /\ \A d \in Tab : d # c => task'[d] = task[d]
    BY <1>0, <1>14 DEF ListChatKeys, Task
  <2>2. Kept /\ UNCHANGED <<copy, wrapped, device, private>>
    BY <1>3, <1>14 DEF ListChatKeys, ServerUnchanged, BrowserUnchanged
  <2>3. WritesReadable(c, u)'
    BY <2>1 DEF WritesReadable
  <2>4. QED
    BY <1>1, <2>1, <2>2, <2>3
<1>15. ASSUME NEW c \in Tab, GetPublicKey(c) PROVE Good
  <2>1. PICK v \in task[c].todo :
          task' = [task EXCEPT ![c] =
                     IF Fits(c, v) THEN After(c, v)
                     ELSE [@ EXCEPT !.at = "UpdateChatKey", !.for = {v}, !.pub = pair[v]]]
    BY <1>15 DEF GetPublicKey
  <2>2. v \in User
    BY <1>0 DEF Task
  <2>3. Kept /\ UNCHANGED <<copy, wrapped, device, private>>
    BY <1>3, <1>15 DEF GetPublicKey, ServerUnchanged, BrowserUnchanged
  <2>4. \A d \in Tab : d # c => task'[d] = task[d]
    BY <1>0, <2>1
  <2>5. WritesReadable(c, u)'
    <3>1. CASE Fits(c, v)
      <4>1. task'[c] = After(c, v)
        BY <1>0, <2>1, <3>1
      <4>2. task'[c].at \in {"idle", "GetPublicKey"}
        BY <1>0, <2>2, <4>1, AfterTask, NoTaskType
      <4>3. QED
        BY <4>2 DEF WritesReadable
    <3>2. CASE ~Fits(c, v)
      <4>1. /\ task'[c].at = "UpdateChatKey" /\ task'[c].for = {v}
            /\ task'[c].pub = pair[v]
        BY <1>0, <2>1, <3>2 DEF Task
      <4>2. QED
        BY <2>3, <4>1 DEF WritesReadable
    <3>3. QED
      BY <3>1, <3>2
  <2>6. QED
    BY <1>1, <2>3, <2>4, <2>5
\* What history notes leaves every handler as it is.
<1>16. ASSUME NEW v \in User, pair[u] = 1, NEW d \in Tab, task'[d] = Changed(v)[d]
       PROVE  WritesReadable(d, u)'
  <2>1. /\ task'[d].at = task[d].at /\ task'[d].with = task[d].with
        /\ task'[d].peers = task[d].peers /\ task'[d].for = task[d].for
        /\ task'[d].pub = task[d].pub
    <3>1. /\ Changed(v)[d].at = task[d].at /\ Changed(v)[d].with = task[d].with
          /\ Changed(v)[d].peers = task[d].peers /\ Changed(v)[d].for = task[d].for
          /\ Changed(v)[d].pub = task[d].pub
      BY <1>0, ChangedTask
    <3>2. QED
      BY <1>16, <3>1
  <2>2. WritesReadable(d, u)
    BY <1>16 DEF ReadableInv
  <2>3. QED
    BY <2>1, <2>2 DEF WritesReadable, Me
<1>17. ASSUME NEW c \in Tab, UpdateChatKey(c) PROVE Good
  <2>1. PICK v \in task[c].for :
          /\ copy' = [copy EXCEPT ![v] = [key |-> task[c].with, pair |-> task[c].pub]]
          /\ task' = [Changed(v) EXCEPT ![c] = After(c, v)]
    BY <1>17 DEF UpdateChatKey
  <2>2. Kept /\ UNCHANGED <<wrapped, device, private>>
    BY <1>3, <1>17 DEF UpdateChatKey, BrowserUnchanged
  <2>3. v \in User
    BY <1>0 DEF Task
  <2>4. v = u => task[c].pub = 1
    BY <1>17, <2>1, <2>2 DEF UpdateChatKey, ReadableInv, WritesReadable
  <2>5. copy'[u] # NoCopy => copy'[u].pair = 1
    BY <1>0, <2>1, <2>2, <2>4
  <2>6. task'[c] = After(c, v) /\ \A d \in Tab : d # c => task'[d] = Changed(v)[d]
    BY <1>0, <2>1, <2>3, ChangedTask
  <2>7. task'[c].at \in {"idle", "GetPublicKey"}
    BY <1>0, <2>3, <2>6, AfterTask, NoTaskType
  <2>8. WritesReadable(c, u)'
    BY <2>7 DEF WritesReadable
  <2>9. \A d \in Tab : WritesReadable(d, u)'
    BY <1>16, <2>2, <2>3, <2>6, <2>8
  <2>10. QED
    BY <2>2, <2>5, <2>9
<1>18. ASSUME NEW v \in User, ResetPassword(v) PROVE Good
  <2>1. v # u /\ pair[u] = 1
    BY <1>0, <1>18 DEF ResetPassword, Pair
  <2>2. Kept
    BY <2>1 DEF ReadableInv
  <2>3. /\ wrapped'[u] = wrapped[u] /\ task' = Changed(v)
        /\ UNCHANGED <<copy, device, private>>
    BY <1>0, <1>18, <2>1 DEF ResetPassword
  <2>4. \A d \in Tab : WritesReadable(d, u)'
    BY <1>16, <2>1, <2>3
  <2>5. QED
    BY <2>2, <2>3, <2>4
<1>19. CASE UNCHANGED vars
  <2>1. Kept /\ UNCHANGED <<copy, wrapped, device, private, task>>
    BY <1>3, <1>19 DEF vars
  <2>2. \A d \in Tab : WritesReadable(d, u)'
    BY <2>1 DEF ReadableInv, WritesReadable, Me
  <2>3. QED
    BY <2>1, <2>2
<1>20. QED
  BY <1>4, <1>5, <1>6, <1>7, <1>8, <1>9, <1>10, <1>11, <1>12, <1>13, <1>14, <1>15, <1>17,
     <1>18, <1>19 DEF Next

\* Whoever never reset the password can read the copy after any login: every
\* write by any tab is for the first pair, and of the first private key.
THEOREM CopiesReadable == Spec => []CopyStaysReadable
<1>1. Init => ReadableInv
  <2> SUFFICES ASSUME Init, NEW u \in User, NEW c \in Tab
               PROVE  /\ wrapped[u] = 1 /\ device[u] = 1 /\ copy[u] = NoCopy
                      /\ private[c] = 1 /\ WritesReadable(c, u)
    BY DEF ReadableInv, Init
  <2>1. task[c].at = "idle"
    BY NoTaskType DEF Init
  <2>2. QED
    BY <2>1 DEF Init, WritesReadable
<1>2. TypeInv /\ ReadableInv /\ [Next]_vars => (TypeInv /\ ReadableInv)'
  BY StepTypeInv, StepReadable
<1>3. ReadableInv => CopyStaysReadable
  BY DEF ReadableInv, CopyStaysReadable
<1>4. QED
  BY <1>1, <1>2, <1>3, InitTypeInv, PTL DEF Spec
-----------------------------------------------------------------------------
(* Copies are made anew.                                                   *)

\* What the pass of the tab c has read about u is what is stored.
ReadIsStored(c, u) ==
  /\ task[c].at \in {"GetPublicKey", "UpdateChatKey"} => task[c].peers[u] = copy[u].pair
  /\ task[c].at = "UpdateChatKey" /\ u \in task[c].for => task[c].pub = pair[u]

PassInv ==
  \A c \in Tab, u \in User :
    u \in task[c].todo /\ u \notin task[c].changed => ReadIsStored(c, u)

\* A task that is no pass over members.
LEMMA NoPass ==
  ASSUME NEW c \in Tab, task'[c].at \notin {"GetPublicKey", "UpdateChatKey"}
  PROVE  \A u \in User : ReadIsStored(c, u)'
BY DEF ReadIsStored

\* A step of one tab that leaves the keys on the server alone.
LEMMA OtherPasses ==
  ASSUME PassInv, NEW c \in Tab, UNCHANGED <<pair, copy>>,
         \A d \in Tab : d # c => task'[d] = task[d],
         \A u \in User : u \in task'[c].todo /\ u \notin task'[c].changed
                           => ReadIsStored(c, u)'
  PROVE  PassInv'
<1> SUFFICES ASSUME NEW d \in Tab, NEW u \in User, d # c,
                    u \in task'[d].todo, u \notin task'[d].changed
             PROVE  ReadIsStored(d, u)'
  BY DEF PassInv
<1>1. task'[d] = task[d] /\ ReadIsStored(d, u)
  BY DEF PassInv
<1>2. QED
  BY <1>1 DEF ReadIsStored

\* A step that changes the pair or the copy of v, which history notes.
LEMMA NotedPass ==
  ASSUME TypeInv, PassInv, NEW v \in User, NEW d \in Tab, task'[d] = Changed(v)[d],
         \A u \in User : u # v => pair'[u] = pair[u] /\ copy'[u] = copy[u]
  PROVE  \A u \in User : u \in task'[d].todo /\ u \notin task'[d].changed
                           => ReadIsStored(d, u)'
<1> SUFFICES ASSUME NEW u \in User, u \in task'[d].todo, u \notin task'[d].changed
             PROVE  ReadIsStored(d, u)'
  OBVIOUS
<1>0. /\ Changed(v)[d].at = task[d].at /\ Changed(v)[d].todo = task[d].todo
      /\ Changed(v)[d].peers = task[d].peers /\ Changed(v)[d].for = task[d].for
      /\ Changed(v)[d].pub = task[d].pub
      /\ Changed(v)[d].changed = IF task[d].at \in Rekey THEN task[d].changed \union {v}
                                 ELSE task[d].changed
  BY ChangedTask DEF TypeInv
<1>1. /\ task'[d].at = task[d].at /\ task'[d].todo = task[d].todo
      /\ task'[d].peers = task[d].peers /\ task'[d].for = task[d].for
      /\ task'[d].pub = task[d].pub
      /\ task'[d].changed = IF task[d].at \in Rekey THEN task[d].changed \union {v}
                            ELSE task[d].changed
  BY <1>0
<1>2. CASE task[d].at \notin Rekey
  BY <1>1, <1>2 DEF ReadIsStored, Rekey
<1>3. CASE task[d].at \in Rekey
  <2>1. u # v /\ ReadIsStored(d, u)
    BY <1>1, <1>3 DEF PassInv
  <2>2. QED
    BY <1>1, <2>1 DEF ReadIsStored
<1>4. QED
  BY <1>2, <1>3

LEMMA StepPassInv == TypeInv /\ OneKeyInv /\ PassInv /\ [Next]_vars => PassInv'
<1> SUFFICES ASSUME TypeInv, OneKeyInv, PassInv, [Next]_vars PROVE PassInv'
  OBVIOUS
<1>0. /\ TypeOK /\ copy \in [User -> Copy] /\ task \in [Tab -> Task] /\ pair \in [User -> Pair]
      /\ \A c \in Tab : TaskOK(c) /\ task[c] \in Task
  BY DEF TypeInv, TypeOK
<1>1. ASSUME NEW c \in Tab, UNCHANGED <<pair, copy>>,
             \A d \in Tab : d # c => task'[d] = task[d],
             task'[c].at \notin {"GetPublicKey", "UpdateChatKey"}
      PROVE  PassInv'
  BY <1>1, NoPass, OtherPasses
<1>2. ASSUME NEW c \in Tab, Reload(c) \/ GiveUp(c) \/ UpdateWrapped(c) \/ Created(c)
      PROVE  PassInv'
  <2>1. UNCHANGED <<pair, copy>> /\ Done(c)
    BY <1>2 DEF Reload, GiveUp, UpdateWrapped, Created, ServerUnchanged
  <2>2. task'[c].at = "idle" /\ \A d \in Tab : d # c => task'[d] = task[d]
    BY <1>0, <2>1, DoneTask, NoTaskType
  <2>3. QED
    BY <1>1, <2>1, <2>2
<1>3. ASSUME NEW c \in Tab, Login(c) \/ Logout(c) \/ SendMessage(c) PROVE PassInv'
  <2>1. UNCHANGED <<pair, copy, task>>
    BY <1>3 DEF Login, Logout, SendMessage, ServerUnchanged
  <2>2. QED
    BY <2>1 DEF PassInv, ReadIsStored
<1>4. ASSUME NEW c \in Tab, ChangePassword(c) PROVE PassInv'
  <2> DEFINE t == [NoTask EXCEPT !.at = "UpdateWrapped", !.with = Rewrapped(c)]
  <2>1. t.at = "UpdateWrapped" /\ task' = [task EXCEPT ![c] = t] /\ UNCHANGED <<pair, copy>>
    BY <1>4 DEF ChangePassword, Start, NoTask, ServerUnchanged
  <2> HIDE DEF t
  <2>2. task'[c].at = "UpdateWrapped" /\ \A d \in Tab : d # c => task'[d] = task[d]
    BY <1>0, <2>1
  <2>3. QED
    BY <1>1, <2>1, <2>2
<1>5. ASSUME NEW c \in Tab, CreateChat(c) PROVE PassInv'
  <2> DEFINE t == [NoTask EXCEPT !.at = "Insert", !.peers = pair, !.with = keys + 1]
  <2>1. t.at = "Insert" /\ task' = [task EXCEPT ![c] = t] /\ UNCHANGED <<pair, copy>>
    BY <1>5 DEF CreateChat, Start, NoTask, ServerUnchanged
  <2> HIDE DEF t
  <2>2. task'[c].at = "Insert" /\ \A d \in Tab : d # c => task'[d] = task[d]
    BY <1>0, <2>1
  <2>3. QED
    BY <1>1, <2>1, <2>2
<1>6. ASSUME NEW c \in Tab, OpenChat(c) PROVE PassInv'
  <2>1. PICK k \in GetChatKey(c) : Start(c, [NoTask EXCEPT !.at = "ListChatKeys", !.with = k])
    BY <1>6 DEF OpenChat
  <2> DEFINE t == [NoTask EXCEPT !.at = "ListChatKeys", !.with = k]
  <2>2. t.at = "ListChatKeys" /\ task' = [task EXCEPT ![c] = t] /\ UNCHANGED <<pair, copy>>
    BY <1>6, <2>1 DEF OpenChat, Start, NoTask, ServerUnchanged
  <2> HIDE DEF t
  <2>3. task'[c].at = "ListChatKeys" /\ \A d \in Tab : d # c => task'[d] = task[d]
    BY <1>0, <2>2
  <2>4. QED
    BY <1>1, <2>2, <2>3
<1>7. ASSUME NEW c \in Tab, Insert(c) PROVE PassInv'
  <2>1. /\ UNCHANGED pair /\ task'[c].at = "Created"
        /\ \A d \in Tab : d # c => task'[d] = task[d]
    BY <1>0, <1>7, GoTask DEF Insert, Step
  <2>2. CASE Exists
    <3>1. UNCHANGED copy
      BY <1>7, <2>2 DEF Insert
    <3>2. QED
      BY <1>1, <2>1, <3>1
  <2>3. CASE ~Exists
    <3>1. \A d \in Tab : task[d].at \notin {"GetPublicKey", "UpdateChatKey"}
      BY <2>3 DEF OneKeyInv, Holding, Rekey
    <3>2. \A d \in Tab : task'[d].at \notin {"GetPublicKey", "UpdateChatKey"}
      BY <2>1, <3>1
    <3>3. QED
      BY <3>2, NoPass DEF PassInv
  <2>4. QED
    BY <2>2, <2>3
<1>8. ASSUME NEW c \in Tab, ListChatKeys(c) PROVE PassInv'
  <2>1. /\ UNCHANGED <<pair, copy>> /\ task'[c].at = "GetPublicKey"
        /\ task'[c].todo = User \ {Me(c)}
        /\ \A u \in User : u # Me(c) => task'[c].peers[u] = copy[u].pair
    BY <1>0, <1>8 DEF ListChatKeys, ServerUnchanged, Task
  <2>2. \A d \in Tab : d # c => task'[d] = task[d]
    BY <1>0, <1>8 DEF ListChatKeys
  <2>3. \A u \in User : u \in task'[c].todo => ReadIsStored(c, u)'
    BY <2>1 DEF ReadIsStored
  <2>4. QED
    BY <2>1, <2>2, <2>3, OtherPasses
\* The pass of the tab c goes on to the next member.
<1>9. ASSUME NEW c \in Tab, NEW v \in User, task'[c] = After(c, v),
             task[c].at \in {"GetPublicKey", "UpdateChatKey"},
             \A u \in User : u # v => pair'[u] = pair[u] /\ copy'[u] = copy[u]
      PROVE  \A u \in User : u \in task'[c].todo /\ u \notin task'[c].changed
                               => ReadIsStored(c, u)'
  <2>1. CASE task'[c] = NoTask
    BY <2>1, NoTaskType
  <2>2. CASE task'[c] # NoTask
    <3>1. /\ task'[c].at = "GetPublicKey" /\ task'[c].peers = task[c].peers
          /\ task'[c].changed = task[c].changed /\ task'[c].todo = task[c].todo \ {v}
      BY <1>0, <1>9, <2>2, AfterTask
    <3>2. SUFFICES ASSUME NEW u \in User, u \in task'[c].todo, u \notin task'[c].changed
                   PROVE  ReadIsStored(c, u)'
      OBVIOUS
    <3>3. u # v /\ ReadIsStored(c, u)
      BY <3>1, <3>2 DEF PassInv
    <3>4. QED
      BY <1>9, <3>1, <3>3 DEF ReadIsStored
  <2>3. QED
    BY <2>1, <2>2
<1>10. ASSUME NEW c \in Tab, GetPublicKey(c) PROVE PassInv'
  <2>1. PICK v \in task[c].todo :
          task' = [task EXCEPT ![c] =
                     IF Fits(c, v) THEN After(c, v)
                     ELSE [@ EXCEPT !.at = "UpdateChatKey", !.for = {v}, !.pub = pair[v]]]
    BY <1>10 DEF GetPublicKey
  <2>2. v \in User /\ UNCHANGED <<pair, copy>> /\ task[c].at = "GetPublicKey"
    BY <1>0, <1>10 DEF Task, GetPublicKey, ServerUnchanged
  <2>3. \A d \in Tab : d # c => task'[d] = task[d]
    BY <1>0, <2>1
  <2>4. CASE Fits(c, v)
    <3>1. task'[c] = After(c, v)
      BY <1>0, <2>1, <2>4
    <3>2. QED
      BY <1>9, <2>2, <2>3, <3>1, OtherPasses
  <2>5. CASE ~Fits(c, v)
    <3>1. /\ task'[c].peers = task[c].peers /\ task'[c].todo = task[c].todo
          /\ task'[c].changed = task[c].changed /\ task'[c].for = {v}
          /\ task'[c].pub = pair[v]
      BY <1>0, <2>1, <2>5 DEF Task
    <3>2. \A u \in User : u \in task'[c].todo /\ u \notin task'[c].changed
                            => task'[c].peers[u] = copy[u].pair
      BY <2>2, <3>1 DEF PassInv, ReadIsStored
    <3>3. \A u \in User : u \in task'[c].todo /\ u \notin task'[c].changed
                            => ReadIsStored(c, u)'
      BY <2>2, <3>1, <3>2 DEF ReadIsStored
    <3>4. QED
      BY <2>2, <2>3, <3>3, OtherPasses
  <2>6. QED
    BY <2>4, <2>5
<1>11. ASSUME NEW c \in Tab, UpdateChatKey(c) PROVE PassInv'
  <2>1. PICK v \in task[c].for :
          /\ copy' = [copy EXCEPT ![v] = [key |-> task[c].with, pair |-> task[c].pub]]
          /\ task' = [Changed(v) EXCEPT ![c] = After(c, v)]
    BY <1>11 DEF UpdateChatKey
  <2>2. v \in User /\ UNCHANGED pair /\ task[c].at = "UpdateChatKey"
    BY <1>0, <1>11 DEF Task, UpdateChatKey
  <2>3. \A u \in User : u # v => pair'[u] = pair[u] /\ copy'[u] = copy[u]
    BY <1>0, <2>1, <2>2
  <2>4. task'[c] = After(c, v) /\ \A d \in Tab : d # c => task'[d] = Changed(v)[d]
    BY <1>0, <2>1, <2>2, ChangedTask
  <2>5. \A u \in User : u \in task'[c].todo /\ u \notin task'[c].changed
                          => ReadIsStored(c, u)'
    BY <1>9, <2>2, <2>3, <2>4
  <2>6. \A d \in Tab : d # c =>
          \A u \in User : u \in task'[d].todo /\ u \notin task'[d].changed
                            => ReadIsStored(d, u)'
    BY <2>2, <2>3, <2>4, NotedPass
  <2>7. QED
    BY <2>5, <2>6 DEF PassInv
<1>12. ASSUME NEW v \in User, ResetPassword(v) PROVE PassInv'
  <2>1. /\ \A u \in User : u # v => pair'[u] = pair[u] /\ copy'[u] = copy[u]
        /\ task' = Changed(v)
    BY <1>0, <1>12 DEF ResetPassword
  <2>2. QED
    BY <2>1, NotedPass DEF PassInv
<1>13. CASE UNCHANGED vars
  BY <1>13 DEF vars, PassInv, ReadIsStored
<1>14. QED
  BY <1>2, <1>3, <1>4, <1>5, <1>6, <1>7, <1>8, <1>10, <1>11, <1>12, <1>13 DEF Next

\* A pass leaves every member that it looked at with a copy for the public key
\* of the member, unless something else changed one of them in the meantime.
THEOREM PassesHeal == Spec => RekeyHeals
<1> DEFINE Healed(c, u) == /\ GetPublicKey(c) \/ UpdateChatKey(c)
                           /\ u \in task[c].todo \ task'[c].todo
                           /\ u \notin task[c].changed
                           => copy'[u].pair = pair[u]
<1>1. Init => OneKeyInv /\ PassInv
  <2> SUFFICES ASSUME Init PROVE OneKeyInv /\ PassInv
    OBVIOUS
  <2>1. \A u \in User : copy[u] = NoCopy
    BY DEF Init
  <2>2. ~Exists
    BY <2>1 DEF Exists
  <2>3. used = {} /\ \A c \in Tab : cache[c] = None /\ task[c].at \notin Holding
    BY NoTaskType DEF Init, Holding, Rekey
  <2>4. \A c \in Tab : task[c].todo = {}
    BY NoTaskType DEF Init
  <2>5. QED
    BY <2>1, <2>2, <2>3, <2>4 DEF OneKeyInv, PassInv
<1>2. TypeInv /\ OneKeyInv /\ PassInv /\ [Next]_vars => (TypeInv /\ OneKeyInv /\ PassInv)'
  BY StepTypeInv, StepOneKey, StepPassInv
<1>3. TypeInv /\ PassInv /\ [Next]_vars => [\A c \in Tab, u \in User : Healed(c, u)]_vars
  <2> SUFFICES ASSUME TypeInv, PassInv, NEW c \in Tab, NEW u \in User,
                      GetPublicKey(c) \/ UpdateChatKey(c),
                      u \in task[c].todo, u \notin task'[c].todo, u \notin task[c].changed
               PROVE  copy'[u].pair = pair[u]
    OBVIOUS
  <2>0. /\ TypeOK /\ copy \in [User -> Copy] /\ task \in [Tab -> Task] /\ task[c] \in Task
    BY DEF TypeInv, TypeOK
  <2>1. ReadIsStored(c, u)
    BY DEF PassInv
  <2>2. CASE GetPublicKey(c)
    <3>1. PICK v \in task[c].todo :
            task' = [task EXCEPT ![c] =
                       IF Fits(c, v) THEN After(c, v)
                       ELSE [@ EXCEPT !.at = "UpdateChatKey", !.for = {v}, !.pub = pair[v]]]
      BY <2>2 DEF GetPublicKey
    <3>2. v \in User /\ UNCHANGED copy /\ task[c].at = "GetPublicKey"
      BY <2>0, <2>2 DEF Task, GetPublicKey, ServerUnchanged
    <3>3. CASE ~Fits(c, v)
      BY <2>0, <3>1, <3>3 DEF Task
    <3>4. CASE Fits(c, v)
      <4>1. task'[c] = After(c, v)
        BY <2>0, <3>1, <3>4
      <4>2. u = v
        BY <2>0, <3>2, <4>1, AfterTask
      <4>3. QED
        BY <2>1, <3>2, <3>4, <4>2 DEF Fits, ReadIsStored
    <3>5. QED
      BY <3>3, <3>4
  <2>3. CASE UpdateChatKey(c)
    <3>1. PICK v \in task[c].for :
            /\ copy' = [copy EXCEPT ![v] = [key |-> task[c].with, pair |-> task[c].pub]]
            /\ task' = [Changed(v) EXCEPT ![c] = After(c, v)]
      BY <2>3 DEF UpdateChatKey
    <3>2. v \in User /\ task[c].at = "UpdateChatKey"
      BY <2>0, <2>3 DEF Task, UpdateChatKey
    <3>3. task'[c] = After(c, v)
      BY <2>0, <3>1, <3>2, ChangedTask
    <3>4. u = v
      BY <2>0, <3>2, <3>3, AfterTask
    <3>5. task[c].pub = pair[u]
      BY <2>1, <3>2, <3>4 DEF ReadIsStored
    <3>6. QED
      BY <2>0, <3>1, <3>4, <3>5
  <2>4. QED
    BY <2>2, <2>3
<1>4. Spec => [][\A c \in Tab, u \in User : Healed(c, u)]_vars
  BY <1>1, <1>2, <1>3, InitTypeInv, PTL DEF Spec
<1>5. QED
  BY <1>4 DEF RekeyHeals
=============================================================================

--------------------------- MODULE ReliableEvents ---------------------------
(***************************************************************************)
(* What chat-service promises the consumers of CHAT_EVENTS about the       *)
(* events it announces: an event appears in the stream only after the      *)
(* change it describes is committed, every committed change is announced   *)
(* in the end, and an announcement may be repeated (at least once).        *)
(* Nothing is said about how: no outbox, relay, lock or crash is visible   *)
(* here.                                                                   *)
(***************************************************************************)
EXTENDS Naturals, Sequences, SequencesExt

CONSTANT Event   \* identities of the changes and of the events about them

VARIABLES
  committed,     \* changes that are durable
  stream         \* events the broker has stored, in the order it stored them

vars == <<committed, stream>>

Init ==
  /\ committed = {}
  /\ stream = << >>

\* A change becomes durable.
Commit(e) ==
  /\ e \notin committed
  /\ committed' = committed \union {e}
  /\ UNCHANGED stream

\* The broker stores the announcement of a durable change, the first time or
\* once more.
Publish(e) ==
  /\ e \in committed
  /\ stream' = Append(stream, e)
  /\ UNCHANGED committed

Next == \E e \in Event : Commit(e) \/ Publish(e)

\* An event that was not announced yet is not put off forever; nobody is
\* obliged to repeat one.
FirstPublish(e) == e \notin ToSet(stream) /\ Publish(e)

Safe == Init /\ [][Next]_vars

Spec == Safe /\ \A e \in Event : WF_vars(FirstPublish(e))
=============================================================================

------------------------- MODULE ClassicConnectQueue -------------------------
(***************************************************************************)
(* What the ACL manager promises about outgoing Classic connections        *)
(* (spec sections 3, 4.2 and 8): at most one Create-Connection is in       *)
(* flight; a request made while one is in flight waits in a FIFO queue;    *)
(* when the page in flight completes, successfully or not, the oldest      *)
(* waiting request whose peer is not connected by then is started, and the *)
(* older ones are dropped because their peer is already connected.         *)
(*                                                                         *)
(* It is stated without the HCI channels, the controller or the client:    *)
(* current holds the peer being paged (empty or one address), queue the    *)
(* waiting peers, linked the peers the manager holds a record for.         *)
(***************************************************************************)
EXTENDS Integers, Sequences, FiniteSets

CONSTANT Addrs

VARIABLES current, queue, linked
vars == <<current, queue, linked>>

\* The next request to serve once the page in flight is over and the
\* connected peers are conn: the oldest entry not in conn, whatever its
\* index, with every older entry in conn.
Serve(q, conn) ==
  \/ /\ \A i \in DOMAIN q : q[i] \in conn
     /\ current' = {}
     /\ queue' = <<>>
  \/ \E i \in DOMAIN q :
       /\ q[i] \notin conn
       /\ \A j \in 1..(i - 1) : q[j] \in conn
       /\ current' = {q[i]}
       /\ queue' = SubSeq(q, i + 1, Len(q))

\* A request: started at once when nothing is in flight and the peer is
\* not connected, dropped when nothing is in flight and it is, queued
\* otherwise.
Request(a) ==
  /\ IF current = {}
       THEN /\ a \notin linked
            /\ current' = {a}
            /\ UNCHANGED queue
       ELSE /\ queue' = Append(queue, a)
            /\ UNCHANGED current
  /\ UNCHANGED linked

\* The page in flight completes; a success adds its peer to the records.
Complete(ok) ==
  /\ current # {}
  /\ linked' = IF ok THEN linked \cup current ELSE linked
  /\ Serve(queue, linked')

\* A record for the peer is added by another path: an LE connection to
\* the same device completes.
LinkOther(a) ==
  /\ linked' = linked \cup {a}
  /\ UNCHANGED <<current, queue>>

\* A record is erased (Finish and cleanup).
Release(a) ==
  /\ a \in linked
  /\ linked' = linked \ {a}
  /\ UNCHANGED <<current, queue>>

Init == current = {} /\ queue = <<>> /\ linked = {}

Next ==
  \/ \E a \in Addrs : Request(a) \/ LinkOther(a) \/ Release(a)
  \/ \E ok \in BOOLEAN : Complete(ok)

\* A page in flight completes: the page timeout bounds it.
Spec == Init /\ [][Next]_vars /\ WF_vars(\E ok \in BOOLEAN : Complete(ok))
=============================================================================

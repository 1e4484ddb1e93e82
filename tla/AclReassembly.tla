---------------------------- MODULE AclReassembly ----------------------------
(***************************************************************************)
(* Ingress router and per-connection reassembler of the ACL manager        *)
(* (src/gd/hci/acl_manager.cc).                                            *)
(*                                                                         *)
(* The HCI transport hands ACL fragments to                                *)
(* dequeue_and_route_acl_packet_to_connection, which drops fragments for   *)
(* the vendor debug handle and for unknown handles and passes the rest to  *)
(* acl_connection::on_incoming_packet.  That joins FIRST and CONTINUING    *)
(* fragments into L2CAP PDUs in recombination_stage_, pushes finished PDUs *)
(* onto incoming_queue_ (dropping when it holds more than                  *)
(* kMaxQueuedPacketsPerConnection) and registers, once, as producer of the *)
(* connection's BidiQueue.  The queue reactor then calls                   *)
(* on_incoming_data_ready whenever the up end has room; that pops one PDU  *)
(* and unregisters when incoming_queue_ runs empty.  L2CAP dequeues PDUs   *)
(* from the up end.                                                        *)
(*                                                                         *)
(* Data abstraction: a fragment is a record of its packet boundary flag,   *)
(* its payload size and, for a FIRST fragment, the value of the L2CAP      *)
(* length field in its first two bytes.  The recombination buffer and a    *)
(* PDU are sequences of fragments; their byte size is the sum of sizes.    *)
(***************************************************************************)
EXTENDS Integers, Sequences, SequencesExt

CONSTANTS
  Connected,      \* handles with an acl_connection in acl_connections_
  Unknown,        \* a handle with no entry in acl_connections_
  DebugHandle,    \* kQualcommDebugHandle (0xedc)
  FirstSizes,     \* payload sizes the controller uses for FIRST fragments
  ContSizes,      \* payload sizes of CONTINUING fragments
  PduLens,        \* values of the L2CAP length field of a FIRST fragment
  Oversized,      \* may a FIRST fragment carry more than its PDU?
  QueueLimit,     \* kMaxQueuedPacketsPerConnection (10 in the code)
  UpCapacity,     \* capacity of AclConnection::Queue (10 in the code)
  MaxFragments    \* number of fragments the controller sends (model bound)

ASSUME Connected # {} /\ Unknown \notin Connected /\ DebugHandle \notin Connected
ASSUME QueueLimit \in Nat /\ UpCapacity \in Nat \ {0} /\ MaxFragments \in Nat

\* PacketBoundaryFlag: the 2-bit field of the HCI ACL header.
FNAF     == "FIRST_NON_AUTOMATICALLY_FLUSHABLE"
CONT     == "CONTINUING_FRAGMENT"
FAF      == "FIRST_AUTOMATICALLY_FLUSHABLE"
COMPLETE == "COMPLETE_PDU"

\* kL2capBasicFrameHeaderSize
HeaderSize == 4

VARIABLES
  stage,       \* recombination_stage_, per connection
  remaining,   \* remaining_sdu_continuation_packet_size_ (an int)
  incoming,    \* incoming_queue_
  registered,  \* enqueue_registered_
  upq,         \* PDUs buffered in the connection's BidiQueue for L2CAP
  received     \* fragments the controller has sent so far

vars == <<stage, remaining, incoming, registered, upq, received>>

Fragment ==
  [pbf : {FNAF, FAF, COMPLETE}, size : FirstSizes, len : PduLens]
    \cup [pbf : {CONT}, size : ContSizes, len : {0}]

\* The fragments a controller may send: unless Oversized, a FIRST
\* fragment never carries more bytes than its PDU.
Sendable ==
  {f \in Fragment : f.pbf # CONT => (Oversized \/ f.size <= f.len + HeaderSize)}

ByteSize(s) == FoldLeft(LAMBDA acc, f : acc + f.size, 0, s)

(***************************************************************************)
(* GetL2capPduSize: the length field, or 0 when the payload is shorter    *)
(* than the basic L2CAP header.                                            *)
(***************************************************************************)
\* Mutant: the FIRST fragment's header bytes are not subtracted.
RemainingIgnoresHeader(f) == f.len - f.size

GetL2capPduSize(f) == IF f.size < HeaderSize THEN 0 ELSE f.len

(***************************************************************************)
(* The tail of on_incoming_packet: drop when incoming_queue_ holds more    *)
(* than kMaxQueuedPacketsPerConnection PDUs, else push and register the    *)
(* enqueue callback unless enqueue_registered_ was already set.            *)
(***************************************************************************)
\* Mutant: the kMaxQueuedPacketsPerConnection drop check is missing.
DeliverWithoutLimit(h, pdu) ==
  /\ incoming' = [incoming EXCEPT ![h] = Append(@, pdu)]
  /\ registered' = [registered EXCEPT ![h] = TRUE]

Deliver(h, pdu) ==
  IF Len(incoming[h]) > QueueLimit
  THEN UNCHANGED <<incoming, registered>>
  ELSE /\ incoming' = [incoming EXCEPT ![h] = Append(@, pdu)]
       /\ registered' = [registered EXCEPT ![h] = TRUE]

(***************************************************************************)
(* acl_connection::on_incoming_packet.  The comparison                     *)
(* remaining_sdu_continuation_packet_size_ < payload_size compares an int  *)
(* with a size_t: a negative remaining count converts to a huge unsigned   *)
(* value and the comparison is false.                                      *)
(***************************************************************************)
\* Mutant: the malformed-continuation check is dropped.
NeverTooLong(h, f) == FALSE

ContinuationTooLong(h, f) == remaining[h] >= 0 /\ remaining[h] < f.size

OnIncomingPacket(h, f) ==
  CASE f.pbf = FNAF ->
         UNCHANGED <<stage, remaining, incoming, registered>>
    [] f.pbf = CONT /\ ContinuationTooLong(h, f) ->
         /\ stage' = [stage EXCEPT ![h] = <<>>]
         /\ remaining' = [remaining EXCEPT ![h] = 0]
         /\ UNCHANGED <<incoming, registered>>
    [] f.pbf = CONT /\ remaining[h] - f.size # 0 ->
         /\ stage' = [stage EXCEPT ![h] = Append(@, f)]
         /\ remaining' = [remaining EXCEPT ![h] = @ - f.size]
         /\ UNCHANGED <<incoming, registered>>
    [] f.pbf = CONT ->
         /\ stage' = [stage EXCEPT ![h] = <<>>]
         /\ remaining' = [remaining EXCEPT ![h] = 0]
         /\ Deliver(h, Append(stage[h], f))
    [] f.pbf = FAF ->
         LET rem == GetL2capPduSize(f) - (f.size - HeaderSize) IN
         /\ remaining' = [remaining EXCEPT ![h] = rem]
         /\ IF rem > 0
              THEN /\ stage' = [stage EXCEPT ![h] = <<f>>]
                   /\ UNCHANGED <<incoming, registered>>
              ELSE /\ UNCHANGED stage
                   /\ Deliver(h, <<f>>)
    [] OTHER ->
         /\ UNCHANGED <<stage, remaining>>
         /\ Deliver(h, <<f>>)

(***************************************************************************)
(* dequeue_and_route_acl_packet_to_connection: one fragment from the HCI   *)
(* ACL queue; the debug handle and unknown handles are dropped.            *)
(***************************************************************************)
DequeueAndRoute ==
  /\ received < MaxFragments
  /\ received' = received + 1
  /\ \E h \in Connected \cup {Unknown, DebugHandle}, f \in Sendable :
       IF h \in Connected
         THEN OnIncomingPacket(h, f)
         ELSE UNCHANGED <<stage, remaining, incoming, registered>>
  /\ UNCHANGED upq

(***************************************************************************)
(* acl_connection::on_incoming_data_ready, called by the queue reactor     *)
(* while the enqueue callback is registered and the up end has room.       *)
(***************************************************************************)
\* Mutant: the callback unregisters after every PDU.
DataReadyAlwaysUnregisters(h) ==
  /\ registered[h]
  /\ Len(upq[h]) < UpCapacity
  /\ incoming[h] # <<>>
  /\ upq' = [upq EXCEPT ![h] = Append(@, Head(incoming[h]))]
  /\ incoming' = [incoming EXCEPT ![h] = Tail(@)]
  /\ registered' = [registered EXCEPT ![h] = FALSE]
  /\ UNCHANGED <<stage, remaining, received>>

OnIncomingDataReady(h) ==
  /\ registered[h]
  /\ Len(upq[h]) < UpCapacity
  /\ incoming[h] # <<>>
  /\ upq' = [upq EXCEPT ![h] = Append(@, Head(incoming[h]))]
  /\ incoming' = [incoming EXCEPT ![h] = Tail(@)]
  /\ registered' = [registered EXCEPT ![h] = @ /\ incoming'[h] # <<>>]
  /\ UNCHANGED <<stage, remaining, received>>

\* L2CAP takes a PDU from the up end of the connection's queue.
L2capDequeue(h) ==
  /\ upq[h] # <<>>
  /\ upq' = [upq EXCEPT ![h] = Tail(@)]
  /\ UNCHANGED <<stage, remaining, incoming, registered, received>>

Init ==
  /\ stage = [h \in Connected |-> <<>>]
  /\ remaining = [h \in Connected |-> 0]
  /\ incoming = [h \in Connected |-> <<>>]
  /\ registered = [h \in Connected |-> FALSE]
  /\ upq = [h \in Connected |-> <<>>]
  /\ received = 0

Next ==
  \/ DequeueAndRoute
  \/ \E h \in Connected : OnIncomingDataReady(h) \/ L2capDequeue(h)

\* The queue reactor runs the registered callback whenever it can, and
\* L2CAP keeps reading its queue.
Fairness ==
  \A h \in Connected : WF_vars(OnIncomingDataReady(h)) /\ WF_vars(L2capDequeue(h))

Spec == Init /\ [][Next]_vars /\ Fairness

-----------------------------------------------------------------------------
TypeOK ==
  /\ stage \in [Connected -> Seq(Fragment)]
  /\ remaining \in [Connected -> Int]
  /\ incoming \in [Connected -> Seq(Seq(Fragment))]
  /\ \A h \in Connected : Len(incoming[h]) <= QueueLimit + 1
  /\ registered \in [Connected -> BOOLEAN]
  /\ upq \in [Connected -> Seq(Seq(Fragment))]
  /\ \A h \in Connected : Len(upq[h]) <= UpCapacity
  /\ received \in 0..MaxFragments

Pdus(h) == ToSet(incoming[h]) \cup ToSet(upq[h])

\* Every PDU handed towards L2CAP is one FIRST fragment, complete in
\* itself, or a FIRST fragment followed by CONTINUING fragments whose bytes
\* add up to exactly the declared L2CAP length plus the 4-byte basic
\* header (on_incoming_packet, both delivery paths).  A COMPLETE_PDU
\* fragment is passed through as is.
WellFormed(p) ==
  /\ p # <<>>
  /\ p[1].pbf = COMPLETE \/
       /\ p[1].pbf = FAF
       /\ \A i \in 2..Len(p) : p[i].pbf = CONT
       /\ IF Len(p) = 1 THEN ByteSize(p) >= p[1].len + HeaderSize
                        ELSE ByteSize(p) = p[1].len + HeaderSize

PduWellFormed == \A h \in Connected : \A p \in Pdus(h) : WellFormed(p)

\* The recombination buffer is always the unfinished prefix of one PDU:
\* it starts with a FIRST fragment, continues with CONTINUING fragments,
\* and holds fewer bytes than that PDU (on_incoming_packet, CONTINUING
\* branch and its malformed-continuation check).
StageIsPduPrefix ==
  \A h \in Connected :
    stage[h] # <<>> =>
      /\ stage[h][1].pbf = FAF
      /\ \A i \in 2..Len(stage[h]) : stage[h][i].pbf = CONT
      /\ ByteSize(stage[h]) < stage[h][1].len + HeaderSize

\* Whenever the recombination buffer is non-empty, the remaining-bytes
\* counter is exactly what that PDU still misses; a new FIRST fragment
\* drops an unfinished one ("Drop previous one" in on_incoming_packet).
RecombinationConsistent ==
  \A h \in Connected :
    stage[h] # <<>> =>
      remaining[h] = stage[h][1].len + HeaderSize - ByteSize(stage[h])

\* Once the controller has stopped sending, every PDU that entered
\* incoming_queue_ reaches L2CAP: the enqueue registration protocol of
\* on_incoming_packet / on_incoming_data_ready never strands a PDU.
EventuallyAllDelivered ==
  \A h \in Connected : <>[](incoming[h] = <<>> /\ upq[h] = <<>>)
=============================================================================

------------------------------ MODULE GattClient ------------------------------
(***************************************************************************)
(* The GATT client shim of btif (src/btif/src/btif_gatt_client.cc): the    *)
(* part of it that owns state.                                             *)
(*                                                                         *)
(*  - the observed-device cache btif_gattc_dev_cb: MaxObserved slots, each *)
(*    an address and an in_use flag, and next_storage_idx, the slot the    *)
(*    next device overwrites once every slot is in use;                    *)
(*  - LE scanning: btif_gattc_scan resets the cache on the caller's thread *)
(*    and posts BTA_DmBleObserve to the JNI thread; BTA reports each       *)
(*    advertisement through bta_scan_results_cb, which transfers it to the *)
(*    btif thread, where BTIF_GATT_OBSERVE_EVT caches the device;          *)
(*  - remote RSSI reads: btif_gattc_read_remote_rssi stores the caller in  *)
(*    the global rssi_request_client_if and posts BTM_ReadRSSI to the JNI  *)
(*    thread; btm_read_rssi_cb reads that global when the result comes;    *)
(*  - the address type btif storage keeps for each device, written by the  *)
(*    BTIF_GATT_OBSERVE_EVT handler (and by bonding) and read by           *)
(*    btif_gattc_open_impl on the JNI thread, which refuses a background   *)
(*    open of a resolvable private address the controller cannot follow;   *)
(*  - GATT connections: btif_gattc_open/close post open_impl/close_impl to *)
(*    the JNI thread, which call BTA_GATTC_Open, BTA_GATTC_Close and        *)
(*    BTA_GATTC_CancelOpen; BTA answers through bta_gattc_cback with       *)
(*    BTA_GATTC_OPEN_EVT and BTA_GATTC_CLOSE_EVT, which the btif thread    *)
(*    turns into open_cb and close_cb.  BTA itself is outside the sources: *)
(*    a pending open completes (a direct one may also time out) and a      *)
(*    connection may drop, each reported by an event.                      *)
(*                                                                         *)
(* The caller's thread, the JNI thread, BTA/BTM and the btif thread each   *)
(* run their steps atomically; the JNI and btif threads serve FIFO queues. *)
(* Every other upstream event is only translated into a HAL callback and  *)
(* is not modelled.                                                        *)
(***************************************************************************)
EXTENDS Integers, Sequences, FiniteSets

CONSTANTS
  Devices,      \* peer addresses
  RandomAddr,   \* the devices that advertise with a random address
  Clients,      \* client_if values of registered apps (positive integers)
  NoAddr,       \* the all-zero address memset leaves in a slot
  MaxObserved,  \* BTIF_GATT_MAX_OBSERVED_DEV
  MaxResults,   \* advertisements reported (model bound)
  MaxRssi,      \* RSSI reads requested (model bound)
  MaxScans,     \* btif_gattc_scan calls (model bound)
  Bonded,       \* devices whose address type btif storage holds from bonding
  PrivacySupported, \* controller supports_ble_privacy()
  RpaOffload,   \* the vendor capability rpa_offloading
  OpenTargets,  \* the devices the app opens and closes (model bound)
  MaxOpens,     \* btif_gattc_open calls (model bound)
  MaxCloses     \* btif_gattc_close calls (model bound)

ASSUME RandomAddr \cup Bonded \cup OpenTargets \subseteq Devices /\ MaxObserved \in Nat \ {0}
       /\ Clients \subseteq Nat \ {0}

VARIABLES
  inUse,        \* remote_dev[i].in_use
  slotAddr,     \* remote_dev[i].bd_addr
  nextIdx,      \* next_storage_idx
  scanning,     \* BTA observe is running
  jniq,         \* tasks posted to the JNI thread
  btifq,        \* events transferred to the btif thread
  rssiClient,   \* rssi_request_client_if
  btmRssi,      \* the device BTM is reading the RSSI of, or NoAddr
  results,      \* advertisements reported so far
  rssiAsked,    \* <<client, device>> pairs of RSSI requests
  rssiReported, \* <<client, device>> pairs of read_remote_rssi_cb calls
  scans,        \* btif_gattc_scan calls so far
  added,        \* devices added to the cache since the last reset, in order
  storedType,   \* btif storage: the address type of each device, if known
  reported,     \* devices scan_result_cb has reported to the app
  opens,        \* btif_gattc_open calls so far
  btaPending,   \* opens BTA holds: [client, dev, direct]
  conns,        \* BTA's GATT connections: <<client, dev>> (the conn_id)
  appConn,      \* connections open_cb reported and close_cb has not
  closes        \* btif_gattc_close calls so far

cacheVars == <<inUse, slotAddr, nextIdx, added>>
openVars == <<storedType, reported, opens>>
connVars == <<btaPending, conns, appConn, closes>>
vars == <<cacheVars, scanning, jniq, btifq, rssiClient, btmRssi, results,
          rssiAsked, rssiReported, scans, openVars, connVars>>

Slots == 0..(MaxObserved - 1)

\* The BLE address type a device advertises with (p_btif_cb->addr_type).
AddrType(d) == IF d \in RandomAddr THEN "random" ELSE "public"

-----------------------------------------------------------------------------
(* The cache.                                                              *)

\* btif_gattc_init_dev_cb: memset of the whole control block.
InitDevCb ==
  /\ inUse' = [i \in Slots |-> FALSE]
  /\ slotAddr' = [i \in Slots |-> NoAddr]
  /\ nextIdx' = 0
  /\ added' = <<>>

\* btif_gattc_find_bdaddr
FindBdaddr(d) == \E i \in Slots : inUse[i] /\ slotAddr[i] = d

\* Mutant: the slot is overwritten but next_storage_idx is not advanced.
AddRemoteBdaddrNoAdvance(d) ==
  IF \E i \in Slots : ~inUse[i]
    THEN LET i == CHOOSE i \in Slots : ~inUse[i] /\ \A j \in 0..(i - 1) : inUse[j]
         IN /\ inUse' = [inUse EXCEPT ![i] = TRUE]
            /\ slotAddr' = [slotAddr EXCEPT ![i] = d]
            /\ UNCHANGED nextIdx
    ELSE /\ slotAddr' = [slotAddr EXCEPT ![nextIdx] = d]
         /\ UNCHANGED <<inUse, nextIdx>>

\* Mutant: next_storage_idx wraps one slot late.
AddRemoteBdaddrWrapLate(d) ==
  IF \E i \in Slots : ~inUse[i]
    THEN LET i == CHOOSE i \in Slots : ~inUse[i] /\ \A j \in 0..(i - 1) : inUse[j]
         IN /\ inUse' = [inUse EXCEPT ![i] = TRUE]
            /\ slotAddr' = [slotAddr EXCEPT ![i] = d]
            /\ UNCHANGED nextIdx
    ELSE /\ slotAddr' = [slotAddr EXCEPT ![nextIdx] = d]
         /\ nextIdx' = IF nextIdx + 1 > MaxObserved THEN 0 ELSE nextIdx + 1
         /\ UNCHANGED inUse

\* btif_gattc_add_remote_bdaddr: the first free slot; when none is free,
\* the slot at next_storage_idx, which then advances and wraps to 0.
AddRemoteBdaddr(d) ==
  IF \E i \in Slots : ~inUse[i]
    THEN LET i == CHOOSE i \in Slots : ~inUse[i] /\ \A j \in 0..(i - 1) : inUse[j]
         IN /\ inUse' = [inUse EXCEPT ![i] = TRUE]
            /\ slotAddr' = [slotAddr EXCEPT ![i] = d]
            /\ UNCHANGED nextIdx
    ELSE /\ slotAddr' = [slotAddr EXCEPT ![nextIdx] = d]
         /\ nextIdx' = IF nextIdx + 1 >= MaxObserved THEN 0 ELSE nextIdx + 1
         /\ UNCHANGED inUse

-----------------------------------------------------------------------------
(* The caller's thread (the HAL interface).                                *)

\* btif_gattc_scan
Scan(start) ==
  /\ scans < MaxScans
  /\ scans' = scans + 1
  /\ IF start THEN InitDevCb ELSE UNCHANGED cacheVars
  /\ jniq' = Append(jniq, [type |-> "observe", on |-> start])
  /\ UNCHANGED <<scanning, btifq, rssiClient, btmRssi, results, rssiAsked, rssiReported, openVars, connVars>>

\* btif_gattc_read_remote_rssi
ReadRemoteRssi(c, d) ==
  /\ Cardinality(rssiAsked) < MaxRssi
  /\ <<c, d>> \notin rssiAsked
  /\ rssiClient' = c
  /\ jniq' = Append(jniq, [type |-> "rssi", dev |-> d])
  /\ rssiAsked' = rssiAsked \cup {<<c, d>>}
  /\ UNCHANGED <<cacheVars, scanning, btifq, btmRssi, results, rssiReported, scans, openVars, connVars>>

\* btif_gattc_open: the app opens a device it has an address for, one it
\* was given by scan_result_cb or a bonded one; the call posts open_impl.
Open(c, d, direct) ==
  /\ opens < MaxOpens
  /\ d \in reported \cup Bonded
  /\ opens' = opens + 1
  /\ jniq' = Append(jniq, [type |-> "open", client |-> c, dev |-> d, direct |-> direct])
  /\ UNCHANGED <<cacheVars, scanning, btifq, rssiClient, btmRssi, results, rssiAsked,
                 rssiReported, scans, storedType, reported,
                 connVars>>

\* btif_gattc_close: the app closes a device it has an address for, with
\* the conn_id open_cb gave it, or 0 when it has none; posts close_impl.
Close(c, d) ==
  /\ closes < MaxCloses
  /\ d \in reported \cup Bonded
  /\ closes' = closes + 1
  /\ jniq' = Append(jniq, [type |-> "close", client |-> c, dev |-> d,
                          conn |-> <<c, d>> \in appConn])
  /\ UNCHANGED <<cacheVars, scanning, btifq, rssiClient, btmRssi, results, rssiAsked,
                 rssiReported, scans, openVars, btaPending, conns, appConn>>

-----------------------------------------------------------------------------
(* The JNI thread and BTA/BTM.                                             *)

\* Mutant: open_impl does not look the address type up in storage.
OpenAddrTypeIgnored(d) == "public"

\* The address type of d as btif storage gives it to open_impl: addr_type
\* keeps its initial 0 (public) when storage has no entry.
OpenAddrType(d) == IF storedType[d] = "random" THEN "random" ELSE "public"

\* The privacy check of btif_gattc_open_impl: a background open of a
\* resolvable private address (the devices of RandomAddr pass
\* BTM_BLE_IS_RESOLVE_BDA) stored as random, on a controller that supports
\* neither privacy nor RPA offloading.
BackgroundRefused(o) ==
  /\ ~o.direct /\ ~PrivacySupported
  /\ OpenAddrType(o.dev) = "random" /\ o.dev \in RandomAddr
  /\ ~RpaOffload

\* BTA_GATTC_Open: BTA holds the open until it completes or is cancelled.
BtaGattcOpen(o) ==
  btaPending' = btaPending \cup {[client |-> o.client, dev |-> o.dev, direct |-> o.direct]}

\* btif_gattc_open_impl: a background open the controller could not follow
\* is refused with open_cb(BT_STATUS_UNSUPPORTED) and returns; otherwise
\* BTA_GATTC_Open.  Adding a device storage knows to the BTA device
\* database, the transport choice and the refusal's callback change
\* nothing the properties read and are left out.
JniOpen ==
  LET o == Head(jniq) IN
  /\ jniq # <<>> /\ o.type = "open"
  /\ jniq' = Tail(jniq)
  /\ IF BackgroundRefused(o) THEN UNCHANGED btaPending ELSE BtaGattcOpen(o)
  /\ UNCHANGED <<cacheVars, scanning, btifq, rssiClient, btmRssi, results, rssiAsked,
                 rssiReported, scans, storedType, reported, opens, conns, appConn, closes>>

\* btif_gattc_close_impl: BTA_GATTC_Close for the connection the app named
\* by its conn_id, or, with conn_id 0, BTA_GATTC_CancelOpen of a direct
\* open; then BTA_GATTC_CancelOpen of a background open in either case.
\* BTA reports a closed connection with BTA_GATTC_CLOSE_EVT; a cancelled
\* open ends with BTA_GATTC_CANCEL_OPEN_EVT, which btif ignores.
JniClose ==
  LET o == Head(jniq)
      k == <<o.client, o.dev>>
      cancelled == {[client |-> o.client, dev |-> o.dev, direct |-> x] :
                      x \in IF o.conn THEN {FALSE} ELSE BOOLEAN}
  IN
  /\ jniq # <<>> /\ o.type = "close"
  /\ jniq' = Tail(jniq)
  /\ btaPending' = btaPending \ cancelled
  /\ IF o.conn /\ k \in conns
       THEN /\ conns' = conns \ {k}
            /\ btifq' = Append(btifq, [type |-> "close", client |-> o.client, dev |-> o.dev])
       ELSE UNCHANGED <<conns, btifq>>
  /\ UNCHANGED <<cacheVars, scanning, rssiClient, btmRssi, results, rssiAsked, rssiReported,
                 scans, openVars, appConn, closes>>

\* BTA_DmBleObserve(start, ...)
JniObserve ==
  /\ jniq # <<>> /\ Head(jniq).type = "observe"
  /\ scanning' = Head(jniq).on
  /\ jniq' = Tail(jniq)
  /\ UNCHANGED <<cacheVars, btifq, rssiClient, btmRssi, results, rssiAsked, rssiReported, scans, openVars, connVars>>

\* BTM_ReadRSSI: starts a read, or is busy with another one; the result
\* is ignored (base::IgnoreResult).
JniReadRssi ==
  /\ jniq # <<>> /\ Head(jniq).type = "rssi"
  /\ btmRssi' = IF btmRssi = NoAddr THEN Head(jniq).dev ELSE btmRssi
  /\ jniq' = Tail(jniq)
  /\ UNCHANGED <<cacheVars, scanning, btifq, rssiClient, results, rssiAsked, rssiReported, scans, openVars, connVars>>

\* bta_scan_results_cb (BTA_DM_INQ_RES_EVT): an advertisement of d, with
\* or without a local name in its EIR data.  Without EIR data btif_cb.value
\* is left uninitialized, so whether a name is found in it is either.  The
\* name is read only for a device with a random address (the OBSERVE_EVT
\* test short-circuits for the others), so it is recorded only for those.
ScanResult(d) ==
  /\ scanning
  /\ results < MaxResults
  /\ results' = results + 1
  /\ \E name \in IF d \in RandomAddr THEN BOOLEAN ELSE {FALSE} :
       btifq' = Append(btifq, [type |-> "observe", dev |-> d, name |-> name])
  /\ UNCHANGED <<cacheVars, scanning, jniq, rssiClient, btmRssi, rssiAsked, rssiReported, scans, openVars, connVars>>

\* btm_read_rssi_cb: the result is tagged with rssi_request_client_if as
\* it is when the read completes.
BtmReadRssiCb ==
  /\ btmRssi # NoAddr
  /\ btifq' = Append(btifq, [type |-> "rssi", dev |-> btmRssi, client |-> rssiClient])
  /\ btmRssi' = NoAddr
  /\ UNCHANGED <<cacheVars, scanning, jniq, rssiClient, results, rssiAsked, rssiReported, scans, openVars, connVars>>

\* BTA completes a pending open: a direct open connects or times out, a
\* background one connects when the device shows up; bta_gattc_cback
\* transfers BTA_GATTC_OPEN_EVT to the btif thread.
BtaOpenComplete(p, ok) ==
  /\ p \in btaPending
  /\ ok \in IF p.direct THEN BOOLEAN ELSE {TRUE}
  /\ btaPending' = btaPending \ {p}
  /\ conns' = IF ok THEN conns \cup {<<p.client, p.dev>>} ELSE conns
  /\ btifq' = Append(btifq, [type |-> "open", client |-> p.client, dev |-> p.dev, ok |-> ok])
  /\ UNCHANGED <<cacheVars, scanning, jniq, rssiClient, btmRssi, results, rssiAsked,
                 rssiReported, scans, openVars, appConn, closes>>

\* The link of a GATT connection drops; BTA_GATTC_CLOSE_EVT follows.
BtaConnDrop(k) ==
  /\ k \in conns
  /\ conns' = conns \ {k}
  /\ btifq' = Append(btifq, [type |-> "close", client |-> k[1], dev |-> k[2]])
  /\ UNCHANGED <<cacheVars, scanning, jniq, rssiClient, btmRssi, results, rssiAsked,
                 rssiReported, scans, openVars, btaPending, appConn, closes>>

-----------------------------------------------------------------------------
(* The btif thread: btif_gattc_upstreams_evt.                              *)

\* BTIF_GATT_OBSERVE_EVT: a device with a public address, or one that
\* sent its name, is cached (btif_dm also gets its name, not modelled) unless it is
\* already; the device type and address type go to btif storage, and the
\* result to scan_result_cb.
ObserveEvt ==
  LET e == Head(btifq) IN
  /\ btifq # <<>> /\ e.type = "observe"
  /\ btifq' = Tail(btifq)
  /\ IF (e.dev \notin RandomAddr \/ e.name) /\ ~FindBdaddr(e.dev)
       THEN AddRemoteBdaddr(e.dev) /\ added' = Append(added, e.dev)
       ELSE UNCHANGED cacheVars
  /\ storedType' = [storedType EXCEPT ![e.dev] = AddrType(e.dev)]
  /\ reported' = reported \cup {e.dev}
  /\ UNCHANGED <<scanning, jniq, rssiClient, btmRssi, results, rssiAsked, rssiReported, scans,
                 opens, connVars>>

\* Mutant: open_cb's status is not looked at, so a failed open counts as
\* a connection.
OpenEvtIgnoringStatus ==
  LET e == Head(btifq) IN
  /\ btifq # <<>> /\ e.type = "open"
  /\ btifq' = Tail(btifq)
  /\ appConn' = appConn \cup {<<e.client, e.dev>>}
  /\ UNCHANGED <<cacheVars, scanning, jniq, rssiClient, btmRssi, results, rssiAsked,
                 rssiReported, scans, openVars, btaPending, conns, closes>>

\* BTA_GATTC_OPEN_EVT: open_cb with the event's status and conn_id (and
\* configure_mtu_cb for a non-default MTU, a HAL callback only).
OpenEvt ==
  LET e == Head(btifq) IN
  /\ btifq # <<>> /\ e.type = "open"
  /\ btifq' = Tail(btifq)
  /\ appConn' = IF e.ok THEN appConn \cup {<<e.client, e.dev>>} ELSE appConn
  /\ UNCHANGED <<cacheVars, scanning, jniq, rssiClient, btmRssi, results, rssiAsked,
                 rssiReported, scans, openVars, btaPending, conns, closes>>

\* BTA_GATTC_CLOSE_EVT: close_cb with the event's conn_id.
CloseEvt ==
  LET e == Head(btifq) IN
  /\ btifq # <<>> /\ e.type = "close"
  /\ btifq' = Tail(btifq)
  /\ appConn' = appConn \ {<<e.client, e.dev>>}
  /\ UNCHANGED <<cacheVars, scanning, jniq, rssiClient, btmRssi, results, rssiAsked,
                 rssiReported, scans, openVars, btaPending, conns, closes>>

\* BTIF_GATTC_RSSI_EVT: read_remote_rssi_cb to the client in the event.
RssiEvt ==
  LET e == Head(btifq) IN
  /\ btifq # <<>> /\ e.type = "rssi"
  /\ btifq' = Tail(btifq)
  /\ rssiReported' = rssiReported \cup {<<e.client, e.dev>>}
  /\ UNCHANGED <<cacheVars, scanning, jniq, rssiClient, btmRssi, results, rssiAsked, scans, openVars, connVars>>

-----------------------------------------------------------------------------
Init ==
  /\ inUse = [i \in Slots |-> FALSE]
  /\ slotAddr = [i \in Slots |-> NoAddr]
  /\ nextIdx = 0
  /\ added = <<>>
  /\ scanning = FALSE
  /\ jniq = <<>> /\ btifq = <<>>
  /\ rssiClient = 0
  /\ scans = 0
  /\ btmRssi = NoAddr
  /\ results = 0
  /\ rssiAsked = {} /\ rssiReported = {}
  /\ storedType = [d \in Devices |-> IF d \in Bonded THEN AddrType(d) ELSE "none"]
  /\ reported = {}
  /\ opens = 0
  /\ btaPending = {} /\ conns = {} /\ appConn = {}
  /\ closes = 0

Next ==
  \/ \E start \in BOOLEAN : Scan(start)
  \/ \E c \in Clients, d \in Devices : ReadRemoteRssi(c, d)
  \/ \E c \in Clients, d \in OpenTargets, direct \in BOOLEAN : Open(c, d, direct)
  \/ \E c \in Clients, d \in OpenTargets : Close(c, d)
  \/ JniObserve \/ JniReadRssi \/ JniOpen \/ JniClose
  \/ \E d \in Devices : ScanResult(d)
  \/ BtmReadRssiCb
  \/ \E p \in btaPending, ok \in BOOLEAN : BtaOpenComplete(p, ok)
  \/ \E k \in conns : BtaConnDrop(k)
  \/ ObserveEvt \/ RssiEvt \/ OpenEvt \/ CloseEvt

\* The JNI and btif threads serve their queues; BTM completes a read.
\* BTA gets no fairness: a background open waits for the device for ever.
Spec == Init /\ [][Next]_vars
          /\ WF_vars(JniObserve \/ JniReadRssi \/ JniOpen \/ JniClose)
          /\ WF_vars(ObserveEvt \/ RssiEvt \/ OpenEvt \/ CloseEvt)
          /\ WF_vars(BtmReadRssiCb)
-----------------------------------------------------------------------------
TypeOK ==
  /\ inUse \in [Slots -> BOOLEAN]
  /\ slotAddr \in [Slots -> Devices \cup {NoAddr}]
  /\ nextIdx \in Slots
  /\ scanning \in BOOLEAN
  /\ btmRssi \in Devices \cup {NoAddr}
  /\ rssiClient \in Clients \cup {0}
  /\ added \in Seq(Devices)
  /\ rssiAsked \cup rssiReported \subseteq Clients \X Devices
  /\ storedType \in [Devices -> {"none", "public", "random"}]
  /\ reported \subseteq Devices
  /\ btaPending \subseteq [client : Clients, dev : Devices, direct : BOOLEAN]
  /\ opens \in 0..MaxOpens /\ closes \in 0..MaxCloses
  /\ conns \cup appConn \subseteq Clients \X Devices

\* The last n elements of s, or all of it when it is shorter.
LastN(s, n) == SubSeq(s, IF Len(s) > n THEN Len(s) - n + 1 ELSE 1, Len(s))

\* The observed-device cache holds exactly the MaxObserved devices most
\* recently added since the scan started, one slot each: the first-free-
\* slot fill and the next_storage_idx ring evict the oldest entry, and
\* the find before the add keeps a device from taking two slots
\* (btif_gattc_add_remote_bdaddr, btif_gattc_find_bdaddr, the
\* BTIF_GATT_OBSERVE_EVT handler, btif_gattc_scan).
CacheIsLastAdded ==
  LET recent == LastN(added, MaxObserved)
      used == {i \in Slots : inUse[i]}
  IN /\ {slotAddr[i] : i \in used} = {recent[k] : k \in DOMAIN recent}
     /\ Cardinality(used) = Len(recent)

\* Every RSSI result reaches the client that asked for that device
\* (btif_gattc_read_remote_rssi, btm_read_rssi_cb).  The code does not
\* keep it: with two clients and MaxRssi = 2 the second request overwrites
\* rssi_request_client_if before the first read completes.
RssiReportedToRequester == rssiReported \subseteq rssiAsked

\* No background connection to a resolvable private address is handed to
\* BTA on a controller that could not follow the address once it changes
\* (the privacy check of btif_gattc_open_impl): the check depends on the
\* address type the BTIF_GATT_OBSERVE_EVT handler or bonding stored, and
\* the app may open a device as soon as scan_result_cb has reported it,
\* from another thread, whether or not the cache took the device.
NoUnfollowableBackgroundOpen ==
  \A o \in btaPending :
    (~o.direct /\ o.dev \in RandomAddr) => (PrivacySupported \/ RpaOffload)

\* The pairs <<client, dev>> of the events of type t still queued for the
\* btif thread (those of failed opens excluded).
Queued(t) ==
  {<<btifq[i].client, btifq[i].dev>> :
     i \in {j \in DOMAIN btifq : btifq[j].type = t /\ (t = "open" => btifq[j].ok)}}

\* The app's view of its GATT connections, built from open_cb and
\* close_cb on the btif thread, differs from BTA's only by the events
\* still on their way: a connection the app holds exists in BTA or its
\* CLOSE_EVT is queued, and a BTA connection is known to the app or its
\* successful OPEN_EVT is queued (BTIF_GATTC open/close events, the
\* conn_id test of btif_gattc_close_impl, link loss).
ConnViewsAgree ==
  /\ appConn \subseteq conns \cup Queued("close")
  /\ conns \subseteq appConn \cup Queued("open")
=============================================================================

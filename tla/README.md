# TLA+ models of the ACL connection manager and the GATT client shim

These modules model two parts of the Bluetooth stack:
- the ACL manager of the GD layer (`src/gd/hci/acl_manager.cc`);
- the state-owning part of the btif GATT client shim (`src/btif/src/btif_gatt_client.cc`).

The ACL manager sits between the HCI transport and L2CAP. It owns the per-connection records and recombines incoming ACL fragments into L2CAP PDUs. It also runs the Classic and LE connection lifecycles against the controller.

## The system

| Part | Where | State | Module |
|---|---|---|---|
| Ingress router and reassembler | `acl_connection`, `dequeue_and_route_acl_packet_to_connection` (64-255) | `recombination_stage_`, `remaining_sdu_continuation_packet_size_`, `incoming_queue_`, `enqueue_registered_` | `AclReassembly` |
| Classic lifecycle | `AclManager::impl` (257-422, 955-1110, 1375-1400, 1449-1457, 1787-1793) | `connecting_`, `pending_outgoing_connections_`, `acl_connections_`, `client_callbacks_` | `AclClassicConnect`, refining `ClassicConnectQueue` |
| LE lifecycle | 288-362, 991-1044, 1401-1406 | `connecting_le_`, `le_client_callbacks_` | `AclClassicConnect` |
| Per-connection callbacks, LE update, management events, command completions | `AclConnection`, 424-953, 1100-1340, 1419-1793 | callback slots, `is_disconnected_`, pending update | `AclConnectionRecord` |
| GATT client shim | `btif_gatt_client.cc` (193-213, 348-393, 513-539, 549-593, 789-794, 949-1011, 1214-1316, 1500-1510) | observed-device cache, `rssi_request_client_if`, stored address types, GATT connections | `GattClient` |
| Discoverability | `src/unnamed/part_000` | none (an interface) | not modelled |

How the ACL parts interact:
- Everything in `AclManager::impl` runs on the manager's handler, so each handler run is one atomic step.
- HCI events reach the handler in the order the controller sent them, and commands reach the controller in the order they were enqueued. Both are FIFO channels in the models.
- Callbacks to clients are posted to the client's handler.
- The proxy methods (`Disconnect`, `LeConnectionUpdate`, `Finish`, the management calls) run on the caller's thread. They read the record and post tasks to the handler.
- Classic and LE records live in the same `acl_connections_`. `is_classic_link_already_connected` matches LE records too.

How the GATT parts interact:
- HAL calls run on the caller's thread and post BTA/BTM calls to the JNI thread.
- BTA and BTM callbacks transfer their results to the btif thread, which serves a FIFO queue.

## Modules

### `AclReassembly` (with `MC_AclReassembly`)

| Variable | Code state |
|---|---|
| `stage` | `recombination_stage_` |
| `remaining` | `remaining_sdu_continuation_packet_size_` |
| `incoming` | `incoming_queue_` |
| `registered` | `enqueue_registered_` |
| `upq` | the up end of the connection queue |
| `received` | fragments sent so far (a model bound) |

A fragment is a record of its boundary flag, payload size and L2CAP length field. A PDU is a sequence of fragments.

Actions:
- `DequeueAndRoute` drops fragments for the debug handle and unknown handles, then calls `OnIncomingPacket`.
- `OnIncomingPacket` follows the code branch by branch. It keeps the signed/unsigned comparison of line 115 (`ContinuationTooLong`), and the FIRST fragment that leaves the old stage in place.
- `OnIncomingDataReady` pops one PDU and unregisters when the queue runs empty.
- `L2capDequeue` is the L2CAP consumer.

### `AclClassicConnect` (with `MC_AclClassicConnect`)

- **Host variables:** `registered`, `connecting`, `pending`, `live` (the keys of `acl_connections_`), `addr`, `disc`, `fault` (an ASSERT or a null dereference that stops the host).
- **LE host variables:** `leRegistered`, `connectingLe`.
- **Channels:** `cmds` and `evts`.
- **Controller:** `paging`, `requests`, `accepting`, `links`, `linkAddr`, `used`, `remotes`; for LE, `leInit` (the initiator) and `linkLe`.
- **Client:** `wanted`, `asked`, `discReq`, `leWanted`, `leAsked`.

Each host handler is one action, as is each client call. `on_le_connection_complete` and `on_le_enhanced_connection_complete` share their body (`LeConnectionComplete`); they differ in the address they report. The enhanced event reports the peer's resolvable private address when the controller gives one (`ReportingAddress`), and that address is the one erased from `connecting_le_`. The constant `EnhancedPeers` names the peers whose completion comes as the enhanced event, and `Rpas` names the resolvable addresses the controller may report. The drain loop at the end of `on_connection_complete` is the recursive operator `Drain`.

The controller follows the HCI contract:
- A page ends in a Connection Complete, either success or page timeout.
- A rejected, timed-out or cancelled request ends in a failed Connection Complete.
- The LE initiator takes one LE create at a time. A second one is refused (Command Disallowed), and the host's status callback ignores the refusal.
- Commands for objects the controller does not have are ignored.

**Refinement.** `ClassicConnectQueue` is the abstract promise of the outgoing-connection queue:
- at most one page in flight;
- requests made meanwhile wait in FIFO order;
- when a page completes, the oldest waiting peer that is not connected by then is started.

`AclClassicConnect` instantiates it with `current <- connecting`, `queue <- pending` and `linked <-` the addresses of `acl_connections_`. `ConnectQueueRefined` checks that refinement as a property.

### `AclConnectionRecord` (with `MC_AclConnectionRecord`)

This module models one record, from `OnConnectSuccess` to `cleanup`. It covers:
- the callback slots: management callbacks and handler, disconnect callback and handler, pending LE update;
- `is_disconnected_`;
- the handler queue;
- the HCI commands;
- the controller link;
- the client's proxy calls, from one or two threads.

`Disconnect` and every management call are split in two steps, the check of `is_disconnected_` (`Disconnect`, `MgmtRequest`) and the post of the handler task (`ProxyPost`), because the code runs them on the caller's thread with nothing held. `handle_change_connection_packet_type` is its own handler action (`HandleChangeConnectionPacketType`) because it alone ASSERTs the record; the other `handle_` builders are `HandleCommand`. Management commands are one command with both of the endings the code has:
- a Command Complete callback (`OnCommandComplete`, lines 686-925);
- an HCI event after a Command Status (`OnMgmtEvent`, lines 424-660).

`on_role_change` (`OnRoleChange`) posts with no null check.

The record starts with every callback slot and handler null, as the `acl_connection` constructor leaves them (lines 64-87). The client registers after `OnConnectSuccess`, in any order with the controller's events, so a Disconnection Complete or a role change may be handled before the registration. A post through a null handler or sink stops the model (`fault`); the liveness property `RecordErasedAfterLinkDrop` excuses such a stop, which `CallbacksPostedToLiveSinks` reports on its own.

### `GattClient` (with `MC_GattClient`)

| Variable | Code state |
|---|---|
| `inUse`, `slotAddr`, `nextIdx` | `btif_gattc_dev_cb` (`remote_dev[]`, `next_storage_idx`) |
| `scanning` | BTA observe running |
| `jniq`, `btifq` | tasks posted to the JNI thread and events transferred to the btif thread |
| `rssiClient` | `rssi_request_client_if` |
| `btmRssi` | the read BTM has in progress |
| `added` | ghost: devices added since the last reset, in order |
| `storedType` | btif storage: the address type of each device |
| `reported` | devices `scan_result_cb` has given the app |
| `btaPending`, `conns` | the opens BTA holds and BTA's GATT connections (BTA is outside the sources) |
| `appConn` | the connections `open_cb`/`close_cb` have told the app of |
| `opens`, `closes` | `btif_gattc_open` and `btif_gattc_close` calls |

Actions:
- `Scan(start)` resets the cache (`btif_gattc_init_dev_cb`) on the caller's thread and posts the observe call.
- `ScanResult` models `bta_scan_results_cb`. Without EIR data, `btif_cb.value` is uninitialized, so whether a name is found is a free choice.
- `ObserveEvt` is the `BTIF_GATT_OBSERVE_EVT` handler. It calls `FindBdaddr` and `AddRemoteBdaddr`, which fills the first free slot or overwrites the slot at `next_storage_idx` and advances it.
- `ObserveEvt` then writes the device's address type to btif storage and reports it through `scan_result_cb`, whether or not the cache took it.
- `Open` (`btif_gattc_open`) opens a reported or bonded device and posts `JniOpen` (`btif_gattc_open_impl`). `JniOpen` reads the stored type (`OpenAddrType`, public when storage has none) and refuses a background open of a resolvable private address when the controller supports neither privacy nor RPA offload.
- `Close` (`btif_gattc_close`) passes the conn_id the app holds, or 0, and posts `JniClose` (`btif_gattc_close_impl`). With a conn_id it closes the connection, and with 0 it cancels a direct open; either way it cancels a background open.
- BTA is abstract. `BtaOpenComplete` connects a pending open, or times out a direct one. `BtaConnDrop` is a link loss. Both reach the btif thread through `bta_gattc_cback`, where `OpenEvt` calls `open_cb` and `CloseEvt` calls `close_cb`.
- `ReadRemoteRssi` writes the global, `BtmReadRssiCb` reads it, and `RssiEvt` delivers the result.

## Runs

| Run | Result | What it shows |
|---|---|---|
| `reassembly` | pass | PDUs are exactly the declared length plus the header. The stage is always a PDU prefix. Every queued PDU reaches L2CAP. |
| `reassembly_stale_stage` | violation | A FIRST fragment complete in itself leaves the old stage in place ("Drop previous one" is only logged). |
| `classic_outgoing` | pass | With outgoing connects only and pages that succeed, the queue is served in order and every request is answered. The manager refines `ClassicConnectQueue` (one connect at a time, FIFO). This holds only without incoming connections: see `AtMostOneCreateInFlight` below. |
| `classic_full` | pass | With incoming requests, failures, cancels and remote disconnects, the host table tracks the controller's links and `connecting_` always drains. |
| `classic_le` | pass | The same holds with Classic and LE connections to the same peers sharing the handle table, and with overlapping LE creates. |
| `classic_page_fail` | violation | A failed page does not drain the queue, so requests behind it are never answered (spec §8 invariant 4). |
| `classic_handle_reuse` | violation | A handle reused before the client's `Finish` trips the ASSERT in `on_connection_complete`. |
| `record_lifecycle` | pass | One thread, registering whenever it chooses, with role switches, unregistering, failed updates and invalid parameters: the record exists whenever a handler uses it, and it is erased after the link drops unless the stack stopped on a null post. |
| `record_null_callback` | violation | A Disconnection Complete handled before `RegisterDisconnectCallback` posts through the null `disconnect_handler_` (4 states), against spec §4.1/§4.4 and the rule that the manager never panics on controller input. |
| `record_disconnect_race` | violation | Two threads: `Finish` and `cleanup` run between `Disconnect`'s check and its post, so `handle_disconnect` trips its ASSERT. |
| `record_update_failure` | violation | A failed LE update never clears the pending slot, so every later update is refused. `UpdateEventuallyResolved` is in no passing run, since both a failed status and invalid parameters break it. |
| `gatt_client` | pass | The observed-device cache always holds exactly the most recently added devices, one slot each, and `next_storage_idx` stays in range. No background open of a resolvable private address reaches BTA on a controller without privacy or RPA offload (`NoUnfollowableBackgroundOpen`). The app's view of its connections differs from BTA's only by events still queued (`ConnViewsAgree`). |

Every property of a passing run has a mutant in `PROJECT.json`. A mutant is a plausible bug in the mapped operation, such as a dropped check, a wrong order or an inverted status test, and TLC finds the property violated under the run's cfg.

**Counterexamples reproduced but not kept as runs.** The 12-run budget leaves these out; each is recorded in a hazard note in `PROJECT.json`.
- `LeConnectingTracksInitiator`, with `MC_AclClassicConnect_Le.cfg`: a second LE create is refused by the controller, and the request is lost.
- `RssiReportedToRequester`, with two clients and `MaxRssi = 2`: a second client overwrites `rssi_request_client_if`, and the first client's result goes to it.
- `AtMostOneCreateInFlight` (spec §3 invariant 6), with `MC_AclClassicConnect_Full.cfg`: an incoming Connection Complete runs the pending drain (line 389) while a page is in flight, and a second Create_Connection goes out (7 states).
- Under `MC_AclConnectionRecord_NullCallback.cfg`, an invariant on each null fault alone: a RoleChange before `RegisterCallbacks` posts through the null `command_complete_handler_` (line 614, 4 states), and a RoleChange after `UnregisterCallbacks` posts on null callbacks (line 1429, 5 states).
- `UpdateEventuallyResolved` with `InvalidParams = TRUE` and `UpdateMayFail = FALSE`: `LeConnectionUpdate` stores the callback before its parameter check and returns false with the slot still set (line 1780).
- `HostTableMatchesController`, with `Rpas = {r1}` in `classic_le`: the enhanced completion erases the resolvable address from `connecting_le_`, so the peer's entry stays behind (line 339).
- `RecordPresentWhenUsed` for the packet-type ASSERT, with the two threads of `record_disconnect_race`: `ChangeConnectionPacketType` passes its check, `Finish` and `cleanup` run, and `handle_change_connection_packet_type` trips its ASSERT (line 1108).
- A close that leaves no connection, with `MC_GattClient.cfg`: `btif_gattc_close` with conn_id 0 races BTA completing the open. `close_impl` cancels nothing, and `open_cb(success)` arrives after the close (11 states).
- `StageIsPduPrefix`, with `Oversized = TRUE`: `remaining` goes negative, and the unsigned comparison lets the stage grow.

## Bounds

**Reassembly:**
- one connection, plus an unknown handle and the debug handle;
- FIRST sizes {4,5}, CONTINUING sizes {1,2}, PDU lengths 0..3;
- at most 4 fragments;
- a queue limit of 1 and an up capacity of 1.

These give PDUs of one to three fragments, queue overflow, and a stalled L2CAP.

**Classic and LE:**
- `classic_outgoing`: three peers, so that one page runs while a second request waits and a third arrives.
- `classic_full`: two peers, two handles and one remote page. This covers every interleaving of an outgoing connect with an incoming one, a failure, a cancel and a disconnect.
- `classic_le`: two peers with both Classic and LE requests. Two LE creates can overlap.

Handles are fresh except in `classic_handle_reuse`.

**Record:**
- one call of each kind per client;
- one remote event;
- one thread, or two in the race run.

**GATT:**
- two cache slots, so the ring wraps after two additions;
- three devices, one of them with a random address;
- four advertisements and two scan calls, so a reset happens with events still queued;
- one client, with one RSSI read, and one open (direct or background) and one close of the random-address device;
- a `SYMMETRY` on the two public devices, which play the same part (the run checks invariants only);
- a local name chosen only for the random-address device, because the OBSERVE_EVT test never reads it for the others;
- no bonded devices, and a controller with neither privacy nor RPA offload, so the refusal branch is reachable.

`CHECK_DEADLOCK FALSE` is used because every model legitimately stops once its bounded inputs are used up.

## Fairness

- **Reassembly:** the queue reactor runs a registered enqueue callback whenever the up end has room, and L2CAP keeps reading.
- **Classic:**
  - The handler runs every event and task, and the controller executes every command.
  - Pages and accepted requests end, because the page timeout bounds them. The LE initiator gets no fairness: the peer may never advertise, and nothing cancels an LE create.
  - The client registers, and calls `Finish` after a disconnection, as `AclConnection` requires.
- **Record:** the handler runs every item and the controller every command. A thread inside `Disconnect` completes the call. The client calls `Finish` after its disconnect callback.
- **GATT:** the JNI and btif threads serve their queues, and BTM completes a read. BTA gets no fairness, because a background open may wait for its device for ever.

## Not modelled

- The default link policy (`ReadDefaultLinkPolicySettings`, `WriteDefaultLinkPolicySettings`, lines 739 and 2029). Added to `AclClassicConnect`, it multiplied the state space past five minutes per run. The race between the caller's write and the handler's read completion is listed as a hazard.
- The GATT calls that only forward to BTA or to HAL callbacks: service discovery, read/write, notifications, scan filters, MTU and connection parameters. The open transport is always LE, because every modelled device was observed over LE.
- Multi-advertising and batch scan. Their instance tables and timers live in `btif_gatt_multi_adv_util`, which is not in the repository.
- `btif_gattc_update_properties`' hand-off of the name to btif_dm. No property reads btif_dm.
- LE connection parameters, the random-address literal, and the extended/legacy choice of command. The controller treats both commands alike.
- The round-robin scheduler, which is outside the sources.
- The security-manager listener, and `Start`/`Stop` registration. Every module begins after `Start`. `Stop` unregisters only some of the event handlers and clears `acl_connections_` under live proxies. Both are listed as hazards, but modelling shutdown needs the HCI layer's dispatch, which is outside the sources.
- In the GATT shim, the HAL calls and upstream events that only translate arguments without shim state. The memset of the cache is one atomic step, so a write torn by the btif thread is not covered.
- The discoverability interface, which is pure declarations.

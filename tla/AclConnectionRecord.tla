-------------------------- MODULE AclConnectionRecord --------------------------
(***************************************************************************)
(* One connection record of the ACL manager (src/gd/hci/acl_manager.cc)    *)
(* from OnConnectSuccess to cleanup: its callback slots, the client's      *)
(* calls through the connection proxy, the manager's handler and the       *)
(* controller.                                                             *)
(*                                                                         *)
(* The manager's handler runs one item of its queue at a time: HCI events  *)
(* and the tasks the proxy posts (handle_disconnect,                       *)
(* handle_le_connection_update, a management command, cleanup).  Proxy     *)
(* methods run on the client's threads and touch the record directly;      *)
(* Disconnect and the management calls read is_disconnected_ and post     *)
(* their handle_ task in two steps, so another client thread and the      *)
(* handler may run in between.                                             *)
(* Callbacks posted to a client handler are counted when posted.  The     *)
(* record starts with every callback slot and handler null, as the        *)
(* acl_connection constructor leaves them; the client fills them after    *)
(* OnConnectSuccess, while controller events may already be queued.       *)
(*                                                                         *)
(* The management commands (ReadRssi, SniffMode, ...) share one shape:   *)
(* the proxy refuses once is_disconnected_, else posts handle_<command>,   *)
(* which enqueues the HCI command; a read ends in its Command Complete     *)
(* callback, the others in an HCI event after a Command Status; either    *)
(* posts to command_complete_callbacks_ if command_complete_handler_ is    *)
(* set.  They are one command here, with both endings; the handler task    *)
(* of ChangeConnectionPacketType alone ASSERTs the record.                 *)
(***************************************************************************)
EXTENDS Integers, Sequences, FiniteSets

CONSTANTS
  Threads,            \* client threads that call the proxy
  RoleSwitch,         \* may the remote device switch roles?
  MayUnregister,      \* may the client call UnregisterCallbacks?
  UpdateMayFail,      \* may LE Connection Update Complete carry an error?
  InvalidParams,      \* may the client pass parameters out of range?
  MaxCalls,           \* calls of each kind a client makes (model bound)
  MaxRemote           \* remote role changes and updates (model bound)

VARIABLES
  \* the record (acl_connection)
  exists,     \* acl_connections_.count(handle) == 1
  disc,       \* is_disconnected_
  mgmtCb,     \* command_complete_callbacks_ != nullptr
  mgmtH,      \* command_complete_handler_ != nullptr
  dcb,        \* on_disconnect_callback_ is not null
  dh,         \* disconnect_handler_ != nullptr
  upd,        \* on_connection_update_complete_callback_ is not null
  fault,      \* the ASSERT or null dereference that stopped the stack
  \* the manager's handler and the controller
  hq,         \* handler queue: events and posted tasks
  cmds,       \* HCI commands, oldest first
  link,       \* the controller's link for the handle
  remote,     \* remote-initiated events so far
  \* the client
  pc,         \* per thread: "idle", or the task a proxy call is about to post
  calls,      \* proxy calls made, per kind
  registered, \* {"mgmt"} once RegisterCallbacks was called
  finished,   \* Finish called
  \* observations
  fired,      \* disconnect callbacks posted
  updDone     \* update-complete callbacks posted

recVars == <<exists, disc, mgmtCb, mgmtH, dcb, dh, upd, fault>>
envVars == <<hq, cmds, link, remote>>
cliVars == <<pc, calls, registered, finished>>
obsVars == <<fired, updDone>>
vars == <<recVars, envVars, cliVars, obsVars>>

NoFault == "none"
Kinds == {"disconnect", "update", "mgmt", "register"}
MgmtTask == {"handle_mgmt", "handle_change_connection_packet_type"}
Task == {"handle_disconnect", "handle_le_connection_update", "cleanup"} \cup MgmtTask
Event == {"DisconnectionComplete", "MgmtEvent", "CommandComplete", "RoleChange",
          "UpdateSuccess", "UpdateFailure"}

Post(x) == hq' = Append(hq, x)
Pop == hq' = Tail(hq)

-----------------------------------------------------------------------------
(* The manager's handler.                                                   *)

\* Mutant: the once-callback is moved out of the slot but never posted.
CallDisconnectCallbackNoPost ==
  CASE ~dh  -> fault' = "null disconnect_handler_" /\ UNCHANGED <<dcb, fired>>
    [] ~dcb -> fault' = "null on_disconnect_callback_" /\ UNCHANGED <<dcb, fired>>
    [] OTHER -> dcb' = FALSE /\ UNCHANGED <<fault, fired>>

\* call_disconnect_callback: post the once-callback on disconnect_handler_.
CallDisconnectCallback ==
  CASE ~dh  -> fault' = "null disconnect_handler_" /\ UNCHANGED <<dcb, fired>>
    [] ~dcb -> fault' = "null on_disconnect_callback_" /\ UNCHANGED <<dcb, fired>>
    [] OTHER -> dcb' = FALSE /\ fired' = fired + 1 /\ UNCHANGED fault

\* Mutant: is_disconnected_ is not set on disconnection.
DisconnectionCompleteKeepsConnected ==
  /\ Head(hq) = "DisconnectionComplete"
  /\ Pop
  /\ IF ~exists
       THEN fault' = "ASSERT record in on_disconnection_complete"
            /\ UNCHANGED <<disc, dcb, fired>>
       ELSE UNCHANGED disc /\ CallDisconnectCallback
  /\ UNCHANGED <<exists, mgmtCb, mgmtH, dh, upd, cmds, link, remote, cliVars, updDone>>

\* on_disconnection_complete (SUCCESS)
OnDisconnectionComplete ==
  /\ Head(hq) = "DisconnectionComplete"
  /\ Pop
  /\ IF ~exists
       THEN fault' = "ASSERT record in on_disconnection_complete"
            /\ UNCHANGED <<disc, dcb, fired>>
       ELSE disc' = TRUE /\ CallDisconnectCallback
  /\ UNCHANGED <<exists, mgmtCb, mgmtH, dh, upd, cmds, link, remote, cliVars, updDone>>

\* The check every management handler but on_role_change makes: post to
\* command_complete_callbacks_ only when command_complete_handler_ is set.
PostMgmtCallback ==
  fault' = IF mgmtH /\ ~mgmtCb THEN "null command_complete_callbacks_" ELSE fault

\* The HCI event that ends a command answered by Command Status
\* (on_connection_packet_type_changed, on_authentication_complete,
\* on_mode_change, on_qos_setup_complete, on_flush_occurred, ...).
OnMgmtEvent ==
  /\ Head(hq) = "MgmtEvent"
  /\ Pop
  /\ PostMgmtCallback
  /\ UNCHANGED <<exists, disc, mgmtCb, mgmtH, dcb, dh, upd, cmds, link, remote,
                 cliVars, obsVars>>

\* The Command Complete callback of a management read
\* (on_role_discovery_complete, on_read_link_policy_settings_complete, ...,
\* on_read_rssi_complete, on_read_clock_complete).
OnCommandComplete ==
  /\ Head(hq) = "CommandComplete"
  /\ Pop
  /\ PostMgmtCallback
  /\ UNCHANGED <<exists, disc, mgmtCb, mgmtH, dcb, dh, upd, cmds, link, remote,
                 cliVars, obsVars>>

\* on_role_change posts on command_complete_handler_ with no null check.
OnRoleChange ==
  /\ Head(hq) = "RoleChange"
  /\ Pop
  /\ fault' = CASE ~exists -> fault
                [] ~mgmtH  -> "null command_complete_handler_"
                [] ~mgmtCb -> "null command_complete_callbacks_"
                [] OTHER   -> fault
  /\ UNCHANGED <<exists, disc, mgmtCb, mgmtH, dcb, dh, upd, cmds, link, remote,
                 cliVars, obsVars>>

\* on_le_connection_update_complete: an error status, an unknown handle or
\* a disconnected record return early; else the pending callback is posted.
OnLeConnectionUpdateComplete ==
  /\ Head(hq) \in {"UpdateSuccess", "UpdateFailure"}
  /\ Pop
  /\ IF Head(hq) = "UpdateSuccess" /\ exists /\ ~disc /\ upd
       THEN upd' = FALSE /\ updDone' = updDone + 1
       ELSE UNCHANGED <<upd, updDone>>
  /\ UNCHANGED <<exists, disc, mgmtCb, mgmtH, dcb, dh, fault, cmds, link, remote,
                 cliVars, fired>>

\* handle_disconnect: ASSERT the record exists, enqueue HCI Disconnect.
HandleDisconnect ==
  /\ Head(hq) = "handle_disconnect"
  /\ Pop
  /\ IF exists
       THEN cmds' = Append(cmds, "Disconnect")
            /\ UNCHANGED fault
       ELSE fault' = "ASSERT record in handle_disconnect" /\ UNCHANGED cmds
  /\ UNCHANGED <<exists, disc, mgmtCb, mgmtH, dcb, dh, upd, link, remote, cliVars,
                 fired, updDone>>

\* handle_change_connection_packet_type: ASSERT the record exists, enqueue
\* the command.
HandleChangeConnectionPacketType ==
  /\ Head(hq) = "handle_change_connection_packet_type"
  /\ Pop
  /\ IF exists
       THEN cmds' = Append(cmds, "Mgmt") /\ UNCHANGED fault
       ELSE fault' = "ASSERT record in handle_change_connection_packet_type" /\ UNCHANGED cmds
  /\ UNCHANGED <<exists, disc, mgmtCb, mgmtH, dcb, dh, upd, link, remote, cliVars, obsVars>>

\* handle_le_connection_update and the other handle_<management command>:
\* enqueue the HCI command.
HandleCommand(task, cmd) ==
  /\ Head(hq) = task
  /\ Pop
  /\ cmds' = Append(cmds, cmd)
  /\ UNCHANGED <<recVars, link, remote, cliVars, obsVars>>

\* cleanup: ASSERT the record exists, erase it.
Cleanup ==
  /\ Head(hq) = "cleanup"
  /\ Pop
  /\ IF exists THEN exists' = FALSE /\ UNCHANGED fault
               ELSE fault' = "ASSERT record in cleanup" /\ UNCHANGED exists
  /\ UNCHANGED <<disc, mgmtCb, mgmtH, dcb, dh, upd, cmds, link, remote, cliVars, obsVars>>

HandlerStep ==
  /\ hq # <<>>
  /\ \/ OnDisconnectionComplete
     \/ OnMgmtEvent
     \/ OnCommandComplete
     \/ OnRoleChange
     \/ OnLeConnectionUpdateComplete
     \/ HandleDisconnect
     \/ HandleCommand("handle_le_connection_update", "LeConnectionUpdate")
     \/ HandleCommand("handle_mgmt", "Mgmt")
     \/ HandleChangeConnectionPacketType
     \/ Cleanup

-----------------------------------------------------------------------------
(* The client, through the connection proxy.  A thread inside a call does *)
(* nothing else; with one thread, calls do not overlap.                    *)

Idle(t) == pc[t] = "idle" /\ (Cardinality(Threads) > 1 \/ \A u \in Threads : pc[u] = "idle")
Count(k) == calls[k] < MaxCalls /\ calls' = [calls EXCEPT ![k] = @ + 1]

\* Disconnect, first half: check_and_get_connection and is_disconnected_.
Disconnect(t) ==
  /\ Idle(t) /\ ~finished
  /\ Count("disconnect")
  /\ pc' = [pc EXCEPT ![t] = IF disc THEN "idle" ELSE "handle_disconnect"]
  /\ UNCHANGED <<recVars, envVars, registered, finished, obsVars>>

\* Second half of Disconnect and of the management calls:
\* handler_->Post(handle_<call>).
ProxyPost(t) ==
  /\ pc[t] # "idle"
  /\ Post(pc[t])
  /\ pc' = [pc EXCEPT ![t] = "idle"]
  /\ UNCHANGED <<recVars, cmds, link, remote, calls, registered, finished, obsVars>>

\* RegisterDisconnectCallback: store callback and handler; fire at once if
\* already disconnected.
RegisterDisconnectCallback(t) ==
  /\ Idle(t) /\ ~finished
  /\ Count("register")
  /\ dh' = TRUE
  /\ IF disc THEN /\ dcb' = FALSE /\ fired' = fired + 1
             ELSE /\ dcb' = TRUE /\ UNCHANGED fired
  /\ UNCHANGED <<exists, disc, mgmtCb, mgmtH, upd, fault, envVars, pc, registered,
                 finished, updDone>>

\* RegisterCallbacks: ASSERT no callbacks yet, store callbacks and handler.
RegisterCallbacks(t) ==
  /\ Idle(t) /\ ~finished
  /\ "mgmt" \notin registered
  /\ registered' = registered \cup {"mgmt"}
  /\ mgmtCb' = TRUE /\ mgmtH' = TRUE
  /\ UNCHANGED <<exists, disc, dcb, dh, upd, fault, envVars, pc, calls, finished, obsVars>>

\* UnregisterCallbacks: clears the callbacks; the handler stays.
UnregisterCallbacks(t) ==
  /\ MayUnregister
  /\ Idle(t) /\ ~finished /\ mgmtCb
  /\ mgmtCb' = FALSE
  /\ UNCHANGED <<exists, disc, mgmtH, dcb, dh, upd, fault, envVars, cliVars, obsVars>>

\* A management call (ChangeConnectionPacketType, ReadRssi, ...), first
\* half: check_and_get_connection and is_disconnected_.
MgmtRequest(t) ==
  /\ Idle(t) /\ ~finished
  /\ Count("mgmt")
  /\ \E task \in MgmtTask : pc' = [pc EXCEPT ![t] = IF disc THEN "idle" ELSE task]
  /\ UNCHANGED <<recVars, envVars, registered, finished, obsVars>>

\* LeConnectionUpdate: refused once disconnected or while an update is
\* pending; the callback is stored before the parameters are checked.
LeConnectionUpdate(t) ==
  /\ Idle(t) /\ ~finished
  /\ Count("update")
  /\ \E valid \in IF InvalidParams THEN BOOLEAN ELSE {TRUE} :
       IF disc \/ upd
         THEN UNCHANGED <<upd, hq>>
         ELSE /\ upd' = TRUE
              /\ IF valid THEN Post("handle_le_connection_update") ELSE UNCHANGED hq
  /\ UNCHANGED <<exists, disc, mgmtCb, mgmtH, dcb, dh, fault, cmds, link, remote, pc,
                 registered, finished, obsVars>>

\* Finish, called once the disconnect callback has run: ASSERT
\* is_disconnected_, post cleanup.
Finish(t) ==
  /\ Idle(t) /\ ~finished
  /\ fired > 0
  /\ finished' = TRUE
  /\ IF disc THEN Post("cleanup") /\ UNCHANGED fault
             ELSE fault' = "ASSERT is_disconnected_ in Finish" /\ UNCHANGED hq
  /\ UNCHANGED <<exists, disc, mgmtCb, mgmtH, dcb, dh, upd, cmds, link, remote,
                 pc, calls, registered, obsVars>>

-----------------------------------------------------------------------------
(* The controller.                                                         *)

\* It executes the oldest command; a command for a dropped link fails with
\* an error status and no event the record sees.
CtrlExecute ==
  LET c == Head(cmds) IN
  /\ cmds # <<>>
  /\ cmds' = Tail(cmds)
  /\ IF ~link THEN UNCHANGED <<hq, link>>
     ELSE CASE c = "Disconnect" -> link' = FALSE /\ Post("DisconnectionComplete")
            [] c = "Mgmt" -> /\ Post("MgmtEvent") \/ Post("CommandComplete")
                             /\ UNCHANGED link
            [] OTHER -> UNCHANGED link /\
                 \E ok \in IF UpdateMayFail THEN BOOLEAN ELSE {TRUE} :
                   Post(IF ok THEN "UpdateSuccess" ELSE "UpdateFailure")
  /\ UNCHANGED <<recVars, remote, cliVars, obsVars>>

\* The remote device or supervision timeout drops the link.
RemoteDisconnect ==
  /\ link
  /\ link' = FALSE
  /\ Post("DisconnectionComplete")
  /\ UNCHANGED <<recVars, cmds, remote, cliVars, obsVars>>

\* The remote device switches roles or updates the connection parameters.
RemoteEvent ==
  /\ link /\ remote < MaxRemote
  /\ remote' = remote + 1
  /\ \E e \in {"UpdateSuccess"} \cup (IF RoleSwitch THEN {"RoleChange"} ELSE {}) : Post(e)
  /\ UNCHANGED <<recVars, cmds, link, cliVars, obsVars>>

-----------------------------------------------------------------------------
Init ==
  /\ exists = TRUE /\ disc = FALSE
  /\ mgmtCb = FALSE /\ mgmtH = FALSE
  /\ dcb = FALSE /\ dh = FALSE
  /\ upd = FALSE /\ fault = NoFault
  /\ hq = <<>> /\ cmds = <<>> /\ link = TRUE /\ remote = 0
  /\ pc = [t \in Threads |-> "idle"]
  /\ calls = [k \in Kinds |-> 0]
  /\ registered = {}
  /\ finished = FALSE
  /\ fired = 0 /\ updDone = 0

Client ==
  \E t \in Threads :
    \/ Disconnect(t) \/ ProxyPost(t)
    \/ RegisterDisconnectCallback(t) \/ RegisterCallbacks(t) \/ UnregisterCallbacks(t)
    \/ MgmtRequest(t) \/ LeConnectionUpdate(t) \/ Finish(t)

Next ==
  /\ fault = NoFault
  /\ HandlerStep \/ Client \/ CtrlExecute \/ RemoteDisconnect \/ RemoteEvent

(***************************************************************************)
(* The handler runs every queued item and the controller every command; a  *)
(* thread inside a proxy call completes it; the client calls Finish       *)
(* after its disconnect callback, as AclConnection requires.               *)
(***************************************************************************)
Fairness ==
  /\ WF_vars(fault = NoFault /\ HandlerStep)
  /\ WF_vars(fault = NoFault /\ CtrlExecute)
  /\ \A t \in Threads : WF_vars(fault = NoFault /\ ProxyPost(t))
                        /\ WF_vars(fault = NoFault /\ Finish(t))

Spec == Init /\ [][Next]_vars /\ Fairness
-----------------------------------------------------------------------------
TypeOK ==
  /\ {exists, disc, mgmtCb, mgmtH, dcb, dh, upd, link, finished} \subseteq BOOLEAN
  /\ hq \in Seq(Task \cup Event)
  /\ cmds \in Seq({"Disconnect", "LeConnectionUpdate", "Mgmt"})
  /\ pc \in [Threads -> {"idle"} \cup MgmtTask \cup {"handle_disconnect"}]
  /\ calls \in [Kinds -> 0..MaxCalls]
  /\ registered \subseteq {"mgmt"}
  /\ {remote, fired, updDone} \subseteq Nat

AssertFaults == {"ASSERT record in on_disconnection_complete",
                 "ASSERT record in handle_disconnect", "ASSERT record in cleanup",
                 "ASSERT is_disconnected_ in Finish",
                 "ASSERT record in handle_change_connection_packet_type"}

\* Every task and event that looks the record up finds it: handle_disconnect,
\* handle_change_connection_packet_type, on_disconnection_complete and
\* cleanup never hit their ASSERT, however the client's proxy calls, the
\* disconnection and Finish interleave.
RecordPresentWhenUsed == fault \notin AssertFaults

\* Every callback the handler posts goes to a registered handler and sink:
\* the disconnect callback (call_disconnect_callback, on a Disconnection
\* Complete that arrives before RegisterDisconnectCallback), OnRoleChange
\* (on_role_change, before RegisterCallbacks) and the management
\* completions (after UnregisterCallbacks) never go through a null pointer.
CallbacksPostedToLiveSinks == fault \in AssertFaults \cup {NoFault}

\* The stack stopped on a post through a null handler or sink, which
\* CallbacksPostedToLiveSinks reports; no ASSERT is such a stop.
NullDereferenced == fault \notin AssertFaults \cup {NoFault}

\* Once the link is gone, the client's disconnect callback runs, the client
\* calls Finish and cleanup erases the record (the table holds a handle only
\* until Finish: on_disconnection_complete, Finish, cleanup), unless the
\* stack already stopped on a null post.
RecordErasedAfterLinkDrop == ~link ~> (~exists \/ NullDereferenced)

\* A pending LE connection update is resolved: its callback is posted, or
\* the connection goes down; otherwise every later LeConnectionUpdate is
\* refused (LeConnectionUpdate, on_le_connection_update_complete).
UpdateEventuallyResolved == upd ~> (~upd \/ disc \/ NullDereferenced)
====

--------------------------- MODULE AclClassicConnect ---------------------------
(***************************************************************************)
(* Classic (BR/EDR) connection establishment and teardown in the ACL       *)
(* manager (src/gd/hci/acl_manager.cc, struct AclManager::impl), against a *)
(* controller that follows the HCI command/event contract.                 *)
(*                                                                         *)
(* Host side: connecting_, pending_outgoing_connections_, the keys of      *)
(* acl_connections_ with each record's address and is_disconnected_, and   *)
(* client_callbacks_.  All of it is touched only on the manager's handler, *)
(* so every handler run is one atomic step; HCI events reach the handler   *)
(* in the order the controller sent them and commands reach the           *)
(* controller in the order they were enqueued (two FIFO channels).         *)
(*                                                                         *)
(* Controller side: pages in progress, incoming requests waiting for the   *)
(* host, accepted requests in progress, and its live links.  It answers   *)
(* Create_Connection with a Connection Complete (success or page timeout), *)
(* a rejected or timed-out request with a failed Connection Complete, a    *)
(* cancelled page with a failed Connection Complete, and a Disconnect with *)
(* a Disconnection Complete.  A command for an object it does not have     *)
(* fails with a Command Status/Complete error and no further event.        *)
(*                                                                         *)
(* The client (the upper layer holding the ConnectionCallbacks) asks to    *)
(* connect, may cancel, disconnects and calls Finish once disconnected.   *)
(*                                                                         *)
(* LE: the client registers its LeConnectionCallbacks and asks for LE      *)
(* connections (connecting_le_); the controller's initiator runs one LE    *)
(* create at a time and reports LE Connection Complete.  LE records go     *)
(* into the same acl_connections_ and are disconnected and finished the    *)
(* same way.                                                               *)
(***************************************************************************)
EXTENDS Integers, Sequences, SequencesExt, FiniteSets

CONSTANTS
  Addrs,             \* peer device addresses
  Handles,           \* connection handles the controller may assign
  MaxRemoteConnects, \* how many times remote devices page us (model bound)
  ConnectMayFail,    \* may pages time out and may the client cancel?
  HandleReuse,       \* may the controller reuse a released handle?
  RegisteredAtStart, \* has RegisterCallbacks run before the first event?
  LeAddrs,           \* peers the client may ask to connect to over LE
  Rpas,              \* resolvable private addresses the LE peers may use
  EnhancedPeers      \* LE peers whose completion comes as the enhanced event

VARIABLES
  \* host (AclManager::impl)
  registered,   \* client_callbacks_ != nullptr
  connecting,   \* connecting_
  pending,      \* pending_outgoing_connections_ (addresses, FIFO)
  live,         \* keys of acl_connections_
  addr,         \* acl_connection::address_with_type_ (address part)
  disc,         \* acl_connection::is_disconnected_
  fault,        \* the ASSERT or null dereference that stopped the host
  \* channels
  cmds,         \* HCI commands enqueued, not yet executed by the controller
  evts,         \* HCI events sent, not yet handled by the manager
  \* controller
  paging,       \* Create_Connection in progress
  requests,     \* incoming requests waiting for Accept/Reject
  accepting,    \* accepted requests in progress
  links,        \* controller's live handles
  linkAddr,     \* peer of each controller handle
  used,         \* handles ever assigned
  remotes,      \* remote pages so far (bounded by MaxRemoteConnects)
  \* client
  wanted,       \* CreateConnection asked, no answer yet
  asked,        \* addresses the client has asked for (bounds the model)
  discReq,      \* handles on which the client called Disconnect
  \* LE (create_le_connection, on_le_connection_complete)
  leRegistered, \* le_client_callbacks_ != nullptr
  connectingLe, \* connecting_le_ (the address part)
  leInit,       \* the controller's LE initiator: the peer it connects to
  linkLe,       \* the controller's live handles that are LE links
  leWanted,     \* CreateLeConnection asked, no answer yet
  leAsked       \* addresses the client has asked LE connections to

hostVars == <<registered, connecting, pending, live, addr, disc, fault>>
ctrlVars == <<paging, requests, accepting, links, linkAddr, used, remotes>>
clientVars == <<wanted, asked, discReq>>
leHostClient == <<leRegistered, connectingLe, leWanted, leAsked>>
leVars == <<leRegistered, connectingLe, leInit, linkLe, leWanted, leAsked>>
vars == <<hostVars, cmds, evts, ctrlVars, clientVars, leVars>>

NoFault == "none"
NoRpa == "empty"   \* an empty Peer_Resolvable_Private_Address

Command ==
  [type : {"Create", "Accept", "Reject", "Cancel", "LeCreate"}, addr : Addrs]
    \cup [type : {"Disconnect"}, handle : Handles]

\* An LE completion is the LE Connection Complete (enh = FALSE) or the LE
\* Enhanced Connection Complete, which also carries the peer's resolvable
\* private address.
LeVariant == [enh : {FALSE}, rpa : {NoRpa}] \cup [enh : {TRUE}, rpa : {NoRpa} \cup Rpas]
\* The completion events the controller may send for peer a.
LeVariantFor(a) == {x \in LeVariant : x.enh = (a \in EnhancedPeers)}

Event ==
  [type : {"ConnReq", "ConnFail"}, addr : Addrs]
    \cup [type : {"ConnComplete"}, addr : Addrs, handle : Handles]
    \cup {[type |-> "LeConnFail", addr |-> a, enh |-> x.enh, rpa |-> x.rpa] :
            a \in Addrs, x \in LeVariant}
    \cup {[type |-> "LeConnComplete", addr |-> a, handle |-> h, enh |-> x.enh, rpa |-> x.rpa] :
            a \in Addrs, h \in Handles, x \in LeVariant}
    \cup [type : {"AcceptStatus"}, addr : Addrs, ok : BOOLEAN]
    \cup [type : {"DisconnComplete"}, handle : Handles]

Send(c) == cmds' = Append(cmds, c)
Emit(e) == evts' = Append(evts, e)

-----------------------------------------------------------------------------
(* Host: handlers run on the manager's handler.                            *)

\* is_classic_link_already_connected: any record for the address, whether
\* or not it is already disconnected.
IsClassicLinkAlreadyConnected(a) == \E h \in live : addr[h] = a

\* A callback posted to client_handler_ while no client has registered
\* dereferences a null handler.
PostToClient == IF registered THEN UNCHANGED fault ELSE fault' = "null client_handler_"

Consume == evts' = Tail(evts)

\* on_incoming_connection (should_accept_connection_ accepts everything)
OnIncomingConnection ==
  LET a == Head(evts).addr IN
  /\ Head(evts).type = "ConnReq"
  /\ Consume
  /\ IF ~registered
       THEN /\ Send([type |-> "Reject", addr |-> a])
            /\ UNCHANGED connecting
       ELSE /\ connecting' = connecting \cup {a}
            /\ IF IsClassicLinkAlreadyConnected(a)
                 THEN Send([type |-> "Reject", addr |-> a])
                 ELSE Send([type |-> "Accept", addr |-> a])
  /\ UNCHANGED <<leVars, registered, pending, live, addr, disc, fault, ctrlVars, clientVars>>

\* on_accept_connection_status: a failed accept calls cancel_connect,
\* which sends Create_Connection_Cancel if the address is in connecting_.
OnAcceptConnectionStatus ==
  LET e == Head(evts) IN
  /\ e.type = "AcceptStatus"
  /\ Consume
  /\ IF ~e.ok /\ e.addr \in connecting
       THEN Send([type |-> "Cancel", addr |-> e.addr])
       ELSE UNCHANGED cmds
  /\ UNCHANGED <<leVars, hostVars, ctrlVars, clientVars>>

\* Mutant: the failure path does not erase the address from connecting_.
OnConnectionFailKeepsConnecting ==
  LET a == Head(evts).addr IN
  /\ Head(evts).type = "ConnFail"
  /\ Consume
  /\ PostToClient
  /\ wanted' = wanted \ {a}
  /\ UNCHANGED <<leVars, registered, connecting, pending, live, addr, disc, cmds, ctrlVars, asked, discReq>>

\* on_connection_complete with a failure status: erase from connecting_
\* and post OnConnectFail; the pending queue is not looked at.
OnConnectionFail ==
  LET a == Head(evts).addr IN
  /\ Head(evts).type = "ConnFail"
  /\ Consume
  /\ connecting' = connecting \ {a}
  /\ PostToClient
  /\ wanted' = wanted \ {a}
  /\ UNCHANGED <<leVars, registered, pending, live, addr, disc, cmds, ctrlVars, asked, discReq>>

\* The loop at the end of on_connection_complete: pop pending entries,
\* skipping (and dropping) those already connected (conn: the
\* addresses of acl_connections_ after the new record is added), and issue
\* Create_Connection for the first one that is not.
\* Mutant: the loop serves the newest request first.
DrainNewestFirst(q, conn) ==
  IF q = <<>> \/ Last(q) \in conn
    THEN [rest |-> IF q = <<>> THEN q ELSE Front(q), issue |-> <<>>, dropped |-> {}]
    ELSE [rest |-> Front(q), issue |-> <<Last(q)>>, dropped |-> {}]

\* Mutant: the loop pops the next request but never issues it.
DrainNeverIssues(q, conn) == [rest |-> IF q = <<>> THEN q ELSE Tail(q), issue |-> <<>>, dropped |-> {}]

RECURSIVE Drain(_, _)
Drain(q, conn) ==
  IF q = <<>> THEN [rest |-> <<>>, issue |-> <<>>, dropped |-> {}]
  ELSE IF Head(q) \in conn
    THEN LET r == Drain(Tail(q), conn)
         IN [r EXCEPT !.dropped = @ \cup {Head(q)}]
    ELSE [rest |-> Tail(q), issue |-> <<Head(q)>>, dropped |-> {}]

\* on_connection_complete with SUCCESS.
OnConnectionComplete ==
  LET e == Head(evts)
      h == e.handle
      d == Drain(pending, {e.addr} \cup {addr[k] : k \in live})
  IN
  /\ e.type = "ConnComplete"
  /\ Consume
  /\ IF h \in live
       THEN \* ASSERT(acl_connections_.count(handle) == 0)
            /\ fault' = "ASSERT handle already in acl_connections_"
            /\ UNCHANGED <<leVars, connecting, pending, live, addr, disc, cmds, wanted>>
       ELSE /\ live' = live \cup {h}
            /\ addr' = [addr EXCEPT ![h] = e.addr]
            /\ disc' = [disc EXCEPT ![h] = FALSE]
            /\ PostToClient
            /\ pending' = d.rest
            /\ connecting' = (connecting \ {e.addr}) \cup ToSet(d.issue)
            /\ IF d.issue = <<>> THEN UNCHANGED cmds
                 ELSE Send([type |-> "Create", addr |-> d.issue[1]])
            /\ wanted' = wanted \ ({e.addr} \cup d.dropped)
  /\ UNCHANGED <<leVars, registered, ctrlVars, asked, discReq>>

\* Mutant: is_disconnected_ is never set.
DisconnectionCompleteNotRecorded ==
  /\ Head(evts).type = "DisconnComplete"
  /\ Consume
  /\ UNCHANGED <<leVars, registered, connecting, pending, live, addr, disc, fault, cmds,
                 ctrlVars, clientVars>>

\* on_disconnection_complete (SUCCESS): the record must exist; mark it
\* disconnected.
OnDisconnectionComplete ==
  LET h == Head(evts).handle IN
  /\ Head(evts).type = "DisconnComplete"
  /\ Consume
  /\ IF h \in live
       THEN /\ disc' = [disc EXCEPT ![h] = TRUE]
            /\ UNCHANGED fault
       ELSE /\ fault' = "ASSERT handle in acl_connections_"  \* ASSERT(count == 1)
            /\ UNCHANGED disc
  /\ UNCHANGED <<leVars, registered, connecting, pending, live, addr, cmds,
                 ctrlVars, clientVars>>

\* A callback posted to le_client_handler_ while no LE client has
\* registered dereferences a null handler.
PostToLeClient == IF leRegistered THEN UNCHANGED fault ELSE fault' = "null le_client_handler_"

\* on_common_le_connection_complete: erase the peer from connecting_le_; a
\* completion nobody asked for is only logged.
OnCommonLeConnectionComplete(a) == connectingLe' = connectingLe \ {a}

\* Mutant: the status test is inverted and a success is reported as a
\* failure, with no record added.
OnLeConnectionCompleteStatusInverted ==
  LET e == Head(evts) IN
  /\ e.type \in {"LeConnComplete", "LeConnFail"} /\ ~e.enh
  /\ Consume
  /\ OnCommonLeConnectionComplete(e.addr)
  /\ leWanted' = leWanted \ {e.addr}
  /\ PostToLeClient
  /\ UNCHANGED <<live, addr, disc, registered, connecting, pending, cmds, ctrlVars,
                 clientVars, leRegistered, leInit, linkLe, leAsked>>

\* The body both LE completion handlers share, for the address a they
\* report: erase a from connecting_le_; a failure posts OnLeConnectFail; a
\* success ASSERTs the handle is free, adds the record for a (whose
\* address the Classic checks see as well) and posts OnLeConnectSuccess.
\* The client's answer is for the peer it asked for.
LeConnectionComplete(a) ==
  LET e == Head(evts) IN
  /\ e.type \in {"LeConnComplete", "LeConnFail"}
  /\ Consume
  /\ OnCommonLeConnectionComplete(a)
  /\ leWanted' = leWanted \ {e.addr}
  /\ IF e.type = "LeConnFail"
       THEN PostToLeClient /\ UNCHANGED <<live, addr, disc>>
     ELSE IF e.handle \in live
       THEN /\ fault' = "ASSERT handle already in acl_connections_"
            /\ UNCHANGED <<live, addr, disc>>
     ELSE /\ live' = live \cup {e.handle}
          /\ addr' = [addr EXCEPT ![e.handle] = a]
          /\ disc' = [disc EXCEPT ![e.handle] = FALSE]
          /\ PostToLeClient
  /\ UNCHANGED <<registered, connecting, pending, cmds, ctrlVars, clientVars,
                 leRegistered, leInit, linkLe, leAsked>>

\* on_le_connection_complete reports the peer address of the event.
OnLeConnectionComplete ==
  /\ Head(evts).type \in {"LeConnComplete", "LeConnFail"} /\ ~Head(evts).enh
  /\ LeConnectionComplete(Head(evts).addr)

\* on_le_enhanced_connection_complete reports the peer's resolvable private
\* address when the event carries one, else the peer address.
ReportingAddress(e) == IF e.rpa # NoRpa THEN e.rpa ELSE e.addr

OnLeEnhancedConnectionComplete ==
  /\ Head(evts).type \in {"LeConnComplete", "LeConnFail"} /\ Head(evts).enh
  /\ LeConnectionComplete(ReportingAddress(Head(evts)))

\* handle_register_callbacks
RegisterCallbacks ==
  /\ ~registered
  /\ registered' = TRUE
  /\ UNCHANGED <<leVars, connecting, pending, live, addr, disc, fault, cmds, evts,
                 ctrlVars, clientVars>>

\* Mutant: the queued entry holds the command, not the address.
CreateConnectionQueuesCommand(a) ==
  /\ registered
  /\ a \notin asked
  /\ asked' = asked \cup {a}
  /\ IF connecting = {}
       THEN IF IsClassicLinkAlreadyConnected(a)
              THEN UNCHANGED <<leVars, connecting, pending, cmds, wanted>>
              ELSE /\ connecting' = connecting \cup {a}
                   /\ Send([type |-> "Create", addr |-> a])
                   /\ wanted' = wanted \cup {a}
                   /\ UNCHANGED pending
       ELSE /\ pending' = Append(pending, [type |-> "Create", addr |-> a])
            /\ wanted' = wanted \cup {a}
            /\ UNCHANGED <<leVars, connecting, cmds>>
  /\ UNCHANGED <<leVars, registered, live, addr, disc, fault, evts, ctrlVars, discReq>>

\* AclManager::CreateConnection posts create_connection.
CreateConnection(a) ==
  /\ registered
  /\ a \notin asked
  /\ asked' = asked \cup {a}
  /\ IF connecting = {}
       THEN IF IsClassicLinkAlreadyConnected(a)
              THEN /\ UNCHANGED <<leVars, connecting, pending, cmds, wanted>>
              ELSE /\ connecting' = connecting \cup {a}
                   /\ Send([type |-> "Create", addr |-> a])
                   /\ wanted' = wanted \cup {a}
                   /\ UNCHANGED pending
       ELSE /\ pending' = Append(pending, a)
            /\ wanted' = wanted \cup {a}
            /\ UNCHANGED <<leVars, connecting, cmds>>
  /\ UNCHANGED <<leVars, registered, live, addr, disc, fault, evts, ctrlVars, discReq>>

\* handle_register_le_callbacks, posted by AclManager::RegisterLeCallbacks.
RegisterLeCallbacks ==
  /\ ~leRegistered
  /\ leRegistered' = TRUE
  /\ UNCHANGED <<hostVars, cmds, evts, ctrlVars, clientVars,
                 connectingLe, leInit, linkLe, leWanted, leAsked>>

\* create_le_connection, posted by AclManager::CreateLeConnection: the
\* client has registered (the ASSERT), the peer goes into connecting_le_
\* and LE Create Connection is enqueued (with the extended feature bit, LE
\* Set Random Address and LE Extended Create Connection, which the
\* controller treats alike here).  Nothing checks for a connection in
\* progress or an existing link.
CreateLeConnection(a) ==
  /\ leRegistered
  /\ a \in LeAddrs \ leAsked
  /\ leAsked' = leAsked \cup {a}
  /\ connectingLe' = connectingLe \cup {a}
  /\ leWanted' = leWanted \cup {a}
  /\ Send([type |-> "LeCreate", addr |-> a])
  /\ UNCHANGED <<hostVars, evts, ctrlVars, clientVars, leRegistered, leInit, linkLe>>

\* AclManager::CancelConnect posts cancel_connect.
CancelConnect(a) ==
  /\ ConnectMayFail
  /\ a \in wanted
  /\ a \in connecting
  /\ [type |-> "Cancel", addr |-> a] \notin ToSet(cmds)  \* one outstanding cancel
  /\ Send([type |-> "Cancel", addr |-> a])
  /\ UNCHANGED <<leVars, hostVars, evts, ctrlVars, clientVars>>

\* AclConnection::Disconnect: refused once is_disconnected_; otherwise
\* handle_disconnect is posted and enqueues HCI Disconnect.  The client
\* calls it at most once per handle here.
Disconnect(h) ==
  /\ h \in live
  /\ ~disc[h]
  /\ h \notin discReq
  /\ discReq' = discReq \cup {h}
  /\ Send([type |-> "Disconnect", handle |-> h])
  /\ UNCHANGED <<leVars, hostVars, evts, ctrlVars, wanted, asked>>

\* AclConnection::Finish (after is_disconnected_) posts cleanup, which
\* erases the record.
Finish(h) ==
  /\ h \in live
  /\ disc[h]
  /\ live' = live \ {h}
  /\ discReq' = discReq \ {h}
  /\ UNCHANGED <<leVars, registered, connecting, pending, addr, disc, fault, cmds, evts,
                 ctrlVars, wanted, asked>>

-----------------------------------------------------------------------------
(* Controller.                                                             *)

FreeHandles == IF HandleReuse THEN Handles \ links ELSE Handles \ used
\* A Classic page or request is refused while the peer has a Classic link
\* (an LE link to the same device is another transport).
LinkedAddrs == {linkAddr[h] : h \in links \ linkLe}
Busy(a) == a \in LinkedAddrs \cup paging \cup requests \cup accepting

\* The controller executes the oldest command.  Each command is one
\* action; the others of ctrlVars stay as they are.
Exec(type) == cmds # <<>> /\ Head(cmds).type = type /\ cmds' = Tail(cmds)

CtrlCreate ==
  LET a == Head(cmds).addr IN
  /\ Exec("Create")
  /\ paging' = IF Busy(a) THEN paging ELSE paging \cup {a}  \* Busy: e.g. ACL Connection Already Exists
  /\ UNCHANGED <<leVars, evts, requests, accepting, links, linkAddr, used, remotes, hostVars, clientVars>>

CtrlAccept ==
  LET a == Head(cmds).addr IN
  /\ Exec("Accept")
  /\ requests' = requests \ {a}
  /\ accepting' = accepting \cup (requests \cap {a})
  /\ Emit([type |-> "AcceptStatus", addr |-> a, ok |-> a \in requests])
  /\ UNCHANGED <<leVars, paging, links, linkAddr, used, remotes, hostVars, clientVars>>

CtrlReject ==
  LET a == Head(cmds).addr IN
  /\ Exec("Reject")
  /\ requests' = requests \ {a}
  /\ IF a \in requests THEN Emit([type |-> "ConnFail", addr |-> a]) ELSE UNCHANGED evts
  /\ UNCHANGED <<leVars, paging, accepting, links, linkAddr, used, remotes, hostVars, clientVars>>

CtrlCancel ==
  LET a == Head(cmds).addr IN
  /\ Exec("Cancel")
  /\ paging' = paging \ {a}
  /\ IF a \in paging THEN Emit([type |-> "ConnFail", addr |-> a]) ELSE UNCHANGED evts
  /\ UNCHANGED <<leVars, requests, accepting, links, linkAddr, used, remotes, hostVars, clientVars>>

CtrlDisconnect ==
  LET h == Head(cmds).handle IN
  /\ Exec("Disconnect")
  /\ links' = links \ {h}
  /\ linkLe' = linkLe \ {h}
  /\ IF h \in links THEN Emit([type |-> "DisconnComplete", handle |-> h]) ELSE UNCHANGED evts
  /\ UNCHANGED <<leHostClient, leInit, paging, requests, accepting, linkAddr, used, remotes, hostVars, clientVars>>

\* LE Create Connection: the initiator takes one at a time; while it is
\* busy, or when the peer is already connected over LE, the command fails
\* (Command Disallowed, Connection Already Exists) and the status callback
\* checks only the opcode.
CtrlLeCreate ==
  LET a == Head(cmds).addr IN
  /\ Exec("LeCreate")
  /\ leInit' = IF leInit = {} /\ a \notin {linkAddr[h] : h \in linkLe} THEN {a} ELSE leInit
  /\ UNCHANGED <<evts, ctrlVars, hostVars, clientVars, leHostClient, linkLe>>

CtrlCommand == CtrlLeCreate \/ CtrlCreate \/ CtrlAccept \/ CtrlReject \/ CtrlCancel \/ CtrlDisconnect

\* A page or an accepted request ends: a new link with a fresh handle, or
\* a failure (page timeout, or no handle left).
Establish(pool, a) ==
  /\ pool' = pool \ {a}
  /\ \/ \E h \in FreeHandles :
          /\ links' = links \cup {h}
          /\ linkAddr' = [linkAddr EXCEPT ![h] = a]
          /\ used' = used \cup {h}
          /\ Emit([type |-> "ConnComplete", addr |-> a, handle |-> h])
     \/ /\ ConnectMayFail \/ FreeHandles = {}
        /\ Emit([type |-> "ConnFail", addr |-> a])
        /\ UNCHANGED <<leVars, links, linkAddr, used>>

CtrlPageDone(a) ==
  /\ a \in paging
  /\ Establish(paging, a)
  /\ UNCHANGED <<leVars, requests, accepting, remotes, hostVars, cmds, clientVars>>

CtrlAcceptDone(a) ==
  /\ a \in accepting
  /\ Establish(accepting, a)
  /\ UNCHANGED <<leVars, paging, requests, remotes, hostVars, cmds, clientVars>>

\* The initiator connects when the peer advertises, with a free handle, or
\* the connection fails to be established.  Nothing bounds the wait.  The
\* controller reports it with the LE completion event it uses for the
\* peer; the peer address is the one the host asked for (resolved by the
\* controller when the peer uses a resolvable private address, which the
\* enhanced event then adds).
CtrlLeDone(a) ==
  /\ a \in leInit
  /\ leInit' = {}
  /\ \E x \in LeVariantFor(a) :
     \/ \E h \in FreeHandles :
          /\ links' = links \cup {h}
          /\ linkLe' = linkLe \cup {h}
          /\ linkAddr' = [linkAddr EXCEPT ![h] = a]
          /\ used' = used \cup {h}
          /\ Emit([type |-> "LeConnComplete", addr |-> a, handle |-> h, enh |-> x.enh, rpa |-> x.rpa])
     \/ /\ ConnectMayFail \/ FreeHandles = {}
        /\ Emit([type |-> "LeConnFail", addr |-> a, enh |-> x.enh, rpa |-> x.rpa])
        /\ UNCHANGED <<links, linkLe, linkAddr, used>>
  /\ UNCHANGED <<paging, requests, accepting, remotes, hostVars, cmds, clientVars, leHostClient>>

\* A remote device pages us.
RemoteConnect(a) ==
  /\ remotes < MaxRemoteConnects
  /\ ~Busy(a)
  /\ remotes' = remotes + 1
  /\ requests' = requests \cup {a}
  /\ Emit([type |-> "ConnReq", addr |-> a])
  /\ UNCHANGED <<leVars, paging, accepting, links, linkAddr, used, hostVars, cmds, clientVars>>

\* The host did not answer within the connection accept timeout.
AcceptTimeout(a) ==
  /\ a \in requests
  /\ requests' = requests \ {a}
  /\ Emit([type |-> "ConnFail", addr |-> a])
  /\ UNCHANGED <<leVars, paging, accepting, links, linkAddr, used, remotes, hostVars, cmds, clientVars>>

\* The remote side or the link supervision timeout drops a link.
RemoteDisconnect(h) ==
  /\ h \in links
  /\ links' = links \ {h}
  /\ linkLe' = linkLe \ {h}
  /\ Emit([type |-> "DisconnComplete", handle |-> h])
  /\ UNCHANGED <<leHostClient, leInit, paging, requests, accepting, linkAddr, used, remotes, hostVars, cmds, clientVars>>

-----------------------------------------------------------------------------
Init ==
  /\ registered = RegisteredAtStart
  /\ connecting = {}
  /\ pending = <<>>
  /\ live = {}
  /\ addr = [h \in Handles |-> CHOOSE a \in Addrs : TRUE]
  /\ disc = [h \in Handles |-> FALSE]
  /\ fault = NoFault
  /\ cmds = <<>>
  /\ evts = <<>>
  /\ paging = {} /\ requests = {} /\ accepting = {}
  /\ links = {}
  /\ linkAddr = [h \in Handles |-> CHOOSE a \in Addrs : TRUE]
  /\ used = {}
  /\ remotes = 0
  /\ wanted = {} /\ asked = {} /\ discReq = {}
  /\ leRegistered = FALSE /\ connectingLe = {}
  /\ leInit = {} /\ linkLe = {}
  /\ leWanted = {} /\ leAsked = {}

HostHandleEvent ==
  /\ evts # <<>>
  /\ \/ OnIncomingConnection
     \/ OnAcceptConnectionStatus
     \/ OnConnectionFail
     \/ OnConnectionComplete
     \/ OnDisconnectionComplete
     \/ OnLeConnectionComplete
     \/ OnLeEnhancedConnectionComplete

Client ==
  \/ RegisterCallbacks \/ RegisterLeCallbacks
  \/ \E a \in Addrs : CreateLeConnection(a)
  \/ \E a \in Addrs : CreateConnection(a) \/ CancelConnect(a)
  \/ \E h \in Handles : Disconnect(h) \/ Finish(h)

Controller ==
  \/ CtrlCommand
  \/ \E a \in Addrs : \/ CtrlPageDone(a) \/ CtrlAcceptDone(a)
                      \/ RemoteConnect(a) \/ AcceptTimeout(a)
                      \/ CtrlLeDone(a)
  \/ \E h \in Handles : RemoteDisconnect(h)

Next == fault = NoFault /\ (HostHandleEvent \/ Client \/ Controller)

(***************************************************************************)
(* The manager's handler runs every posted task and event; the controller  *)
(* executes every command and ends every page and accepted request (the    *)
(* page timeout bounds it); the client registers and calls Finish after    *)
(* each disconnection, as AclConnection requires.                          *)
(***************************************************************************)
Fairness ==
  /\ WF_vars(fault = NoFault /\ HostHandleEvent)
  /\ WF_vars(fault = NoFault /\ CtrlCommand)
  /\ \A a \in Addrs : WF_vars(fault = NoFault /\ CtrlPageDone(a))
                     /\ WF_vars(fault = NoFault /\ CtrlAcceptDone(a))
  /\ WF_vars(fault = NoFault /\ RegisterCallbacks)
  /\ \A h \in Handles : WF_vars(fault = NoFault /\ Finish(h))

Spec == Init /\ [][Next]_vars /\ Fairness
-----------------------------------------------------------------------------
TypeOK ==
  /\ registered \in BOOLEAN
  /\ connecting \subseteq Addrs
  /\ pending \in Seq(Addrs)
  /\ live \subseteq Handles
  /\ addr \in [Handles -> Addrs \cup Rpas]
  /\ disc \in [Handles -> BOOLEAN]
  /\ cmds \in Seq(Command)
  /\ evts \in Seq(Event)
  /\ paging \cup requests \cup accepting \subseteq Addrs
  /\ links \subseteq used /\ used \subseteq Handles /\ remotes \in 0..MaxRemoteConnects
  /\ linkAddr \in [Handles -> Addrs]
  /\ wanted \subseteq asked /\ asked \subseteq Addrs /\ discReq \subseteq live
  /\ leRegistered \in BOOLEAN /\ connectingLe \subseteq Addrs
  /\ leInit \subseteq Addrs /\ Cardinality(leInit) <= 1 /\ linkLe \subseteq links
  /\ leWanted \subseteq leAsked /\ leAsked \subseteq LeAddrs

InFlight(e) == \E i \in DOMAIN evts : evts[i] = e
CompleteInFlight(h) ==
  \E i \in DOMAIN evts :
    /\ evts[i].type \in {"ConnComplete", "LeConnComplete"}
    /\ evts[i].handle = h /\ evts[i].addr = linkAddr[h]

\* The manager's table agrees with the controller up to the events still in
\* flight: a record not marked disconnected is a live controller link to
\* the same peer unless its Disconnection Complete is on the way, and every
\* controller link is such a record unless its Connection Complete is on
\* the way, over either transport (on_connection_complete,
\* on_le_connection_complete, on_disconnection_complete, Finish).
HostTableMatchesController ==
  /\ \A h \in live :
       ~disc[h] =>
         \/ h \in links /\ linkAddr[h] = addr[h]
         \/ InFlight([type |-> "DisconnComplete", handle |-> h])
  /\ \A h \in links :
       \/ h \in live /\ ~disc[h] /\ addr[h] = linkAddr[h]
       \/ CompleteInFlight(h)

CreatesInFlight ==
  Cardinality({i \in DOMAIN cmds : cmds[i].type = "Create"}) + Cardinality(paging)

\* At most one Create_Connection is outstanding at a time (spec section 3,
\* invariant 6): create_connection issues one only while connecting_ is
\* empty and queues the rest, and the end of on_connection_complete issues
\* the next one.  The code does not keep it: the drain runs on every
\* successful Connection Complete, an incoming connection's included, so a
\* second Create_Connection goes out while a page is in flight.  No run
\* checks it; with MC_AclClassicConnect_Full.cfg TLC violates it in 7 states.
AtMostOneCreateInFlight == CreatesInFlight <= 1

NewCreate(a) == cmds' = Append(cmds, [type |-> "Create", addr |-> a])

\* pending_outgoing_connections_ is served in order: while requests wait in
\* it, a Create_Connection is sent only for the oldest of them whose peer is
\* not in acl_connections_ once the step is done; every older one is skipped
\* only because its peer is connected (create_connection,
\* on_connection_complete and its drain loop).
CreatesInRequestOrder ==
  [][\A a \in Addrs :
       NewCreate(a) /\ pending # <<>> =>
         \E i \in DOMAIN pending :
            /\ pending[i] = a
            /\ \A j \in 1..(i - 1) : pending[j] \in {addr'[k] : k \in live'}]_vars

\* Every CreateConnection is eventually answered by OnConnectSuccess or
\* OnConnectFail, or dropped because a record for the peer exists.
EveryCreateAnswered == \A a \in Addrs : a \in wanted ~> a \notin wanted

\* No address stays in connecting_ for ever: each entry is removed by the
\* Connection Complete of its page or of its incoming request; a stuck
\* entry would queue every later CreateConnection for good.
ConnectingEventuallyClears == \A a \in Addrs : a \in connecting ~> a \notin connecting

\* A CONNECTION_COMPLETE never reaches on_connection_complete for a handle
\* that acl_connections_ still holds (its ASSERT).
ConnectionCompleteHandleFree == fault # "ASSERT handle already in acl_connections_"

\* Every peer in connecting_le_ still has its LE Create Connection
\* outstanding: queued, run by the initiator, or answered by a completion
\* on its way (create_le_connection, on_le_connection_complete).  The code
\* does not keep it: a second create_le_connection while the initiator is
\* busy is refused by the controller, the status callback ignores the
\* error, and the peer stays in connecting_le_ with no answer to come.
LeConnectingTracksInitiator ==
  \A a \in connectingLe :
    \/ [type |-> "LeCreate", addr |-> a] \in ToSet(cmds)
    \/ a \in leInit
    \/ \E i \in DOMAIN evts :
         evts[i].type \in {"LeConnComplete", "LeConnFail"} /\ evts[i].addr = a

\* The outgoing-connection queue of the manager implements
\* ClassicConnectQueue: connecting_ is the page in flight,
\* pending_outgoing_connections_ the waiting requests and the addresses of
\* acl_connections_ the connected peers (create_connection,
\* on_connection_complete with its drain loop, cleanup).
ConnectQueue == INSTANCE ClassicConnectQueue
                  WITH current <- connecting, queue <- pending,
                       linked <- {addr[h] : h \in live}
ConnectQueueRefined == ConnectQueue!Spec
=============================================================================

--------------------------- MODULE MC_AclReassembly ---------------------------
(***************************************************************************)
(* Model-checking instance of AclReassembly.  One live connection, one     *)
(* unknown handle and the debug handle.  Queue limits are shrunk from 10   *)
(* to 1 so that congestion drops and a full up end are reached; PDU        *)
(* lengths up to 3 with 1- and 2-byte continuations give PDUs of one,      *)
(* two and three fragments.                                                *)
(***************************************************************************)
EXTENDS AclReassembly

MC_QueueLimit == 1
MC_UpCapacity == 1
MC_MaxFragments == 4
\* A controller that follows the ACL framing rules.
MC_FirstSizes == {4, 5}
MC_ContSizes == {1, 2}
MC_PduLens == {0, 1, 2, 3}
=============================================================================

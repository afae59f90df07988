----------------------------- MODULE MigX86_64 ------------------------------
(***************************************************************************)
(* The x86_64 half of the files MIG generated: what #if                    *)
(* defined(__x86_64__) compiles, routine by routine.  For a routine r:     *)
(* r_Mess, the structs of its user stub; r, the request it writes;         *)
(* r_Result, how it checks the answer; r_Outputs, what it then copies out; *)
(* r_Check, how a server checks the request; X_r, the server stub around   *)
(* it.                                                                     *)
(***************************************************************************)
EXTENDS MigTypes

(* exc.h *)
exc_h_requests ==
    [exception_raise |-> RaiseRequest(4),
     exception_raise_state |-> StateRequest(4, 1296),
     exception_raise_state_identity |-> IdentityRequest(4, 1296)]
exc_h_replies ==
    [exception_raise |-> mig_reply_error_t,
     exception_raise_state |-> StateReply(1296),
     exception_raise_state_identity |-> StateReply(1296)]

(* excUser.c *)
exc_PutBack ==
    {"MACH_SEND_INVALID_DATA", "MACH_SEND_INVALID_DEST", "MACH_SEND_INVALID_HEADER"}

exception_raise_Mess ==
    [In  |-> RaiseRequest(4),
     Out |-> WithTrailer(mig_reply_error_t)]
exception_raise ==
    [id |-> 2401, right |-> "send_once", rights |-> <<COPY_SEND, COPY_SEND>>, slack |-> 8,
     arrays |-> <<Counted("codeCnt", 4, 2, 8)>>]
exception_raise_Result == [id |-> 2501, slack |-> 0, arrays |-> <<>>]
exception_raise_Outputs == <<>>

exception_raise_state_Mess ==
    [In  |-> StateRequest(4, 1296),
     Out |-> WithTrailer(StateReply(1296))]
exception_raise_state ==
    [id |-> 2402, right |-> "send_once", rights |-> <<>>, slack |-> 5192,
     arrays |-> <<Counted("codeCnt", 4, 2, 8),
                  Counted("old_stateCnt", 4, 1296, 5184)>>]
exception_raise_state_Result ==
    [id |-> 2502, slack |-> 5184, arrays |-> <<Counted("new_stateCnt", 4, 1296, 5184)>>]
exception_raise_state_Outputs == <<"flavor", "new_stateCnt">>

exception_raise_state_identity_Mess ==
    [In  |-> IdentityRequest(4, 1296),
     Out |-> WithTrailer(StateReply(1296))]
exception_raise_state_identity ==
    [id |-> 2403, right |-> "send_once", rights |-> <<COPY_SEND, COPY_SEND>>, slack |-> 5192,
     arrays |-> <<Counted("codeCnt", 4, 2, 8),
                  Counted("old_stateCnt", 4, 1296, 5184)>>]
exception_raise_state_identity_Result ==
    [id |-> 2503, slack |-> 5184, arrays |-> <<Counted("new_stateCnt", 4, 1296, 5184)>>]
exception_raise_state_identity_Outputs == <<"flavor", "new_stateCnt">>

(* excServer.h *)
excServer_h_requests ==
    [exception_raise |-> RaiseRequest(4),
     exception_raise_state |-> StateRequest(4, 1296),
     exception_raise_state_identity |-> IdentityRequest(4, 1296)]
excServer_h_replies ==
    [exception_raise |-> mig_reply_error_t,
     exception_raise_state |-> StateReply(1296),
     exception_raise_state_identity |-> StateReply(1296)]
catch_exc_subsystem_RequestUnion == SizeOfUnion(excServer_h_requests)
catch_exc_subsystem_ReplyUnion   == SizeOfUnion(excServer_h_replies)

(* excServer.c *)
exception_raise_Check ==
    [struct |-> excServer_h_requests.exception_raise, rights |-> <<PORT_SEND, PORT_SEND>>,
     slack |-> 8, arrays |-> <<Counted("codeCnt", 4, 2, 8)>>]
X_exception_raise == Aborts("exception_raise", exception_raise_Check)

exception_raise_state_Check ==
    [struct |-> excServer_h_requests.exception_raise_state, rights |-> <<>>,
     slack |-> 5192, arrays |-> <<Counted("codeCnt", 4, 2, 8),
                                   Counted("old_stateCnt", 4, 1296, 5184)>>]
X_exception_raise_state == Aborts("exception_raise_state", exception_raise_state_Check)

exception_raise_state_identity_Check ==
    [struct |-> excServer_h_requests.exception_raise_state_identity,
     rights |-> <<PORT_SEND, PORT_SEND>>, slack |-> 5192,
     arrays |-> <<Counted("codeCnt", 4, 2, 8),
                  Counted("old_stateCnt", 4, 1296, 5184)>>]
X_exception_raise_state_identity ==
    Aborts("exception_raise_state_identity", exception_raise_state_identity_Check)

catch_exc_subsystem ==
    [start |-> 2401, end |-> 2404, maxsize |-> catch_exc_subsystem_ReplyUnion,
     routine |-> <<X_exception_raise, X_exception_raise_state,
                  X_exception_raise_state_identity>>]
exc_server ==
    [id \in Nat |-> IF id > 2403 \/ id < 2401 THEN NoRoutine
                    ELSE catch_exc_subsystem.routine[id - 2401 + 1]]
exc_server_routine ==
    [id \in Nat |-> LET msgh_id == id - 2401
                    IN  IF msgh_id > 2 \/ msgh_id < 0 THEN NoRoutine
                        ELSE catch_exc_subsystem.routine[msgh_id + 1]]

(* mach_exc.h *)
mach_exc_h_requests ==
    [mach_exception_raise |-> RaiseRequest(8),
     mach_exception_raise_state |-> StateRequest(8, 1296),
     mach_exception_raise_state_identity |-> IdentityRequest(8, 1296)]
mach_exc_h_replies ==
    [mach_exception_raise |-> mig_reply_error_t,
     mach_exception_raise_state |-> StateReply(1296),
     mach_exception_raise_state_identity |-> StateReply(1296)]

(* mach_excUser.c *)
mach_exc_PutBack ==
    {"MACH_SEND_INVALID_DATA", "MACH_SEND_INVALID_DEST", "MACH_SEND_INVALID_HEADER"}

mach_exception_raise_Mess ==
    [In  |-> RaiseRequest(8),
     Out |-> WithTrailer(mig_reply_error_t)]
mach_exception_raise ==
    [id |-> 2405, right |-> "send_once", rights |-> <<COPY_SEND, COPY_SEND>>, slack |-> 16,
     arrays |-> <<Counted("codeCnt", 8, 2, 16)>>]
mach_exception_raise_Result == [id |-> 2505, slack |-> 0, arrays |-> <<>>]
mach_exception_raise_Outputs == <<>>

mach_exception_raise_state_Mess ==
    [In  |-> StateRequest(8, 1296),
     Out |-> WithTrailer(StateReply(1296))]
mach_exception_raise_state ==
    [id |-> 2406, right |-> "send_once", rights |-> <<>>, slack |-> 5200,
     arrays |-> <<Counted("codeCnt", 8, 2, 16),
                  Counted("old_stateCnt", 4, 1296, 5184)>>]
mach_exception_raise_state_Result ==
    [id |-> 2506, slack |-> 5184, arrays |-> <<Counted("new_stateCnt", 4, 1296, 5184)>>]
mach_exception_raise_state_Outputs == <<"flavor", "new_stateCnt">>

mach_exception_raise_state_identity_Mess ==
    [In  |-> IdentityRequest(8, 1296),
     Out |-> WithTrailer(StateReply(1296))]
mach_exception_raise_state_identity ==
    [id |-> 2407, right |-> "send_once", rights |-> <<COPY_SEND, COPY_SEND>>, slack |-> 5200,
     arrays |-> <<Counted("codeCnt", 8, 2, 16),
                  Counted("old_stateCnt", 4, 1296, 5184)>>]
mach_exception_raise_state_identity_Result ==
    [id |-> 2507, slack |-> 5184, arrays |-> <<Counted("new_stateCnt", 4, 1296, 5184)>>]
mach_exception_raise_state_identity_Outputs == <<"flavor", "new_stateCnt">>

(* mach_excServer.h *)
mach_excServer_h_requests ==
    [mach_exception_raise |-> RaiseRequest(8),
     mach_exception_raise_state |-> StateRequest(8, 1296),
     mach_exception_raise_state_identity |-> IdentityRequest(8, 1296)]
mach_excServer_h_replies ==
    [mach_exception_raise |-> mig_reply_error_t,
     mach_exception_raise_state |-> StateReply(1296),
     mach_exception_raise_state_identity |-> StateReply(1296)]
catch_mach_exc_subsystem_RequestUnion == SizeOfUnion(mach_excServer_h_requests)
catch_mach_exc_subsystem_ReplyUnion   == SizeOfUnion(mach_excServer_h_replies)

(* mach_excServer.c *)
mach_exception_raise_Check ==
    [struct |-> mach_excServer_h_requests.mach_exception_raise,
     rights |-> <<PORT_SEND, PORT_SEND>>, slack |-> 16,
     arrays |-> <<Counted("codeCnt", 8, 2, 16)>>]
X_mach_exception_raise == Aborts("mach_exception_raise", mach_exception_raise_Check)

mach_exception_raise_state_Check ==
    [struct |-> mach_excServer_h_requests.mach_exception_raise_state, rights |-> <<>>,
     slack |-> 5200, arrays |-> <<Counted("codeCnt", 8, 2, 16),
                                   Counted("old_stateCnt", 4, 1296, 5184)>>]
X_mach_exception_raise_state ==
    Aborts("mach_exception_raise_state", mach_exception_raise_state_Check)

mach_exception_raise_state_identity_Check ==
    [struct |-> mach_excServer_h_requests.mach_exception_raise_state_identity,
     rights |-> <<PORT_SEND, PORT_SEND>>, slack |-> 5200,
     arrays |-> <<Counted("codeCnt", 8, 2, 16),
                  Counted("old_stateCnt", 4, 1296, 5184)>>]
X_mach_exception_raise_state_identity ==
    Aborts("mach_exception_raise_state_identity", mach_exception_raise_state_identity_Check)

catch_mach_exc_subsystem ==
    [start |-> 2405, end |-> 2411, maxsize |-> catch_mach_exc_subsystem_ReplyUnion,
     routine |-> <<X_mach_exception_raise, X_mach_exception_raise_state,
                  X_mach_exception_raise_state_identity, NoRoutine,
                  NoRoutine, NoRoutine>>]
mach_exc_server ==
    [id \in Nat |-> IF id > 2410 \/ id < 2405 THEN NoRoutine
                    ELSE catch_mach_exc_subsystem.routine[id - 2405 + 1]]
mach_exc_server_routine ==
    [id \in Nat |-> LET msgh_id == id - 2405
                    IN  IF msgh_id > 5 \/ msgh_id < 0 THEN NoRoutine
                        ELSE catch_mach_exc_subsystem.routine[msgh_id + 1]]

(* notify.h *)
notify_h_requests ==
    [mach_notify_port_deleted |-> Struct(<<MsgHead, NDR, Int32("name")>>),
     mach_notify_port_destroyed |-> Struct(<<MsgHead, Body, Port("rights")>>),
     mach_notify_no_senders |-> Struct(<<MsgHead, NDR, Int32("mscount")>>),
     mach_notify_send_once |-> Struct(<<MsgHead>>),
     mach_notify_dead_name |-> Struct(<<MsgHead, NDR, Int32("name")>>)]
notify_h_replies ==
    [mach_notify_port_deleted |-> mig_reply_error_t,
     mach_notify_port_destroyed |-> mig_reply_error_t,
     mach_notify_no_senders |-> mig_reply_error_t,
     mach_notify_send_once |-> mig_reply_error_t,
     mach_notify_dead_name |-> mig_reply_error_t]

(* notifyUser.c *)
mach_notify_port_deleted_Mess == [In |-> Struct(<<MsgHead, NDR, Int32("name")>>)]
mach_notify_port_deleted == Simple(65, <<>>)

mach_notify_port_destroyed_Mess == [In |-> Struct(<<MsgHead, Body, Port("rights")>>)]
mach_notify_port_destroyed == Simple(69, <<PORT_RECEIVE>>)

mach_notify_no_senders_Mess == [In |-> Struct(<<MsgHead, NDR, Int32("mscount")>>)]
mach_notify_no_senders == Simple(70, <<>>)

mach_notify_send_once_Mess == [In |-> Struct(<<MsgHead>>)]
mach_notify_send_once == Simple(71, <<>>)

mach_notify_dead_name_Mess == [In |-> Struct(<<MsgHead, NDR, Int32("name")>>)]
mach_notify_dead_name == Simple(72, <<>>)

(* notifyServer.h *)
notifyServer_h_requests ==
    [mach_notify_port_deleted |-> Struct(<<MsgHead, NDR, Int32("name")>>),
     mach_notify_port_destroyed |-> Struct(<<MsgHead, Body, Port("rights")>>),
     mach_notify_no_senders |-> Struct(<<MsgHead, NDR, Int32("mscount")>>),
     mach_notify_send_once |-> Struct(<<MsgHead>>),
     mach_notify_dead_name |-> Struct(<<MsgHead, NDR, Int32("name")>>)]
notifyServer_h_replies ==
    [mach_notify_port_deleted |-> mig_reply_error_t,
     mach_notify_port_destroyed |-> mig_reply_error_t,
     mach_notify_no_senders |-> mig_reply_error_t,
     mach_notify_send_once |-> mig_reply_error_t,
     mach_notify_dead_name |-> mig_reply_error_t]
do_notify_subsystem_RequestUnion == SizeOfUnion(notifyServer_h_requests)
do_notify_subsystem_ReplyUnion   == SizeOfUnion(notifyServer_h_replies)

(* notifyServer.c *)
mach_notify_port_deleted_Check ==
    [struct |-> notifyServer_h_requests.mach_notify_port_deleted, rights |-> <<>>,
     slack |-> 0, arrays |-> <<>>]
X_mach_notify_port_deleted ==
    Aborts("mach_notify_port_deleted", mach_notify_port_deleted_Check)

mach_notify_port_destroyed_Check ==
    [struct |-> notifyServer_h_requests.mach_notify_port_destroyed,
     rights |-> <<PORT_RECEIVE>>, slack |-> 0, arrays |-> <<>>]
X_mach_notify_port_destroyed ==
    Aborts("mach_notify_port_destroyed", mach_notify_port_destroyed_Check)

mach_notify_no_senders_Check ==
    [struct |-> notifyServer_h_requests.mach_notify_no_senders, rights |-> <<>>,
     slack |-> 0, arrays |-> <<>>]
X_mach_notify_no_senders == Aborts("mach_notify_no_senders", mach_notify_no_senders_Check)

mach_notify_send_once_Check ==
    [struct |-> notifyServer_h_requests.mach_notify_send_once, rights |-> <<>>,
     slack |-> 0, arrays |-> <<>>]
X_mach_notify_send_once == Aborts("mach_notify_send_once", mach_notify_send_once_Check)

mach_notify_dead_name_Check ==
    [struct |-> notifyServer_h_requests.mach_notify_dead_name, rights |-> <<>>,
     slack |-> 0, arrays |-> <<>>]
X_mach_notify_dead_name == Aborts("mach_notify_dead_name", mach_notify_dead_name_Check)

do_notify_subsystem ==
    [start |-> 64, end |-> 73, maxsize |-> do_notify_subsystem_ReplyUnion,
     routine |-> <<NoRoutine, X_mach_notify_port_deleted, NoRoutine,
                  NoRoutine, NoRoutine, X_mach_notify_port_destroyed,
                  X_mach_notify_no_senders, X_mach_notify_send_once,
                  X_mach_notify_dead_name>>]
notify_server ==
    [id \in Nat |-> IF id > 72 \/ id < 64 THEN NoRoutine
                    ELSE do_notify_subsystem.routine[id - 64 + 1]]
notify_server_routine ==
    [id \in Nat |-> LET msgh_id == id - 64
                    IN  IF msgh_id > 8 \/ msgh_id < 0 THEN NoRoutine
                        ELSE do_notify_subsystem.routine[msgh_id + 1]]

(* child_port.h *)
child_port_h_requests ==
    [child_port_check_in |-> Struct(<<MsgHead, Body, Port("port"), NDR, Field("token", 8)>>)]
child_port_h_replies ==
    [child_port_check_in |-> mig_reply_error_t]

(* child_portUser.c *)
child_port_check_in_Mess == [In |-> Struct(<<MsgHead, Body, Port("port"), NDR, Field("token", 8)>>)]
child_port_check_in == Simple(10011, <<Poly>>)

(* child_portServer.h *)
child_portServer_h_requests ==
    [child_port_check_in |-> Struct(<<MsgHead, Body, Port("port"), NDR, Field("token", 8)>>)]
child_portServer_h_replies ==
    [child_port_check_in |-> mig_reply_error_t]
handle_child_port_subsystem_RequestUnion == SizeOfUnion(child_portServer_h_requests)
handle_child_port_subsystem_ReplyUnion   == SizeOfUnion(child_portServer_h_replies)

(* child_portServer.c *)
child_port_check_in_Check ==
    [struct |-> child_portServer_h_requests.child_port_check_in, rights |-> <<Poly>>,
     slack |-> 0, arrays |-> <<>>]
X_child_port_check_in == Aborts("child_port_check_in", child_port_check_in_Check)

handle_child_port_subsystem ==
    [start |-> 10011, end |-> 10012, maxsize |-> handle_child_port_subsystem_ReplyUnion,
     routine |-> <<X_child_port_check_in>>]
child_port_server ==
    [id \in Nat |-> IF id > 10011 \/ id < 10011 THEN NoRoutine
                    ELSE handle_child_port_subsystem.routine[id - 10011 + 1]]
child_port_server_routine ==
    [id \in Nat |-> LET msgh_id == id - 10011
                    IN  IF msgh_id > 0 \/ msgh_id < 0 THEN NoRoutine
                        ELSE handle_child_port_subsystem.routine[msgh_id + 1]]

-----------------------------------------------------------------------------

(* The user stubs of the slice, by routine. *)
UserStubs ==
    [exception_raise |->
         Rpc(exception_raise_Mess, exception_raise,
             exception_raise_Result,
             exception_raise_Outputs,
             exc_h_replies.exception_raise, exc_PutBack),
     exception_raise_state |->
         Rpc(exception_raise_state_Mess, exception_raise_state,
             exception_raise_state_Result,
             exception_raise_state_Outputs,
             exc_h_replies.exception_raise_state, exc_PutBack),
     exception_raise_state_identity |->
         Rpc(exception_raise_state_identity_Mess, exception_raise_state_identity,
             exception_raise_state_identity_Result,
             exception_raise_state_identity_Outputs,
             exc_h_replies.exception_raise_state_identity, exc_PutBack),
     mach_exception_raise |->
         Rpc(mach_exception_raise_Mess, mach_exception_raise,
             mach_exception_raise_Result,
             mach_exception_raise_Outputs,
             mach_exc_h_replies.mach_exception_raise, mach_exc_PutBack),
     mach_exception_raise_state |->
         Rpc(mach_exception_raise_state_Mess, mach_exception_raise_state,
             mach_exception_raise_state_Result,
             mach_exception_raise_state_Outputs,
             mach_exc_h_replies.mach_exception_raise_state, mach_exc_PutBack),
     mach_exception_raise_state_identity |->
         Rpc(mach_exception_raise_state_identity_Mess, mach_exception_raise_state_identity,
             mach_exception_raise_state_identity_Result,
             mach_exception_raise_state_identity_Outputs,
             mach_exc_h_replies.mach_exception_raise_state_identity, mach_exc_PutBack),
     mach_notify_port_deleted |->
         [mess |-> mach_notify_port_deleted_Mess, stub |-> mach_notify_port_deleted],
     mach_notify_port_destroyed |->
         [mess |-> mach_notify_port_destroyed_Mess, stub |-> mach_notify_port_destroyed],
     mach_notify_no_senders |->
         [mess |-> mach_notify_no_senders_Mess, stub |-> mach_notify_no_senders],
     mach_notify_send_once |->
         [mess |-> mach_notify_send_once_Mess, stub |-> mach_notify_send_once],
     mach_notify_dead_name |->
         [mess |-> mach_notify_dead_name_Mess, stub |-> mach_notify_dead_name],
     child_port_check_in |->
         [mess |-> child_port_check_in_Mess, stub |-> child_port_check_in]]

(* What a server of the slice is built from, by subsystem. *)
ServerTables ==
    [exc |->
         [demux |-> exc_server, routine |-> exc_server_routine,
          room |-> catch_exc_subsystem_RequestUnion,
          maxsize |-> catch_exc_subsystem.maxsize,
          user_h |-> [requests |-> exc_h_requests, replies |-> exc_h_replies],
          server_h |-> [requests |-> excServer_h_requests,
                        replies |-> excServer_h_replies]],
     mach_exc |->
         [demux |-> mach_exc_server, routine |-> mach_exc_server_routine,
          room |-> catch_mach_exc_subsystem_RequestUnion,
          maxsize |-> catch_mach_exc_subsystem.maxsize,
          user_h |-> [requests |-> mach_exc_h_requests, replies |-> mach_exc_h_replies],
          server_h |-> [requests |-> mach_excServer_h_requests,
                        replies |-> mach_excServer_h_replies]],
     notify |->
         [demux |-> notify_server, routine |-> notify_server_routine,
          room |-> do_notify_subsystem_RequestUnion,
          maxsize |-> do_notify_subsystem.maxsize,
          user_h |-> [requests |-> notify_h_requests, replies |-> notify_h_replies],
          server_h |-> [requests |-> notifyServer_h_requests,
                        replies |-> notifyServer_h_replies]],
     child_port |->
         [demux |-> child_port_server, routine |-> child_port_server_routine,
          room |-> handle_child_port_subsystem_RequestUnion,
          maxsize |-> handle_child_port_subsystem.maxsize,
          user_h |-> [requests |-> child_port_h_requests, replies |-> child_port_h_replies],
          server_h |-> [requests |-> child_portServer_h_requests,
                        replies |-> child_portServer_h_replies]]]
=============================================================================

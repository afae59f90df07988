----------------------------- MODULE MCMachRpc ------------------------------
(***************************************************************************)
(* Two menus.  AllCalls has every routine with the lengths around each     *)
(* limit, and the messages of strangers; FewCalls one call of every shape: *)
(* an answer without state, one with state, none, and a refusal.           *)
(***************************************************************************)
EXTENDS MachRpc

CONSTANTS t1, t2

A64 == INSTANCE MigArm64
X64 == INSTANCE MigX86_64

(* Senders that were not built from these files: routines newer systems    *)
(* have where these tables end or have null slots, one with three codes,   *)
(* and the kernel's send-possible notification.                            *)
Like(r, id) == [A64!UserStubs[r] EXCEPT !.stub.id = id, !.result.id = id + 100]

Strangers ==
    [exception_2404 |-> Like("exception_raise", 2404),
     identity_protected |-> Like("mach_exception_raise", 2408),
     three_codes |->
         [A64!UserStubs.exception_raise EXCEPT !.stub.arrays[1].limit = 3],
     send_possible |->
         [mess |-> A64!UserStubs.mach_notify_dead_name.mess, stub |-> Simple(66, <<>>)]]

MCStubs ==
    [slice \in Slices |-> [item \in Menu |->
        (Strangers @@ (IF slice = "arm64" THEN A64!UserStubs ELSE X64!UserStubs))[item.routine]]]

MCServers ==
    [slice \in Slices |-> [subsystem \in Subsystems |->
        (IF slice = "arm64" THEN A64!ServerTables ELSE X64!ServerTables)[subsystem]]]

Item(routine, counts) == [routine |-> routine, counts |-> counts]

CodeCounts  == 0 .. 3
StateCounts == {0, 1, 1296, 1297}

Raises     == {Item(r, <<n>>) : r \in {"exception_raise", "mach_exception_raise"},
                                n \in CodeCounts}
WithStates == {Item(r, <<n, s>>) : r \in {"exception_raise_state",
                                          "exception_raise_state_identity",
                                          "mach_exception_raise_state",
                                          "mach_exception_raise_state_identity"},
                                   n \in CodeCounts, s \in StateCounts}
Simples    == {Item(r, <<>>) : r \in {"mach_notify_port_deleted", "mach_notify_port_destroyed",
                                      "mach_notify_no_senders", "mach_notify_send_once",
                                      "mach_notify_dead_name", "child_port_check_in",
                                      "send_possible"}}
Foreigners == {Item("exception_2404", <<1>>), Item("identity_protected", <<2>>),
               Item("three_codes", <<3>>)}

AllCalls == Raises \cup WithStates \cup Simples \cup Foreigners

FewCalls == {Item("exception_raise", <<2>>), Item("exception_raise_state_identity", <<1, 1296>>),
             Item("mach_exception_raise", <<2>>), Item("child_port_check_in", <<>>)}
=============================================================================

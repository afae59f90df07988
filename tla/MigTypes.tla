------------------------------ MODULE MigTypes ------------------------------
(***************************************************************************)
(* The vocabulary of the MIG stubs under crashpad_client's gen/util/mach.  *)
(* A struct is the sequence of its members with their sizes (all packed on *)
(* four bytes), a message what the kernel and the stubs look at: its id,   *)
(* its port descriptors, its size and the counts and flavor that lie in    *)
(* its body, each at its offset.  The other bytes are payload.             *)
(***************************************************************************)
EXTENDS Integers, Sequences, SequencesExt

Field(name, size) == [name |-> name, size |-> size]

(* mach/message.h and mach/ndr.h *)
MsgHead == Field("Head", 24)
Body    == Field("msgh_body", 4)
NDR     == Field("NDR", 8)
Trailer == Field("trailer", 8)
Port(name) == Field(name, 12)
Int32(name) == Field(name, 4)
Array(name, width, n) == Field(name, width * n)

(* Where each member begins, and the size of it all. *)
Struct(members) ==
    LET begin[i \in Nat] == IF i = 1 THEN 0 ELSE begin[i - 1] + members[i - 1].size
    IN  [size   |-> begin[Len(members) + 1],
         offset |-> [name \in {members[i].name : i \in DOMAIN members} |->
                         begin[CHOOSE i \in DOMAIN members : members[i].name = name]]]

SizeOf(struct) == struct.size
OffsetOf(struct, name) == struct.offset[name]

(* The reply a client makes room for has the kernel's trailer behind it. *)
WithTrailer(struct) == [struct EXCEPT !.size = @ + Trailer.size]

(* The largest member of a union of structs. *)
SizeOfUnion(structs) == Max({SizeOf(structs[r]) : r \in DOMAIN structs})

(* The request and reply structs of the three exception routines; width is *)
(* that of a code, states the number of words of a thread state.           *)
Codes(width) == <<Int32("exception"), Int32("codeCnt"), Array("code", width, 2)>>
OldState(states) == <<Int32("flavor"), Int32("old_stateCnt"), Array("old_state", 4, states)>>
Descriptors == <<MsgHead, Body, Port("thread"), Port("task"), NDR>>

RaiseRequest(width) == Struct(Descriptors \o Codes(width))
StateRequest(width, states) == Struct(<<MsgHead, NDR>> \o Codes(width) \o OldState(states))
IdentityRequest(width, states) == Struct(Descriptors \o Codes(width) \o OldState(states))

mig_reply_error_t == Struct(<<MsgHead, NDR, Int32("RetCode")>>)
StateReply(states) ==
    Struct(<<MsgHead, NDR, Int32("RetCode"), Int32("flavor"), Int32("new_stateCnt"),
             Array("new_state", 4, states)>>)

(* A variable-sized array: the member that counts it, the width of an      *)
(* element, how many fit and the room the struct reserves for them.        *)
Counted(count, width, limit, room) ==
    [count |-> count, width |-> width, limit |-> limit, room |-> room]

(* The dispositions the stubs write, and what the kernel makes of them:    *)
(* a copied send right arrives as a send right, a moved receive right as a *)
(* receive right.  Poly is whatever the caller asks for.                   *)
PORT_RECEIVE == 16
PORT_SEND    == 17
COPY_SEND    == 19
Poly         == -1

Received(disposition) == IF disposition = COPY_SEND THEN PORT_SEND ELSE disposition

-----------------------------------------------------------------------------

(* What a stub writes for arrays of these lengths, two at most: their size *)
(* and where the members behind the first one, packed tight, come to lie.  *)
PackedSize(arrays, counts) ==
    LET Bytes(i) == IF i \in DOMAIN arrays THEN arrays[i].width * counts[i] ELSE 0
    IN  Bytes(1) + Bytes(2)

Shift(arrays, counts) ==
    IF Len(arrays) < 2 THEN 0 ELSE arrays[1].width * counts[1] - arrays[1].room

(* The offset of the i-th count, and of the flavor before a second array.  *)
CountOffset(struct, arrays, counts, i) ==
    OffsetOf(struct, arrays[i].count) + (IF i = 1 THEN 0 ELSE Shift(arrays, counts))

FlavorOffset(struct, arrays, counts) == OffsetOf(struct, "flavor") + Shift(arrays, counts)

(* Other bytes are payload: more than any count may be. *)
Payload == 1000000
Word(m, offset) == IF offset \in DOMAIN m.words THEN m.words[offset] ELSE Payload

(* Faulty variant: the second count is looked for where the struct has it. *)
CountsInStruct(struct, arrays, m) ==
    [i \in 1 .. Len(arrays) |-> Word(m, OffsetOf(struct, arrays[i].count))]

(* The counts a reader finds, the second where the first one puts it. *)
CountsIn(struct, arrays, m) ==
    LET first == Word(m, OffsetOf(struct, arrays[1].count))
    IN  [i \in 1 .. Len(arrays) |->
             IF i = 1 THEN first ELSE Word(m, CountOffset(struct, arrays, <<first>>, i))]

Fits(struct, slack, arrays, m) ==
    LET counts == CountsIn(struct, arrays, m)
    IN  /\ \A i \in 1 .. Len(arrays) : counts[i] <= arrays[i].limit
        /\ m.size = SizeOf(struct) - slack + PackedSize(arrays, counts)

(* A user stub that waits for an answer, and one (SimpleRoutine) that has  *)
(* neither a reply port nor an array.                                      *)
Rpc(mess, stub, answer, outputs, reply, putBack) ==
    [mess |-> mess, stub |-> stub, result |-> answer, outputs |-> outputs,
     reply |-> reply, putBack |-> putBack]

Simple(id, rights) ==
    [id |-> id, right |-> "none", rights |-> rights, slack |-> 0, arrays |-> <<>>]

(* An _X stub checks the request and aborts where MIG had put the call of  *)
(* the implementation.  A null slot of a routine table holds no stub.      *)
Aborts(routine, check) == [stub |-> routine, check |-> check]
NoRoutine == [stub |-> "null"]
=============================================================================

------------------------------ MODULE MachRpc -------------------------------
(***************************************************************************)
(* Threads of a client call a server through the MIG stubs of Crashpad.    *)
(* Both are universal binaries: the client may run one slice and the       *)
(* server the other, each with the stubs of its own half of the generated  *)
(* files (Stubs, Servers).  The server serves one subsystem; what calls    *)
(* the stubs there is Crashpad's own code, outside this repository: the    *)
(* generated demux, whose _X stubs abort after their checks, or a handler  *)
(* that uses only the checks and the structs of a header.                  *)
(*                                                                         *)
(* A thread keeps the reply port of its last call for the next one.  An    *)
(* answer that arrives late must not be taken for that of another call.    *)
(***************************************************************************)
EXTENDS MigTypes, FiniteSets

CONSTANTS
    Threads,       \* threads of the client
    Slices,        \* the slices the two programs may run
    Subsystems,    \* the subsystems a server may serve
    Stubs,         \* what a client's slice puts behind each call
    Servers,       \* what a server's slice has for each subsystem
    Callers,       \* what calls the stubs in the server: demux, handler
    Headers,       \* the header its unit includes first: user_h, server_h
    Menu,          \* the calls made: a routine and the lengths of its arrays
    NewCounts,     \* the lengths of a new thread state that is handed back
    MaxCalls,      \* bound: how many calls are made
    None           \* no port, no call, no message

ASSUME SlicesAssumption     == Slices \subseteq {"arm64", "x86_64"}
ASSUME SubsystemsAssumption ==
    Subsystems \subseteq {"exc", "mach_exc", "notify", "child_port"}
ASSUME CallersAssumption    == Callers \subseteq {"demux", "handler"}
ASSUME HeadersAssumption    == Headers \subseteq {"user_h", "server_h"}
ASSUME CallsAssumption      == MaxCalls \in Nat
ASSUME NoneAssumption       ==
    None \notin Nat /\ None \notin Menu /\ None \notin [call : Nat, item : Menu]

VARIABLES
    client, server,    \* the slices of the two programs
    serves,            \* the subsystem served
    caller,            \* what calls the stubs in the server
    header,            \* the header whose structs the server's unit got
    up,                \* the server's port is alive
    inbox,             \* the requests queued at it
    held,              \* the request the server is working on, or None
    performed,         \* the calls the server has performed
    made,              \* reply ports made so far; they are numbered
    port,              \* the reply port each thread keeps, or None
    mail,              \* the messages in reply ports
    calls,             \* calls made so far; they are numbered
    waiting,           \* the call each thread waits for, or None
    result             \* how each call ended, or None

setup   == <<client, server, serves, caller, header>>
service == <<up, inbox, held, performed>>
clients == <<made, port, calls, waiting, result>>
vars    == <<setup, service, mail, clients>>

(* The kernel's word that a send-once right went away unused. *)
MACH_NOTIFY_SEND_ONCE == 71

(* A stub that waits for an answer sends a right that is good for one       *)
(* message.  None puts its reply port back when a receive fails, and none  *)
(* waits for an answer with the id of that word.                           *)
ASSUME StubsAssumption ==
    \A slice \in Slices, item \in Menu :
        Stubs[slice][item].stub.right # "none" =>
            /\ Stubs[slice][item].stub.right = "send_once"
            /\ Stubs[slice][item].putBack \cap {"MACH_RCV_BODY_ERROR", "MACH_RCV_TOO_LARGE"} = {}
            /\ Stubs[slice][item].result.id # MACH_NOTIFY_SEND_ONCE

ASSUME LengthsAssumption == NewCounts \subseteq Nat

(* What the generated tables must have in common, number by number.  A user *)
(* stub with arrays: its slack is what they take at most, and the flavor    *)
(* and the count of a second one follow the first.                          *)
Writes(r, item) ==
    LET arrays == r.stub.arrays
        In     == r.mess.In
    IN  /\ Len(arrays) \in 0 .. 2 /\ DOMAIN arrays = 1 .. Len(arrays)
        /\ item.counts \in Seq(Nat) /\ Len(item.counts) = Len(arrays)
        /\ \A i \in DOMAIN arrays : /\ arrays[i].width \in {4, 8} /\ arrays[i].limit \in Nat
                                    /\ OffsetOf(In, arrays[i].count) \in Nat
        /\ SizeOf(In) \in Nat
        /\ r.stub.slack = PackedSize(arrays, [i \in DOMAIN arrays |-> arrays[i].limit])
        /\ r.stub.right = "none" => arrays = <<>>
        /\ Len(arrays) = 2 =>
               /\ arrays[1].room = arrays[1].width * arrays[1].limit
               /\ OffsetOf(In, "flavor") = OffsetOf(In, arrays[1].count) + 4 + arrays[1].room
               /\ OffsetOf(In, arrays[2].count) = OffsetOf(In, "flavor") + 4

(* Two structs of a request have these members at the same offsets. *)
SameOffsets(struct, other, arrays) ==
    /\ \A i \in DOMAIN arrays :
           OffsetOf(struct, arrays[i].count) = OffsetOf(other, arrays[i].count)
    /\ Len(arrays) = 2 => OffsetOf(struct, "flavor") = OffsetOf(other, "flavor")

(* The check of a request, and a struct it is read through. *)
Reads(check, struct, r) ==
    /\ check.arrays = r.stub.arrays /\ check.slack = r.stub.slack
    /\ r.stub.rights \in Seq(Int) /\ Len(check.rights) = Len(r.stub.rights)
    /\ \A i \in DOMAIN r.stub.rights : check.rights[i] \in {Received(r.stub.rights[i]), Poly}
    /\ SizeOf(check.struct) = SizeOf(r.mess.In)
    /\ \A s \in {check.struct, struct} : SameOffsets(s, r.mess.In, r.stub.arrays)

(* What a user stub has room for, and which answer it waits for. *)
Awaits(r) ==
    /\ r.result.id = r.stub.id + 100
    /\ SizeOf(r.mess.Out) \in Nat
    /\ \A size \in {MsgHead.size, SizeOf(mig_reply_error_t), SizeOf(r.reply)} :
           size \in Nat /\ size + Trailer.size <= SizeOf(r.mess.Out)

(* The answers a server may fill in, and the check they meet. *)
Understands(r, struct, maxsize) ==
    IF struct = mig_reply_error_t
    THEN /\ SizeOf(r.reply) = SizeOf(mig_reply_error_t)
         /\ r.result.slack = 0 /\ r.result.arrays = <<>> /\ r.outputs = <<>>
    ELSE /\ maxsize \in Nat /\ maxsize <= SizeOf(r.reply)
         /\ Len(r.result.arrays) = 1 /\ DOMAIN r.result.arrays = {1} /\ r.outputs # <<>>
         /\ r.result.arrays[1].count = "new_stateCnt" /\ r.result.arrays[1].width = 4
         /\ r.result.arrays[1].limit \in Nat
         /\ r.result.slack = 4 * r.result.arrays[1].limit
         /\ OffsetOf(struct, "new_state") = SizeOf(r.reply) - r.result.slack
         /\ OffsetOf(struct, "new_stateCnt") = OffsetOf(r.reply, "new_stateCnt")

(* The tables of a user stub and of a server's slice.  What no unit of     *)
(* this subsystem sends has an id that no stub stands behind, or is larger *)
(* than the stub there may take.                                           *)
TablesFit(r, item, s, h) ==
    \A routine \in {s.demux[r.stub.id], s.routine[r.stub.id]} :
        IF item.routine \in DOMAIN s.server_h.requests
        THEN /\ routine # NoRoutine /\ routine.stub = item.routine
             /\ Writes(r, item)
             /\ Reads(routine.check, s[h].requests[item.routine], r)
             /\ r.stub.right # "none" => Understands(r, s[h].replies[item.routine], s.maxsize)
        ELSE \/ routine = NoRoutine
             \/ /\ routine.check.slack \in Nat /\ SizeOf(routine.check.struct) \in Nat
                /\ SizeOf(r.mess.In) - r.stub.slack + PackedSize(r.stub.arrays, item.counts)
                       > SizeOf(routine.check.struct)

ASSUME TablesAssumption ==
    \A slice, other \in Slices, item \in Menu, h \in Headers, subsystem \in Subsystems :
        LET r == Stubs[slice][item]
        IN  /\ r.stub.right # "none" => Awaits(r)
            /\ TablesFit(r, item, Servers[other][subsystem], h)

Calls == 1 .. MaxCalls
Ports == 1 .. MaxCalls

-----------------------------------------------------------------------------
(* Requests. *)

StubOf(item) == Stubs[client][item]

TooLarge(item) ==
    LET arrays == StubOf(item).stub.arrays
    IN  \E i \in DOMAIN arrays : item.counts[i] > arrays[i].limit

(* Some flavor of thread state: any number that is not a count in use. *)
Flavor == 7

(* Where the counts and the flavor of a request lie. *)
RequestWords(r, counts) ==
    LET struct == r.mess.In
        arrays == r.stub.arrays
        At(i)  == CountOffset(struct, arrays, counts, i)
        flavor == IF Len(arrays) < 2 THEN {} ELSE {FlavorOffset(struct, arrays, counts)}
    IN  [o \in {At(i) : i \in DOMAIN arrays} \cup flavor |->
             IF o \in flavor THEN Flavor ELSE counts[CHOOSE i \in DOMAIN arrays : At(i) = o]]

(* The message a user stub writes for counts within its limits, as it      *)
(* arrives: to is the reply port it carries, of the call it is sent for.   *)
Message(r, item) ==
    [item |-> item, to |-> None, of |-> None,
     id     |-> r.stub.id,
     right  |-> r.stub.right,
     rights |-> [i \in DOMAIN r.stub.rights |-> Received(r.stub.rights[i])],
     size   |-> SizeOf(r.mess.In) - r.stub.slack + PackedSize(r.stub.arrays, item.counts),
     words  |-> RequestWords(r, item.counts)]

Messages == [slice \in Slices |->
                [item \in Menu |-> Message(Stubs[slice][item], item)]]

Written(item) == Messages[client][item]

ASSUME NoneIsNoRequest ==
    \A slice \in Slices, item \in Menu, p \in Ports \cup {None}, c \in Calls :
        [Messages[slice][item] EXCEPT !.to = p, !.of = c] # None

(* The generated check of a request. *)
CheckRequest(check, m) ==
    IF \/ Len(m.rights) # Len(check.rights)
       \/ m.size \notin SizeOf(check.struct) - check.slack .. SizeOf(check.struct)
    THEN "MIG_BAD_ARGUMENTS"
    ELSE IF \E i \in DOMAIN m.rights : check.rights[i] \notin {m.rights[i], Poly}
    THEN "MIG_TYPE_ERROR"
    ELSE IF ~Fits(check.struct, check.slack, check.arrays, m)
    THEN "MIG_BAD_ARGUMENTS"
    ELSE "MACH_MSG_SUCCESS"

-----------------------------------------------------------------------------
(* Answers.  Each says, for the properties, what its sender meant by it.   *)

(* The tables of the running server. *)
Server == Servers[server][serves]

(* Both callers find the stub in the table, and both get 0 for a null slot. *)
Routine(s, m) == IF caller = "demux" THEN s.demux[m.id] ELSE s.routine[m.id]

Verdict(s, m) ==
    IF Routine(s, m) = NoRoutine THEN "MIG_BAD_ID" ELSE CheckRequest(Routine(s, m).check, m)

Words(struct, n) ==
    IF n = None THEN <<>>
    ELSE [o \in {OffsetOf(struct, "new_stateCnt"), OffsetOf(struct, "flavor")} |->
              IF o = OffsetOf(struct, "new_stateCnt") THEN n ELSE Flavor]

(* Faulty variant: the reply port of the request is not copied. *)
ErrorReplyToNobody(m, code) ==
    [to |-> None, of |-> m.of, id |-> m.id + 100,
     size |-> SizeOf(mig_reply_error_t), retCode |-> code, words |-> <<>>,
     meant |-> <<code, None>>]

(* The demux prepares an error of the minimal size. *)
ErrorReply(m, code) ==
    [to |-> m.to, of |-> m.of, id |-> m.id + 100,
     size |-> SizeOf(mig_reply_error_t), retCode |-> code, words |-> <<>>,
     meant |-> <<code, None>>]

(* What a handler hands back, n words of new state where there is one. *)
SuccessReply(s, m, n) ==
    LET struct == s[header].replies[m.item.routine]
    IN  [to |-> m.to, of |-> m.of, id |-> m.id + 100,
         size |-> IF n = None THEN SizeOf(struct) ELSE OffsetOf(struct, "new_state") + 4 * n,
         retCode |-> "KERN_SUCCESS", words |-> Words(struct, n),
         meant |-> <<"KERN_SUCCESS", n>>]

SendOnceNotification(m) ==
    [to |-> m.to, of |-> None, id |-> MACH_NOTIFY_SEND_ONCE, size |-> MsgHead.size,
     retCode |-> "KERN_SUCCESS", words |-> <<>>, meant |-> <<"MIG_SERVER_DIED", None>>]

(* A message to a port that no longer exists is dropped. *)
Alive(p) == p # None /\ \E t \in Threads : port[t] = p

Delivered(messages) == {m \in messages : Alive(m.to)}

Notified(requests) ==
    Delivered({SendOnceNotification(m) :
                   m \in {q \in requests : q.right = "send_once"}})

(* Faulty variant: an answer must have the whole size of the reply. *)
CheckReplyWhole(r, m) ==
    IF m.id # r.result.id
    THEN IF m.id = MACH_NOTIFY_SEND_ONCE THEN "MIG_SERVER_DIED" ELSE "MIG_REPLY_MISMATCH"
    ELSE IF m.size \notin SizeOf(r.reply) - r.result.slack .. SizeOf(r.reply)
    THEN "MIG_TYPE_ERROR"
    ELSE IF m.retCode # "KERN_SUCCESS" THEN m.retCode
    ELSE IF ~Fits(r.reply, r.result.slack, r.result.arrays, m) THEN "MIG_TYPE_ERROR"
    ELSE "KERN_SUCCESS"

(* The generated check of an answer, and what the stub then copies out. *)
CheckReply(r, m) ==
    IF m.id # r.result.id
    THEN IF m.id = MACH_NOTIFY_SEND_ONCE THEN "MIG_SERVER_DIED" ELSE "MIG_REPLY_MISMATCH"
    ELSE IF /\ m.size \notin SizeOf(r.reply) - r.result.slack .. SizeOf(r.reply)
            /\ m.size # SizeOf(mig_reply_error_t) \/ m.retCode = "KERN_SUCCESS"
    THEN "MIG_TYPE_ERROR"
    ELSE IF m.retCode # "KERN_SUCCESS" THEN m.retCode
    ELSE IF ~Fits(r.reply, r.result.slack, r.result.arrays, m) THEN "MIG_TYPE_ERROR"
    ELSE "KERN_SUCCESS"

CopiedOut(r, m) ==
    IF r.outputs = <<>> THEN None ELSE Word(m, OffsetOf(r.reply, "new_stateCnt"))

Outcome(r, m) ==
    IF m.size + Trailer.size > SizeOf(r.mess.Out) THEN <<"MACH_RCV_TOO_LARGE", None>>
    ELSE LET status == CheckReply(r, m)
         IN  <<status, IF status = "KERN_SUCCESS" THEN CopiedOut(r, m) ELSE None>>

-----------------------------------------------------------------------------

Init ==
    /\ client \in Slices /\ server \in Slices
    /\ serves \in Subsystems /\ caller \in Callers /\ header \in Headers
    /\ up = TRUE
    /\ inbox = {}
    /\ held = None
    /\ performed = {}
    /\ made = 0
    /\ port = [t \in Threads |-> None]
    /\ mail = {}
    /\ calls = 0
    /\ waiting = [t \in Threads |-> None]
    /\ result = [c \in Calls |-> None]

(* The user stubs. *)

Begin(t) ==
    /\ calls < MaxCalls
    /\ waiting[t] = None
    /\ calls' = calls + 1

(* A call that is over as it is made. *)
EndsAtOnce(t, status) ==
    /\ Begin(t)
    /\ result' = [result EXCEPT ![calls + 1] = [of |-> None, got |-> <<status, None>>,
                                                meant |-> None]]
    /\ UNCHANGED waiting

Ends(t, of, got, meant) ==
    /\ result' = [result EXCEPT ![waiting[t].call] = [of |-> of, got |-> got, meant |-> meant]]
    /\ waiting' = [waiting EXCEPT ![t] = None]
    /\ UNCHANGED calls

IsRpc(item) == StubOf(item).stub.right # "none"

(* Too many codes or words of state: no port is taken, nothing is sent. *)
CallTooLarge(t, item) ==
    /\ EndsAtOnce(t, "MIG_ARRAY_TOO_LARGE")
    /\ TooLarge(item)
    /\ UNCHANGED <<setup, service, mail, made, port>>

(* mig_get_reply_port: the port of the last call, or a new one. *)
GetReplyPort(t) ==
    IF port[t] # None THEN UNCHANGED <<made, port>>
    ELSE /\ made' = made + 1
         /\ port' = [port EXCEPT ![t] = made + 1]

Send(item, to) ==
    inbox' = inbox \cup {[Written(item) EXCEPT !.to = to, !.of = calls + 1]}

CallRpc(t, item) ==
    /\ up
    /\ Begin(t)
    /\ IsRpc(item) /\ ~TooLarge(item)
    /\ GetReplyPort(t)
    /\ waiting' = [waiting EXCEPT ![t] = [call |-> calls + 1, item |-> item]]
    /\ Send(item, port'[t])
    /\ UNCHANGED <<setup, up, held, performed, mail, result>>

(* A SimpleRoutine returns what the send returned. *)
CallSimple(t, item) ==
    /\ EndsAtOnce(t, IF up THEN "MACH_MSG_SUCCESS" ELSE "MACH_SEND_INVALID_DEST")
    /\ ~IsRpc(item)
    /\ IF up THEN Send(item, None) ELSE UNCHANGED inbox
    /\ UNCHANGED <<setup, up, held, performed, mail, made, port>>

(* Faulty variant: every error puts the reply port back. *)
PutsBackAlways(item, error) == TRUE

(* __MachMsgErrorWithoutTimeout: an error that says no message has left    *)
(* puts the reply port back, every other one destroys it.                  *)
PutsBack(item, error) == error \in StubOf(item).putBack

SendErrors == IF up THEN {"MACH_SEND_NO_BUFFER"} ELSE {"MACH_SEND_INVALID_DEST"}

(* Faulty variant: a new reply port takes the place of a destroyed one. *)
CallNotSentRefills(t, item) ==
    \E error \in SendErrors :
        /\ EndsAtOnce(t, error)
        /\ IsRpc(item) /\ ~TooLarge(item)
        /\ IF PutsBack(item, error) THEN GetReplyPort(t)
           ELSE /\ made' = (IF port[t] = None THEN made + 1 ELSE made) + 1
                /\ port' = [port EXCEPT ![t] = made']
        /\ UNCHANGED <<setup, service, mail>>

CallNotSent(t, item) ==
    \E error \in SendErrors :
        /\ EndsAtOnce(t, error)
        /\ IsRpc(item) /\ ~TooLarge(item)
        /\ IF PutsBack(item, error) THEN GetReplyPort(t)
           ELSE /\ made' = IF port[t] = None THEN made + 1 ELSE made
                /\ port' = [port EXCEPT ![t] = None]
        /\ UNCHANGED <<setup, service, mail>>

(* The kernel gives up the receive: whatever answer there is or will be is *)
(* destroyed with the port.                                                *)
GiveUp(t, error) ==
    IF PutsBack(waiting[t].item, error) THEN UNCHANGED <<port, mail>>
    ELSE /\ port' = [port EXCEPT ![t] = None]
         /\ mail' = {m \in mail : m.to # port[t]}

ReceiveFails(t) ==
    /\ waiting[t] # None
    /\ Ends(t, None, <<"MACH_RCV_BODY_ERROR", None>>, None)
    /\ GiveUp(t, "MACH_RCV_BODY_ERROR")
    /\ UNCHANGED <<setup, service, made>>

(* The port is kept, whatever the check says of the answer. *)
Return(t) ==
    /\ waiting[t] # None
    /\ \E m \in mail :
           LET got == Outcome(StubOf(waiting[t].item), m)
           IN  /\ m.to = port[t]
               /\ Ends(t, m.of, got, m.meant)
               /\ IF got[1] = "MACH_RCV_TOO_LARGE" THEN GiveUp(t, got[1])
                  ELSE mail' = mail \ {m} /\ UNCHANGED port
    /\ UNCHANGED <<setup, service, made>>

(* The server. *)

(* A request larger than the union of those the subsystem knows is dropped. *)
Take(s) ==
    /\ up /\ held = None
    /\ \E m \in inbox :
           /\ inbox' = inbox \ {m}
           /\ IF m.size > s.room
              THEN /\ mail' = mail \cup Notified({m})
                   /\ UNCHANGED held
              ELSE /\ held' = m
                   /\ UNCHANGED mail
    /\ UNCHANGED <<setup, up, performed, clients>>

(* The server is done with the request; an answer, if a port waits for it. *)
Answer(replies) ==
    /\ held' = None
    /\ mail' = mail \cup Delivered(replies)
    /\ UNCHANGED <<setup, up, inbox, clients>>

Refuse(s) ==
    /\ held # None
    /\ Routine(s, held) = NoRoutine
    /\ Answer({ErrorReply(held, "MIG_BAD_ID")})
    /\ UNCHANGED performed

Reject(s) ==
    /\ held # None
    /\ Routine(s, held) # NoRoutine
    /\ \E verdict \in {Verdict(s, held)} :
           /\ verdict # "MACH_MSG_SUCCESS"
           /\ Answer({ErrorReply(held, verdict)})
    /\ UNCHANGED performed

(* Faulty variant: the stub runs without its check. *)
AcceptedUnchecked(s) == held # None /\ Routine(s, held) # NoRoutine

Accepted(s) == held # None /\ Verdict(s, held) = "MACH_MSG_SUCCESS"

(* The server is gone, and with it every request it had. *)
Die ==
    /\ up' = FALSE
    /\ inbox' = {}
    /\ held' = None
    /\ mail' = mail \cup Notified(inbox \cup (IF held = None THEN {} ELSE {held}))
    /\ UNCHANGED <<setup, performed, clients>>

(* abort() stands where the generated stub would call the implementation. *)
Abort(s) == Accepted(s) /\ caller = "demux" /\ Die

(* A handler performs the request; it may answer with an error. *)
Performs(s) == Accepted(s) /\ caller = "handler" /\ performed' = performed \cup {held.of}

HasState(s, m) == s[header].replies[m.item.routine] # mig_reply_error_t

Succeed(s) ==
    /\ Performs(s)
    /\ \E n \in IF HasState(s, held) THEN NewCounts ELSE {None} :
           \E reply \in {SuccessReply(s, held, n)} :
               /\ reply.size <= s.maxsize
               /\ Answer({reply})

Fail(s) == Performs(s) /\ Answer({ErrorReply(held, "KERN_FAILURE")})

Kill == up /\ Die

Receive == \E s \in {Server} : Take(s)

Serve == \E s \in {Server} : Refuse(s) \/ Reject(s) \/ Abort(s) \/ Succeed(s) \/ Fail(s)

ClientStep(t) ==
    \/ \E item \in Menu : \/ CallTooLarge(t, item)
                          \/ CallRpc(t, item)
                          \/ CallSimple(t, item)
                          \/ CallNotSent(t, item)
    \/ ReceiveFails(t)
    \/ Return(t)

Next == Receive \/ Serve \/ Kill \/ \E t \in Threads : ClientStep(t)

(* Mach delivers what was sent, a thread that waits for an answer wakes up *)
(* when there is one, and the server keeps taking requests.                *)
Spec == Init /\ [][Next]_vars /\ WF_vars(Receive) /\ WF_vars(Serve)
             /\ \A t \in Threads : WF_vars(Return(t))

-----------------------------------------------------------------------------
(* Properties. *)

Requested(m) == m.item \in Menu /\ m.to \in Ports \cup {None} /\ m.of \in Calls

(* Every part of the system keeps its type, and no more reply ports are    *)
(* ever made than calls (mig_get_reply_port).                              *)
TypeOK ==
    /\ client \in Slices /\ server \in Slices
    /\ serves \in Subsystems /\ caller \in Callers /\ header \in Headers
    /\ up \in BOOLEAN
    /\ \A m \in inbox : Requested(m)
    /\ held = None \/ Requested(held)
    /\ performed \subseteq Calls
    /\ calls \in 0 .. MaxCalls
    /\ made \in 0 .. calls
    /\ port \in [Threads -> Ports \cup {None}]
    /\ \A m \in mail : m.to \in Ports /\ m.of \in Calls \cup {None}
    /\ waiting \in [Threads -> [call : Calls, item : Menu] \cup {None}]
    /\ DOMAIN result = Calls

(* A request of a user stub is dispatched to its own server stub, passes   *)
(* the check and is read as it was written, whichever slices the two       *)
(* programs run and whichever header the reader's structs come from: the   *)
(* code that packs the arrays tight and the code that finds them again     *)
(* (In1P, msgh_size_delta) agree on every offset and size.                 *)
StubsAgree ==
    \A s \in {Server} : held # None /\ held.item.routine \in DOMAIN s.server_h.requests =>
        LET struct == s[header].requests[held.item.routine]
            arrays == Routine(s, held).check.arrays
        IN  /\ Routine(s, held).stub = held.item.routine
            /\ Verdict(s, held) = "MACH_MSG_SUCCESS"
            /\ CountsIn(struct, arrays, held) = held.item.counts
            /\ Len(arrays) = 2 =>
                   Word(held, FlavorOffset(struct, arrays, held.item.counts)) = Flavor

(* A message of another subsystem, or for a null slot of the table, is     *)
(* never performed and never reaches the abort of a generated stub.        *)
UnservedIsRefused ==
    [][\A s \in {Server} : performed' # performed \/ Abort(s) =>
           held.item.routine \in DOMAIN s.server_h.requests]_vars

(* A stub returns what the sender of the answer meant by it: an error as   *)
(* that error, a new state with its length, the server's death as that.    *)
AnswersAreUnderstood ==
    \A c \in Calls :
        result[c] # None /\ result[c].meant # None => result[c].got = result[c].meant

(* No call returns with the answer to another call, though a thread uses   *)
(* one reply port for many calls and answers may come late.                *)
AnswersOwnCall ==
    \A c \in Calls : result[c] # None => result[c].of \in {None, c}

(* A stub waits without a timeout, but never for nothing: there is always  *)
(* its answer, or its request in a server that is alive, with a right that *)
(* answers for the server when it is dropped or dies.                      *)
NobodyWaitsInVain ==
    \A t \in Threads : waiting[t] # None =>
        \/ \E m \in mail : m.to = port[t]
        \/ up /\ \E m \in inbox \cup {held} :
                     m # None /\ m.to = port[t] /\ m.right = "send_once"

(* The stubs over ports and messages implement RemoteCall.  What a caller  *)
(* sees of its call: that it was performed, or no more than that it ended. *)
Seen(c) ==
    IF result[c] = None THEN "open"
    ELSE IF result[c].got[1] \in {"KERN_SUCCESS", "KERN_FAILURE"} THEN "done"
    ELSE "failed"

Abstract == INSTANCE RemoteCall WITH asked <- calls, outcome <- [c \in Calls |-> Seen(c)]

ImplementsRemoteCall == Abstract!Spec

(* Every call returns: the reply right is good for one message, and the    *)
(* kernel sends that one itself when the server dies with the request.     *)
EveryCallReturns == \A c \in Calls : (c <= calls) ~> (result[c] # None)
=============================================================================

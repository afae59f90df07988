-------------------------- MODULE MachRpcStubs_proofs --------------------------
(***************************************************************************)
(* Proofs about the data of MachRpc: whatever lengths the arrays of a call *)
(* have, the server reads what the user stub wrote and the caller          *)
(* understands what was answered.  The lengths are those of any menu of    *)
(* calls; what the tables of the generated files must have in common for   *)
(* it is TablesAssumption, which names single numbers of those tables.     *)
(***************************************************************************)
EXTENDS MachRpc_proofs

-----------------------------------------------------------------------------
(* Arrays packed one behind the other. *)

(* Arrays within their limits take no more than their slack. *)
LEMMA PackedWithinSlack ==
    ASSUME NEW r, NEW item, Writes(r, item),
           \A i \in DOMAIN r.stub.arrays : item.counts[i] <= r.stub.arrays[i].limit
    PROVE  /\ r.stub.slack \in Nat
           /\ PackedSize(r.stub.arrays, item.counts) \in 0 .. r.stub.slack
<1> DEFINE arrays == r.stub.arrays
           counts == item.counts
           limits == [i \in DOMAIN arrays |-> arrays[i].limit]
           Bytes(i) == IF i \in DOMAIN arrays THEN arrays[i].width * counts[i] ELSE 0
           Room(i)  == IF i \in DOMAIN arrays THEN arrays[i].width * limits[i] ELSE 0
<1>1. \A i \in 1 .. 2 : Room(i) \in Nat /\ Bytes(i) \in 0 .. Room(i)
  <2> SUFFICES ASSUME NEW i \in DOMAIN arrays
               PROVE  Room(i) \in Nat /\ Bytes(i) \in 0 .. Room(i)
      OBVIOUS
  <2>1. /\ arrays[i].width \in {4, 8} /\ arrays[i].limit \in Nat
        /\ counts[i] \in Nat /\ counts[i] <= arrays[i].limit
      BY DEF Writes
  <2>2. PICK w, n, l : w = arrays[i].width /\ n = counts[i] /\ l = arrays[i].limit
      OBVIOUS
  <2>3. w * l \in Nat /\ w * n \in 0 .. w * l
      BY <2>1, <2>2
  <2> QED BY <2>2, <2>3
<1>2. PackedSize(arrays, counts) = Bytes(1) + Bytes(2)
    BY DEF PackedSize
<1>3. r.stub.slack = Room(1) + Room(2)
    BY DEF PackedSize, Writes
<1> HIDE DEF Bytes, Room, arrays, counts
<1>4. PackedSize(arrays, counts) \in 0 .. r.stub.slack /\ r.stub.slack \in Nat
    BY <1>1, <1>2, <1>3
<1> QED BY <1>4 DEF arrays, counts

(* The counts and the flavor a stub writes lie each in a word of its own.  *)
LEMMA WordsApart ==
    ASSUME NEW r, NEW item, Writes(r, item)
    PROVE  LET At(i) == CountOffset(r.mess.In, r.stub.arrays, item.counts, i)
               flavor == FlavorOffset(r.mess.In, r.stub.arrays, item.counts)
           IN  Len(r.stub.arrays) = 2 => /\ At(1) # At(2)
                                         /\ At(1) # flavor /\ At(2) # flavor
<1> DEFINE arrays == r.stub.arrays
           In == r.mess.In
           counts == item.counts
<1> SUFFICES ASSUME Len(arrays) = 2
             PROVE  /\ CountOffset(In, arrays, counts, 1) # CountOffset(In, arrays, counts, 2)
                    /\ CountOffset(In, arrays, counts, 1) # FlavorOffset(In, arrays, counts)
                    /\ CountOffset(In, arrays, counts, 2) # FlavorOffset(In, arrays, counts)
    OBVIOUS
<1>1. /\ 1 \in DOMAIN arrays /\ 2 \in DOMAIN arrays
      /\ arrays[1].width \in {4, 8} /\ arrays[1].limit \in Nat /\ counts[1] \in Nat
      /\ OffsetOf(In, arrays[1].count) \in Nat
      /\ arrays[1].room = arrays[1].width * arrays[1].limit
      /\ OffsetOf(In, "flavor") = OffsetOf(In, arrays[1].count) + 4 + arrays[1].room
      /\ OffsetOf(In, arrays[2].count) = OffsetOf(In, "flavor") + 4
    BY DEF Writes
<1>2. PICK a, w, n, l : /\ a = OffsetOf(In, arrays[1].count) /\ w = arrays[1].width
                        /\ n = counts[1] /\ l = arrays[1].limit
    OBVIOUS
<1>3. w * n \in Nat /\ w * l \in Nat
    BY <1>1, <1>2
<1>4. Shift(arrays, counts) = w * n - w * l
    BY <1>1, <1>2 DEF Shift
<1>5. /\ CountOffset(In, arrays, counts, 1) = a
      /\ CountOffset(In, arrays, counts, 2) = a + 8 + w * l + (w * n - w * l)
      /\ FlavorOffset(In, arrays, counts) = a + 4 + w * l + (w * n - w * l)
    BY <1>1, <1>2, <1>3, <1>4 DEF CountOffset, FlavorOffset
<1> QED BY <1>1, <1>2, <1>3, <1>5

(* Each count is written where CountOffset says, the flavor behind it. *)
LEMMA WordsWritten ==
    ASSUME NEW r, NEW item, Writes(r, item)
    PROVE  LET At(i) == CountOffset(r.mess.In, r.stub.arrays, item.counts, i)
               flavor == FlavorOffset(r.mess.In, r.stub.arrays, item.counts)
               words == RequestWords(r, item.counts)
           IN  /\ \A i \in 1 .. Len(r.stub.arrays) :
                      At(i) \in DOMAIN words /\ words[At(i)] = item.counts[i]
               /\ Len(r.stub.arrays) = 2 => flavor \in DOMAIN words /\ words[flavor] = Flavor
<1> DEFINE arrays == r.stub.arrays
           counts == item.counts
           At(i) == CountOffset(r.mess.In, arrays, counts, i)
           place == FlavorOffset(r.mess.In, arrays, counts)
           flavor == IF Len(arrays) < 2 THEN {} ELSE {place}
           words == RequestWords(r, counts)
<1>1. /\ DOMAIN words = {At(i) : i \in DOMAIN arrays} \cup flavor
      /\ \A o \in DOMAIN words :
             words[o] = IF o \in flavor THEN Flavor
                        ELSE counts[CHOOSE i \in DOMAIN arrays : At(i) = o]
    BY DEF RequestWords
<1>2. Len(arrays) = 2 => At(1) # At(2) /\ At(1) # place /\ At(2) # place
    BY WordsApart
<1>3. Len(arrays) \in 0 .. 2 /\ DOMAIN arrays = 1 .. Len(arrays)
    BY DEF Writes
<1> HIDE DEF At, place, words, arrays, counts
<1>4. ASSUME NEW i \in DOMAIN arrays
      PROVE  At(i) \in DOMAIN words /\ words[At(i)] = counts[i]
  <2>1. At(i) \in DOMAIN words /\ At(i) \notin flavor
      BY <1>1, <1>2, <1>3
  <2>2. \A j \in DOMAIN arrays : At(j) = At(i) => j = i
      BY <1>2, <1>3
  <2>3. (CHOOSE j \in DOMAIN arrays : At(j) = At(i)) = i
      BY <2>2
  <2> QED BY <1>1, <2>1, <2>3
<1>5. Len(arrays) = 2 => place \in DOMAIN words /\ words[place] = Flavor
    BY <1>1
<1> QED BY <1>3, <1>4, <1>5 DEF At, place, words, arrays, counts

(* Whoever reads the message through a struct with these offsets finds the *)
(* counts, the second where the first puts it, and the flavor.             *)
LEMMA ReadAsWritten ==
    ASSUME NEW r, NEW item, Writes(r, item), NEW m, m.words = RequestWords(r, item.counts),
           NEW struct, SameOffsets(struct, r.mess.In, r.stub.arrays)
    PROVE  /\ CountsIn(struct, r.stub.arrays, m) = item.counts
           /\ Len(r.stub.arrays) = 2 =>
                  Word(m, FlavorOffset(struct, r.stub.arrays, item.counts)) = Flavor
<1> DEFINE arrays == r.stub.arrays
           counts == item.counts
           In == r.mess.In
           first == Word(m, OffsetOf(struct, arrays[1].count))
<1>1. /\ Len(arrays) \in 0 .. 2 /\ DOMAIN arrays = 1 .. Len(arrays)
      /\ counts \in Seq(Nat) /\ Len(counts) = Len(arrays)
    BY DEF Writes
<1>2. \A i \in 1 .. Len(arrays) :
          /\ CountOffset(In, arrays, counts, i) \in DOMAIN m.words
          /\ m.words[CountOffset(In, arrays, counts, i)] = counts[i]
    BY WordsWritten
<1>3. Len(arrays) = 2 => /\ FlavorOffset(In, arrays, counts) \in DOMAIN m.words
                         /\ m.words[FlavorOffset(In, arrays, counts)] = Flavor
    BY WordsWritten
<1>4. \A i \in 1 .. Len(arrays) : \A n :
          CountOffset(struct, arrays, n, i) = CountOffset(In, arrays, n, i)
    BY <1>1 DEF CountOffset, SameOffsets
<1>5. Len(arrays) = 2 => FlavorOffset(struct, arrays, counts) = FlavorOffset(In, arrays, counts)
    BY DEF FlavorOffset, SameOffsets
<1>6. Len(arrays) # 0 => first = counts[1]
  <2> SUFFICES ASSUME Len(arrays) # 0 PROVE first = counts[1]
      OBVIOUS
  <2>1. 1 \in 1 .. Len(arrays)
      BY <1>1
  <2>2. OffsetOf(struct, arrays[1].count) = OffsetOf(In, arrays[1].count)
      BY <1>1, <2>1 DEF SameOffsets
  <2>3. CountOffset(In, arrays, counts, 1) = OffsetOf(In, arrays[1].count)
    <3>1. OffsetOf(In, arrays[1].count) \in Nat
        BY <1>1, <2>1 DEF Writes
    <3> QED BY <3>1 DEF CountOffset
  <2> QED BY <1>2, <2>1, <2>2, <2>3 DEF Word
<1>7. ASSUME NEW i \in 1 .. Len(arrays), i # 1
      PROVE  Word(m, CountOffset(struct, arrays, <<first>>, i)) = counts[i]
  <2>1. Shift(arrays, <<first>>) = Shift(arrays, counts)
      BY <1>1, <1>6 DEF Shift
  <2>2. CountOffset(struct, arrays, <<first>>, i) = CountOffset(In, arrays, counts, i)
      BY <1>4, <2>1 DEF CountOffset
  <2> QED BY <1>2, <2>2 DEF Word
<1>8. CountsIn(struct, arrays, m) = [i \in 1 .. Len(arrays) |-> counts[i]]
    BY <1>6, <1>7 DEF CountsIn
<1>9. counts = [i \in 1 .. Len(arrays) |-> counts[i]]
    BY <1>1
<1> QED BY <1>3, <1>5, <1>8, <1>9 DEF Word

-----------------------------------------------------------------------------
(* The check of a request. *)

(* A request within its limits passes the check of the stub it is for.     *)
LEMMA CheckPasses ==
    ASSUME NEW r, NEW item, Writes(r, item),
           \A i \in DOMAIN r.stub.arrays : item.counts[i] <= r.stub.arrays[i].limit,
           NEW check, NEW struct, Reads(check, struct, r),
           NEW m, m.words = RequestWords(r, item.counts),
           m.rights = [i \in DOMAIN r.stub.rights |-> Received(r.stub.rights[i])],
           m.size = SizeOf(r.mess.In) - r.stub.slack + PackedSize(r.stub.arrays, item.counts)
    PROVE  CheckRequest(check, m) = "MACH_MSG_SUCCESS"
<1>0. Len(m.rights) = Len(r.stub.rights)
    BY DEF Reads
<1>1. /\ check.arrays = r.stub.arrays /\ check.slack = r.stub.slack
      /\ Len(check.rights) = Len(m.rights)
      /\ SizeOf(check.struct) = SizeOf(r.mess.In)
      /\ SameOffsets(check.struct, r.mess.In, r.stub.arrays)
    BY <1>0 DEF Reads
<1>2. \A i \in DOMAIN m.rights : check.rights[i] \in {m.rights[i], Poly}
    BY DEF Reads
<1>3. /\ r.stub.slack \in Nat /\ SizeOf(r.mess.In) \in Nat
      /\ PackedSize(r.stub.arrays, item.counts) \in 0 .. r.stub.slack
    BY PackedWithinSlack DEF Writes
<1>4. m.size \in SizeOf(check.struct) - check.slack .. SizeOf(check.struct)
    BY <1>1, <1>3
<1>5. CountsIn(check.struct, check.arrays, m) = item.counts
    BY <1>1, ReadAsWritten
<1>6. DOMAIN r.stub.arrays = 1 .. Len(r.stub.arrays)
    BY DEF Writes
<1>7. Fits(check.struct, check.slack, check.arrays, m)
    BY <1>1, <1>5, <1>6 DEF Fits
<1> QED BY <1>1, <1>2, <1>4, <1>7 DEF CheckRequest

(* One larger than the struct of the stub does not, whatever it says.      *)
LEMMA CheckRejectsLarger ==
    ASSUME NEW check, check.slack \in Nat, SizeOf(check.struct) \in Nat,
           NEW m, m.size > SizeOf(check.struct)
    PROVE  CheckRequest(check, m) # "MACH_MSG_SUCCESS"
<1>1. ASSUME m.size \in SizeOf(check.struct) - check.slack .. SizeOf(check.struct)
      PROVE  FALSE
    BY <1>1
<1> QED BY <1>1 DEF CheckRequest

-----------------------------------------------------------------------------
(* The check of an answer. *)

(* An error is returned as that error. *)
LEMMA ErrorUnderstood ==
    ASSUME NEW r, Awaits(r), NEW code, code # "KERN_SUCCESS",
           NEW m, m.id = r.stub.id + 100, m.size = SizeOf(mig_reply_error_t), m.retCode = code
    PROVE  Outcome(r, m) = <<code, None>>
<1>1. m.id = r.result.id /\ m.size + Trailer.size <= SizeOf(r.mess.Out)
    BY DEF Awaits
<1>2. ~(m.size + Trailer.size > SizeOf(r.mess.Out))
    BY <1>1 DEF Awaits, Trailer, Field
<1>3. CheckReply(r, m) = code
    BY <1>1 DEF CheckReply
<1> QED BY <1>2, <1>3 DEF Outcome

(* The kernel's word that nobody will answer, as the server's death. *)
LEMMA DeathUnderstood ==
    ASSUME NEW r, Awaits(r), r.result.id # MACH_NOTIFY_SEND_ONCE,
           NEW m, m.id = MACH_NOTIFY_SEND_ONCE, m.size = MsgHead.size
    PROVE  Outcome(r, m) = <<"MIG_SERVER_DIED", None>>
<1>1. ~(m.size + Trailer.size > SizeOf(r.mess.Out))
    BY DEF Awaits, Trailer, Field
<1>2. CheckReply(r, m) = "MIG_SERVER_DIED"
    BY DEF CheckReply
<1> QED BY <1>1, <1>2 DEF Outcome

(* A success without state is one. *)
LEMMA SuccessUnderstood ==
    ASSUME NEW r, Awaits(r), NEW maxsize, Understands(r, mig_reply_error_t, maxsize),
           NEW m, m.id = r.stub.id + 100, m.retCode = "KERN_SUCCESS",
           m.size = SizeOf(mig_reply_error_t)
    PROVE  Outcome(r, m) = <<"KERN_SUCCESS", None>>
<1>1. /\ SizeOf(r.reply) = SizeOf(mig_reply_error_t) /\ SizeOf(r.reply) \in Nat
      /\ r.result.slack = 0 /\ r.result.arrays = <<>> /\ r.outputs = <<>>
    BY DEF Awaits, Understands
<1>2. ~(m.size + Trailer.size > SizeOf(r.mess.Out))
    BY DEF Awaits, Trailer, Field
<1>3. m.size \in SizeOf(r.reply) - r.result.slack .. SizeOf(r.reply)
    BY <1>1
<1>4. PackedSize(<<>>, CountsIn(r.reply, <<>>, m)) = 0
    BY DEF PackedSize
<1>5. Fits(r.reply, r.result.slack, r.result.arrays, m)
    BY <1>1, <1>4 DEF Fits
<1>6. CheckReply(r, m) = "KERN_SUCCESS"
    BY <1>3, <1>5 DEF CheckReply, Awaits
<1> QED BY <1>1, <1>2, <1>6 DEF Outcome, CopiedOut

(* A success with n words of new state is one with n words. *)
LEMMA StateUnderstood ==
    ASSUME NEW r, Awaits(r), NEW struct, struct # mig_reply_error_t,
           NEW maxsize, Understands(r, struct, maxsize),
           NEW n \in Nat, NEW m, m.id = r.stub.id + 100, m.retCode = "KERN_SUCCESS",
           m.size = OffsetOf(struct, "new_state") + 4 * n, m.size <= maxsize,
           m.words = Words(struct, n)
    PROVE  Outcome(r, m) = <<"KERN_SUCCESS", n>>
<1> DEFINE arrays == r.result.arrays
           place == OffsetOf(struct, "new_stateCnt")
<1>1. /\ maxsize \in Nat /\ maxsize <= SizeOf(r.reply) /\ SizeOf(r.reply) \in Nat
      /\ Len(arrays) = 1 /\ DOMAIN arrays = {1} /\ r.outputs # <<>>
      /\ arrays[1].count = "new_stateCnt" /\ arrays[1].width = 4 /\ arrays[1].limit \in Nat
      /\ r.result.slack = 4 * arrays[1].limit
      /\ OffsetOf(struct, "new_state") = SizeOf(r.reply) - r.result.slack
      /\ OffsetOf(r.reply, "new_stateCnt") = place
    BY DEF Understands, Awaits
<1>2. m.size = SizeOf(r.reply) - r.result.slack + 4 * n
    BY <1>1
<1>3. n <= arrays[1].limit
    BY <1>1, <1>2
<1>4. m.size \in SizeOf(r.reply) - r.result.slack .. SizeOf(r.reply)
    BY <1>1, <1>2, <1>3
<1>5. ~(m.size + Trailer.size > SizeOf(r.mess.Out))
    BY <1>1, <1>4 DEF Awaits, Trailer, Field
<1>6. Word(m, place) = n
  <2>1. n # None
      BY NoneAssumption
  <2>2. place \in DOMAIN Words(struct, n) /\ Words(struct, n)[place] = n
      BY <2>1 DEF Words
  <2> QED BY <2>2 DEF Word
<1>7. CountsIn(r.reply, arrays, m) = [i \in 1 .. 1 |-> n]
    BY <1>1, <1>6 DEF CountsIn
<1>8. PackedSize(arrays, CountsIn(r.reply, arrays, m)) = 4 * n
    BY <1>1, <1>7 DEF PackedSize
<1>9. Fits(r.reply, r.result.slack, arrays, m)
    BY <1>1, <1>2, <1>3, <1>7, <1>8 DEF Fits
<1>10. CheckReply(r, m) = "KERN_SUCCESS"
    BY <1>4, <1>9 DEF CheckReply, Awaits
<1>11. CopiedOut(r, m) = n
    BY <1>1, <1>6 DEF CopiedOut
<1> QED BY <1>5, <1>10, <1>11 DEF Outcome

-----------------------------------------------------------------------------
(* The invariant. *)

(* A request lies in the inbox, and with the server, as it was written.    *)
Intact(m) ==
    /\ m.id = Written(m.item).id
    /\ m.rights = Written(m.item).rights
    /\ m.size = Written(m.item).size
    /\ m.words = Written(m.item).words

RequestsIntact ==
    \A m \in Pending : Intact(m) /\ (IsRpc(m.item) => ~TooLarge(m.item))

(* The request and the answer of a call are those of what its caller waits *)
(* for, who will understand the answer; the rest are words of the kernel.  *)
AnswersMeant ==
    /\ \A m \in mail : m.of # None => m.of \in 1 .. calls
    /\ \A m \in mail : m.of = None => /\ m.id = MACH_NOTIFY_SEND_ONCE
                                      /\ m.size = MsgHead.size
                                      /\ m.meant = <<"MIG_SERVER_DIED", None>>
    /\ \A t \in Threads : Waits(t) =>
           /\ \A m \in Pending : m.of = waiting[t].call => m.item = waiting[t].item
           /\ \A m \in mail : m.of = waiting[t].call =>
                  Outcome(StubOf(waiting[t].item), m) = m.meant

DataInv == RequestsIntact /\ AnswersMeant /\ AnswersAreUnderstood

LEMMA WrittenFields ==
    ASSUME NEW item \in Menu, client \in Slices
    PROVE  LET r == StubOf(item)
               m == Written(item)
           IN  /\ m.id = r.stub.id
               /\ m.rights = [i \in DOMAIN r.stub.rights |-> Received(r.stub.rights[i])]
               /\ m.size = SizeOf(r.mess.In) - r.stub.slack
                               + PackedSize(r.stub.arrays, item.counts)
               /\ m.words = RequestWords(r, item.counts)
<1>1. Written(item) = Message(StubOf(item), item)
    BY DEF Written, Messages, StubOf
<1> QED BY <1>1 DEF Message

LEMMA SentData ==
    ASSUME NEW item \in Menu, NEW p, NEW n, client \in Slices,
           NEW m, m = [Written(item) EXCEPT !.to = p, !.of = n]
    PROVE  Intact(m)
<1>1. Written(item) = Message(Stubs[client][item], item)
    BY DEF Written, Messages
<1>2. DOMAIN Written(item) = {"item", "to", "of", "id", "right", "rights", "size", "words"}
    BY <1>1 DEF Message
<1>3. m.item = item /\ m.of = n
    BY SentFields
<1>4. /\ m.id = Written(item).id /\ m.rights = Written(item).rights
      /\ m.size = Written(item).size /\ m.words = Written(item).words
    BY <1>2
<1> QED BY <1>3, <1>4 DEF Intact

(* What TablesAssumption says of the running programs and a call.          *)
LEMMA TablesOf ==
    ASSUME TypeOK, NEW item \in Menu
    PROVE  /\ IsRpc(item) => /\ Awaits(StubOf(item))
                             /\ StubOf(item).result.id # MACH_NOTIFY_SEND_ONCE
           /\ TablesFit(StubOf(item), item, Server, header)
BY TablesAssumption, StubsAssumption DEF TypeOK, StubOf, Server, IsRpc

(* The server finds the stub of a request of its subsystem, whose check    *)
(* passes, and none that would take another.                               *)
LEMMA HeldIsChecked ==
    ASSUME TypeOK, RequestsIntact, held # None
    PROVE  LET s == Server
               r == StubOf(held.item)
           IN  IF held.item.routine \in DOMAIN s.server_h.requests
               THEN /\ Routine(s, held) # NoRoutine
                    /\ Routine(s, held).stub = held.item.routine
                    /\ Writes(r, held.item)
                    /\ Reads(Routine(s, held).check, s[header].requests[held.item.routine], r)
                    /\ r.stub.right # "none" =>
                           Understands(r, s[header].replies[held.item.routine], s.maxsize)
                    /\ Verdict(s, held) = "MACH_MSG_SUCCESS"
               ELSE Verdict(s, held) # "MACH_MSG_SUCCESS"
<1> DEFINE s == Server
           item == held.item
           r == StubOf(item)
           routine == Routine(s, held)
<1>1. item \in Menu /\ client \in Slices /\ held \in Pending
    BY DEF TypeOK, Requested, Pending
<1>2. /\ held.id = r.stub.id
      /\ held.rights = [i \in DOMAIN r.stub.rights |-> Received(r.stub.rights[i])]
      /\ held.size = SizeOf(r.mess.In) - r.stub.slack + PackedSize(r.stub.arrays, item.counts)
      /\ held.words = RequestWords(r, item.counts)
    BY <1>1, WrittenFields DEF RequestsIntact, Intact
<1>3. routine \in {s.demux[r.stub.id], s.routine[r.stub.id]}
    BY <1>2 DEF Routine
<1>4. TablesFit(r, item, s, header)
    BY <1>1, TablesOf
<1>5. r.stub.right # "none" => ~TooLarge(item)
    BY <1>1 DEF RequestsIntact, IsRpc
<1>6. \A i \in DOMAIN r.stub.arrays : ~(item.counts[i] > r.stub.arrays[i].limit)
             \/ r.stub.right = "none"
    BY <1>5 DEF TooLarge
<1>7. Verdict(s, held) = IF routine = NoRoutine THEN "MIG_BAD_ID"
                         ELSE CheckRequest(routine.check, held)
    BY DEF Verdict
<1> HIDE DEF s, r, routine, item
<1>8. CASE item.routine \in DOMAIN s.server_h.requests
  <2>1. /\ routine # NoRoutine /\ routine.stub = item.routine
        /\ Writes(r, item)
        /\ Reads(routine.check, s[header].requests[item.routine], r)
        /\ r.stub.right # "none" =>
               Understands(r, s[header].replies[item.routine], s.maxsize)
      BY <1>3, <1>4, <1>8 DEF TablesFit
  <2>2. \A i \in DOMAIN r.stub.arrays : item.counts[i] <= r.stub.arrays[i].limit
    <3> SUFFICES ASSUME NEW i \in DOMAIN r.stub.arrays
                 PROVE  item.counts[i] <= r.stub.arrays[i].limit
        OBVIOUS
    <3>1. item.counts[i] \in Nat /\ r.stub.arrays[i].limit \in Nat
        BY <2>1 DEF Writes
    <3>2. r.stub.right # "none"
        BY <2>1 DEF Writes
    <3> QED BY <1>6, <3>1, <3>2
  <2>3. CheckRequest(routine.check, held) = "MACH_MSG_SUCCESS"
      BY <1>2, <2>1, <2>2, CheckPasses
  <2> QED BY <1>7, <1>8, <2>1, <2>3 DEF s, r, routine, item
<1>9. CASE item.routine \notin DOMAIN s.server_h.requests
  <2>1. \/ routine = NoRoutine
        \/ /\ routine.check.slack \in Nat /\ SizeOf(routine.check.struct) \in Nat
           /\ held.size > SizeOf(routine.check.struct)
      BY <1>2, <1>3, <1>4, <1>9 DEF TablesFit
  <2>2. Verdict(s, held) # "MACH_MSG_SUCCESS"
      BY <1>7, <2>1, CheckRejectsLarger
  <2> QED BY <1>9, <2>2 DEF s, item
<1> QED BY <1>8, <1>9 DEF s, item

-----------------------------------------------------------------------------
(* The user stubs. *)

LEMMA InitData == Init => DataInv
<1> SUFFICES ASSUME Init PROVE DataInv
    OBVIOUS
<1>1. Pending = {} /\ mail = {} /\ \A t \in Threads : ~Waits(t)
    BY DEF Init, Pending, Waits
<1>2. \A c \in Calls : result[c] = None
    BY DEF Init
<1> QED BY <1>1, <1>2 DEF DataInv, RequestsIntact, AnswersMeant, AnswersAreUnderstood

(* A step that makes no message and ends no call has nothing to show.      *)
LEMMA FewerData ==
    ASSUME DataInv, Pending' \subseteq Pending, mail' \subseteq mail,
           UNCHANGED <<client, calls, waiting, result>>
    PROVE  DataInv'
<1>1. RequestsIntact'
    BY DEF DataInv, RequestsIntact, Intact, Written, IsRpc, TooLarge, StubOf
<1>2. AnswersMeant'
    BY DEF DataInv, AnswersMeant, Waits, StubOf
<1>3. AnswersAreUnderstood'
    BY DEF DataInv, AnswersAreUnderstood
<1> QED BY <1>1, <1>2, <1>3 DEF DataInv

(* A call that ends as it is made, one that is not answered included.      *)
LEMMA EndsAtOnceData ==
    ASSUME IInv, DataInv, NEW t \in Threads, NEW status, EndsAtOnce(t, status),
           UNCHANGED <<client, held, mail>>,
           inbox' = inbox \/ \E m : /\ inbox' = inbox \cup {m} /\ Intact(m)
                                    /\ m.of = calls + 1 /\ ~IsRpc(m.item)
    PROVE  DataInv'
<1>1. /\ calls' = calls + 1 /\ waiting' = waiting /\ mail' = mail /\ client' = client
      /\ \A u \in Threads : Waits(u)' <=> Waits(u)
    BY DEF EndsAtOnce, Begin, Waits
<1>2. calls \in Nat /\ calls + 1 \in Calls /\ calls + 1 \notin 1 .. calls
    BY NewCall DEF EndsAtOnce
<1>3. \A m \in Pending' : m \in Pending \/ (Intact(m) /\ m.of = calls + 1 /\ ~IsRpc(m.item))
    BY DEF Pending
<1>4. RequestsIntact'
    BY <1>1, <1>3 DEF DataInv, RequestsIntact, Intact, Written, IsRpc, TooLarge, StubOf
<1>5. AnswersMeant'
  <2>1. \A u \in Threads : Waits(u) => waiting[u].call \in 1 .. calls
      BY DEF IInv, CallsAreOwn
  <2>2. \A c \in 1 .. calls : c \in 1 .. calls'
    <3>1. calls' = calls + 1 /\ calls \in Nat
        BY <1>1, <1>2
    <3> QED BY <3>1
  <2> QED BY <1>1, <1>2, <1>3, <2>1, <2>2 DEF DataInv, AnswersMeant, StubOf
<1>6. AnswersAreUnderstood'
  <2>1. /\ DOMAIN result = Calls
        /\ result' = [result EXCEPT ![calls + 1] = [of |-> None, got |-> <<status, None>>,
                                                    meant |-> None]]
      BY DEF IInv, TypeOK, EndsAtOnce
  <2>2. result'[calls + 1].meant = None /\ \A c \in Calls : c # calls + 1 => result'[c] = result[c]
      BY <1>2, <2>1
  <2> QED BY <2>2 DEF DataInv, AnswersAreUnderstood
<1> QED BY <1>4, <1>5, <1>6 DEF DataInv

LEMMA CallRpcData ==
    ASSUME IInv, DataInv, NEW t \in Threads, NEW item \in Menu, CallRpc(t, item)
    PROVE  DataInv'
<1>1. PICK p, m : /\ m = [Written(item) EXCEPT !.to = p, !.of = calls + 1]
                  /\ inbox' = inbox \cup {m}
    BY DEF CallRpc, Send
<1>2. /\ calls' = calls + 1 /\ mail' = mail /\ held' = held /\ client' = client
      /\ result' = result /\ waiting[t] = None /\ IsRpc(item) /\ ~TooLarge(item)
      /\ waiting' = [waiting EXCEPT ![t] = [call |-> calls + 1, item |-> item]]
    BY DEF CallRpc, Begin, setup
<1>3. /\ calls \in Nat /\ calls + 1 \notin 1 .. calls
      /\ \A n \in Pending : n.of # calls + 1
    BY NewCall DEF CallRpc
<1>4. client \in Slices /\ waiting \in [Threads -> [call : Calls, item : Menu] \cup {None}]
    BY DEF IInv, TypeOK
<1>5. m.item = item /\ m.of = calls + 1 /\ Intact(m)
  <2>1. client \in Slices
      BY <1>4
  <2>2. m = [Written(item) EXCEPT !.to = p, !.of = calls + 1]
      BY <1>1
  <2>3. m.item = item /\ m.of = calls + 1
      BY <2>1, <2>2, SentFields
  <2>4. Intact(m)
      BY <2>1, <2>2, SentData
  <2> QED BY <2>3, <2>4
<1>7. Pending' = Pending \cup {m}
    BY <1>1, <1>2 DEF Pending
<1>8. RequestsIntact'
    BY <1>2, <1>5, <1>7 DEF DataInv, RequestsIntact, Intact, Written, IsRpc, TooLarge, StubOf
<1>9. AnswersMeant'
  <2>1. \A u \in Threads \ {t} : waiting'[u] = waiting[u] /\ (Waits(u)' <=> Waits(u))
      BY <1>2, <1>4 DEF Waits
  <2>2. waiting'[t].call = calls + 1 /\ waiting'[t].item = item
      BY <1>2, <1>4
  <2>3. \A u \in Threads : Waits(u) => waiting[u].call \in 1 .. calls
      BY DEF IInv, CallsAreOwn
  <2>4. \A n \in mail : n.of = None \/ n.of \in 1 .. calls
      BY DEF DataInv, AnswersMeant
  <2>5. calls + 1 # None /\ \A c \in 1 .. calls : c \in 1 .. calls'
      BY <1>2, <1>3, NoneAssumption
  <2>6. ASSUME NEW u \in Threads, Waits(u)'
        PROVE  /\ \A n \in Pending' : n.of = waiting'[u].call => n.item = waiting'[u].item
               /\ \A n \in mail' : n.of = waiting'[u].call =>
                      Outcome(StubOf(waiting[u].item)', n) = n.meant
    <3>1. CASE u = t
        BY <1>2, <1>3, <1>5, <1>7, <2>2, <2>4, <2>5, <3>1
    <3>2. CASE u # t
        BY <1>2, <1>3, <1>5, <1>7, <2>1, <2>3, <2>6, <3>2 DEF DataInv, AnswersMeant, StubOf
    <3> QED BY <3>1, <3>2
  <2>7. \A n \in mail' : n.of # None => n.of \in 1 .. calls'
      BY <1>2, <2>4, <2>5
  <2>8. \A n \in mail' : n.of = None => /\ n.id = MACH_NOTIFY_SEND_ONCE
                                        /\ n.size = MsgHead.size
                                        /\ n.meant = <<"MIG_SERVER_DIED", None>>
      BY <1>2 DEF DataInv, AnswersMeant
  <2> QED BY <2>6, <2>7, <2>8 DEF AnswersMeant
<1>10. AnswersAreUnderstood'
    BY <1>2 DEF DataInv, AnswersAreUnderstood
<1> QED BY <1>8, <1>9, <1>10 DEF DataInv

LEMMA EndsData ==
    ASSUME IInv, DataInv, NEW t \in Threads, Waits(t), NEW of, NEW got, NEW meant,
           Ends(t, of, got, meant), meant # None => got = meant,
           mail' \subseteq mail, UNCHANGED <<client, inbox, held>>
    PROVE  DataInv'
<1>1. /\ calls' = calls /\ waiting' = [waiting EXCEPT ![t] = None]
      /\ Pending' = Pending
    BY DEF Ends, Pending
<1>2. RequestsIntact'
    BY <1>1 DEF DataInv, RequestsIntact, Intact, Written, IsRpc, TooLarge, StubOf
<1>3. AnswersMeant'
  <2>1. \A u \in Threads : Waits(u)' => Waits(u) /\ waiting'[u] = waiting[u]
      BY <1>1 DEF Waits, IInv, TypeOK
  <2> QED BY <1>1, <2>1 DEF DataInv, AnswersMeant, StubOf
<1>4. AnswersAreUnderstood'
  <2>1. PICK c : /\ c = waiting[t].call
                 /\ result' = [result EXCEPT ![c] = [of |-> of, got |-> got, meant |-> meant]]
      BY DEF Ends
  <2>2. DOMAIN result = Calls
      BY DEF IInv, TypeOK
  <2>3. \A d \in Calls : IF d = c THEN result'[d].got = got /\ result'[d].meant = meant
                         ELSE result'[d] = result[d]
      BY <2>1, <2>2
  <2> QED BY <2>3 DEF DataInv, AnswersAreUnderstood
<1> QED BY <1>2, <1>3, <1>4 DEF DataInv

(* A stub that returns has understood the message it took.                 *)
LEMMA ReturnData ==
    ASSUME IInv, DataInv, NEW t \in Threads, Return(t)
    PROVE  DataInv'
<1> DEFINE item == waiting[t].item
<1>1. PICK m \in mail :
          LET got == Outcome(StubOf(item), m)
          IN  /\ m.to = port[t] /\ Ends(t, m.of, got, m.meant)
              /\ IF got[1] = "MACH_RCV_TOO_LARGE" THEN GiveUp(t, got[1])
                 ELSE mail' = mail \ {m} /\ UNCHANGED port
    BY DEF Return
<1>2. Waits(t) /\ client' = client /\ inbox' = inbox /\ held' = held
    BY DEF Return, Waits, setup, service
<1>3. mail' \subseteq mail
    BY <1>1 DEF GiveUp
<1>4. /\ IsRpc(item) /\ item \in Menu /\ TypeOK
      /\ m.of = None \/ m.of = waiting[t].call
    BY <1>1, <1>2 DEF IInv, TypeOK, CallsAreOwn, OneMessage, Waits
<1>5. Outcome(StubOf(item), m) = m.meant
  <2>1. CASE m.of = None
    <3>1. /\ m.id = MACH_NOTIFY_SEND_ONCE /\ m.size = MsgHead.size
          /\ m.meant = <<"MIG_SERVER_DIED", None>>
        BY <2>1 DEF DataInv, AnswersMeant
    <3>2. Awaits(StubOf(item)) /\ StubOf(item).result.id # MACH_NOTIFY_SEND_ONCE
        BY <1>4, TablesOf
    <3> HIDE DEF item
    <3> QED BY <3>1, <3>2, DeathUnderstood
  <2>2. CASE m.of = waiting[t].call
      BY <1>2, <2>2 DEF DataInv, AnswersMeant
  <2> QED BY <1>4, <2>1, <2>2
<1>6. PICK of, got, meant : Ends(t, of, got, meant) /\ got = meant
    BY <1>1, <1>5
<1> QED BY <1>2, <1>3, <1>6, EndsData

LEMMA ClientData ==
    ASSUME IInv, DataInv, NEW t \in Threads, ClientStep(t)
    PROVE  DataInv'
<1>1. ASSUME NEW item \in Menu, CallTooLarge(t, item) \/ CallNotSent(t, item)
      PROVE  DataInv'
  <2>1. PICK status : EndsAtOnce(t, status)
      BY <1>1 DEF CallTooLarge, CallNotSent
  <2>2. UNCHANGED <<client, held, mail, inbox>>
      BY <1>1 DEF CallTooLarge, CallNotSent, setup, service
  <2> QED BY <2>1, <2>2, EndsAtOnceData
<1>2. ASSUME NEW item \in Menu, CallSimple(t, item)
      PROVE  DataInv'
  <2>1. PICK status : EndsAtOnce(t, status)
      BY <1>2 DEF CallSimple
  <2>2. UNCHANGED <<client, held, mail>> /\ ~IsRpc(item)
      BY <1>2 DEF CallSimple, setup
  <2>3. CASE inbox' = inbox
      BY <2>1, <2>2, <2>3, EndsAtOnceData
  <2>4. ASSUME inbox' # inbox
        PROVE  \E m : /\ inbox' = inbox \cup {m} /\ Intact(m)
                      /\ m.of = calls + 1 /\ ~IsRpc(m.item)
    <3>1. PICK p, m : /\ m = [Written(item) EXCEPT !.to = p, !.of = calls + 1]
                      /\ inbox' = inbox \cup {m}
        BY <1>2, <2>4 DEF CallSimple, Send
    <3>2. client \in Slices
        BY DEF IInv, TypeOK
    <3>3. m = [Written(item) EXCEPT !.to = p, !.of = calls + 1]
        BY <3>1
    <3>4. m.item = item /\ m.of = calls + 1
        BY <3>2, <3>3, SentFields
    <3>5. Intact(m)
        BY <3>2, <3>3, SentData
    <3> QED BY <2>2, <3>1, <3>4, <3>5
  <2> QED BY <2>1, <2>2, <2>3, <2>4, EndsAtOnceData
<1>3. CASE ReceiveFails(t)
  <2>1. PICK got : Ends(t, None, got, None)
      BY <1>3 DEF ReceiveFails
  <2>2. Waits(t) /\ UNCHANGED <<client, inbox, held>> /\ mail' \subseteq mail
      BY <1>3 DEF ReceiveFails, Waits, setup, service, GiveUp
  <2> QED BY <2>1, <2>2, EndsData
<1> QED BY <1>1, <1>2, <1>3, CallRpcData, ReturnData DEF ClientStep

-----------------------------------------------------------------------------
(* The server. *)

(* The kernel's notifications say one thing only. *)
LEMMA NotifiedData ==
    ASSUME IInv, DataInv, NEW requests, mail' \subseteq mail \cup Notified(requests),
           Pending' \subseteq Pending, UNCHANGED <<client, calls, waiting, result>>
    PROVE  DataInv'
<1>1. \A m \in Notified(requests) :
          /\ m.of = None /\ m.id = MACH_NOTIFY_SEND_ONCE /\ m.size = MsgHead.size
          /\ m.meant = <<"MIG_SERVER_DIED", None>>
    BY DEF Notified, Delivered, SendOnceNotification
<1>2. \A t \in Threads : Waits(t) => waiting[t].call # None
    BY NoneAssumption DEF IInv, TypeOK, Waits, Calls
<1>3. RequestsIntact'
    BY DEF DataInv, RequestsIntact, Intact, Written, IsRpc, TooLarge, StubOf
<1>4. AnswersMeant'
    BY <1>1, <1>2 DEF DataInv, AnswersMeant, Waits, StubOf
<1>5. AnswersAreUnderstood'
    BY DEF DataInv, AnswersAreUnderstood
<1> QED BY <1>3, <1>4, <1>5 DEF DataInv

LEMMA TakeData == ASSUME IInv, DataInv, NEW s, Take(s) PROVE DataInv'
<1>1. PICK m \in inbox : /\ inbox' = inbox \ {m}
                         /\ \/ mail' = mail \cup Notified({m}) /\ held' = held
                            \/ held' = m /\ mail' = mail
    BY DEF Take
<1>2. held = None /\ UNCHANGED <<client, calls, waiting, result>>
    BY DEF Take, setup, clients
<1>3. Pending' \subseteq Pending /\ mail' \subseteq mail \cup Notified({m})
    BY <1>1, <1>2 DEF Pending
<1> QED BY <1>2, <1>3, NotifiedData

LEMMA DieData == ASSUME IInv, DataInv, Die PROVE DataInv'
<1>1. PICK requests : mail' = mail \cup Notified(requests)
    BY DEF Die
<1>2. Pending' = {} /\ UNCHANGED <<client, calls, waiting, result>>
    BY DEF Die, Pending, setup, clients
<1> QED BY <1>1, <1>2, NotifiedData

(* An answer that a caller of that stub understands. *)
LEMMA AnswerData ==
    ASSUME IInv, DataInv, held # None, NEW r, r.of = held.of, Answer({r}),
           IsRpc(held.item) => Outcome(StubOf(held.item), r) = r.meant
    PROVE  DataInv'
<1>1. /\ UNCHANGED <<client, calls, waiting, result>>
      /\ Pending' \subseteq Pending /\ held \in Pending
      /\ mail' \subseteq mail \cup {r}
    BY DEF Answer, setup, clients, Pending, Delivered
<1>2. r.of \in 1 .. calls /\ r.of # None
    BY <1>1, NoneAssumption DEF IInv, CallsAreOwn, TypeOK
<1>3. ASSUME NEW t \in Threads, Waits(t), r.of = waiting[t].call
      PROVE  Outcome(StubOf(waiting[t].item), r) = r.meant
  <2>1. IsRpc(waiting[t].item)
      BY <1>3 DEF IInv, CallsAreOwn
  <2>2. held.item = waiting[t].item
      BY <1>1, <1>3 DEF DataInv, AnswersMeant
  <2> QED BY <2>1, <2>2
<1>4. RequestsIntact'
    BY <1>1 DEF DataInv, RequestsIntact, Intact, Written, IsRpc, TooLarge, StubOf
<1>5. AnswersMeant'
    BY <1>1, <1>2, <1>3 DEF DataInv, AnswersMeant, Waits, StubOf
<1>6. AnswersAreUnderstood'
    BY <1>1 DEF DataInv, AnswersAreUnderstood
<1> QED BY <1>4, <1>5, <1>6 DEF DataInv

LEMMA ErrorData ==
    ASSUME IInv, DataInv, held # None, NEW code, code # "KERN_SUCCESS",
           Answer({ErrorReply(held, code)})
    PROVE  DataInv'
<1>1. PICK r : /\ r = ErrorReply(held, code) /\ Answer({r})
    OBVIOUS
<1>2. /\ r.of = held.of /\ r.id = held.id + 100 /\ r.size = SizeOf(mig_reply_error_t)
      /\ r.retCode = code /\ r.meant = <<code, None>>
    BY <1>1 DEF ErrorReply
<1>3. ASSUME IsRpc(held.item) PROVE Outcome(StubOf(held.item), r) = r.meant
  <2>1. held.item \in Menu /\ client \in Slices /\ TypeOK /\ held \in Pending
      BY DEF IInv, TypeOK, Requested, Pending
  <2>2. held.id = StubOf(held.item).stub.id
      BY <2>1, WrittenFields DEF DataInv, RequestsIntact, Intact
  <2>3. Awaits(StubOf(held.item))
      BY <1>3, <2>1, TablesOf
  <2> QED BY <1>2, <2>2, <2>3, ErrorUnderstood
<1> QED BY <1>1, <1>2, <1>3, AnswerData

LEMMA SucceedData == ASSUME IInv, DataInv, Succeed(Server) PROVE DataInv'
<1> DEFINE s == Server
           struct == s[header].replies[held.item.routine]
<1>1. Accepted(s) /\ held # None
    BY DEF Succeed, Performs, Accepted
<1>2. PICK n \in IF HasState(s, held) THEN NewCounts ELSE {None} :
          /\ SuccessReply(s, held, n).size <= s.maxsize
          /\ Answer({SuccessReply(s, held, n)})
    BY DEF Succeed
<1>3. PICK r : /\ r = SuccessReply(s, held, n) /\ r.size <= s.maxsize /\ Answer({r})
    BY <1>2
<1>4. /\ r.of = held.of /\ r.id = held.id + 100 /\ r.retCode = "KERN_SUCCESS"
      /\ r.size = IF n = None THEN SizeOf(struct) ELSE OffsetOf(struct, "new_state") + 4 * n
      /\ r.words = Words(struct, n) /\ r.meant = <<"KERN_SUCCESS", n>>
    BY <1>3 DEF SuccessReply
<1>5. HasState(s, held) <=> struct # mig_reply_error_t
    BY DEF HasState
<1>6. ASSUME IsRpc(held.item) PROVE Outcome(StubOf(held.item), r) = r.meant
  <2>1. held.item \in Menu /\ client \in Slices /\ TypeOK /\ held \in Pending
      BY <1>1 DEF IInv, TypeOK, Requested, Pending
  <2>2. held.id = StubOf(held.item).stub.id
      BY <2>1, WrittenFields DEF DataInv, RequestsIntact, Intact
  <2>3. Awaits(StubOf(held.item))
      BY <1>6, <2>1, TablesOf
  <2>4. Understands(StubOf(held.item), struct, s.maxsize)
      BY <1>1, <1>6, <2>1, HeldIsChecked DEF DataInv, Accepted, IsRpc
  <2>5. CASE struct = mig_reply_error_t
    <3>1. n = None
        BY <1>5, <2>5
    <3> HIDE DEF s, struct
    <3> QED BY <1>4, <2>2, <2>3, <2>4, <2>5, <3>1, SuccessUnderstood
  <2>6. CASE struct # mig_reply_error_t
    <3>1. n \in Nat /\ n # None
        BY <1>5, <2>6, LengthsAssumption, NoneAssumption
    <3> HIDE DEF s, struct
    <3> QED BY <1>3, <1>4, <2>2, <2>3, <2>4, <2>6, <3>1, StateUnderstood
  <2> QED BY <2>5, <2>6
<1> QED BY <1>1, <1>3, <1>4, <1>6, AnswerData

LEMMA ServeData == ASSUME IInv, DataInv, Serve PROVE DataInv'
<1>1. CASE Refuse(Server)
    BY <1>1, ErrorData DEF Refuse
<1>2. CASE Reject(Server)
  <2>1. PICK code : /\ code = Verdict(Server, held)
                    /\ Answer({ErrorReply(held, code)}) /\ held # None
      BY <1>2 DEF Reject
  <2>2. code # "KERN_SUCCESS"
      BY <2>1 DEF Verdict, CheckRequest
  <2> QED BY <2>1, <2>2, ErrorData
<1>3. CASE Abort(Server)
    BY <1>3, DieData DEF Abort
<1>4. CASE Fail(Server)
    BY <1>4, ErrorData DEF Fail, Performs, Accepted
<1> QED BY <1>1, <1>2, <1>3, <1>4, SucceedData DEF Serve

-----------------------------------------------------------------------------

LEMMA NextData == IInv /\ DataInv /\ [Next]_vars => DataInv'
<1> SUFFICES ASSUME IInv, DataInv, [Next]_vars PROVE DataInv'
    OBVIOUS
<1>1. CASE Receive
    BY <1>1, TakeData DEF Receive
<1>2. CASE Serve
    BY <1>2, ServeData
<1>3. CASE Kill
    BY <1>3, DieData DEF Kill
<1>4. CASE UNCHANGED vars
  <2>1. UNCHANGED <<client, calls, waiting, result, mail>> /\ Pending' = Pending
      BY <1>4 DEF vars, setup, clients, service, Pending
  <2> QED BY <2>1, FewerData
<1> QED BY <1>1, <1>2, <1>3, <1>4, ClientData DEF Next

(* The inductive invariant of the data: requests lie in the inbox and with *)
(* the server as the user stub wrote them, and a message that can reach a  *)
(* waiting caller is one it understands (mess.In and mess.Out of every     *)
(* user stub in excUser.c and its like).                                   *)
THEOREM DataInvariance == Spec => []DataInv
<1>1. Init => DataInv
    BY InitData
<1>2. IInv /\ DataInv /\ [Next]_vars => DataInv'
    BY NextData
<1> QED BY <1>1, <1>2, Invariance, PTL DEF Spec

(* A request reaches its own server stub, passes the check and is read as  *)
(* it was written, for arrays of every length within their limits.         *)
THEOREM StubsAgreeCorrect == Spec => []StubsAgree
<1>1. TypeOK /\ DataInv => StubsAgree
  <2> SUFFICES ASSUME TypeOK, DataInv, held # None,
                      held.item.routine \in DOMAIN Server.server_h.requests
               PROVE  LET struct == Server[header].requests[held.item.routine]
                          arrays == Routine(Server, held).check.arrays
                      IN  /\ Routine(Server, held).stub = held.item.routine
                          /\ Verdict(Server, held) = "MACH_MSG_SUCCESS"
                          /\ CountsIn(struct, arrays, held) = held.item.counts
                          /\ Len(arrays) = 2 =>
                                 Word(held, FlavorOffset(struct, arrays, held.item.counts))
                                     = Flavor
      BY DEF StubsAgree
  <2> DEFINE struct == Server[header].requests[held.item.routine]
             check == Routine(Server, held).check
             r == StubOf(held.item)
             item == held.item
  <2>1. /\ Routine(Server, held).stub = held.item.routine
        /\ Verdict(Server, held) = "MACH_MSG_SUCCESS"
        /\ Writes(r, item) /\ Reads(check, struct, r)
      BY HeldIsChecked DEF DataInv
  <2>2. held.words = RequestWords(r, item.counts)
    <3>1. held.item \in Menu /\ client \in Slices /\ held \in Pending
        BY DEF TypeOK, Requested, Pending
    <3> QED BY <3>1, WrittenFields DEF DataInv, RequestsIntact, Intact
  <2>3. check.arrays = r.stub.arrays /\ SameOffsets(struct, r.mess.In, r.stub.arrays)
      BY <2>1 DEF Reads
  <2> HIDE DEF struct, check, r, item
  <2>4. /\ CountsIn(struct, check.arrays, held) = item.counts
        /\ Len(check.arrays) = 2 =>
               Word(held, FlavorOffset(struct, check.arrays, item.counts)) = Flavor
      BY <2>1, <2>2, <2>3, ReadAsWritten
  <2> QED BY <2>1, <2>4 DEF struct, check, item
<1> QED BY <1>1, DataInvariance, TypeCorrect, PTL

(* A message of another subsystem, or for a null slot of the table, is     *)
(* never performed and never reaches the abort of a generated stub.        *)
THEOREM UnservedRefused == Spec => UnservedIsRefused
<1> DEFINE Served == held.item.routine \in DOMAIN Server.server_h.requests
           Refused == performed' # performed \/ Abort(Server) => Served
<1>1. ASSUME TypeOK, DataInv, [Next]_vars PROVE Refused
  <2>1. ASSUME Accepted(Server) PROVE Served
      BY <1>1, <2>1, HeldIsChecked DEF DataInv, Accepted
  <2>2. performed' # performed => Accepted(Server)
    <3> SUFFICES ASSUME performed' # performed PROVE Accepted(Server)
        OBVIOUS
    <3>1. ~Receive /\ ~Kill /\ ~UNCHANGED vars
        BY DEF Receive, Take, Kill, Die, vars, service
    <3>2. \A t \in Threads : ~ClientStep(t)
        BY DEF ClientStep, CallTooLarge, CallRpc, CallSimple, CallNotSent, ReceiveFails, Return,
               service
    <3>3. Serve
        BY <1>1, <3>1, <3>2 DEF Next
    <3> QED BY <3>3 DEF Serve, Refuse, Reject, Abort, Die, Succeed, Fail, Performs
  <2>3. Abort(Server) => Accepted(Server)
      BY DEF Abort
  <2> QED BY <2>1, <2>2, <2>3
<1>2. TypeOK /\ DataInv /\ [Next]_vars =>
          [\A s \in {Server} : performed' # performed \/ Abort(s) =>
               held.item.routine \in DOMAIN s.server_h.requests]_vars
    BY <1>1
<1> QED BY <1>2, DataInvariance, TypeCorrect, PTL DEF Spec, UnservedIsRefused

(* A stub returns what the sender of the answer meant by it: an error as   *)
(* that error, a new state with its length, whichever length it is, the    *)
(* server's death as that.                                                 *)
THEOREM AnswersUnderstood == Spec => []AnswersAreUnderstood
BY DataInvariance, PTL DEF DataInv
=============================================================================

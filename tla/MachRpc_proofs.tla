---------------------------- MODULE MachRpc_proofs ----------------------------
(***************************************************************************)
(* Proofs about MachRpc, for any threads, slices, stubs, menus of calls    *)
(* and any number of calls.                                                *)
(*                                                                         *)
(* A thread may keep its reply port because at most one message that can   *)
(* reach it exists at any time: the request that carries the right, or the *)
(* answer it was used for.  Whoever returns has taken that message or      *)
(* destroyed the port.                                                     *)
(***************************************************************************)
EXTENDS MachRpc, TLAPS

Waits(t) == waiting[t] # None

(* The requests that may still be answered. *)
Pending == inbox \cup {m \in {held} : m # None}

(* A reply port has one owner, and its number is never given out again.    *)
PortsAreOwn ==
    /\ \A t \in Threads : port[t] # None => port[t] \in 1 .. made
    /\ \A t, u \in Threads : port[t] = port[u] /\ port[t] # None => t = u
    /\ \A m \in Pending \cup mail : m.to = None \/ m.to \in 1 .. made

(* A call has one caller, who waits at a port, one request and one end.    *)
CallsAreOwn ==
    /\ \A t \in Threads : Waits(t) => /\ waiting[t].call \in 1 .. calls
                                      /\ result[waiting[t].call] = None
                                      /\ port[t] # None
                                      /\ IsRpc(waiting[t].item)
    /\ \A t, u \in Threads :
           Waits(t) /\ Waits(u) /\ waiting[t].call = waiting[u].call => t = u
    /\ \A c \in Calls : c > calls => result[c] = None
    /\ performed \subseteq 1 .. calls
    /\ \A m \in Pending : m.of \in (1 .. calls) \ performed
    /\ \A m, n \in inbox : m.of = n.of => m = n
    /\ held # None => \A m \in inbox : m.of # held.of

(* At most one message exists that can reach a port, and it is of the call *)
(* its owner waits for.                                                    *)
OneMessage ==
    \A t \in Threads : port[t] # None =>
        /\ \A m \in Pending : m.to = port[t] => Waits(t) /\ m.of = waiting[t].call
        /\ \A m \in mail : m.to = port[t] =>
               /\ Waits(t) /\ m.of \in {None, waiting[t].call}
               /\ \A n \in Pending : n.to # port[t]
               /\ \A n \in mail : n.to = port[t] => n = m

(* An answer that looks like one of an implementation is one. *)
AnswersTrue ==
    \A m \in mail : IF m.of = None THEN m.id = MACH_NOTIFY_SEND_ONCE
                    ELSE m.retCode \in {"KERN_SUCCESS", "KERN_FAILURE"} => m.of \in performed

IInv == TypeOK /\ PortsAreOwn /\ CallsAreOwn /\ OneMessage /\ AnswersTrue /\ AnswersOwnCall

-----------------------------------------------------------------------------
(* Helpers. *)

LEMMA SentFields ==
    ASSUME NEW item \in Menu, NEW p, NEW n, client \in Slices
    PROVE  LET m == [Written(item) EXCEPT !.to = p, !.of = n]
           IN  m.item = item /\ m.to = p /\ m.of = n
<1>1. Written(item) = Message(Stubs[client][item], item)
    BY DEF Written, Messages
<1>2. /\ DOMAIN Written(item) = {"item", "to", "of", "id", "right", "rights", "size", "words"}
      /\ Written(item)["item"] = item
    BY <1>1 DEF Message
<1> QED BY <1>2

LEMMA InitInv == Init => IInv
<1> SUFFICES ASSUME Init PROVE IInv
    OBVIOUS
<1> USE CallsAssumption, NoneAssumption DEF Init
<1>1. TypeOK
    BY DEF TypeOK, Calls, Ports
<1>2. Pending = {} /\ mail = {}
    BY DEF Pending
<1>3. PortsAreOwn
    BY <1>2 DEF PortsAreOwn
<1>4. CallsAreOwn
    BY <1>2 DEF CallsAreOwn, Waits, Calls
<1>5. OneMessage /\ AnswersTrue
    BY <1>2 DEF OneMessage, AnswersTrue
<1>6. AnswersOwnCall
    BY DEF AnswersOwnCall, Calls
<1> QED BY <1>1, <1>3, <1>4, <1>5, <1>6 DEF IInv

(* The number of a new call is free, and nothing can reach its caller.     *)
LEMMA NewCall ==
    ASSUME IInv, NEW t \in Threads, Begin(t)
    PROVE  /\ calls \in Nat /\ calls + 1 \in Calls /\ calls + 1 \notin 1 .. calls
           /\ result[calls + 1] = None
           /\ \A m \in Pending : m.of # calls + 1
           /\ port[t] # None => \A m \in Pending \cup mail : m.to # port[t]
<1> USE CallsAssumption DEF IInv, TypeOK, Begin, Calls
<1>1. calls \in Nat /\ calls + 1 \in Calls /\ calls + 1 \notin 1 .. calls
    OBVIOUS
<1>2. result[calls + 1] = None /\ \A m \in Pending : m.of # calls + 1
    BY <1>1 DEF CallsAreOwn
<1>3. port[t] # None => \A m \in Pending \cup mail : m.to # port[t]
    BY DEF OneMessage, Waits
<1> QED BY <1>1, <1>2, <1>3

(* The reply port of a new call is its caller's alone, and unused.         *)
LEMMA NewReplyPort ==
    ASSUME IInv, NEW t \in Threads, Begin(t), GetReplyPort(t)
    PROVE  /\ made \in Nat /\ made' \in made .. calls'
           /\ port'[t] # None /\ port'[t] \in 1 .. made' /\ port'[t] \in Ports
           /\ port' = [port EXCEPT ![t] = port'[t]]
           /\ \A u \in Threads \ {t} : port[u] # port'[t]
           /\ \A m \in Pending \cup mail : m.to # port'[t]
<1>1. /\ made \in Nat /\ calls \in Nat /\ made <= calls /\ calls + 1 <= MaxCalls
      /\ calls' = calls + 1 /\ port \in [Threads -> Ports \cup {None}]
    BY CallsAssumption DEF IInv, TypeOK, Begin
<1>2. CASE port[t] # None
  <2>1. made' = made /\ port' = port
      BY <1>2 DEF GetReplyPort
  <2>2. port[t] \in 1 .. made /\ \A u \in Threads \ {t} : port[u] # port[t]
      BY <1>2 DEF IInv, PortsAreOwn
  <2>3. \A m \in Pending \cup mail : m.to # port[t]
      BY <1>2, NewCall
  <2> QED BY <1>1, <1>2, <2>1, <2>2, <2>3
<1>3. CASE port[t] = None
  <2>1. made' = made + 1 /\ port' = [port EXCEPT ![t] = made + 1]
      BY <1>3 DEF GetReplyPort
  <2>2. port'[t] = made + 1 /\ made + 1 # None /\ made + 1 \in Ports
      BY <1>1, <2>1, NoneAssumption, CallsAssumption DEF Ports
  <2>3. made + 1 \notin 1 .. made
      BY <1>1
  <2>4. /\ \A u \in Threads : port[u] # made + 1
        /\ \A m \in Pending \cup mail : m.to # made + 1
      BY <2>2, <2>3 DEF IInv, PortsAreOwn
  <2> QED BY <1>1, <2>1, <2>2, <2>4
<1> QED BY <1>2, <1>3

-----------------------------------------------------------------------------
(* The user stubs. *)

(* A call that ends as it is made leaves no message that can be answered,  *)
(* whatever becomes of its reply port.                                     *)
LEMMA EndsAtOnceKeeps ==
    ASSUME IInv, NEW t \in Threads, NEW status, EndsAtOnce(t, status),
           UNCHANGED <<setup, up, held, performed, mail>>,
           inbox' = inbox \/ \E m : /\ inbox' = inbox \cup {m} /\ Requested(m)
                                    /\ m.to = None /\ m.of = calls + 1,
           made' \in made .. calls',
           NEW p \in Ports \cup {None}, port' = [port EXCEPT ![t] = p],
           p = None \/ /\ p \in 1 .. made'
                       /\ \A u \in Threads \ {t} : port[u] # p
                       /\ \A m \in Pending \cup mail : m.to # p
    PROVE  IInv'
<1>1. /\ calls' = calls + 1 /\ waiting[t] = None /\ waiting' = waiting /\ held' = held
      /\ mail' = mail /\ performed' = performed /\ client' = client
    BY DEF EndsAtOnce, Begin, setup
<1>2. /\ calls \in Nat /\ calls + 1 \in Calls /\ calls + 1 \notin 1 .. calls
      /\ made \in Nat /\ result[calls + 1] = None
      /\ \A m \in Pending : m.of # calls + 1
    BY NewCall DEF EndsAtOnce, IInv, TypeOK
<1>3. /\ DOMAIN result' = Calls
      /\ result'[calls + 1].of = None
      /\ \A c \in Calls : c # calls + 1 => result'[c] = result[c]
    BY <1>2 DEF EndsAtOnce, IInv, TypeOK
<1>4. /\ \A m \in Pending' : m \in Pending \/ (m.to = None /\ m.of = calls + 1)
      /\ \A m \in inbox' : m \in inbox \/ (m.to = None /\ m.of = calls + 1)
      /\ \A m, n \in inbox' : m \in inbox \/ n \in inbox \/ m = n
    BY <1>1 DEF Pending
<1>5. TypeOK'
  <2>1. port' \in [Threads -> Ports \cup {None}]
      BY DEF IInv, TypeOK
  <2>2. \A m \in inbox' : Requested(m)'
      BY <1>1 DEF IInv, TypeOK, Requested
  <2>3. calls' \in 0 .. MaxCalls /\ made' \in 0 .. calls'
      BY <1>1, <1>2, CallsAssumption DEF Calls
  <2> QED BY <1>1, <1>3, <2>1, <2>2, <2>3 DEF IInv, TypeOK, setup, Requested
<1>6. PortsAreOwn'
  <2>1. \A q : q \in 1 .. made => q \in 1 .. made'
      BY <1>1, <1>2
  <2> QED BY <1>1, <1>4, <2>1 DEF IInv, TypeOK, PortsAreOwn
<1>7. CallsAreOwn'
  <2>1. \A c : c \in 1 .. calls => c \in 1 .. calls' /\ c \in Calls /\ c # calls + 1
      BY <1>1, <1>2, CallsAssumption DEF Calls
  <2>2. \A u \in Threads : Waits(u) => u # t /\ port'[u] = port[u]
      BY <1>1 DEF Waits, IInv, TypeOK
  <2>3. \A u \in Threads : Waits(u)' => /\ waiting'[u].call \in 1 .. calls'
                                        /\ result'[waiting'[u].call] = None
                                        /\ port'[u] # None
                                        /\ IsRpc(waiting[u].item)'
      BY <1>1, <1>3, <2>1, <2>2 DEF IInv, CallsAreOwn, Waits, IsRpc, StubOf
  <2>4. \A c \in Calls : c > calls' => result'[c] = None
      BY <1>1, <1>2, <1>3 DEF IInv, CallsAreOwn, Calls
  <2>5. calls + 1 \in 1 .. calls' /\ calls + 1 \notin performed
      BY <1>1, <1>2 DEF IInv, CallsAreOwn
  <2>6. \A m \in Pending' : m.of \in (1 .. calls') \ performed'
      BY <1>1, <1>4, <2>1, <2>5 DEF IInv, CallsAreOwn
  <2>7. \A m, n \in inbox' : m.of = n.of => m = n
      BY <1>2, <1>4 DEF IInv, CallsAreOwn, Pending
  <2>8. held' # None => \A m \in inbox' : m.of # held'.of
      BY <1>1, <1>2, <1>4 DEF IInv, CallsAreOwn, Pending
  <2>9. \A u, v \in Threads :
            Waits(u)' /\ Waits(v)' /\ waiting'[u].call = waiting'[v].call => u = v
      BY <1>1 DEF IInv, CallsAreOwn, Waits
  <2>10. performed' \subseteq 1 .. calls'
      BY <1>1, <2>1 DEF IInv, CallsAreOwn
  <2> QED BY <2>3, <2>4, <2>6, <2>7, <2>8, <2>9, <2>10 DEF CallsAreOwn
<1>8. OneMessage'
  <2>1. ASSUME NEW u \in Threads, port'[u] # None
        PROVE  \A m \in (Pending \cup mail)' : m.to = port'[u] =>
                   /\ u # t /\ port'[u] = port[u] /\ m \in Pending \cup mail
                   /\ m \in Pending' => m \in Pending
      BY <1>1, <1>4, <2>1 DEF IInv, TypeOK
  <2> QED BY <1>1, <2>1 DEF IInv, OneMessage, Waits
<1>9. AnswersTrue' /\ AnswersOwnCall'
    BY <1>1, <1>3 DEF IInv, AnswersTrue, AnswersOwnCall
<1> QED BY <1>5, <1>6, <1>7, <1>8, <1>9 DEF IInv

LEMMA CallTooLargeKeeps ==
    ASSUME IInv, NEW t \in Threads, NEW item \in Menu, CallTooLarge(t, item)
    PROVE  IInv'
<1>1. EndsAtOnce(t, "MIG_ARRAY_TOO_LARGE") /\ Begin(t)
    BY DEF CallTooLarge, EndsAtOnce
<1>2. UNCHANGED <<setup, up, held, performed, mail, inbox, made, port>>
    BY DEF CallTooLarge, service
<1>3. PICK p \in Ports \cup {None} : p = port[t] /\ port' = [port EXCEPT ![t] = p]
    BY <1>2 DEF IInv, TypeOK
<1>4. made' = made /\ made' \in made .. calls'
    BY <1>1, <1>2, CallsAssumption DEF IInv, TypeOK, Begin
<1>5. p = None \/ /\ p \in 1 .. made'
                  /\ \A u \in Threads \ {t} : port[u] # p
                  /\ \A m \in Pending \cup mail : m.to # p
  <2>1. ASSUME p # None PROVE p \in 1 .. made /\ \A u \in Threads \ {t} : port[u] # p
      BY <1>3, <2>1 DEF IInv, PortsAreOwn
  <2>2. ASSUME p # None PROVE \A m \in Pending \cup mail : m.to # p
      BY <1>1, <1>3, <2>2, NewCall
  <2> QED BY <1>4, <2>1, <2>2
<1> QED BY <1>1, <1>2, <1>3, <1>4, <1>5, EndsAtOnceKeeps

LEMMA CallSimpleKeeps ==
    ASSUME IInv, NEW t \in Threads, NEW item \in Menu, CallSimple(t, item)
    PROVE  IInv'
<1>1. PICK status : EndsAtOnce(t, status) /\ Begin(t)
    BY DEF CallSimple, EndsAtOnce
<1>2. UNCHANGED <<setup, up, held, performed, mail, made, port>>
    BY DEF CallSimple
<1>3. PICK p \in Ports \cup {None} : p = port[t] /\ port' = [port EXCEPT ![t] = p]
    BY <1>2 DEF IInv, TypeOK
<1>4. made' = made /\ made' \in made .. calls'
    BY <1>1, <1>2, CallsAssumption DEF IInv, TypeOK, Begin
<1>5. p = None \/ /\ p \in 1 .. made'
                  /\ \A u \in Threads \ {t} : port[u] # p
                  /\ \A m \in Pending \cup mail : m.to # p
  <2>1. ASSUME p # None PROVE p \in 1 .. made /\ \A u \in Threads \ {t} : port[u] # p
      BY <1>3, <2>1 DEF IInv, PortsAreOwn
  <2>2. ASSUME p # None PROVE \A m \in Pending \cup mail : m.to # p
      BY <1>1, <1>3, <2>2, NewCall
  <2> QED BY <1>4, <2>1, <2>2
<1>6. inbox' = inbox \/ \E m : /\ inbox' = inbox \cup {m} /\ Requested(m)
                                /\ m.to = None /\ m.of = calls + 1
  <2> DEFINE m == [Written(item) EXCEPT !.to = None, !.of = calls + 1]
  <2>1. inbox' = inbox \/ inbox' = inbox \cup {m}
      BY DEF CallSimple, Send
  <2>2. m.item = item /\ m.to = None /\ m.of = calls + 1
      BY SentFields DEF IInv, TypeOK
  <2>3. calls + 1 \in Calls
      BY <1>1, NewCall
  <2> QED BY <2>1, <2>2, <2>3 DEF Requested
<1> QED BY <1>1, <1>2, <1>3, <1>4, <1>5, <1>6, EndsAtOnceKeeps

(* A send that fails leaves no message: the port may be kept or destroyed. *)
LEMMA CallNotSentKeeps ==
    ASSUME IInv, NEW t \in Threads, NEW item \in Menu, CallNotSent(t, item)
    PROVE  IInv'
<1>1. PICK error \in SendErrors :
          /\ EndsAtOnce(t, error)
          /\ IF PutsBack(item, error) THEN GetReplyPort(t)
             ELSE /\ made' = IF port[t] = None THEN made + 1 ELSE made
                  /\ port' = [port EXCEPT ![t] = None]
          /\ UNCHANGED <<setup, service, mail>>
    BY DEF CallNotSent
<1>2. Begin(t) /\ UNCHANGED <<setup, up, held, performed, mail, inbox>>
    BY <1>1 DEF EndsAtOnce, service
<1>3. CASE PutsBack(item, error)
  <2>1. GetReplyPort(t)
      BY <1>1, <1>3
  <2>2. /\ made' \in made .. calls' /\ port'[t] \in Ports /\ port'[t] \in 1 .. made'
        /\ port' = [port EXCEPT ![t] = port'[t]]
        /\ \A u \in Threads \ {t} : port[u] # port'[t]
        /\ \A m \in Pending \cup mail : m.to # port'[t]
      BY <1>2, <2>1, NewReplyPort
  <2>3. PICK p \in Ports : /\ p \in 1 .. made' /\ port' = [port EXCEPT ![t] = p]
                            /\ \A u \in Threads \ {t} : port[u] # p
                            /\ \A m \in Pending \cup mail : m.to # p
      BY <2>2
  <2> QED BY <1>1, <1>2, <2>2, <2>3, EndsAtOnceKeeps
<1>4. CASE ~PutsBack(item, error)
  <2>1. port' = [port EXCEPT ![t] = None] /\ made' \in {made, made + 1}
      BY <1>1, <1>4
  <2>2. made' \in made .. calls'
      BY <1>2, <2>1, CallsAssumption DEF IInv, TypeOK, Begin
  <2> QED BY <1>1, <1>2, <2>1, <2>2, EndsAtOnceKeeps
<1> QED BY <1>3, <1>4

(* The request of a new call is the only message that can reach the port.  *)
LEMMA CallRpcKeeps ==
    ASSUME IInv, NEW t \in Threads, NEW item \in Menu, CallRpc(t, item)
    PROVE  IInv'
<1> DEFINE p == port'[t]
           m == [Written(item) EXCEPT !.to = p, !.of = calls + 1]
           w == [call |-> calls + 1, item |-> item]
<1>1. /\ Begin(t) /\ GetReplyPort(t) /\ IsRpc(item)
      /\ calls' = calls + 1 /\ waiting[t] = None
      /\ waiting' = [waiting EXCEPT ![t] = w] /\ inbox' = inbox \cup {m}
      /\ UNCHANGED <<setup, up, held, performed, mail, result>> /\ client' = client
    BY DEF CallRpc, Begin, Send, setup
<1>2. m.item = item /\ m.to = p /\ m.of = calls + 1
    BY SentFields DEF IInv, TypeOK
<1>3. /\ calls \in Nat /\ calls + 1 \in Calls /\ calls + 1 \notin 1 .. calls
      /\ result[calls + 1] = None
      /\ \A n \in Pending : n.of # calls + 1
    BY <1>1, NewCall
<1>4. /\ made \in Nat /\ made' \in made .. calls'
      /\ p # None /\ p \in 1 .. made' /\ p \in Ports
      /\ port' = [port EXCEPT ![t] = p]
      /\ \A u \in Threads \ {t} : port[u] # p
      /\ \A n \in Pending \cup mail : n.to # p
    BY <1>1, NewReplyPort
<1>5. waiting'[t] = w /\ w # None /\ w \in [call : Calls, item : Menu] /\ w.call = calls + 1
    BY <1>1, <1>3, NoneAssumption DEF IInv, TypeOK
<1>6. \A u \in Threads \ {t} : waiting'[u] = waiting[u] /\ port'[u] = port[u]
    BY <1>1, <1>4 DEF IInv, TypeOK
<1>7. Pending' = Pending \cup {m} /\ mail' = mail
    BY <1>1 DEF Pending
<1>8. \A c : c \in 1 .. calls => c \in 1 .. calls' /\ c \in Calls /\ c # calls + 1
    BY <1>1, <1>3, CallsAssumption DEF Calls
<1> HIDE DEF p, m, w
<1>9. TypeOK'
  <2>1. port' \in [Threads -> Ports \cup {None}]
      BY <1>4 DEF IInv, TypeOK
  <2>2. \A n \in inbox' : Requested(n)'
      BY <1>1, <1>2, <1>3, <1>4 DEF IInv, TypeOK, Requested
  <2>3. calls' \in 0 .. MaxCalls /\ made' \in 0 .. calls'
      BY <1>1, <1>3, <1>4, CallsAssumption DEF Calls
  <2>4. waiting' \in [Threads -> [call : Calls, item : Menu] \cup {None}]
      BY <1>1, <1>5 DEF IInv, TypeOK
  <2> QED BY <1>1, <2>1, <2>2, <2>3, <2>4 DEF IInv, TypeOK, setup, Requested
<1>10. PortsAreOwn'
  <2>1. \A q : q \in 1 .. made => q \in 1 .. made'
      BY <1>3, <1>4
  <2>2. \A u \in Threads : port'[u] # None => port'[u] \in 1 .. made'
      BY <1>4, <1>6, <2>1 DEF IInv, PortsAreOwn
  <2>3. \A u, v \in Threads : port'[u] = port'[v] /\ port'[u] # None => u = v
      BY <1>4, <1>6 DEF IInv, PortsAreOwn, p
  <2>4. \A n \in (Pending \cup mail)' : n.to = None \/ n.to \in 1 .. made'
      BY <1>2, <1>4, <1>7, <2>1 DEF IInv, PortsAreOwn
  <2> QED BY <2>2, <2>3, <2>4 DEF PortsAreOwn
<1>11. CallsAreOwn'
  <2>1. \A u \in Threads : Waits(u)' => /\ waiting'[u].call \in 1 .. calls'
                                        /\ result'[waiting'[u].call] = None
                                        /\ port'[u] # None
                                        /\ IsRpc(waiting[u].item)'
    <3>1. ASSUME NEW u \in Threads \ {t}, Waits(u)'
          PROVE  /\ waiting'[u].call \in 1 .. calls'
                 /\ result'[waiting'[u].call] = None
                 /\ port'[u] # None
                 /\ IsRpc(waiting[u].item)'
        BY <1>1, <1>6, <1>8, <3>1 DEF IInv, CallsAreOwn, Waits, IsRpc, StubOf
    <3>2. /\ waiting'[t].call \in 1 .. calls' /\ result'[waiting'[t].call] = None
          /\ port'[t] # None
        BY <1>1, <1>3, <1>4, <1>5 DEF p
    <3>3. IsRpc(waiting[t].item)'
        BY <1>1, <1>5 DEF IsRpc, StubOf, w
    <3> QED BY <3>1, <3>2, <3>3
  <2>2. \A u, v \in Threads :
            Waits(u)' /\ Waits(v)' /\ waiting'[u].call = waiting'[v].call => u = v
      BY <1>3, <1>5, <1>6 DEF IInv, CallsAreOwn, Waits
  <2>3. \A c \in Calls : c > calls' => result'[c] = None
      BY <1>1, <1>3 DEF IInv, CallsAreOwn, Calls
  <2>4. performed' \subseteq 1 .. calls'
      BY <1>1, <1>8 DEF IInv, CallsAreOwn
  <2>5. calls + 1 \in 1 .. calls' /\ calls + 1 \notin performed
      BY <1>1, <1>3 DEF IInv, CallsAreOwn
  <2>6. \A n \in Pending' : n.of \in (1 .. calls') \ performed'
      BY <1>1, <1>2, <1>7, <1>8, <2>5 DEF IInv, CallsAreOwn
  <2>7. \A n, o \in inbox' : n.of = o.of => n = o
      BY <1>1, <1>2, <1>3 DEF IInv, CallsAreOwn, Pending
  <2>8. held' # None => \A n \in inbox' : n.of # held'.of
      BY <1>1, <1>2, <1>3 DEF IInv, CallsAreOwn, Pending
  <2> QED BY <2>1, <2>2, <2>3, <2>4, <2>6, <2>7, <2>8 DEF CallsAreOwn
<1>12. OneMessage'
  <2>1. ASSUME NEW u \in Threads, port'[u] # None
        PROVE  /\ \A n \in Pending' : n.to = port'[u] =>
                                          Waits(u)' /\ n.of = waiting'[u].call
               /\ \A n \in mail' : n.to = port'[u] =>
                      /\ Waits(u)' /\ n.of \in {None, waiting'[u].call}
                      /\ \A o \in Pending' : o.to # port'[u]
                      /\ \A o \in mail' : o.to = port'[u] => o = n
    <3>1. CASE u = t
        BY <1>2, <1>4, <1>5, <1>7, <3>1 DEF Waits, p
    <3>2. CASE u # t
      <4>1. waiting'[u] = waiting[u] /\ port'[u] = port[u] /\ port[u] # p
          BY <1>4, <1>6, <3>2
      <4> QED BY <1>2, <1>7, <2>1, <4>1 DEF IInv, OneMessage, Waits
    <3> QED BY <3>1, <3>2
  <2> QED BY <2>1 DEF OneMessage
<1>13. AnswersTrue' /\ AnswersOwnCall'
    BY <1>1 DEF IInv, AnswersTrue, AnswersOwnCall
<1> QED BY <1>9, <1>10, <1>11, <1>12, <1>13 DEF IInv

(* A waiting thread returns: nothing can reach its port any more, or the   *)
(* port is gone.                                                           *)
LEMMA EndsKeeps ==
    ASSUME IInv, NEW t \in Threads, Waits(t),
           NEW of, NEW got, NEW meant, of = None \/ of = waiting[t].call,
           Ends(t, of, got, meant),
           UNCHANGED <<setup, service, made>>,
           mail' \subseteq mail,
           \/ port' = port /\ \A m \in Pending \cup mail' : m.to # port[t]
           \/ port' = [port EXCEPT ![t] = None]
    PROVE  IInv'
<1> DEFINE c == waiting[t].call
<1>1. /\ calls' = calls /\ made' = made /\ inbox' = inbox /\ held' = held
      /\ performed' = performed /\ client' = client
      /\ waiting' = [waiting EXCEPT ![t] = None] /\ Pending' = Pending
    BY DEF Ends, setup, service, Pending
<1>2. /\ c \in 1 .. calls /\ c \in Calls /\ result[c] = None
    BY DEF IInv, TypeOK, CallsAreOwn, Calls, Waits
<1>3. /\ DOMAIN result' = Calls
      /\ result'[c].of = of
      /\ \A d \in Calls : d # c => result'[d] = result[d]
    BY <1>2 DEF Ends, IInv, TypeOK
<1>4. /\ waiting'[t] = None
      /\ \A u \in Threads \ {t} : waiting'[u] = waiting[u] /\ port'[u] = port[u]
    BY <1>1 DEF IInv, TypeOK
<1>5. \A u \in Threads : port'[u] # None => port'[u] = port[u]
    BY DEF IInv, TypeOK
<1> HIDE DEF c
<1>6. TypeOK'
  <2>1. /\ port' \in [Threads -> Ports \cup {None}]
        /\ waiting' \in [Threads -> [call : Calls, item : Menu] \cup {None}]
      BY <1>1 DEF IInv, TypeOK
  <2> QED BY <1>1, <1>3, <2>1 DEF IInv, TypeOK, setup, service, Requested
<1>7. PortsAreOwn'
    BY <1>1, <1>5 DEF IInv, PortsAreOwn
<1>8. CallsAreOwn'
  <2>1. ASSUME NEW u \in Threads, Waits(u)'
        PROVE  u # t /\ waiting'[u] = waiting[u] /\ port'[u] = port[u] /\ Waits(u)
      BY <1>4, <2>1 DEF Waits
  <2>2. \A u \in Threads : Waits(u)' => waiting'[u].call # c
      BY <2>1 DEF IInv, CallsAreOwn, Waits, c
  <2>3. \A u \in Threads : Waits(u)' => /\ waiting'[u].call \in 1 .. calls'
                                        /\ result'[waiting'[u].call] = None
                                        /\ port'[u] # None
                                        /\ IsRpc(waiting[u].item)'
    <3>1. \A u \in Threads : Waits(u)' => waiting[u].call \in Calls
        BY <2>1 DEF IInv, TypeOK, Waits
    <3> QED BY <1>1, <1>3, <2>1, <2>2, <3>1 DEF IInv, CallsAreOwn, IsRpc, StubOf
  <2>4. \A u, v \in Threads :
            Waits(u)' /\ Waits(v)' /\ waiting'[u].call = waiting'[v].call => u = v
      BY <2>1 DEF IInv, CallsAreOwn
  <2>5. \A d \in Calls : d > calls' => result'[d] = None
    <3>1. \A d \in Calls : d > calls => d # c
        BY <1>2 DEF IInv, TypeOK, Calls
    <3> QED BY <1>1, <1>3, <3>1 DEF IInv, CallsAreOwn
  <2> QED BY <1>1, <2>3, <2>4, <2>5 DEF IInv, CallsAreOwn
<1>9. OneMessage'
  <2>1. ASSUME NEW u \in Threads, port'[u] # None, NEW m \in Pending \cup mail',
               m.to = port'[u]
        PROVE  u # t
      BY <1>4, <2>1 DEF IInv, TypeOK
  <2>2. \A u \in Threads : u # t => (Waits(u)' <=> Waits(u)) /\ waiting'[u] = waiting[u]
      BY <1>4 DEF Waits
  <2> QED BY <1>1, <1>5, <2>1, <2>2 DEF IInv, OneMessage
<1>10. AnswersTrue'
    BY <1>1 DEF IInv, AnswersTrue
<1>11. AnswersOwnCall'
  <2>1. result'[c].of \in {None, c}
      BY <1>3 DEF c
  <2> QED BY <1>3, <2>1 DEF IInv, AnswersOwnCall
<1> QED BY <1>6, <1>7, <1>8, <1>9, <1>10, <1>11 DEF IInv

(* A receive that fails destroys the port. *)
LEMMA ReceiveErrors ==
    ASSUME IInv, NEW t \in Threads, Waits(t)
    PROVE  /\ ~PutsBack(waiting[t].item, "MACH_RCV_BODY_ERROR")
           /\ ~PutsBack(waiting[t].item, "MACH_RCV_TOO_LARGE")
           /\ StubOf(waiting[t].item).result.id # MACH_NOTIFY_SEND_ONCE
<1>1. waiting[t].item \in Menu /\ client \in Slices /\ IsRpc(waiting[t].item)
    BY DEF IInv, TypeOK, CallsAreOwn, Waits
<1> QED BY <1>1, StubsAssumption DEF PutsBack, IsRpc, StubOf

LEMMA ReceiveFailsKeeps ==
    ASSUME IInv, NEW t \in Threads, ReceiveFails(t)
    PROVE  IInv'
<1>1. /\ Waits(t) /\ UNCHANGED <<setup, service, made>>
      /\ Ends(t, None, <<"MACH_RCV_BODY_ERROR", None>>, None)
    BY DEF ReceiveFails, Waits
<1>2. port' = [port EXCEPT ![t] = None] /\ mail' \subseteq mail
    BY <1>1, ReceiveErrors DEF ReceiveFails, GiveUp
<1> QED BY <1>1, <1>2, EndsKeeps

LEMMA ReturnKeeps ==
    ASSUME IInv, NEW t \in Threads, Return(t)
    PROVE  IInv'
<1>1. Waits(t) /\ UNCHANGED <<setup, service, made>>
    BY DEF Return, Waits
<1>2. PICK m \in mail :
          /\ m.to = port[t]
          /\ \E got : /\ Ends(t, m.of, got, m.meant)
                     /\ IF got[1] = "MACH_RCV_TOO_LARGE" THEN GiveUp(t, got[1])
                        ELSE mail' = mail \ {m} /\ UNCHANGED port
    BY DEF Return
<1>3. PICK of, got, meant :
          /\ of = m.of /\ Ends(t, of, got, meant)
          /\ IF got[1] = "MACH_RCV_TOO_LARGE" THEN GiveUp(t, got[1])
             ELSE mail' = mail \ {m} /\ UNCHANGED port
    BY <1>2
<1>4. port[t] # None
    BY <1>1 DEF IInv, CallsAreOwn
<1>5. /\ of = None \/ of = waiting[t].call
      /\ \A n \in Pending : n.to # port[t]
      /\ \A n \in mail \ {m} : n.to # port[t]
    BY <1>2, <1>3, <1>4 DEF IInv, OneMessage
<1>6. \/ /\ port' = [port EXCEPT ![t] = None]
         /\ mail' \subseteq mail
      \/ mail' = mail \ {m} /\ port' = port
    BY <1>1, <1>3, ReceiveErrors DEF GiveUp
<1> QED BY <1>1, <1>3, <1>5, <1>6, EndsKeeps

-----------------------------------------------------------------------------
(* The server. *)

(* Requests leave the queue or the server unanswered: the kernel answers   *)
(* those of them that carry a send-once right.                             *)
LEMMA NotifiedKeeps ==
    ASSUME IInv, NEW S \in SUBSET Pending,
           mail' = mail \cup Notified(S),
           inbox' \subseteq inbox, Pending' \subseteq Pending, Pending' \cap S = {},
           held' = None \/ (held' \in inbox /\ held' \notin inbox'),
           up' \in BOOLEAN,
           UNCHANGED <<setup, performed, clients>>
    PROVE  IInv'
<1>1. /\ calls' = calls /\ made' = made /\ port' = port /\ waiting' = waiting
      /\ result' = result /\ performed' = performed /\ client' = client
    BY DEF clients, setup
<1>2. ASSUME NEW n \in Notified(S)
      PROVE  /\ n.of = None /\ n.id = MACH_NOTIFY_SEND_ONCE
             /\ \E q \in S : n.to = q.to
             /\ \E u \in Threads : port[u] = n.to /\ n.to # None
             /\ \A o \in Notified(S) : o.to = n.to => o = n
    BY DEF Notified, Delivered, Alive, SendOnceNotification
<1>3. TypeOK'
  <2>1. \A n \in mail' : n.to \in Ports /\ n.of \in Calls \cup {None}
      BY <1>2 DEF IInv, TypeOK
  <2>2. /\ \A m \in inbox' : Requested(m)'
        /\ held' = None \/ Requested(held)'
      BY DEF IInv, TypeOK, Requested
  <2> QED BY <1>1, <2>1, <2>2 DEF IInv, TypeOK, setup
<1>4. PortsAreOwn'
  <2>1. \A n \in Notified(S) : n.to = None \/ n.to \in 1 .. made
      BY <1>2 DEF IInv, PortsAreOwn
  <2> QED BY <1>1, <2>1 DEF IInv, PortsAreOwn
<1>5. CallsAreOwn'
  <2>1. held' # None => \A m \in inbox' : m.of # held'.of
      BY DEF IInv, CallsAreOwn
  <2>2. \A t \in Threads : (Waits(t)' <=> Waits(t)) /\ (IsRpc(waiting[t].item)' <=> IsRpc(waiting[t].item))
      BY <1>1 DEF Waits, IsRpc, StubOf
  <2> QED BY <1>1, <2>1, <2>2 DEF IInv, CallsAreOwn
<1>6. OneMessage'
  <2>1. \A t \in Threads : Waits(t)' <=> Waits(t)
      BY <1>1 DEF Waits
  <2>2. ASSUME NEW t \in Threads, port[t] # None, NEW n \in Notified(S), n.to = port[t]
        PROVE  /\ Waits(t) /\ n.of \in {None, waiting[t].call}
               /\ \A o \in Pending' : o.to # port[t]
               /\ \A o \in mail : o.to # port[t]
    <3>1. PICK q \in S : q.to = port[t]
        BY <1>2, <2>2
    <3>2. Waits(t) /\ q.of = waiting[t].call
        BY <2>2, <3>1 DEF IInv, OneMessage
    <3>3. \A o \in Pending : o.to = port[t] => o = q
      <4>1. \A o \in Pending : o.to = port[t] => o.of = q.of
          BY <2>2, <3>2 DEF IInv, OneMessage
      <4> QED BY <4>1 DEF IInv, CallsAreOwn, Pending
    <3>4. \A o \in mail : o.to # port[t]
        BY <2>2, <3>1 DEF IInv, OneMessage
    <3> QED BY <1>2, <3>2, <3>3, <3>4
  <2>3. ASSUME NEW t \in Threads, port[t] # None, NEW n \in mail, n.to = port[t]
        PROVE  \A o \in Notified(S) : o.to # port[t]
      BY <2>2, <2>3
  <2> QED BY <1>1, <1>2, <2>1, <2>2, <2>3 DEF IInv, OneMessage
<1>7. AnswersTrue'
    BY <1>1, <1>2 DEF IInv, AnswersTrue
<1>8. AnswersOwnCall'
    BY <1>1 DEF IInv, AnswersOwnCall
<1> QED BY <1>3, <1>4, <1>5, <1>6, <1>7, <1>8 DEF IInv

LEMMA TakeKeeps ==
    ASSUME IInv, NEW s, Take(s)
    PROVE  IInv'
<1>1. PICK m \in inbox :
          /\ inbox' = inbox \ {m}
          /\ IF m.size > s.room
             THEN /\ mail' = mail \cup Notified({m})
                  /\ UNCHANGED held
             ELSE /\ held' = m
                  /\ UNCHANGED mail
    BY DEF Take
<1>2. held = None /\ UNCHANGED <<setup, performed, clients>> /\ up' \in BOOLEAN
    BY DEF Take, IInv, TypeOK
<1>3. CASE m.size > s.room
  <2>1. Pending' \subseteq Pending /\ Pending' \cap {m} = {} /\ {m} \in SUBSET Pending
      BY <1>1, <1>2, <1>3 DEF Pending
  <2>2. mail' = mail \cup Notified({m}) /\ held' = None
      BY <1>1, <1>2, <1>3
  <2> QED BY <1>1, <1>2, <2>1, <2>2, NotifiedKeeps
<1>4. CASE ~(m.size > s.room)
  <2>1. Pending' \subseteq Pending /\ Pending' \cap {} = {} /\ {} \in SUBSET Pending
      BY <1>1, <1>2, <1>4 DEF Pending
  <2>2. mail' = mail \cup Notified({})
      BY <1>1, <1>4 DEF Notified, Delivered
  <2>3. held' \in inbox /\ held' \notin inbox'
      BY <1>1, <1>4
  <2> QED BY <1>1, <1>2, <2>1, <2>2, <2>3, NotifiedKeeps
<1> QED BY <1>3, <1>4

LEMMA DieKeeps ==
    ASSUME IInv, Die
    PROVE  IInv'
<1>1. /\ inbox' = {} /\ held' = None /\ up' \in BOOLEAN
      /\ UNCHANGED <<setup, performed, clients>>
    BY DEF Die
<1>2. Pending = inbox \cup (IF held = None THEN {} ELSE {held}) /\ Pending' = {}
    BY <1>1 DEF Pending
<1>3. mail' = mail \cup Notified(Pending) /\ Pending \in SUBSET Pending
    BY <1>2 DEF Die
<1> QED BY <1>1, <1>2, <1>3, NotifiedKeeps

(* The server answers the request it holds, and may have performed it.     *)
LEMMA AnswerKeeps ==
    ASSUME IInv, held # None, NEW r, r.to = held.to, r.of = held.of, Answer({r}),
           performed' = performed \/ performed' = performed \cup {held.of},
           r.retCode \in {"KERN_SUCCESS", "KERN_FAILURE"} => held.of \in performed'
    PROVE  IInv'
<1>1. /\ calls' = calls /\ made' = made /\ port' = port /\ waiting' = waiting
      /\ result' = result /\ inbox' = inbox /\ held' = None /\ client' = client
      /\ Pending' = inbox
      /\ UNCHANGED <<setup, up>>
    BY DEF Answer, clients, setup, Pending
<1>2. /\ held \in Pending /\ Pending' \subseteq Pending
      /\ \A m \in Pending' : m.of # held.of
    BY <1>1 DEF Pending, IInv, CallsAreOwn
<1>3. /\ \A m \in mail' : m \in mail \/ (m = r /\ \E t \in Threads : port[t] = r.to /\ r.to # None)
      /\ mail \subseteq mail'
    BY <1>1 DEF Answer, Delivered, Alive
<1>4. held.of \in 1 .. calls /\ held.of \in Calls /\ held.of # None
    BY <1>2, NoneAssumption DEF IInv, TypeOK, CallsAreOwn, Requested, Calls
<1>5. TypeOK'
  <2>1. \A m \in mail' : m.to \in Ports /\ m.of \in Calls \cup {None}
      BY <1>3, <1>4 DEF IInv, TypeOK
  <2>2. performed' \subseteq Calls
      BY <1>4 DEF IInv, TypeOK
  <2> QED BY <1>1, <2>1, <2>2 DEF IInv, TypeOK, setup, Requested
<1>6. PortsAreOwn'
    BY <1>1, <1>2, <1>3 DEF IInv, PortsAreOwn
<1>7. CallsAreOwn'
  <2>1. \A t \in Threads : (Waits(t)' <=> Waits(t)) /\ (IsRpc(waiting[t].item)' <=> IsRpc(waiting[t].item))
      BY <1>1 DEF Waits, IsRpc, StubOf
  <2>2. \A m \in Pending' : m.of \in (1 .. calls') \ performed'
      BY <1>1, <1>2 DEF IInv, CallsAreOwn
  <2>3. performed' \subseteq 1 .. calls'
      BY <1>1, <1>4 DEF IInv, CallsAreOwn
  <2> QED BY <1>1, <2>1, <2>2, <2>3 DEF IInv, CallsAreOwn
<1>8. OneMessage'
  <2>1. \A t \in Threads : Waits(t)' <=> Waits(t)
      BY <1>1 DEF Waits
  <2>2. ASSUME NEW t \in Threads, port[t] # None, r.to = port[t]
        PROVE  /\ Waits(t) /\ r.of = waiting[t].call
               /\ \A o \in Pending' : o.to # port[t]
               /\ \A o \in mail : o.to # port[t]
    <3> DEFINE q == held
    <3>0. q \in Pending /\ q.to = port[t] /\ port[t] # None
        BY <1>2, <2>2
    <3> HIDE DEF q
    <3>1. Waits(t) /\ q.of = waiting[t].call
        BY <3>0 DEF IInv, OneMessage
    <3>2. \A o \in Pending : o.to = port[t] => o.of = q.of
        BY <3>0, <3>1 DEF IInv, OneMessage
    <3>3. \A o \in mail : o.to # port[t]
        BY <3>0 DEF IInv, OneMessage
    <3> QED BY <1>2, <3>1, <3>2, <3>3 DEF q
  <2> QED BY <1>1, <1>2, <1>3, <2>1, <2>2 DEF IInv, OneMessage
<1>9. AnswersTrue'
    BY <1>3, <1>4 DEF IInv, AnswersTrue
<1>10. AnswersOwnCall'
    BY <1>1 DEF IInv, AnswersOwnCall
<1> QED BY <1>5, <1>6, <1>7, <1>8, <1>9, <1>10 DEF IInv

LEMMA RefuseKeeps == ASSUME IInv, NEW s, Refuse(s) PROVE IInv'
<1> DEFINE r == ErrorReply(held, "MIG_BAD_ID")
<1>1. held # None /\ Answer({r}) /\ performed' = performed
    BY DEF Refuse
<1>2. r.to = held.to /\ r.of = held.of /\ r.retCode = "MIG_BAD_ID"
    BY DEF ErrorReply
<1> HIDE DEF r
<1> QED BY <1>1, <1>2, AnswerKeeps

LEMMA RejectKeeps == ASSUME IInv, NEW s, Reject(s) PROVE IInv'
<1>1. PICK code : /\ code = Verdict(s, held) /\ code # "MACH_MSG_SUCCESS"
                  /\ Answer({ErrorReply(held, code)})
    BY DEF Reject
<1>2. held # None /\ performed' = performed
    BY DEF Reject
<1>3. code \notin {"KERN_SUCCESS", "KERN_FAILURE"}
    BY <1>1 DEF Verdict, CheckRequest
<1>4. PICK r : /\ r.to = held.to /\ r.of = held.of /\ r.retCode = code
               /\ Answer({r})
    BY <1>1 DEF ErrorReply
<1> QED BY <1>2, <1>3, <1>4, AnswerKeeps

LEMMA SucceedKeeps == ASSUME IInv, NEW s, Succeed(s) PROVE IInv'
<1>1. held # None /\ performed' = performed \cup {held.of}
    BY DEF Succeed, Performs, Accepted
<1>2. PICK n : Answer({SuccessReply(s, held, n)})
    BY DEF Succeed
<1>3. PICK r : r.to = held.to /\ r.of = held.of /\ Answer({r})
    BY <1>2 DEF SuccessReply
<1> QED BY <1>1, <1>3, AnswerKeeps

LEMMA FailKeeps == ASSUME IInv, NEW s, Fail(s) PROVE IInv'
<1>1. held # None /\ performed' = performed \cup {held.of}
    BY DEF Fail, Performs, Accepted
<1>2. PICK r : r.to = held.to /\ r.of = held.of /\ Answer({r})
    BY DEF Fail, ErrorReply
<1> QED BY <1>1, <1>2, AnswerKeeps

-----------------------------------------------------------------------------

LEMMA NextInv == IInv /\ [Next]_vars => IInv'
<1> SUFFICES ASSUME IInv, [Next]_vars PROVE IInv'
    OBVIOUS
<1>1. CASE Receive
    BY <1>1, TakeKeeps DEF Receive
<1>2. CASE Serve
    BY <1>2, RefuseKeeps, RejectKeeps, SucceedKeeps, FailKeeps, DieKeeps DEF Serve, Abort
<1>3. CASE Kill
    BY <1>3, DieKeeps DEF Kill
<1>4. ASSUME NEW t \in Threads, ClientStep(t) PROVE IInv'
    BY <1>4, CallTooLargeKeeps, CallRpcKeeps, CallSimpleKeeps, CallNotSentKeeps,
       ReceiveFailsKeeps, ReturnKeeps DEF ClientStep
<1>5. CASE UNCHANGED vars
    BY <1>5 DEF vars, setup, service, clients, IInv, TypeOK, PortsAreOwn, CallsAreOwn,
       OneMessage, AnswersTrue, AnswersOwnCall, Pending, Waits, Requested, IsRpc, StubOf
<1> QED BY <1>1, <1>2, <1>3, <1>4, <1>5 DEF Next

(* The inductive invariant: at most one message can reach a reply port, it *)
(* is of the call the port's owner waits for, and no call is performed     *)
(* while a request for it exists (mig_get_reply_port, mig_put_reply_port   *)
(* and mig_dealloc_reply_port around mach_msg in excUser.c).               *)
THEOREM Invariance == Spec => []IInv
<1>1. IInv /\ [Next]_vars => IInv'
    BY NextInv
<1> QED BY InitInv, <1>1, PTL DEF Spec

(* Every part of the system keeps its type, and threads never make more    *)
(* reply ports than calls.                                                 *)
THEOREM TypeCorrect == Spec => []TypeOK
BY Invariance, PTL DEF IInv

(* No call returns with the answer to another call.                        *)
THEOREM AnswersCorrect == Spec => []AnswersOwnCall
BY Invariance, PTL DEF IInv

-----------------------------------------------------------------------------
(* Nobody waits in vain. *)

(* The requests that exist, and what will end the wait of t. *)
Asked == {m \in inbox \cup {held} : m # None}

Wakes(t) ==
    \/ \E m \in mail : m.to = port[t]
    \/ up /\ \E m \in Asked : m.to = port[t] /\ m.right = "send_once"

LEMMA WakesWaiting == NobodyWaitsInVain <=> \A t \in Threads : Waits(t) => Wakes(t)
<1>1. ASSUME NEW t \in Threads
      PROVE  Wakes(t) <=> \/ \E m \in mail : m.to = port[t]
                          \/ up /\ \E m \in inbox \cup {held} :
                                  m # None /\ m.to = port[t] /\ m.right = "send_once"
    BY DEF Wakes, Asked
<1> QED BY <1>1 DEF NobodyWaitsInVain, Waits

(* The request of a stub that waits carries the right to answer it.        *)
LEMMA SentRight ==
    ASSUME NEW item \in Menu, NEW p, NEW n, client \in Slices, IsRpc(item)
    PROVE  [Written(item) EXCEPT !.to = p, !.of = n].right = "send_once"
<1>1. Written(item) = Message(Stubs[client][item], item)
    BY DEF Written, Messages
<1>2. /\ DOMAIN Written(item) = {"item", "to", "of", "id", "right", "rights", "size", "words"}
      /\ Written(item)["right"] = StubOf(item).stub.right
    BY <1>1 DEF Message, StubOf
<1>3. StubOf(item).stub.right = "send_once"
    BY StubsAssumption DEF IsRpc, StubOf
<1> QED BY <1>2, <1>3

(* A thread that goes on waiting at its port keeps what will wake it, when *)
(* messages only come and no message to its port goes.                     *)
LEMMA WakesKept ==
    ASSUME NEW u \in Threads, Wakes(u), port'[u] = port[u], up' = up,
           Asked \subseteq Asked',
           \A m \in mail : m.to = port[u] => m \in mail'
    PROVE  Wakes(u)'
BY DEF Wakes

(* Other threads' calls and returns leave alone what a thread waits for.   *)
LEMMA ClientWakes ==
    ASSUME IInv, NobodyWaitsInVain, NEW t \in Threads, ClientStep(t),
           NEW u \in Threads, Waits(u)'
    PROVE  Wakes(u)'
<1>1. ASSUME NEW item \in Menu, CallRpc(t, item) PROVE Wakes(u)'
  <2> DEFINE m == [Written(item) EXCEPT !.to = port'[t], !.of = calls + 1]
  <2>1. /\ Begin(t) /\ GetReplyPort(t) /\ IsRpc(item) /\ up /\ up' = up
        /\ waiting' = [waiting EXCEPT ![t] = [call |-> calls + 1, item |-> item]]
        /\ inbox' = inbox \cup {m} /\ held' = held /\ mail' = mail
      BY <1>1 DEF CallRpc, Send
  <2>2. m.to = port'[t]
      BY SentFields DEF IInv, TypeOK
  <2>3. m.right = "send_once"
      BY <2>1, SentRight DEF IInv, TypeOK
  <2>7. m # None
    <3>1. port'[t] \in Ports /\ calls + 1 \in Calls /\ client \in Slices
        BY <2>1, NewCall, NewReplyPort DEF IInv, TypeOK
    <3> QED BY <3>1, NoneIsNoRequest DEF Written
  <2> HIDE DEF m
  <2>4. Asked \subseteq Asked' /\ m \in Asked'
      BY <2>1, <2>7 DEF Asked
  <2>5. CASE u = t
      BY <2>1, <2>2, <2>3, <2>4, <2>5 DEF Wakes
  <2>6. CASE u # t
    <3>1. Waits(u) /\ port'[u] = port[u]
        BY <2>1, <2>6, NewReplyPort DEF Waits, IInv, TypeOK
    <3> QED BY <2>1, <2>4, <3>1, WakesWaiting, WakesKept
  <2> QED BY <2>5, <2>6
<1>2. ASSUME NEW item \in Menu,
             CallTooLarge(t, item) \/ CallSimple(t, item) \/ CallNotSent(t, item)
      PROVE  Wakes(u)'
  <2>1. /\ waiting[t] = None /\ waiting' = waiting /\ up' = up /\ mail' = mail
        /\ held' = held /\ inbox \subseteq inbox'
      BY <1>2 DEF CallTooLarge, CallSimple, CallNotSent, EndsAtOnce, Begin, service, Send
  <2>2. \A v \in Threads \ {t} : port'[v] = port[v]
      BY <1>2 DEF CallTooLarge, CallSimple, CallNotSent, GetReplyPort, IInv, TypeOK
  <2>3. u # t /\ Waits(u) /\ Asked \subseteq Asked'
      BY <2>1 DEF Waits, Asked
  <2> QED BY <2>1, <2>2, <2>3, WakesWaiting, WakesKept
<1>3. CASE ReceiveFails(t) \/ Return(t)
  <2>1. /\ Waits(t) /\ waiting' = [waiting EXCEPT ![t] = None]
        /\ up' = up /\ inbox' = inbox /\ held' = held
      BY <1>3 DEF ReceiveFails, Return, Ends, Waits, service
  <2>2. u # t /\ Waits(u) /\ port[u] # None /\ port[u] # port[t]
      BY <2>1 DEF Waits, IInv, TypeOK, CallsAreOwn, PortsAreOwn
  <2>3. /\ port' = port \/ port' = [port EXCEPT ![t] = None]
        /\ \A m \in mail : m.to # port[t] => m \in mail'
      BY <1>3 DEF ReceiveFails, Return, GiveUp
  <2>4. port'[u] = port[u]
      BY <2>2, <2>3 DEF IInv, TypeOK
  <2>5. Asked' = Asked
      BY <2>1 DEF Asked
  <2> QED BY <2>1, <2>2, <2>3, <2>4, <2>5, WakesWaiting, WakesKept
<1> QED BY <1>1, <1>2, <1>3 DEF ClientStep

(* When requests are dropped, by choice or with the server, the kernel's   *)
(* word wakes those that waited for them.                                  *)
LEMMA DroppedWakes ==
    ASSUME IInv, NEW S, Asked \ S \subseteq Asked',
           mail' = mail \cup Notified(S), up' = up \/ Asked \subseteq S,
           UNCHANGED clients,
           NEW u \in Threads, Waits(u), Wakes(u)
    PROVE  Wakes(u)'
<1>1. port' = port /\ port[u] # None
    BY DEF clients, IInv, CallsAreOwn
<1>2. CASE \E m \in mail : m.to = port[u]
    BY <1>1, <1>2 DEF Wakes
<1>3. ASSUME NEW m \in S, m.to = port[u], m.right = "send_once"
      PROVE  Wakes(u)'
  <2>1. SendOnceNotification(m) \in Notified(S) /\ SendOnceNotification(m).to = port[u]
      BY <1>1, <1>3 DEF Notified, Delivered, Alive, SendOnceNotification
  <2> QED BY <1>1, <2>1 DEF Wakes
<1>4. ASSUME up, NEW m \in Asked \ S, m.to = port[u], m.right = "send_once"
      PROVE  Wakes(u)'
  <2>1. up' = up /\ m \in Asked'
      BY <1>4
  <2> QED BY <1>1, <1>4, <2>1 DEF Wakes
<1> QED BY <1>2, <1>3, <1>4 DEF Wakes

(* An answer wakes the thread whose request it answers.                    *)
LEMMA AnsweredWakes ==
    ASSUME IInv, held # None, NEW r, r.to = held.to, Answer({r}),
           NEW u \in Threads, Waits(u), Wakes(u)
    PROVE  Wakes(u)'
<1>1. /\ port' = port /\ up' = up /\ port[u] # None
      /\ \A m \in Asked : m = held \/ m \in Asked'
      /\ mail' = mail \cup Delivered({r})
    BY DEF Answer, clients, Asked, IInv, CallsAreOwn
<1>2. CASE r.to = port[u]
  <2>1. r \in mail'
      BY <1>1, <1>2 DEF Delivered, Alive
  <2> QED BY <1>1, <1>2, <2>1 DEF Wakes
<1>3. CASE r.to # port[u]
    BY <1>1, <1>3 DEF Wakes
<1> QED BY <1>2, <1>3

LEMMA ServerWakes ==
    ASSUME IInv, NobodyWaitsInVain, Receive \/ Serve \/ Kill,
           NEW u \in Threads, Waits(u)'
    PROVE  Wakes(u)'
<1>1. ASSUME UNCHANGED clients PROVE Waits(u) /\ Wakes(u)
    BY <1>1, WakesWaiting DEF clients, Waits
<1>2. ASSUME NEW s, Take(s) PROVE Wakes(u)'
  <2>1. PICK m \in inbox :
            /\ inbox' = inbox \ {m}
            /\ \/ mail' = mail \cup Notified({m}) /\ held' = None
               \/ mail' = mail /\ held' = m
      BY <1>2 DEF Take
  <2>2. held = None /\ up' = up /\ UNCHANGED clients
      BY <1>2 DEF Take
  <2>3. CASE mail' = mail \cup Notified({m}) /\ held' = None
    <3>1. Asked \ {m} \subseteq Asked'
        BY <2>1, <2>2 DEF Asked
    <3> QED BY <1>1, <2>2, <2>3, <3>1, DroppedWakes
  <2>4. CASE mail' = mail /\ held' = m
    <3>1. Asked \subseteq Asked'
        BY <2>1, <2>2, <2>4 DEF Asked
    <3> QED BY <1>1, <2>2, <2>4, <3>1, WakesKept DEF clients
  <2> QED BY <2>1, <2>3, <2>4
<1>3. CASE Die
  <2> DEFINE S == inbox \cup (IF held = None THEN {} ELSE {held})
  <2>1. mail' = mail \cup Notified(S) /\ UNCHANGED clients
      BY <1>3 DEF Die
  <2>2. Asked \subseteq S
      BY DEF Asked
  <2> HIDE DEF S
  <2> QED BY <1>1, <2>1, <2>2, DroppedWakes
<1>4. ASSUME NEW s, Refuse(s) \/ Reject(s) \/ Succeed(s) \/ Fail(s) PROVE Wakes(u)'
  <2>1. held # None
      BY <1>4 DEF Refuse, Reject, Succeed, Fail, Performs, Accepted
  <2>2. \E r : r.to = held.to /\ Answer({r})
      BY <1>4 DEF Refuse, Reject, Succeed, Fail, ErrorReply, SuccessReply
  <2>3. UNCHANGED clients
      BY <2>2 DEF Answer
  <2> QED BY <1>1, <2>1, <2>2, <2>3, AnsweredWakes
<1> QED BY <1>2, <1>3, <1>4 DEF Receive, Serve, Abort, Kill

(* For every thread in mach_msg there is an answer or a request with a     *)
(* send-once right at a living server (excUser.c:340): what remains for    *)
(* EveryCallReturns is that Mach delivers and the server keeps serving.    *)
THEOREM WaitsCorrect == Spec => []NobodyWaitsInVain
<1>1. Init => NobodyWaitsInVain
    BY DEF Init, NobodyWaitsInVain
<1>2. IInv /\ NobodyWaitsInVain /\ [Next]_vars => NobodyWaitsInVain'
  <2> SUFFICES ASSUME IInv, NobodyWaitsInVain, [Next]_vars PROVE NobodyWaitsInVain'
      OBVIOUS
  <2>1. ASSUME NEW u \in Threads, Waits(u)' PROVE Wakes(u)'
    <3>1. CASE UNCHANGED vars
      <4>1. Waits(u) /\ Wakes(u)
          BY <2>1, <3>1, WakesWaiting DEF vars, clients, Waits
      <4> QED BY <3>1, <4>1 DEF vars, clients, service, Wakes, Asked
    <3> QED BY <2>1, <3>1, ClientWakes, ServerWakes DEF Next
  <2>2. ASSUME NEW u \in Threads, waiting'[u] # None
        PROVE  (\/ \E m \in mail : m.to = port[u]
                \/ up /\ \E m \in inbox \cup {held} :
                        m # None /\ m.to = port[u] /\ m.right = "send_once")'
      BY <2>1, <2>2 DEF Waits, Wakes, Asked
  <2> QED BY <2>2 DEF NobodyWaitsInVain
<1> QED BY Invariance, <1>1, <1>2, PTL DEF Spec

-----------------------------------------------------------------------------
(* The refinement: every step over ports and messages is one of RemoteCall *)
(* or leaves what callers see alone.                                       *)

Outcomes == [c \in Calls |-> Seen(c)]

(* The end of one call changes what is seen of that call only. *)
LEMMA OneEnds ==
    ASSUME IInv, NEW c \in Calls, result[c] = None,
           NEW of, NEW got, NEW meant,
           result' = [result EXCEPT ![c] = [of |-> of, got |-> got, meant |-> meant]]
    PROVE  /\ Outcomes[c] = "open"
           /\ \/ Outcomes' = Outcomes
              \/ Outcomes' = [Outcomes EXCEPT ![c] = "failed"]
              \/ /\ Outcomes' = [Outcomes EXCEPT ![c] = "done"]
                 /\ got[1] \in {"KERN_SUCCESS", "KERN_FAILURE"}
<1>1. /\ DOMAIN result = Calls
      /\ result'[c].got = got
      /\ \A d \in Calls : d # c => result'[d] = result[d]
    BY DEF IInv, TypeOK
<1>2. Seen(c) = "open" /\ \A d \in Calls : d # c => Seen(d)' = Seen(d)
    BY <1>1 DEF Seen
<1>3. \/ Seen(c)' = "open"
      \/ Seen(c)' = "failed"
      \/ Seen(c)' = "done" /\ got[1] \in {"KERN_SUCCESS", "KERN_FAILURE"}
    BY <1>1 DEF Seen
<1>4. Outcomes' = [Outcomes EXCEPT ![c] = Seen(c)'] /\ Outcomes[c] = "open"
    BY <1>2 DEF Outcomes
<1>5. Outcomes = [Outcomes EXCEPT ![c] = "open"]
    BY <1>2 DEF Outcomes
<1> QED BY <1>3, <1>4, <1>5

(* Only an implementation's own answer is returned as one. *)
LEMMA OutcomeTrue ==
    ASSUME IInv, NEW t \in Threads, Waits(t), NEW m \in mail, m.to = port[t],
           Outcome(StubOf(waiting[t].item), m)[1] \in {"KERN_SUCCESS", "KERN_FAILURE"}
    PROVE  waiting[t].call \in performed
<1> DEFINE r == StubOf(waiting[t].item)
<1>1. r.result.id # MACH_NOTIFY_SEND_ONCE
    BY ReceiveErrors
<1>2. CheckReply(r, m) \in {"KERN_SUCCESS", "KERN_FAILURE"}
    BY DEF Outcome
<1> HIDE DEF r
<1>3. m.id = r.result.id /\ m.retCode \in {"KERN_SUCCESS", "KERN_FAILURE"}
    BY <1>2 DEF CheckReply
<1>4. m.of # None /\ m.of \in performed
    BY <1>1, <1>3 DEF IInv, AnswersTrue
<1>5. port[t] # None
    BY DEF IInv, CallsAreOwn
<1>6. m.of = waiting[t].call
    BY <1>4, <1>5 DEF IInv, OneMessage
<1> QED BY <1>4, <1>6

LEMMA InitRefines == Init => Abstract!Init
<1> SUFFICES ASSUME Init PROVE Abstract!Init
    OBVIOUS
<1>1. \A c \in Calls : Seen(c) = "open"
    BY DEF Init, Seen
<1> QED BY <1>1 DEF Init, Abstract!Init, Abstract!Calls, Calls

LEMMA EndsAtOnceRefines ==
    ASSUME IInv, NEW t \in Threads, NEW status, EndsAtOnce(t, status),
           status \notin {"KERN_SUCCESS", "KERN_FAILURE"}, performed' = performed
    PROVE  Abstract!Next
<1>1. Begin(t) /\ result' = [result EXCEPT ![calls + 1] =
                                [of |-> None, got |-> <<status, None>>, meant |-> None]]
    BY DEF EndsAtOnce
<1>2. calls + 1 \in Calls /\ result[calls + 1] = None /\ calls < MaxCalls /\ calls' = calls + 1
    BY <1>1, NewCall DEF Begin
<1>3. \/ Outcomes' = Outcomes
      \/ Outcomes' = [Outcomes EXCEPT ![calls + 1] = "failed"]
  <2>1. PICK c \in Calls : c = calls + 1
      BY <1>2
  <2>2. PICK got : got = <<status, None>>
      OBVIOUS
  <2>3. got[1] \notin {"KERN_SUCCESS", "KERN_FAILURE"}
      BY <2>2
  <2> QED BY <1>1, <1>2, <2>1, <2>2, <2>3, OneEnds
<1> QED BY <1>2, <1>3 DEF Abstract!Next, Abstract!Ask, Abstract!AskInVain, Outcomes

LEMMA CallRpcRefines ==
    ASSUME IInv, NEW t \in Threads, NEW item \in Menu, CallRpc(t, item)
    PROVE  Abstract!Next
<1>1. calls < MaxCalls /\ calls' = calls + 1 /\ performed' = performed /\ result' = result
    BY DEF CallRpc, Begin
<1>2. Outcomes' = Outcomes
    BY <1>1 DEF Outcomes, Seen
<1> QED BY <1>1, <1>2 DEF Abstract!Next, Abstract!Ask, Outcomes

LEMMA EndsRefines ==
    ASSUME IInv, NEW t \in Threads, Waits(t), NEW of, NEW got, NEW meant,
           Ends(t, of, got, meant), performed' = performed,
           got[1] \in {"KERN_SUCCESS", "KERN_FAILURE"} => waiting[t].call \in performed
    PROVE  Abstract!Next \/ UNCHANGED <<calls, performed, Outcomes>>
<1>0. /\ waiting[t].call \in Calls /\ waiting[t].call <= calls
      /\ result[waiting[t].call] = None
  <2>1. waiting[t].call \in Calls /\ calls \in Nat
      BY CallsAssumption DEF IInv, TypeOK, Waits
  <2>2. waiting[t].call \in 1 .. calls /\ result[waiting[t].call] = None
      BY DEF IInv, CallsAreOwn
  <2> QED BY <2>1, <2>2
<1>1. PICK c \in Calls :
          /\ c = waiting[t].call /\ c <= calls /\ result[c] = None
          /\ result' = [result EXCEPT ![c] = [of |-> of, got |-> got, meant |-> meant]]
  <2> DEFINE c == waiting[t].call
  <2>1. result' = [result EXCEPT ![c] = [of |-> of, got |-> got, meant |-> meant]]
      BY DEF Ends
  <2> QED BY <1>0, <2>1
<1>2. calls' = calls
    BY DEF Ends
<1>3. /\ Outcomes[c] = "open"
      /\ \/ Outcomes' = Outcomes
         \/ Outcomes' = [Outcomes EXCEPT ![c] = "failed"]
         \/ Outcomes' = [Outcomes EXCEPT ![c] = "done"] /\ c \in performed
    BY <1>1, OneEnds
<1> QED BY <1>1, <1>2, <1>3 DEF Abstract!Next, Abstract!Fail, Abstract!Return, Abstract!Calls,
                               Calls, Outcomes

LEMMA PerformsRefines ==
    ASSUME IInv, NEW s, Performs(s), UNCHANGED clients
    PROVE  Abstract!Next
<1>1. /\ held \in Pending /\ performed' = performed \cup {held.of}
      /\ calls' = calls /\ result' = result
    BY DEF Performs, Accepted, Pending, clients
<1>2. held.of \in Calls /\ held.of <= calls /\ held.of \notin performed
    BY <1>1, CallsAssumption DEF IInv, TypeOK, CallsAreOwn, Calls
<1>3. Outcomes' = Outcomes
    BY <1>1 DEF Outcomes, Seen
<1> QED BY <1>1, <1>2, <1>3 DEF Abstract!Next, Abstract!Perform, Abstract!Calls, Calls, Outcomes

LEMMA NextRefines == IInv /\ [Next]_vars => [Abstract!Next]_Abstract!vars
<1> SUFFICES ASSUME IInv, [Next]_vars
             PROVE  Abstract!Next \/ UNCHANGED <<calls, performed, Outcomes>>
    BY DEF Abstract!vars, Outcomes
<1>1. ASSUME UNCHANGED <<performed, clients>>
      PROVE  UNCHANGED <<calls, performed, Outcomes>>
    BY <1>1 DEF clients, Outcomes, Seen
<1>2. CASE Receive
    BY <1>1, <1>2 DEF Receive, Take
<1>3. ASSUME NEW s, Refuse(s) \/ Reject(s) \/ Abort(s) \/ Kill
      PROVE  UNCHANGED <<performed, clients>>
    BY <1>3 DEF Refuse, Reject, Abort, Kill, Die, Answer
<1>4. ASSUME NEW s, Succeed(s) \/ Fail(s)
      PROVE  Abstract!Next
  <2>1. Performs(s) /\ UNCHANGED clients
      BY <1>4 DEF Succeed, Fail, Answer
  <2> QED BY <2>1, PerformsRefines
<1>5. CASE Serve \/ Kill
    BY <1>1, <1>3, <1>4, <1>5 DEF Serve
<1>6. ASSUME NEW t \in Threads, NEW item \in Menu,
             CallTooLarge(t, item) \/ CallSimple(t, item) \/ CallNotSent(t, item)
      PROVE  Abstract!Next
  <2>1. PICK status : EndsAtOnce(t, status) /\ status \notin {"KERN_SUCCESS", "KERN_FAILURE"}
      BY <1>6 DEF CallTooLarge, CallSimple, CallNotSent, SendErrors
  <2>2. performed' = performed
      BY <1>6 DEF CallTooLarge, CallSimple, CallNotSent, service
  <2> QED BY <2>1, <2>2, EndsAtOnceRefines
<1>7. ASSUME NEW t \in Threads, ReceiveFails(t)
      PROVE  Abstract!Next \/ UNCHANGED <<calls, performed, Outcomes>>
  <2>1. PICK got : Ends(t, None, got, None) /\ got[1] = "MACH_RCV_BODY_ERROR"
      BY <1>7 DEF ReceiveFails
  <2>2. Waits(t) /\ performed' = performed
      BY <1>7 DEF ReceiveFails, Waits, service
  <2> QED BY <2>1, <2>2, EndsRefines
<1>8. ASSUME NEW t \in Threads, Return(t)
      PROVE  Abstract!Next \/ UNCHANGED <<calls, performed, Outcomes>>
  <2>1. Waits(t) /\ performed' = performed
      BY <1>8 DEF Return, Waits, service
  <2>2. PICK m \in mail :
            m.to = port[t] /\ Ends(t, m.of, Outcome(StubOf(waiting[t].item), m), m.meant)
      BY <1>8 DEF Return
  <2>3. PICK of, got, meant : /\ got = Outcome(StubOf(waiting[t].item), m)
                              /\ Ends(t, of, got, meant)
      BY <2>2
  <2>4. got[1] \in {"KERN_SUCCESS", "KERN_FAILURE"} => waiting[t].call \in performed
      BY <2>1, <2>2, <2>3, OutcomeTrue
  <2> QED BY <2>1, <2>3, <2>4, EndsRefines
<1>9. ASSUME NEW t \in Threads, ClientStep(t)
      PROVE  Abstract!Next \/ UNCHANGED <<calls, performed, Outcomes>>
    BY <1>6, <1>7, <1>8, <1>9, CallRpcRefines DEF ClientStep
<1>10. CASE UNCHANGED vars
    BY <1>1, <1>10 DEF vars, service
<1> QED BY <1>2, <1>5, <1>9, <1>10 DEF Next

(* The stubs over ports and messages implement RemoteCall: a call is       *)
(* performed at most once, and returns its own outcome or a failure.       *)
THEOREM RemoteCallImplemented == Spec => ImplementsRemoteCall
<1>1. Init => Abstract!Init
    BY InitRefines
<1>2. IInv /\ [Next]_vars => [Abstract!Next]_Abstract!vars
    BY NextRefines
<1> QED BY <1>1, <1>2, Invariance, PTL DEF Spec, ImplementsRemoteCall, Abstract!Spec
=============================================================================

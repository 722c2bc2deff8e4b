---------------------------- MODULE DeviceProofs ----------------------------
(***************************************************************************)
(* The devices and the kernel's use of them, for any delays, any geometry  *)
(* of the disk, any number of threads and requests and any input: no       *)
(* interrupt is called late, no assertion of the device emulation fails,   *)
(* the console and the post office keep what passes through them in order, *)
(* and an acknowledgement means that the message was received.             *)
(***************************************************************************)
EXTENDS DeviceLemmas

(***************************************************************************)
(* The network test.  The inductive invariant: one packet at a time passes *)
(* from the device to the post office, and what a machine has received     *)
(* follows from how far the other one is.                                  *)
(***************************************************************************)
Message(h) == Packet(h, Far(h), 0, 1)       \* what h is sent first
Ack(h) == Packet(h, Far(h), 1, 1)           \* what answers the message of h
Packets(h) == {Message(h), Ack(h)}

\* Where the main thread is: it has sent, has received, has acknowledged.
Acked == {"AckP", "Receive1", "done"}
Received == {"Ack", "AckP", "Receive1", "done"}
Sent == {"SendP", "Receive0", "Ack", "AckP", "Receive1", "done"}

NetRecords(h) ==
    [state : {"off", "up", "halted"}, socket : Seq(Packets(h)), inHdr : Seq(Packets(h)),
     avail : Nat, sent : Nat, letter : Seq(Packets(h)), worker : {"P", "Receive", "Put"},
     boxes : [{0, 1} -> Seq(Packets(h))], pc : {"Send"} \cup Sent, tries : Nat,
     in : Packets(h) \cup {Packet(h, h, 0, 0)}, lost : BOOLEAN,
     wire : Seq(Packets(h)), put : Seq(Packets(h))]

\* One packet at a time is between the device and the post office.
Handover(n) ==
    /\ n.inHdr = <<>> \/ Len(n.inHdr) = 1
    /\ n.avail <= 1
    /\ n.avail = 1 => n.worker # "Receive"
    /\ n.avail = 1 \/ n.worker = "Receive" <=> n.inHdr # <<>>
    /\ n.worker = "Put" => Len(n.letter) = 1
    /\ n.worker # "Put" => n.letter = <<>>

InOrder(n) == n.wire = n.put \o n.letter \o n.inHdr \o n.socket

Holds(list, p) == \E i \in 1 .. Len(list) : list[i] = p
Once(list, p) == \A i, j \in 1 .. Len(list) : list[i] = p /\ list[j] = p => i = j
Alone(list, p) == Len(list) <= 1 /\ \A i \in 1 .. Len(list) : list[i] = p

\* Every packet that n, of h, has from the other machine was sent where that one's thread
\* is by now: its message once, and its acknowledgement after it has received.
Exchange(n, far, h) ==
    /\ Once(n.wire, Message(h))
    /\ Holds(n.wire, Message(h)) => far \in Sent
    /\ Holds(n.wire, Ack(h)) => far \in Acked
    /\ Alone(n.boxes[0], Message(h))
    /\ n.boxes[0] # <<>> => Holds(n.put, Message(h)) /\ n.pc \notin Received
    /\ n.boxes[1] # <<>> => Holds(n.put, Ack(h))
    /\ n.pc \in Received => Holds(n.put, Message(h))
    /\ n.pc = "Ack" => n.in = Message(h)
    /\ n.pc = "done" => far \in Acked

\* One machine, when the main thread of the other is at far.
NodeOK(n, far, h) ==
    n \in NetRecords(h) /\ Handover(n) /\ InOrder(n) /\ Exchange(n, far, h)

NetworkInv ==
    /\ DOMAIN net = Hosts
    /\ \A h \in Hosts : NodeOK(net[h], net[Far(h)].pc, h)
    /\ MachinesOK(Hosts, {})
    /\ ~aborted

\* The other machine of each.
LEMMA FarHost ==
    ASSUME NEW h \in Hosts
    PROVE  Far(h) \in Hosts /\ Far(h) # h /\ Far(Far(h)) = h
           /\ \A g \in Hosts : g = h \/ g = Far(h)
  BY DEF Hosts, Far

\* What is on the two packets.
LEMMA PacketFields ==
    ASSUME NEW h \in Hosts
    PROVE  /\ Message(h) # Ack(h)
           /\ Message(h).to = h /\ Message(h).box = 0
           /\ Message(h).from = Far(h) /\ Message(h).reply = 1
           /\ Ack(h).to = h /\ Ack(h).box = 1
           /\ Message(h) \in Packets(h) /\ Ack(h) \in Packets(h)
  BY DEF Message, Ack, Packet, Packets

\* Nothing has been sent.
LEMMA NetworkStarts == NetworkInit => NetworkInv
<1> SUFFICES ASSUME NetworkInit PROVE NetworkInv
  OBVIOUS
<1> DEFINE e == PendingInterrupt("NetworkRecvInt", NetworkTime)
<1>1. e \in Entries /\ e.due > 0
  BY DeviceConstants, NewEntry DEF Types
<1>2. Interrupt(Hosts, <<e>>)
  BY DEF NetworkInit, NetworkInput
<1> HIDE DEF e
<1>3. MachinesOK(Hosts, {}) /\ ~aborted
  BY <1>1, <1>2, Started
<1> DEFINE first(h) ==
        [state |-> "off", socket |-> <<>>, inHdr |-> <<>>,
         avail |-> 0, sent |-> 0, letter |-> <<>>, worker |-> "P",
         boxes |-> [b \in {0, 1} |-> <<>>], pc |-> "Send", tries |-> 0,
         in |-> Packet(h, h, 0, 0), lost |-> FALSE, wire |-> <<>>, put |-> <<>>]
<1>4. net = [h \in Hosts |-> first(h)]
  BY DEF NetworkInit
<1>5. ASSUME NEW h \in Hosts PROVE NodeOK(net[h], net[Far(h)].pc, h)
  <2> DEFINE n == first(h)
  <2>1. /\ n.socket = <<>> /\ n.inHdr = <<>> /\ n.letter = <<>> /\ n.wire = <<>> /\ n.put = <<>>
        /\ n.avail = 0 /\ n.worker = "P" /\ n.boxes = [b \in {0, 1} |-> <<>>] /\ n.pc = "Send"
    OBVIOUS
  <2>2. n \in NetRecords(h)
    <3>1. <<>> \in Seq(Packets(h))
      OBVIOUS
    <3>2. [b \in {0, 1} |-> <<>>] \in [{0, 1} -> Seq(Packets(h))]
      BY <3>1
    <3> QED
      BY <3>1, <3>2, Zenon DEF NetRecords
  <2>3. net[h] = n
    BY <1>4
  <2> HIDE DEF n, first
  <2>4. <<>> \o <<>> = <<>>
    BY ConcatEmpty
  <2>5. Handover(n) /\ InOrder(n)
    BY <2>1, <2>4 DEF Handover, InOrder
  <2>6. n.boxes[0] = <<>> /\ n.boxes[1] = <<>>
    BY <2>1
  <2>7. Exchange(n, net[Far(h)].pc, h)
    BY <2>1, <2>6 DEF Exchange, Holds, Once, Alone, Received
  <2> QED
    BY <2>2, <2>3, <2>5, <2>7 DEF NodeOK
<1> QED
  BY <1>3, <1>4, <1>5, Zenon DEF NetworkInv

\* The main thread goes on.
Onward(p, q) == (p \in Sent => q \in Sent) /\ (p \in Acked => q \in Acked)

\* Only h has changed.
OnlyNode(h) == DOMAIN net' = Hosts /\ net'[Far(h)] = net[Far(h)]

\* What the other machine has received still follows.
LEMMA FarGoesOn ==
    ASSUME NEW n, NEW p, NEW q, NEW h, NodeOK(n, p, h), Onward(p, q)
    PROVE  NodeOK(n, q, h)
  BY Zenon DEF NodeOK, Exchange, Onward

\* A step of one machine, the interrupts apart.
LEMMA OneNode ==
    ASSUME NetworkInv, NEW h \in Hosts, OnlyNode(h),
           NodeOK(net'[h], net[Far(h)].pc, h), Onward(net[h].pc, net'[h].pc),
           MachinesOK(Hosts, {})', ~aborted'
    PROVE  NetworkInv'
<1>1. Far(h) \in Hosts /\ Far(Far(h)) = h /\ \A g \in Hosts : g = h \/ g = Far(h)
  BY FarHost
<1>2. NodeOK(net[Far(h)], net[h].pc, Far(h))
  BY <1>1 DEF NetworkInv
<1>3. NodeOK(net[Far(h)], net'[h].pc, Far(h))
  BY <1>2, FarGoesOn
<1>4. NodeOK(net'[Far(h)], net'[Far(Far(h))].pc, Far(h))
  BY <1>1, <1>3 DEF OnlyNode
<1>5. NodeOK(net'[h], net'[Far(h)].pc, h)
  BY DEF OnlyNode
<1>6. \A g \in Hosts : NodeOK(net'[g], net'[Far(g)].pc, g)
  BY <1>1, <1>4, <1>5
<1>7. Far(h)' = Far(h) /\ \A g \in Hosts : Far(g)' = Far(g)
  BY DEF Far
<1> QED
  BY <1>6, Zenon DEF NetworkInv, OnlyNode

\* What does not depend on the fields that have changed.
LEMMA SameHandover ==
    ASSUME NEW n, NEW m, Handover(n), m.inHdr = n.inHdr, m.avail = n.avail,
           m.worker = n.worker, m.letter = n.letter
    PROVE  Handover(m)
  BY DEF Handover

LEMMA SameOrder ==
    ASSUME NEW n, NEW m, InOrder(n), m.wire = n.wire, m.put = n.put, m.letter = n.letter,
           m.inHdr = n.inHdr, m.socket = n.socket
    PROVE  InOrder(m)
  BY DEF InOrder

LEMMA SameExchange ==
    ASSUME NEW n, NEW m, NEW far, NEW h, Exchange(n, far, h),
           m.wire = n.wire, m.put = n.put, m.boxes = n.boxes, m.pc = n.pc, m.in = n.in
    PROVE  Exchange(m, far, h)
  BY Zenon DEF Exchange

\* The program starts, or ends: no packet moves.
LEMMA StateInv ==
    ASSUME NetworkInv, NEW h \in Hosts, NEW s \in {"up", "halted"},
           net' = [net EXCEPT ![h].state = s], UNCHANGED <<interruptVars, aborted>>
    PROVE  NetworkInv'
<1> DEFINE n == net[h]
           m == net'[h]
<1>0. NodeOK(n, net[Far(h)].pc, h) /\ DOMAIN net = Hosts /\ Far(h) # h /\ Far(h) \in Hosts
  BY FarHost DEF NetworkInv
<1>1. OnlyNode(h) /\ m = [n EXCEPT !.state = s]
  BY <1>0 DEF OnlyNode
<1>2. n \in NetRecords(h) /\ Handover(n) /\ InOrder(n) /\ Exchange(n, net[Far(h)].pc, h)
  BY <1>0 DEF NodeOK
<1> HIDE DEF m, n
<1>3. /\ m \in NetRecords(h)
      /\ m.socket = n.socket /\ m.inHdr = n.inHdr /\ m.avail = n.avail /\ m.letter = n.letter
      /\ m.worker = n.worker /\ m.boxes = n.boxes /\ m.pc = n.pc /\ m.in = n.in
      /\ m.wire = n.wire /\ m.put = n.put
  BY <1>1, <1>2, Zenon DEF NetRecords
<1>4. Handover(m) /\ InOrder(m) /\ Exchange(m, net[Far(h)].pc, h)
  BY <1>2, <1>3, SameHandover, SameOrder, SameExchange
<1>5. NodeOK(m, net[Far(h)].pc, h) /\ Onward(n.pc, m.pc)
  BY <1>3, <1>4 DEF NodeOK, Onward
<1>6. MachinesOK(Hosts, {})' /\ ~aborted'
  BY DEF NetworkInv, MachinesOK, interruptVars
<1> QED
  BY <1>1, <1>5, <1>6, OneNode DEF m, n

\* PostalDelivery returns from messageAvailable->P().
LEMMA DeliveryWaitInv ==
    ASSUME NetworkInv, NEW h \in Hosts, DeliveryWait(h)
    PROVE  NetworkInv'
<1> DEFINE n == net[h]
           m == net'[h]
<1>0. NodeOK(n, net[Far(h)].pc, h) /\ DOMAIN net = Hosts /\ Far(h) # h /\ Far(h) \in Hosts
  BY FarHost DEF NetworkInv
<1>1. /\ OnlyNode(h) /\ m = [n EXCEPT !.avail = @ - 1, !.worker = "Receive"]
      /\ n.worker = "P" /\ n.avail > 0 /\ UNCHANGED <<interruptVars, aborted>>
  BY <1>0 DEF OnlyNode, DeliveryWait
<1>2. n \in NetRecords(h) /\ Handover(n) /\ InOrder(n) /\ Exchange(n, net[Far(h)].pc, h)
  BY <1>0 DEF NodeOK
<1> HIDE DEF m, n
<1>3. n.avail = 1
  BY <1>1, <1>2 DEF NetRecords, Handover
<1>4. m = [n EXCEPT !.avail = 0, !.worker = "Receive"]
  BY <1>1, <1>3
<1>5. /\ m \in NetRecords(h) /\ m.avail = 0 /\ m.worker = "Receive"
      /\ m.socket = n.socket /\ m.inHdr = n.inHdr /\ m.letter = n.letter
      /\ m.boxes = n.boxes /\ m.pc = n.pc /\ m.in = n.in
      /\ m.wire = n.wire /\ m.put = n.put
  BY <1>2, <1>4, Zenon DEF NetRecords
<1>6. Handover(m)
  BY <1>1, <1>2, <1>3, <1>5 DEF Handover
<1>7. InOrder(m) /\ Exchange(m, net[Far(h)].pc, h)
  BY <1>2, <1>5, SameOrder, SameExchange
<1>8. NodeOK(m, net[Far(h)].pc, h) /\ Onward(n.pc, m.pc)
  BY <1>5, <1>6, <1>7 DEF NodeOK, Onward
<1>9. MachinesOK(Hosts, {})' /\ ~aborted'
  BY <1>1 DEF NetworkInv, MachinesOK, interruptVars
<1> QED
  BY <1>1, <1>8, <1>9, OneNode, Zenon DEF m, n

\* NetworkInput::CallBack polls again; a packet that it reads was for this machine.
LEMMA ReceiveCallBackInv ==
    ASSUME NetworkInv, NEW h \in Hosts, ReceiveCallBack(h)
    PROVE  NetworkInv'
<1> DEFINE n == net[h]
           m == net'[h]
           e == PendingInterrupt("NetworkRecvInt", NetworkTime)
           new == Insert(Tail(pending[h]), e)
<1>0. NodeOK(n, net[Far(h)].pc, h) /\ DOMAIN net = Hosts /\ Far(h) # h /\ Far(h) \in Hosts
  BY FarHost DEF NetworkInv
<1>1. MachinesOK(Hosts, {})'
  <2>1. e \in Entries /\ e.type = "NetworkRecvInt"
    BY DeviceConstants, NewEntry DEF Types
  <2>2. /\ inHandler[h] /\ pending[h][1].type = "NetworkRecvInt"
        /\ pending' = [pending EXCEPT ![h] = new]
        /\ inHandler' = [inHandler EXCEPT ![h] = IsDue(new)]
        /\ MachinesOK(Hosts, {})
    BY Zenon DEF ReceiveCallBack, Calls, CheckIfDue, Schedule, Rest, NetworkInv
  <2>3. new = Insert(Tail(pending[h]), e)
    OBVIOUS
  <2> HIDE DEF e, new
  <2> QED
    BY <2>1, <2>2, <2>3, HandledAgain, Zenon
<1>2. CASE UNCHANGED <<net, aborted>>
  BY <1>1, <1>2 DEF NetworkInv
<1>3. CASE /\ ~NoRoom(h) /\ PollSocket(h)
           /\ net' = PacketArrived(ReadFromSocket(net, h), h)
           /\ aborted' = (aborted \/ Head(net[h].socket).to # h)
  <2>1. n \in NetRecords(h) /\ Handover(n) /\ InOrder(n) /\ Exchange(n, net[Far(h)].pc, h)
    BY <1>0 DEF NodeOK
  <2>2. n.inHdr = <<>> /\ n.socket # <<>>
    BY <1>3 DEF NoRoom, PollSocket
  <2>3. /\ OnlyNode(h)
        /\ m = [[n EXCEPT !.inHdr = <<Head(n.socket)>>, !.socket = Tail(@)]
                   EXCEPT !.avail = @ + 1]
    BY <1>0, <1>3 DEF OnlyNode, PacketArrived, ReadFromSocket
  <2>4. ~aborted
    BY DEF NetworkInv
  <2> HIDE DEF m, n
  <2>5. /\ n.socket \in Seq(Packets(h)) /\ Head(n.socket) \in Packets(h)
        /\ Tail(n.socket) \in Seq(Packets(h)) /\ <<Head(n.socket)>> \in Seq(Packets(h))
        /\ n.put \in Seq(Packets(h)) /\ n.letter \in Seq(Packets(h))
    <3>1. /\ n.socket \in Seq(Packets(h)) /\ n.put \in Seq(Packets(h))
          /\ n.letter \in Seq(Packets(h))
      BY <2>1 DEF NetRecords
    <3> QED
      BY <2>2, <3>1, FirstAndRest
  <2>6. n.avail = 0 /\ n.worker # "Receive"
    <3>1. n.avail \in Nat
      BY <2>1 DEF NetRecords
    <3> QED
      BY <2>1, <2>2, <3>1 DEF Handover
  <2> DEFINE x == [n EXCEPT !.inHdr = <<Head(n.socket)>>, !.socket = Tail(@)]
  <2>7. /\ x \in NetRecords(h) /\ x.inHdr = <<Head(n.socket)>> /\ x.socket = Tail(n.socket)
        /\ x.letter = n.letter /\ x.worker = n.worker /\ x.boxes = n.boxes /\ x.pc = n.pc
        /\ x.in = n.in /\ x.wire = n.wire /\ x.put = n.put /\ x.avail = 0
    BY <2>1, <2>5, <2>6, Zenon DEF NetRecords
  <2>8. m = [x EXCEPT !.avail = @ + 1]
    BY <2>3
  <2> HIDE DEF x
  <2>9. m = [x EXCEPT !.avail = 1]
    BY <2>7, <2>8
  <2>10. m \in NetRecords(h) /\ m.avail = 1
    BY <2>7, <2>9, ZenonT(40) DEF NetRecords
  <2>11. /\ m.inHdr = <<Head(n.socket)>> /\ m.socket = Tail(n.socket)
         /\ m.letter = n.letter /\ m.worker = n.worker /\ m.boxes = n.boxes /\ m.pc = n.pc
         /\ m.in = n.in /\ m.wire = n.wire /\ m.put = n.put
    BY <2>7, <2>9 DEF NetRecords
  <2>12. Handover(m)
    <3>1. Len(m.inHdr) = 1 /\ m.inHdr # <<>>
      BY <2>11
    <3> QED
      BY <2>1, <2>6, <2>10, <2>11, <3>1 DEF Handover
  <2>13. InOrder(m)
    <3> DEFINE b == n.put \o n.letter
    <3>1. b \in Seq(Packets(h))
      BY <2>5, ConcatIs
    <3>2. n.wire = b \o <<>> \o n.socket
      BY <2>1, <2>2 DEF InOrder
    <3> HIDE DEF b
    <3>3. b \o <<>> = b /\ b \o <<Head(n.socket)>> \o Tail(n.socket) = b \o n.socket
      BY <2>2, <2>5, <3>1, ConcatEmpty, MoveFirst, Zenon
    <3>4. m.wire = b \o m.inHdr \o m.socket
      BY <2>11, <3>2, <3>3, Zenon
    <3> QED
      BY <2>11, <3>4 DEF InOrder, b
  <2>14. Exchange(m, net[Far(h)].pc, h)
    BY <2>1, <2>11, SameExchange
  <2>15. NodeOK(m, net[Far(h)].pc, h) /\ Onward(n.pc, m.pc)
    BY <2>10, <2>11, <2>12, <2>13, <2>14 DEF NodeOK, Onward
  <2>16. ~aborted'
    BY <1>3, <2>4, <2>5, PacketFields, Zenon DEF Packets, n
  <2> QED
    BY <1>1, <2>3, <2>15, <2>16, OneNode, Zenon DEF m, n
<1> QED
  BY <1>2, <1>3, Zenon DEF ReceiveCallBack

\* The number of sent packets, or nothing, changes.
LEMMA SentInv ==
    ASSUME NetworkInv, NEW h \in Hosts, NEW k \in Nat, net' = [net EXCEPT ![h].sent = k],
           MachinesOK(Hosts, {})', ~aborted'
    PROVE  NetworkInv'
<1> DEFINE n == net[h]
           m == net'[h]
<1>0. NodeOK(n, net[Far(h)].pc, h) /\ DOMAIN net = Hosts /\ Far(h) # h /\ Far(h) \in Hosts
  BY FarHost DEF NetworkInv
<1>1. OnlyNode(h) /\ m = [n EXCEPT !.sent = k]
  BY <1>0 DEF OnlyNode
<1>2. n \in NetRecords(h) /\ Handover(n) /\ InOrder(n) /\ Exchange(n, net[Far(h)].pc, h)
  BY <1>0 DEF NodeOK
<1> HIDE DEF m, n
<1>3. /\ m \in NetRecords(h)
      /\ m.socket = n.socket /\ m.inHdr = n.inHdr /\ m.avail = n.avail /\ m.letter = n.letter
      /\ m.worker = n.worker /\ m.boxes = n.boxes /\ m.pc = n.pc /\ m.in = n.in
      /\ m.wire = n.wire /\ m.put = n.put
  BY <1>1, <1>2, Zenon DEF NetRecords
<1>4. Handover(m) /\ InOrder(m) /\ Exchange(m, net[Far(h)].pc, h)
  BY <1>2, <1>3, SameHandover, SameOrder, SameExchange
<1>5. NodeOK(m, net[Far(h)].pc, h) /\ Onward(n.pc, m.pc)
  BY <1>3, <1>4 DEF NodeOK, Onward
<1> QED
  BY <1>1, <1>5, OneNode DEF m, n

\* NetworkOutput::CallBack
LEMMA SendCallBackInv ==
    ASSUME NetworkInv, NEW h \in Hosts, SendCallBack(h)
    PROVE  NetworkInv'
<1>1. /\ inHandler[h] /\ MachinesOK(Hosts, {}) /\ ~aborted'
      /\ pending' = [pending EXCEPT ![h] = Tail(pending[h])]
      /\ inHandler' = [inHandler EXCEPT ![h] = IsDue(Tail(pending[h]))]
  BY DEF SendCallBack, Calls, CheckIfDue, Rest, NetworkInv
<1>2. MachinesOK(Hosts, {})'
  BY <1>1, Handled, Zenon
<1>3. net[h].sent + 1 \in Nat
  <2>1. net[h] \in NetRecords(h)
    BY DEF NetworkInv, NodeOK
  <2>2. net[h].sent \in Nat
    BY <2>1 DEF NetRecords
  <2> QED
    BY <2>2
<1>4. net' = [net EXCEPT ![h].sent = net[h].sent + 1]
  BY DEF SendCallBack, PacketSent
<1> QED
  BY <1>1, <1>2, <1>3, <1>4, SentInv, Zenon

\* OneTick and Idle.
LEMMA NetworkTickInv ==
    ASSUME NetworkInv, NEW h \in Hosts, NetworkTick(h)
    PROVE  NetworkInv'
<1>1. \E k \in Int : Advance(h, k)
  <2>1. OneTick(h) => Advance(h, SystemTick) /\ SystemTick \in Int
    BY DeviceConstants DEF OneTick
  <2>2. Idle(h) => Advance(h, IdleTicks(h)) /\ IdleTicks(h) \in Int
    BY IdleAmount DEF NetworkInv, IdleTicks, Idle
  <2> QED
    BY <2>1, <2>2 DEF NetworkTick
<1>2. MachinesOK(Hosts, {})'
  BY <1>1, Advanced DEF NetworkInv
<1>3. UNCHANGED <<net, aborted>>
  BY DEF NetworkTick, networkVars
<1> QED
  BY <1>2, <1>3 DEF NetworkInv

\* What a list that is joined of two holds, and where.
LEMMA JoinParts ==
    ASSUME NEW S, NEW a \in Seq(S), NEW b \in Seq(S)
    PROVE  /\ a \o b \in Seq(S)
           /\ \A i \in 1 .. Len(a) : i \in 1 .. Len(a \o b) /\ (a \o b)[i] = a[i]
           /\ \A i \in 1 .. Len(b) : /\ Len(a) + i \in 1 .. Len(a \o b)
                                     /\ (a \o b)[Len(a) + i] = b[i]
<1> DEFINE w == a \o b
<1>1. /\ w \in Seq(S) /\ Len(w) = Len(a) + Len(b) /\ Len(a) \in Nat /\ Len(b) \in Nat
      /\ \A i \in 1 .. Len(a) + Len(b) : w[i] = IF i <= Len(a) THEN a[i] ELSE b[i - Len(a)]
  BY ConcatIs
<1> HIDE DEF w
<1>2. \A i \in 1 .. Len(a) : i \in 1 .. Len(w) /\ w[i] = a[i]
  BY <1>1
<1>3. ASSUME NEW i \in 1 .. Len(b)
      PROVE  Len(a) + i \in 1 .. Len(w) /\ w[Len(a) + i] = b[i]
  <2>1. /\ Len(a) + i \in 1 .. Len(a) + Len(b) /\ ~(Len(a) + i <= Len(a))
        /\ (Len(a) + i) - Len(a) = i
    BY <1>1
  <2> QED
    BY <1>1, <2>1
<1> QED
  BY <1>1, <1>2, <1>3 DEF w

\* The parts of what has reached the machine.
LEMMA WireParts ==
    ASSUME NEW h, NEW n \in NetRecords(h), InOrder(n)
    PROVE  /\ \A i \in 1 .. Len(n.put) : i \in 1 .. Len(n.wire) /\ n.wire[i] = n.put[i]
           /\ \A i \in 1 .. Len(n.letter) :
                 Len(n.put) + i \in 1 .. Len(n.wire) /\ n.wire[Len(n.put) + i] = n.letter[i]
<1> DEFINE p == n.put
           l == n.letter
           a == p \o l
           b == a \o n.inHdr
           w == b \o n.socket
<1>1. /\ p \in Seq(Packets(h)) /\ l \in Seq(Packets(h))
      /\ n.inHdr \in Seq(Packets(h)) /\ n.socket \in Seq(Packets(h))
  BY DEF NetRecords
<1>2. n.wire = w
  BY DEF InOrder
<1> HIDE DEF p, l
<1>3. /\ a \in Seq(Packets(h))
      /\ \A i \in 1 .. Len(p) : i \in 1 .. Len(a) /\ a[i] = p[i]
      /\ \A i \in 1 .. Len(l) : Len(p) + i \in 1 .. Len(a) /\ a[Len(p) + i] = l[i]
  BY <1>1, JoinParts
<1> HIDE DEF a
<1>4. /\ b \in Seq(Packets(h))
      /\ \A i \in 1 .. Len(a) : i \in 1 .. Len(b) /\ b[i] = a[i]
  BY <1>1, <1>3, JoinParts
<1> HIDE DEF b
<1>5. \A i \in 1 .. Len(b) : i \in 1 .. Len(w) /\ w[i] = b[i]
  BY <1>1, <1>4, JoinParts
<1> HIDE DEF w
<1>6. \A i \in 1 .. Len(p) : i \in 1 .. Len(w) /\ w[i] = p[i]
  BY <1>3, <1>4, <1>5
<1>7. \A i \in 1 .. Len(l) : Len(p) + i \in 1 .. Len(w) /\ w[Len(p) + i] = l[i]
  BY <1>3, <1>4, <1>5
<1> QED
  BY <1>2, <1>6, <1>7 DEF p, l

\* What a list holds when an element is added.
LEMMA AppendHolds ==
    ASSUME NEW S, NEW list \in Seq(S), NEW x \in S, NEW p
    PROVE  /\ Append(list, x) \in Seq(S) /\ Append(list, x) # <<>>
           /\ Holds(Append(list, x), p) <=> Holds(list, p) \/ x = p
<1>1. /\ Len(Append(list, x)) = Len(list) + 1 /\ Append(list, x) \in Seq(S)
      /\ \A i \in 1 .. Len(list) : Append(list, x)[i] = list[i]
      /\ Append(list, x)[Len(list) + 1] = x /\ Len(list) \in Nat
  OBVIOUS
<1>2. Append(list, x) # <<>>
  BY <1>1
<1> DEFINE a == Append(list, x)
<1>3. \A i \in 1 .. Len(a) : i \in 1 .. Len(list) \/ i = Len(list) + 1
  BY <1>1
<1>4. Len(list) + 1 \in 1 .. Len(a) /\ \A i \in 1 .. Len(list) : i \in 1 .. Len(a)
  BY <1>1
<1> HIDE DEF a
<1>5. \A i \in 1 .. Len(list) : a[i] = list[i]
  BY <1>1 DEF a
<1>6. a[Len(list) + 1] = x
  BY <1>1 DEF a
<1>7. Holds(a, p) <=> Holds(list, p) \/ x = p
  BY <1>3, <1>4, <1>5, <1>6 DEF Holds
<1> QED
  BY <1>1, <1>2, <1>7 DEF a

\* NetworkInput::Receive: there is a packet, for a mailbox that exists.
LEMMA DeliveryReceiveInv ==
    ASSUME NetworkInv, NEW h \in Hosts, DeliveryReceive(h)
    PROVE  NetworkInv'
<1> DEFINE n == net[h]
           m == net'[h]
<1>0. NodeOK(n, net[Far(h)].pc, h) /\ DOMAIN net = Hosts /\ Far(h) # h /\ Far(h) \in Hosts
  BY FarHost DEF NetworkInv
<1>1. /\ OnlyNode(h) /\ m = [n EXCEPT !.letter = n.inHdr, !.inHdr = <<>>, !.worker = "Put"]
      /\ n.worker = "Receive" /\ UNCHANGED interruptVars
  BY <1>0 DEF OnlyNode, DeliveryReceive
<1>2. n \in NetRecords(h) /\ Handover(n) /\ InOrder(n) /\ Exchange(n, net[Far(h)].pc, h)
  BY <1>0 DEF NodeOK
<1>3. ~aborted'
  <2>1. n.inHdr \in Seq(Packets(h)) /\ DOMAIN n.boxes = {0, 1}
    BY <1>2 DEF NetRecords
  <2>2. \A i \in DOMAIN n.inHdr : n.inHdr[i] \in Packets(h)
    BY <2>1
  <2>3. \A p \in Packets(h) : p.box \in DOMAIN n.boxes
    BY <2>1, PacketFields DEF Packets
  <2>4. n.inHdr # <<>>
    BY <1>1, <1>2 DEF Handover
  <2>5. ~\E p \in {n.inHdr[i] : i \in DOMAIN n.inHdr} : p.box \notin DOMAIN n.boxes
    BY <2>2, <2>3
  <2>6. ~aborted
    BY DEF NetworkInv
  <2> QED
    BY <2>4, <2>5, <2>6, Zenon DEF DeliveryReceive
<1> HIDE DEF m, n
<1>4. /\ n.avail = 0 /\ Len(n.inHdr) = 1 /\ n.letter = <<>> /\ n.inHdr # <<>>
      /\ n.inHdr \in Seq(Packets(h)) /\ n.put \in Seq(Packets(h))
  <2>1. n.avail \in Nat /\ n.inHdr \in Seq(Packets(h)) /\ n.put \in Seq(Packets(h))
    BY <1>2 DEF NetRecords
  <2>2. Handover(n) /\ n.worker = "Receive"
    BY <1>1, <1>2
  <2> QED
    BY <2>1, <2>2 DEF Handover
<1>5. /\ m \in NetRecords(h) /\ m.letter = n.inHdr /\ m.inHdr = <<>> /\ m.worker = "Put"
      /\ m.avail = n.avail /\ m.socket = n.socket
      /\ m.boxes = n.boxes /\ m.pc = n.pc /\ m.in = n.in /\ m.wire = n.wire /\ m.put = n.put
  <2>1. <<>> \in Seq(Packets(h))
    OBVIOUS
  <2> QED
    BY <1>1, <1>2, <1>4, <2>1, ZenonT(40) DEF NetRecords
<1>6. Handover(m)
  BY <1>4, <1>5 DEF Handover
<1>7. InOrder(m)
  <2>1. n.wire = n.put \o <<>> \o n.inHdr \o n.socket
    BY <1>2, <1>4 DEF InOrder
  <2>2. n.put \o <<>> = n.put
    BY <1>4, ConcatEmpty
  <2>3. n.put \o n.inHdr \in Seq(Packets(h))
    BY <1>4, ConcatIs
  <2>4. n.put \o n.inHdr \o <<>> = n.put \o n.inHdr
    BY <2>3, ConcatEmpty
  <2> QED
    BY <1>5, <2>1, <2>2, <2>4 DEF InOrder
<1>8. Exchange(m, net[Far(h)].pc, h)
  BY <1>2, <1>5, SameExchange
<1>9. NodeOK(m, net[Far(h)].pc, h) /\ Onward(n.pc, m.pc)
  BY <1>5, <1>6, <1>7, <1>8 DEF NodeOK, Onward
<1>10. MachinesOK(Hosts, {})'
  BY <1>1 DEF NetworkInv, MachinesOK, interruptVars
<1> QED
  BY <1>1, <1>3, <1>9, <1>10, OneNode, Zenon DEF m, n

\* The packet p is the first that has reached the machine and is in no mailbox.
FirstWaiting(n, p) ==
    /\ \A i \in 1 .. Len(n.put) : i \in 1 .. Len(n.wire) /\ n.wire[i] = n.put[i]
    /\ \A i \in 1 .. Len(n.put) : i # Len(n.put) + 1
    /\ Len(n.put) + 1 \in 1 .. Len(n.wire) /\ n.wire[Len(n.put) + 1] = p

\* MailBox::Put: the packet goes from the hands of PostalDelivery to its mailbox.
LEMMA DeliveryPutInv ==
    ASSUME NetworkInv, NEW h \in Hosts, DeliveryPut(h)
    PROVE  NetworkInv'
<1> DEFINE n == net[h]
           m == net'[h]
           far == net[Far(h)].pc
           p == n.letter[1]
           boxes == [n.boxes EXCEPT ![p.box] = Append(n.boxes[p.box], p)]
<1>0. NodeOK(n, far, h) /\ DOMAIN net = Hosts /\ Far(h) # h /\ Far(h) \in Hosts
  BY FarHost DEF NetworkInv
<1>1. /\ OnlyNode(h) /\ m = [n EXCEPT !.boxes = boxes, !.put = Append(n.put, p),
                                      !.letter = <<>>, !.worker = "P"]
      /\ n.worker = "Put" /\ UNCHANGED <<interruptVars, aborted>>
  BY <1>0, Zenon DEF OnlyNode, DeliveryPut
<1>2. n \in NetRecords(h) /\ Handover(n) /\ InOrder(n) /\ Exchange(n, far, h)
  BY <1>0 DEF NodeOK
<1> HIDE DEF m, n, far
<1>3. /\ n.letter \in Seq(Packets(h)) /\ n.put \in Seq(Packets(h)) /\ n.inHdr \in Seq(Packets(h))
      /\ n.boxes \in [{0, 1} -> Seq(Packets(h))]
  BY <1>2 DEF NetRecords
<1>4. Len(n.letter) = 1 /\ n.letter = <<p>> /\ p \in Packets(h)
  <2>1. Len(n.letter) = 1
    BY <1>1, <1>2 DEF Handover
  <2>2. n.letter = <<n.letter[1]>>
    BY <1>3, <2>1
  <2>3. n.letter[1] \in Packets(h)
    BY <1>3, <2>1
  <2> QED
    BY <2>1, <2>2, <2>3
<1>5. FirstWaiting(n, p)
  <2>1. 1 \in 1 .. Len(n.letter)
    BY <1>4
  <2> QED
    BY <1>2, <1>3, <2>1, WireParts DEF FirstWaiting
<1> HIDE DEF p
<1>6. /\ Append(n.put, p) \in Seq(Packets(h))
      /\ \A q : Holds(Append(n.put, p), q) <=> Holds(n.put, q) \/ p = q
  BY <1>3, <1>4, AppendHolds
<1>7. /\ boxes \in [{0, 1} -> Seq(Packets(h))]
      /\ p = Message(h) => boxes[0] = Append(n.boxes[0], p) /\ boxes[1] = n.boxes[1]
      /\ p = Ack(h) => boxes[1] = Append(n.boxes[1], p) /\ boxes[0] = n.boxes[0]
  <2>1. p.box \in {0, 1} /\ (p = Message(h) => p.box = 0) /\ (p = Ack(h) => p.box = 1)
    BY <1>4, PacketFields DEF Packets
  <2>2. n.boxes[p.box] \in Seq(Packets(h))
    BY <1>3, <2>1
  <2>3. Append(n.boxes[p.box], p) \in Seq(Packets(h))
    BY <1>4, <2>2
  <2> DEFINE new == Append(n.boxes[p.box], p)
             k == p.box
  <2>4. boxes = [n.boxes EXCEPT ![k] = new] /\ k \in {0, 1} /\ new \in Seq(Packets(h))
    BY <2>1, <2>3
  <2> HIDE DEF new, k, boxes
  <2>5. boxes \in [{0, 1} -> Seq(Packets(h))] /\ boxes[k] = new
        /\ \A j \in {0, 1} : j # k => boxes[j] = n.boxes[j]
    BY <1>3, <2>4
  <2> QED
    BY <2>1, <2>5, SMTT(30) DEF new, k
<1> HIDE DEF boxes
<1>8. /\ m \in NetRecords(h)
      /\ m.boxes = boxes /\ m.put = Append(n.put, p) /\ m.letter = <<>> /\ m.worker = "P"
      /\ m.inHdr = n.inHdr /\ m.avail = n.avail /\ m.socket = n.socket
      /\ m.pc = n.pc /\ m.in = n.in /\ m.wire = n.wire
  <2>1. <<>> \in Seq(Packets(h))
    OBVIOUS
  <2>2. Append(n.put, p) \in Seq(Packets(h)) /\ boxes \in [{0, 1} -> Seq(Packets(h))]
    BY <1>6, <1>7
  <2> QED
    BY <1>1, <1>2, <2>1, <2>2, Zenon DEF NetRecords
<1>9. Handover(m)
  <2>1. Handover(n) /\ n.worker = "Put"
    BY <1>1, <1>2
  <2> QED
    BY <1>8, <2>1 DEF Handover
<1>10. InOrder(m)
  <2>1. n.wire = n.put \o <<p>> \o n.inHdr \o n.socket
    BY <1>2, <1>4 DEF InOrder
  <2>2. n.put \o <<p>> = Append(n.put, p)
    BY <1>3, <1>4, AppendIs
  <2>3. Append(n.put, p) \o <<>> = Append(n.put, p)
    BY <1>6, ConcatEmpty
  <2> QED
    BY <1>8, <2>1, <2>2, <2>3, Zenon DEF InOrder
<1>11. Exchange(m, far, h)
  <2>0. Exchange(n, far, h)
    BY <1>2
  <2>1. /\ Once(m.wire, Message(h))
        /\ Holds(m.wire, Message(h)) => far \in Sent
        /\ Holds(m.wire, Ack(h)) => far \in Acked
        /\ m.pc = "Ack" => m.in = Message(h)
        /\ m.pc = "done" => far \in Acked
        /\ m.pc \in Received => Holds(m.put, Message(h))
    <3>1. m.wire = n.wire /\ m.pc = n.pc /\ m.in = n.in
      BY <1>8
    <3>2. Holds(n.put, Message(h)) => Holds(m.put, Message(h))
      BY <1>6, <1>8
    <3> QED
      BY <2>0, <3>1, <3>2 DEF Exchange
  <2>2. CASE p = Message(h)
    <3>1. ~Holds(n.put, Message(h))
      BY <1>5, <2>0, <2>2 DEF Exchange, FirstWaiting, Holds, Once
    <3>2. n.boxes[0] = <<>> /\ n.pc \notin Received /\ n.boxes[1] = m.boxes[1]
      BY <1>7, <1>8, <2>0, <2>2, <3>1 DEF Exchange
    <3>3. m.boxes[0] = Append(<<>>, p)
      BY <1>7, <1>8, <2>2, <3>2
    <3>4. Len(m.boxes[0]) = 1 /\ m.boxes[0][1] = Message(h)
      BY <2>2, <3>3
    <3>5. Alone(m.boxes[0], Message(h))
      BY <3>4 DEF Alone
    <3>6. Holds(m.put, Message(h)) /\ (Holds(n.put, Ack(h)) => Holds(m.put, Ack(h)))
      BY <1>6, <1>8, <2>2
    <3>7. m.boxes[1] # <<>> => Holds(m.put, Ack(h))
      BY <2>0, <3>2, <3>6 DEF Exchange
    <3>8. m.pc = n.pc
      BY <1>8
    <3> QED
      BY <2>1, <3>2, <3>5, <3>6, <3>7, <3>8 DEF Exchange
  <2>3. CASE p = Ack(h)
    <3>1. m.boxes[0] = n.boxes[0]
      BY <1>7, <1>8, <2>3
    <3>2. Holds(m.put, Ack(h)) /\ (Holds(n.put, Message(h)) => Holds(m.put, Message(h)))
      BY <1>6, <1>8, <2>3
    <3>3. m.pc = n.pc
      BY <1>8
    <3>4. /\ Alone(m.boxes[0], Message(h))
          /\ m.boxes[0] # <<>> => Holds(m.put, Message(h)) /\ m.pc \notin Received
      BY <2>0, <3>1, <3>2, <3>3 DEF Exchange
    <3> QED
      BY <2>1, <3>2, <3>4 DEF Exchange
  <2> QED
    BY <1>4, <2>2, <2>3 DEF Packets
<1>12. NodeOK(m, far, h) /\ Onward(n.pc, m.pc)
  BY <1>8, <1>9, <1>10, <1>11 DEF NodeOK, Onward
<1>13. MachinesOK(Hosts, {})' /\ ~aborted'
  BY <1>1 DEF NetworkInv, MachinesOK, interruptVars
<1> QED
  BY <1>1, <1>12, <1>13, OneNode, Zenon DEF m, n, far

\* The main thread goes on, and takes nothing out of its mailboxes.
SameMail(n, m) ==
    /\ m.wire = n.wire /\ m.put = n.put /\ m.letter = n.letter /\ m.inHdr = n.inHdr
    /\ m.socket = n.socket /\ m.boxes = n.boxes /\ m.in = n.in
    /\ m.avail = n.avail /\ m.worker = n.worker

Step(p, q) ==
    \/ q = p
    \/ p = "Send" /\ q = "SendP"
    \/ p = "SendP" /\ q = "Receive0"
    \/ p = "Ack" /\ q = "AckP"
    \/ p = "AckP" /\ q = "Receive1"

LEMMA StepOnward ==
    ASSUME NEW p, NEW q, Step(p, q)
    PROVE  /\ Onward(p, q) /\ (q \in Received => p \in Received)
           /\ (q = "Ack" => p = "Ack") /\ (q = "done" => p = "done")
  BY DEF Step, Onward, Sent, Acked, Received

LEMMA GoesOn ==
    ASSUME NEW n, NEW m, NEW far, NEW h, NodeOK(n, far, h), m \in NetRecords(h),
           SameMail(n, m), Step(n.pc, m.pc)
    PROVE  NodeOK(m, far, h)
<1>1. Handover(n) /\ InOrder(n) /\ Exchange(n, far, h)
  BY DEF NodeOK
<1>2. Handover(m)
  BY <1>1, SameHandover DEF SameMail
<1>3. InOrder(m)
  BY <1>1, SameOrder DEF SameMail
<1>4. /\ (m.pc \in Received => n.pc \in Received)
      /\ (m.pc = "Ack" => n.pc = "Ack") /\ (m.pc = "done" => n.pc = "done")
  BY StepOnward
<1>5. m.wire = n.wire /\ m.put = n.put /\ m.boxes = n.boxes /\ m.in = n.in
  BY DEF SameMail
<1>6. Exchange(m, far, h)
  BY <1>1, <1>4, <1>5, Zenon DEF Exchange
<1> QED
  BY <1>2, <1>3, <1>6 DEF NodeOK

\* PostOfficeOutput::Send returns from messageSent->P().
LEMMA SendWaitInv ==
    ASSUME NetworkInv, NEW h \in Hosts, NEW here, NEW next, Step(here, next),
           next \in Sent, SendWait(h, here, next)
    PROVE  NetworkInv'
<1> DEFINE n == net[h]
           m == net'[h]
           far == net[Far(h)].pc
           less == n.sent - 1
<1>0. NodeOK(n, far, h) /\ DOMAIN net = Hosts /\ Far(h) # h /\ Far(h) \in Hosts
  BY FarHost DEF NetworkInv
<1>1. /\ OnlyNode(h) /\ m = [n EXCEPT !.sent = less, !.pc = next]
      /\ n.pc = here /\ n.sent > 0 /\ UNCHANGED <<interruptVars, aborted>>
  BY <1>0 DEF OnlyNode, SendWait
<1>2. n \in NetRecords(h)
  BY <1>0 DEF NodeOK
<1> HIDE DEF m, n, far
<1>3. less \in Nat
  <2>1. n.sent \in Nat
    BY <1>2 DEF NetRecords
  <2> QED
    BY <1>1, <2>1
<1> HIDE DEF less
<1>4. m \in NetRecords(h) /\ SameMail(n, m) /\ m.pc = next
  BY <1>1, <1>2, <1>3, Zenon DEF NetRecords, SameMail
<1>5. NodeOK(m, far, h) /\ Onward(n.pc, m.pc)
  BY <1>0, <1>1, <1>4, GoesOn, StepOnward, ZenonT(60)
<1>6. MachinesOK(Hosts, {})' /\ ~aborted'
  BY <1>1 DEF NetworkInv, MachinesOK, interruptVars
<1> QED
  BY <1>1, <1>5, <1>6, OneNode, Zenon DEF m, n, far

\* The packet reaches the socket of the other machine.
WithPacket(n, p) == [n EXCEPT !.socket = Append(n.socket, p), !.wire = Append(n.wire, p)]

LEMMA Reaches ==
    ASSUME NEW h \in Hosts, NEW n, NEW far, NEW next, NEW p \in Packets(h),
           NodeOK(n, far, h), Onward(far, next), next \in Sent,
           p = Message(h) => far \notin Sent,
           p = Ack(h) => next \in Acked
    PROVE  NodeOK(WithPacket(n, p), next, h) /\ WithPacket(n, p).pc = n.pc
<1> DEFINE m == WithPacket(n, p)
           wire == Append(n.wire, p)
           socket == Append(n.socket, p)
<1>1. n \in NetRecords(h) /\ Handover(n) /\ InOrder(n) /\ Exchange(n, far, h)
  BY DEF NodeOK
<1>2. /\ n.wire \in Seq(Packets(h)) /\ n.socket \in Seq(Packets(h)) /\ n.put \in Seq(Packets(h))
      /\ n.letter \in Seq(Packets(h)) /\ n.inHdr \in Seq(Packets(h))
  BY <1>1 DEF NetRecords
<1>3. /\ wire \in Seq(Packets(h)) /\ socket \in Seq(Packets(h))
      /\ \A q : Holds(wire, q) <=> Holds(n.wire, q) \/ p = q
  BY <1>2, AppendHolds
<1>4. m = [n EXCEPT !.socket = socket, !.wire = wire]
  BY DEF WithPacket
<1>5. /\ \A i \in 1 .. Len(n.wire) : wire[i] = n.wire[i]
      /\ Len(wire) = Len(n.wire) + 1 /\ wire[Len(n.wire) + 1] = p /\ Len(n.wire) \in Nat
  BY <1>2
<1>6. n.put \o n.letter \o n.inHdr \o socket = wire
  <2> DEFINE b == n.put \o n.letter \o n.inHdr
  <2>1. b \in Seq(Packets(h))
    BY <1>2, JoinParts
  <2>2. n.wire = b \o n.socket
    BY <1>1 DEF InOrder
  <2> HIDE DEF b
  <2>3. b \o Append(n.socket, p) = Append(b \o n.socket, p)
    BY <1>2, <2>1, AppendLast, SMTT(30)
  <2> QED
    BY <2>2, <2>3 DEF b
<1> HIDE DEF wire, socket, m
<1>7. /\ m \in NetRecords(h) /\ m.wire = wire /\ m.socket = socket
      /\ m.put = n.put /\ m.letter = n.letter /\ m.inHdr = n.inHdr /\ m.boxes = n.boxes
      /\ m.in = n.in /\ m.avail = n.avail /\ m.worker = n.worker /\ m.pc = n.pc
  BY <1>1, <1>3, <1>4, Zenon DEF NetRecords
<1>8. Handover(m)
  BY <1>1, <1>7, SameHandover
<1>9. InOrder(m)
  BY <1>6, <1>7, Zenon DEF InOrder
<1>10. /\ Holds(wire, Message(h)) => next \in Sent
       /\ Holds(wire, Ack(h)) => next \in Acked
  BY <1>1, <1>3, Zenon DEF Exchange, Onward
<1>11. Once(wire, Message(h))
  <2>0. SUFFICES ASSUME NEW i \in 1 .. Len(wire), NEW j \in 1 .. Len(wire),
                        wire[i] = Message(h), wire[j] = Message(h)
                 PROVE  i = j
    BY DEF Once
  <2>1. CASE p = Message(h)
    <3>1. ~Holds(n.wire, Message(h))
      BY <1>1, <2>1, Zenon DEF Exchange
    <3>2. \A k \in 1 .. Len(n.wire) : wire[k] # Message(h)
      BY <1>5, <3>1 DEF Holds
    <3> QED
      BY <1>5, <2>0, <3>2
  <2>2. CASE p # Message(h)
    <3>1. i \in 1 .. Len(n.wire) /\ j \in 1 .. Len(n.wire)
      BY <1>5, <2>0, <2>2
    <3>2. n.wire[i] = Message(h) /\ n.wire[j] = Message(h)
      BY <1>5, <2>0, <3>1
    <3> QED
      BY <1>1, <3>1, <3>2 DEF Exchange, Once
  <2> QED
    BY <2>1, <2>2
<1>12. Exchange(m, next, h)
  <2>1. /\ Alone(m.boxes[0], Message(h))
        /\ m.boxes[0] # <<>> => Holds(m.put, Message(h)) /\ m.pc \notin Received
        /\ m.boxes[1] # <<>> => Holds(m.put, Ack(h))
        /\ m.pc \in Received => Holds(m.put, Message(h))
        /\ m.pc = "Ack" => m.in = Message(h)
        /\ m.pc = "done" => far \in Acked
    BY <1>1, <1>7, Zenon DEF Exchange
  <2>2. m.pc = "done" => next \in Acked
    BY <2>1 DEF Onward
  <2> QED
    BY <1>7, <1>10, <1>11, <2>1, <2>2, Zenon DEF Exchange
<1> QED
  BY <1>7, <1>8, <1>9, <1>12 DEF NodeOK, m

\* NetworkOutput::Send schedules its interrupt once for every packet.
LEMMA SendSchedules ==
    ASSUME NetworkInv, NEW h \in Hosts, ~inHandler[h], NEW packet, NEW next,
           Send(h, packet, next)
    PROVE  MachinesOK(Hosts, {})' /\ ~aborted'
<1> DEFINE e == PendingInterrupt("NetworkSendInt", NetworkTime)
<1>1. e \in Entries /\ e.due > 0
  BY DeviceConstants, NewEntry DEF Types
<1>2. /\ \/ pending' = [pending EXCEPT ![h] = Insert(pending[h], e)]
         \/ pending' = pending
      /\ inHandler' = inHandler /\ aborted' = aborted
  <2>1. Schedule(pending[h], "NetworkSendInt", NetworkTime) = Insert(pending[h], e)
    BY DEF Schedule
  <2> QED
    BY <2>1, Zenon DEF Send
<1>3. MachinesOK(Hosts, {}) /\ ~aborted
  BY DEF NetworkInv
<1> HIDE DEF e
<1>4. CASE pending' = [pending EXCEPT ![h] = Insert(pending[h], e)]
  BY <1>1, <1>2, <1>3, <1>4, Scheduled, Zenon
<1>5. CASE pending' = pending
  BY <1>2, <1>3, <1>5 DEF MachinesOK
<1> QED
  BY <1>2, <1>4, <1>5

\* NetworkOutput::Send: the packet is lost, tried again, or in the far socket.
LEMMA SendInv ==
    ASSUME NetworkInv, NEW h \in Hosts, ~inHandler[h], NEW packet, NEW next,
           Send(h, packet, next), packet \in Packets(Far(h)),
           Step(net[h].pc, next), next \in Sent,
           packet = Message(Far(h)) => net[h].pc \notin Sent,
           packet = Ack(Far(h)) => next \in Acked
    PROVE  NetworkInv'
<1> DEFINE n == net[h]
           m == net'[h]
           g == Far(h)
           far == net[g]
           new == WithPacket(far, packet)
<1>0. /\ NodeOK(n, far.pc, h) /\ NodeOK(far, n.pc, g) /\ DOMAIN net = Hosts
      /\ g # h /\ g \in Hosts /\ Far(g) = h /\ \A k \in Hosts : k = h \/ k = g
  BY FarHost DEF NetworkInv
<1>1. packet.to = g
  BY <1>0, PacketFields, Zenon DEF Packets
<1>2. MachinesOK(Hosts, {})' /\ ~aborted'
  BY SendSchedules
<1>3. \/ /\ DOMAIN net' = Hosts /\ net'[g] = far
         /\ \/ m = [n EXCEPT !.pc = next, !.lost = TRUE]
            \/ m = [n EXCEPT !.tries = n.tries + 1]
            \/ m = [n EXCEPT !.pc = next, !.tries = 0, !.lost = TRUE]
      \/ /\ DOMAIN net' = Hosts /\ net'[g] = new
         /\ m = [n EXCEPT !.pc = next, !.tries = 0]
  <2>1. \/ net' = [net EXCEPT ![h].pc = next, ![h].lost = TRUE]
        \/ net' = [net EXCEPT ![h].tries = @ + 1]
        \/ net' = [net EXCEPT ![h].pc = next, ![h].tries = 0, ![h].lost = TRUE]
        \/ net' = [net EXCEPT ![g].socket = Append(@, packet), ![g].wire = Append(@, packet),
                              ![h].pc = next, ![h].tries = 0]
    BY <1>1, Zenon DEF Send, SendToSocket
  <2>2. CASE net' = [net EXCEPT ![h].pc = next, ![h].lost = TRUE]
    BY <1>0, <2>2
  <2>3. CASE net' = [net EXCEPT ![h].tries = @ + 1]
    BY <1>0, <2>3
  <2>4. CASE net' = [net EXCEPT ![h].pc = next, ![h].tries = 0, ![h].lost = TRUE]
    BY <1>0, <2>4
  <2>5. CASE net' = [net EXCEPT ![g].socket = Append(@, packet), ![g].wire = Append(@, packet),
                                ![h].pc = next, ![h].tries = 0]
    BY <1>0, <2>5, Zenon DEF WithPacket
  <2> QED
    BY <2>1, <2>2, <2>3, <2>4, <2>5, Zenon
<1>4. n \in NetRecords(h)
  BY <1>0, Zenon DEF NodeOK
<1>5. n.tries + 1 \in Nat
  BY <1>4 DEF NetRecords
<1> HIDE DEF m, n, far, g, new
<1>6. m \in NetRecords(h) /\ SameMail(n, m) /\ (m.pc = next \/ m.pc = n.pc)
      /\ (net'[g] # far => m.pc = next)
  <2>1. CASE m = [n EXCEPT !.pc = next, !.lost = TRUE]
    BY <1>4, <2>1, <1>3, Zenon DEF NetRecords, SameMail
  <2> DEFINE k == n.tries + 1
  <2>2. CASE m = [n EXCEPT !.tries = n.tries + 1]
    <3>1. k \in Nat /\ m = [n EXCEPT !.tries = k]
      BY <1>5, <2>2
    <3> HIDE DEF k
    <3>2. m \in NetRecords(h) /\ SameMail(n, m) /\ m.pc = n.pc
      BY <1>4, <3>1, Zenon DEF NetRecords, SameMail
    <3> QED
      BY <1>3, <3>2, <1>4, <2>2, Zenon DEF NetRecords
  <2>3. CASE m = [n EXCEPT !.pc = next, !.tries = 0, !.lost = TRUE]
    BY <1>4, <2>3, <1>3, Zenon DEF NetRecords, SameMail
  <2>4. CASE m = [n EXCEPT !.pc = next, !.tries = 0]
    BY <1>4, <2>4, <1>3, Zenon DEF NetRecords, SameMail
  <2> QED
    BY <1>3, <2>1, <2>2, <2>3, <2>4
<1>7. Step(n.pc, m.pc)
  BY <1>6 DEF Step, n
<1>8. NodeOK(m, far.pc, h) /\ Onward(n.pc, m.pc)
  BY <1>0, <1>6, <1>7, GoesOn, StepOnward, Zenon
<1>9. CASE net'[g] = far
  <2>1. OnlyNode(h)
    BY <1>3, <1>9 DEF OnlyNode, g, far
  <2> QED
    BY <1>2, <1>8, <2>1, OneNode, Zenon DEF m, n, far, g
<1>10. CASE net'[g] # far
  <2>1. net'[g] = new /\ DOMAIN net' = Hosts /\ m.pc = next
    BY <1>3, <1>6, <1>10
  <2>2. NodeOK(net'[g], m.pc, g) /\ net'[g].pc = far.pc
    <3>1. /\ packet \in Packets(g) /\ Onward(n.pc, m.pc) /\ m.pc \in Sent
          /\ (packet = Message(g) => n.pc \notin Sent)
          /\ (packet = Ack(g) => m.pc \in Acked)
      BY <1>8, <2>1, Zenon DEF g, n
    <3>2. g \in Hosts /\ NodeOK(far, n.pc, g)
      BY <1>0
    <3>3. NodeOK(WithPacket(far, packet), m.pc, g) /\ WithPacket(far, packet).pc = far.pc
      BY <3>1, <3>2, Reaches, Zenon
    <3> QED
      BY <2>1, <3>3, Zenon DEF new
  <2>3. \A k \in Hosts : NodeOK(net'[k], net'[Far(k)].pc, k)
    <3>1. NodeOK(net'[h], net'[Far(h)].pc, h)
      BY <1>8, <2>2, Zenon DEF m, g
    <3>2. NodeOK(net'[g], net'[Far(g)].pc, g)
      BY <1>0, <2>2 DEF m
    <3> QED
      BY <1>0, <3>1, <3>2
  <2> QED
    BY <1>2, <2>1, <2>3 DEF NetworkInv
<1> QED
  BY <1>9, <1>10

\* NetworkTest sends its message, once.
LEMMA SendMessageInv ==
    ASSUME NetworkInv, NEW h \in Hosts, ~inHandler[h], SendMessage(h)
    PROVE  NetworkInv'
<1> DEFINE p == Packet(Far(h), h, 0, 1)
<1>1. net[h].pc = "Send" /\ Send(h, p, "SendP")
  BY DEF SendMessage
<1>2. Far(h) \in Hosts /\ Far(Far(h)) = h
  BY FarHost
<1>3. p = Message(Far(h))
  BY <1>2 DEF Message
<1>4. p \in Packets(Far(h)) /\ p # Ack(Far(h))
  BY <1>2, <1>3, PacketFields
<1> HIDE DEF p
<1>5. /\ Step("Send", "SendP") /\ "SendP" \in Sent /\ "Send" \notin Sent
  BY DEF Step, Sent
<1> QED
  BY <1>1, <1>4, <1>5, SendInv

\* NetworkTest answers the message that has come to the mailbox it names.
LEMMA SendAckInv ==
    ASSUME NetworkInv, NEW h \in Hosts, ~inHandler[h], SendAck(h)
    PROVE  NetworkInv'
<1> DEFINE p == Packet(net[h].in.from, h, net[h].in.reply, 1)
<1>1. net[h].pc = "Ack" /\ Send(h, p, "AckP")
  BY DEF SendAck
<1>2. Far(h) \in Hosts /\ Far(Far(h)) = h
  BY FarHost
<1>3. net[h].in = Message(h)
  BY <1>1, Zenon DEF NetworkInv, NodeOK, Exchange
<1>4. p = Ack(Far(h))
  <2>1. net[h].in.from = Far(h) /\ net[h].in.reply = 1
    BY <1>3, PacketFields
  <2> QED
    BY <1>2, <2>1 DEF Ack
<1>5. p \in Packets(Far(h)) /\ p # Message(Far(h))
  BY <1>2, <1>4, PacketFields
<1> HIDE DEF p
<1>6. Step("Ack", "AckP") /\ "AckP" \in Sent /\ "AckP" \in Acked
  BY DEF Step, Sent, Acked
<1> QED
  BY <1>1, <1>5, <1>6, SendInv, Zenon

\* PostOfficeInput::Receive takes the first packet out of the mailbox.
Taken(n, box, next) ==
    [n EXCEPT !.in = Head(n.boxes[box]),
              !.boxes = [n.boxes EXCEPT ![box] = Tail(n.boxes[box])], !.pc = next]

TakenFrom(n, m, h, box, next) ==
    /\ m \in NetRecords(h) /\ Handover(m) /\ InOrder(m)
    /\ m.pc = next /\ m.in = Head(n.boxes[box]) /\ m.wire = n.wire /\ m.put = n.put
    /\ m.boxes[box] = Tail(n.boxes[box])
    /\ \A b \in {0, 1} \ {box} : m.boxes[b] = n.boxes[b]

LEMMA MailTaken ==
    ASSUME NEW h, NEW n, NEW far, NEW box \in {0, 1}, NEW next \in Sent, NodeOK(n, far, h),
           n.boxes[box] # <<>>
    PROVE  TakenFrom(n, Taken(n, box, next), h, box, next)
<1> DEFINE m == Taken(n, box, next)
           head == Head(n.boxes[box])
           rest == Tail(n.boxes[box])
           boxes == [n.boxes EXCEPT ![box] = rest]
<1>1. n \in NetRecords(h) /\ Handover(n) /\ InOrder(n)
  BY Zenon DEF NodeOK
<1>2. n.boxes \in [{0, 1} -> Seq(Packets(h))]
  BY <1>1 DEF NetRecords
<1>3. n.boxes[box] \in Seq(Packets(h))
  BY <1>2
<1>4. head \in Packets(h) /\ rest \in Seq(Packets(h))
  BY <1>3
<1>5. m = [n EXCEPT !.in = head, !.boxes = boxes, !.pc = next]
  BY DEF Taken
<1> HIDE DEF head, rest, m
<1>6. /\ boxes \in [{0, 1} -> Seq(Packets(h))] /\ boxes[box] = rest
      /\ \A b \in {0, 1} \ {box} : boxes[b] = n.boxes[b]
  BY <1>2, <1>4
<1> HIDE DEF boxes
<1>7. /\ m \in NetRecords(h) /\ m.in = head /\ m.boxes = boxes /\ m.pc = next
      /\ m.wire = n.wire /\ m.put = n.put /\ m.letter = n.letter /\ m.inHdr = n.inHdr
      /\ m.socket = n.socket /\ m.avail = n.avail /\ m.worker = n.worker
  BY <1>1, <1>4, <1>5, <1>6, Zenon DEF NetRecords
<1>8. Handover(m) /\ InOrder(m)
  BY <1>1, <1>7, SameHandover, SameOrder
<1> QED
  BY <1>6, <1>7, <1>8, Zenon DEF head, rest, m, TakenFrom

\* A mailbox with one packet.
LEMMA OneElement ==
    ASSUME NEW S, NEW s \in Seq(S), s # <<>>, Len(s) <= 1
    PROVE  Len(s) = 1 /\ Head(s) = s[1] /\ Tail(s) = <<>>
<1>1. Len(s) \in Nat \ {0}
  OBVIOUS
<1> DEFINE k == Len(s)
<1>2. k \in Nat \ {0} /\ k <= 1
  BY <1>1
<1> HIDE DEF k
<1>3. k = 1
  BY <1>2
<1>4. Len(s) = 1
  BY <1>3 DEF k
<1>5. Head(s) = s[1]
  BY <1>4
<1>6. Tail(s) \in Seq(S) /\ Len(Tail(s)) = 0
  BY <1>4
<1>7. Tail(s) = <<>>
  BY <1>6
<1> QED
  BY <1>4, <1>5, <1>7

\* One with none.
LEMMA EmptyBox == \A p : Alone(<<>>, p)
  BY DEF Alone

LEMMA ReceiveInv ==
    ASSUME NetworkInv, NEW h \in Hosts, NEW here, NEW box \in {0, 1}, NEW next,
           Receive(h, here, box, next),
           \/ here = "Receive0" /\ box = 0 /\ next = "Ack"
           \/ here = "Receive1" /\ box = 1 /\ next = "done"
    PROVE  NetworkInv'
<1> DEFINE n == net[h]
           m == net'[h]
           far == net[Far(h)].pc
<1>0. NodeOK(n, far, h) /\ DOMAIN net = Hosts /\ Far(h) # h /\ Far(h) \in Hosts
  BY FarHost DEF NetworkInv
<1>1. /\ OnlyNode(h)
      /\ m = Taken(n, box, next)
      /\ n.pc = here /\ n.boxes[box] # <<>> /\ UNCHANGED <<interruptVars, aborted>>
  BY <1>0 DEF OnlyNode, Receive, Taken
<1>2. next \in Sent /\ Onward(here, next)
  BY DEF Sent, Acked, Onward
<1> HIDE DEF m, n, far
<1>3. /\ m \in NetRecords(h) /\ Handover(m) /\ InOrder(m)
      /\ m.pc = next /\ m.in = Head(n.boxes[box]) /\ m.wire = n.wire /\ m.put = n.put
      /\ m.boxes[box] = Tail(n.boxes[box])
      /\ \A b \in {0, 1} \ {box} : m.boxes[b] = n.boxes[b]
  <2>1. TakenFrom(n, Taken(n, box, next), h, box, next)
    BY <1>0, <1>1, <1>2, MailTaken, Zenon
  <2> QED
    BY <1>1, <2>1, Zenon DEF TakenFrom
<1>4. n \in NetRecords(h) /\ InOrder(n) /\ Exchange(n, far, h)
  BY <1>0 DEF NodeOK
<1>5. /\ n.boxes[0] \in Seq(Packets(h)) /\ n.boxes[1] \in Seq(Packets(h))
  BY <1>4 DEF NetRecords
<1>6. /\ Once(m.wire, Message(h))
      /\ Holds(m.wire, Message(h)) => far \in Sent
      /\ Holds(m.wire, Ack(h)) => far \in Acked
  BY <1>3, <1>4, Zenon DEF Exchange
<1>7. CASE box = 0
  <2>1. next = "Ack" /\ n.boxes[0] # <<>>
    BY <1>1, <1>7
  <2>2. /\ Alone(n.boxes[0], Message(h)) /\ Holds(n.put, Message(h))
        /\ n.boxes[1] # <<>> => Holds(n.put, Ack(h))
    BY <1>4, <2>1, Zenon DEF Exchange
  <2>3. Head(n.boxes[0]) = Message(h) /\ Tail(n.boxes[0]) = <<>>
    <3> DEFINE mail == n.boxes[0]
    <3>1. /\ mail \in Seq(Packets(h)) /\ mail # <<>> /\ Len(mail) <= 1
          /\ \A i \in 1 .. Len(mail) : mail[i] = Message(h)
      BY <1>5, <2>1, <2>2 DEF Alone
    <3> HIDE DEF mail
    <3>2. Len(mail) = 1 /\ Head(mail) = mail[1] /\ Tail(mail) = <<>>
      BY <3>1, OneElement
    <3>3. 1 \in 1 .. Len(mail)
      BY <3>2
    <3> QED
      BY <3>1, <3>2, <3>3, Zenon DEF mail
  <2>4. m.boxes[1] = n.boxes[1]
    BY <1>3, <1>7
  <2>5. m.boxes[0] = <<>> /\ m.boxes[1] = n.boxes[1] /\ m.in = Message(h)
        /\ m.pc = "Ack" /\ m.put = n.put
    BY <1>3, <1>7, <2>1, <2>3, <2>4, Zenon
  <2>6. Exchange(m, far, h)
    BY <1>6, <2>2, <2>5, EmptyBox DEF Exchange
  <2> QED
    BY <1>0, <1>1, <1>2, <1>3, <2>6, OneNode, Zenon
       DEF NodeOK, NetworkInv, MachinesOK, interruptVars, m, n, far
<1>8. CASE box = 1
  <2>1. next = "done" /\ here = "Receive1" /\ n.boxes[1] # <<>>
    BY <1>1, <1>8
  <2>2. Holds(n.put, Ack(h)) /\ Holds(n.put, Message(h)) /\ n.boxes[0] = <<>>
    BY <1>1, <1>4, <2>1, Zenon DEF Exchange, Received
  <2>3. far \in Acked
    <3>1. \A i \in 1 .. Len(n.put) : i \in 1 .. Len(n.wire) /\ n.wire[i] = n.put[i]
      BY <1>4, WireParts, Zenon
    <3>2. Holds(n.wire, Ack(h))
      BY <2>2, <3>1 DEF Holds
    <3> QED
      BY <1>4, <3>2, Zenon DEF Exchange
  <2>4. m.boxes[0] = <<>> /\ m.pc = "done" /\ m.put = n.put
    BY <1>3, <1>8, <2>1, <2>2
  <2>5. Exchange(m, far, h)
    BY <1>6, <2>2, <2>3, <2>4, EmptyBox DEF Exchange
  <2> QED
    BY <1>0, <1>1, <1>2, <1>3, <2>5, OneNode, Zenon
       DEF NodeOK, NetworkInv, MachinesOK, interruptVars, m, n, far
<1> QED
  BY <1>7, <1>8

\* The main thread and PostalDelivery.
LEMMA NetworkMainInv ==
    ASSUME NetworkInv, NEW h \in Hosts, NetworkMain(h)
    PROVE  NetworkInv'
<1>1. ~inHandler[h]
  BY DEF NetworkMain
<1>2. CASE SendMessage(h)
  BY <1>1, <1>2, SendMessageInv
<1>3. CASE SendWait(h, "SendP", "Receive0")
  <2>1. Step("SendP", "Receive0") /\ "Receive0" \in Sent
    BY DEF Step, Sent
  <2> QED
    BY <1>3, <2>1, SendWaitInv
<1>4. CASE Receive(h, "Receive0", 0, "Ack")
  BY <1>4, ReceiveInv
<1>5. CASE SendAck(h)
  BY <1>1, <1>5, SendAckInv
<1>6. CASE SendWait(h, "AckP", "Receive1")
  <2>1. Step("AckP", "Receive1") /\ "Receive1" \in Sent
    BY DEF Step, Sent
  <2> QED
    BY <1>6, <2>1, SendWaitInv
<1>7. CASE Receive(h, "Receive1", 1, "done")
  BY <1>7, ReceiveInv
<1>8. CASE Halt(h)
  BY <1>8, StateInv, Zenon DEF Halt
<1> QED
  BY <1>2, <1>3, <1>4, <1>5, <1>6, <1>7, <1>8 DEF NetworkMain
-----------------------------------------------------------------------------
\* What holds of the machine while a test runs.
DeviceInv ==
    /\ test \in {"disk", "console", "network"}
    /\ test = "disk" => DiskInv
    /\ test = "console" => ConsoleInv
    /\ test = "network" => NetworkInv

LEMMA DeviceStarts == Init => DeviceInv
  BY DiskStarts, ConsoleStarts, NetworkStarts DEF Init, DeviceInv

\* The test, and the invariant of its own devices, kept by a step of them.
LEMMA InDisk == ASSUME DeviceInv, Disk PROVE DiskInv /\ (DiskInv' => DeviceInv')
  BY DEF DeviceInv, Disk, InTest

LEMMA InConsole == ASSUME DeviceInv, Console PROVE ConsoleInv /\ (ConsoleInv' => DeviceInv')
  BY DEF DeviceInv, Console, InTest

LEMMA InNetwork == ASSUME DeviceInv, Network PROVE NetworkInv /\ (NetworkInv' => DeviceInv')
  BY DEF DeviceInv, Network, InTest

\* Nothing happens.
LEMMA DeviceStutter == ASSUME DeviceInv, UNCHANGED vars PROVE DeviceInv'
<1>1. test' = test /\ UNCHANGED <<interruptVars, aborted, diskVars, console, networkVars>>
  BY DEF vars
<1>2. DiskInv => DiskInv'
  BY <1>1 DEF DiskInv, DiskTypes, MachinesOK, Locked, Handshake, Waiting, diskVars, interruptVars
<1>3. ConsoleInv => ConsoleInv'
  BY <1>1 DEF ConsoleInv, MachinesOK, InTurn, EchoedInOrder, interruptVars
<1>4. NetworkInv => NetworkInv'
  BY <1>1 DEF NetworkInv, MachinesOK, networkVars, interruptVars
<1> QED
  BY <1>1, <1>2, <1>3, <1>4 DEF DeviceInv

LEMMA DiskStepInv ==
    ASSUME DiskInv, NEW t \in Clients, ThreadStep(t)
    PROVE  DiskInv'
<1>1. ~inHandler[Host]
  BY DEF ThreadStep
<1> QED
  BY <1>1, AcquireInv, RequestInv, PInv, ReleaseInv DEF ThreadStep

LEMMA ConsoleMainInv ==
    ASSUME ConsoleInv, ConsoleMain
    PROVE  ConsoleInv'
<1>1. ~inHandler[Host]
  BY DEF ConsoleMain
<1> QED
  BY <1>1, GetCharInv, TakeInv, PutCharInv, PutCharWaitInv DEF ConsoleMain

LEMMA NetworkDeliveryInv ==
    ASSUME NetworkInv, NEW h \in Hosts, PostalDelivery(h)
    PROVE  NetworkInv'
  BY DeliveryWaitInv, DeliveryReceiveInv, DeliveryPutInv DEF PostalDelivery

LEMMA NetworkHandlerInv ==
    ASSUME NetworkInv, NEW h \in Hosts, NetworkHandler(h)
    PROVE  NetworkInv'
  BY ReceiveCallBackInv, SendCallBackInv DEF NetworkHandler

LEMMA NetworkBootInv ==
    ASSUME NetworkInv, NEW h \in Hosts, Boot(h)
    PROVE  NetworkInv'
  BY StateInv, Zenon DEF Boot

LEMMA DeviceStep ==
    ASSUME DeviceInv, [Next]_vars
    PROVE  DeviceInv'
<1>1. ASSUME NEW t \in Clients, DiskThread(t) PROVE DeviceInv'
  BY <1>1, InDisk, DiskStepInv DEF DiskThread
<1>2. CASE DiskHandler
  BY <1>2, InDisk, DiskCallBackInv DEF DiskHandler
<1>3. CASE DiskAlarm
  BY <1>3, InDisk, TimerInv DEF DiskAlarm
<1>4. CASE DiskClock
  BY <1>4, InDisk, DiskTickInv DEF DiskClock
<1>5. CASE ConsoleType
  BY <1>5, InConsole, TypeInv DEF ConsoleType
<1>6. CASE ConsoleHandler
  BY <1>6, InConsole, InputCallBackInv, OutputCallBackInv DEF ConsoleHandler
<1>7. CASE ConsoleThread
  BY <1>7, InConsole, ConsoleMainInv DEF ConsoleThread
<1>8. CASE ConsoleClock
  BY <1>8, InConsole, ConsoleTickInv DEF ConsoleClock
<1>9. ASSUME NEW h \in Hosts, NetworkBoot(h) PROVE DeviceInv'
  BY <1>9, InNetwork, NetworkBootInv DEF NetworkBoot
<1>10. ASSUME NEW h \in Hosts, NetworkThread(h) PROVE DeviceInv'
  BY <1>10, InNetwork, NetworkMainInv DEF NetworkThread
<1>11. ASSUME NEW h \in Hosts, NetworkWorker(h) PROVE DeviceInv'
  BY <1>11, InNetwork, NetworkDeliveryInv DEF NetworkWorker
<1>12. ASSUME NEW h \in Hosts, NetworkInterrupt(h) PROVE DeviceInv'
  BY <1>12, InNetwork, NetworkHandlerInv DEF NetworkInterrupt
<1>13. ASSUME NEW h \in Hosts, NetworkClock(h) PROVE DeviceInv'
  BY <1>13, InNetwork, NetworkTickInv DEF NetworkClock
<1>14. CASE Halted \/ UNCHANGED vars
  BY <1>14, DeviceStutter DEF Halted
<1> QED
  BY <1>1, <1>2, <1>3, <1>4, <1>5, <1>6, <1>7, <1>8, <1>9, <1>10, <1>11, <1>12, <1>13, <1>14
     DEF Next

LEMMA DeviceInvariant == Spec => []DeviceInv
  BY DeviceStarts, DeviceStep, PTL DEF Spec

(***************************************************************************)
(* No pending interrupt is overdue outside of a handler: Interrupt's       *)
(* Schedule keeps the list sorted, and OneTick, Idle and CheckIfDue never  *)
(* let the time of its first entry go by.                                  *)
(***************************************************************************)
THEOREM InterruptsAreOnTime == Spec => []NeverLate
<1>1. DeviceInv => NeverLate
  BY OnTime DEF DeviceInv, DiskInv, ConsoleInv, NetworkInv
<1> QED
  BY <1>1, DeviceInvariant, PTL

(***************************************************************************)
(* No assertion of the disk, the console and the network fails, and every  *)
(* disk request is answered once, to its own thread: SynchDisk's lock and  *)
(* semaphore, SynchConsole's semaphores and the post office give the       *)
(* devices one request at a time.                                          *)
(***************************************************************************)
THEOREM AssertionsHold == Spec => []NoAssertionFails
<1>1. DiskInv => ~aborted
  BY DEF DiskInv, DiskTypes, Handshake
<1>2. DeviceInv => NoAssertionFails
  BY <1>1, DiskAnswers DEF DeviceInv, ConsoleInv, NetworkInv, NoAssertionFails
<1> QED
  BY <1>2, DeviceInvariant, PTL

(***************************************************************************)
(* What is typed is shown, and what reaches a machine is put into its      *)
(* mailboxes, each once and in order: ConsoleInput, ConsoleOutput,         *)
(* NetworkInput and PostalDelivery hand over one item at a time.  The byte *)
(* that a char cannot tell from EOF is not typed (DeviceConstants).        *)
(***************************************************************************)
THEOREM NothingIsLostInside == Spec => []KeptInOrder
<1>1. NetworkInv => DeliveredInOrder
  BY Zenon DEF NetworkInv, NodeOK, InOrder, DeliveredInOrder
<1>2. DeviceInv => KeptInOrder
  BY <1>1 DEF DeviceInv, ConsoleInv, KeptInOrder
<1> QED
  BY <1>2, DeviceInvariant, PTL

(***************************************************************************)
(* A machine that has the acknowledgement of NetworkTest was heard, and    *)
(* the thread of the other machine has taken its message, whichever        *)
(* packets NetworkOutput and SendToSocket lose.                            *)
(***************************************************************************)
THEOREM AnswersAreTrue == Spec => []AckMeansReceived
<1>1. ASSUME NetworkInv PROVE AnswerMeansReceived
  <2> SUFFICES ASSUME NEW h \in Hosts, net[h].pc = "done"
               PROVE  /\ \E i \in DOMAIN net[Far(h)].put :
                            net[Far(h)].put[i] = Packet(Far(h), h, 0, 1)
                      /\ \A i \in DOMAIN net[Far(h)].boxes[0] :
                            net[Far(h)].boxes[0][i] # Packet(Far(h), h, 0, 1)
    BY DEF AnswerMeansReceived
  <2> DEFINE g == Far(h)
             n == net[g]
  <2>1. g \in Hosts /\ Far(g) = h
    BY FarHost
  <2>2. Packet(g, h, 0, 1) = Message(g)
    BY <2>1 DEF Message
  <2>3. NodeOK(net[h], n.pc, h) /\ NodeOK(n, net[h].pc, g)
    BY <1>1, <2>1 DEF NetworkInv
  <2> HIDE DEF n, g
  <2>4. n.pc \in Received
    BY <2>3, Zenon DEF NodeOK, Exchange, Acked, Received
  <2>5. Exchange(n, net[h].pc, g) /\ n \in NetRecords(g)
    BY <2>3, Zenon DEF NodeOK
  <2>6. Holds(n.put, Message(g)) /\ n.boxes[0] = <<>>
    BY <2>4, <2>5 DEF Exchange
  <2>7. n.put \in Seq(Packets(g))
    BY <2>5 DEF NetRecords
  <2>8. DOMAIN n.put = 1 .. Len(n.put) /\ DOMAIN n.boxes[0] = {}
    BY <2>6, <2>7
  <2>9. /\ \E i \in DOMAIN n.put : n.put[i] = Message(g)
        /\ \A i \in DOMAIN n.boxes[0] : n.boxes[0][i] # Message(g)
    BY <2>6, <2>8 DEF Holds
  <2> QED
    BY <2>2, <2>9 DEF n, g
<1>2. DeviceInv => AckMeansReceived
  BY <1>1 DEF DeviceInv, AckMeansReceived
<1> QED
  BY <1>2, DeviceInvariant, PTL
=============================================================================

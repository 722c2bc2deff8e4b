---------------------------- MODULE NetworkTest ----------------------------
(***************************************************************************)
(* Kernel::NetworkTest (nachos -N) on two machines: the post office        *)
(* (network/post.cc) over the simulated network (machine/network.cc) over  *)
(* UNIX sockets (lib/sysdep.cc), which lose packets when told to and when  *)
(* the other machine is not there.                                         *)
(*                                                                         *)
(* net[h] is a record:                                                     *)
(*   state   "off", "up" once the socket has its name, "halted"            *)
(*   socket  the packets that UNIX holds for h, in order                   *)
(*   inHdr   NetworkInput's buffer, a sequence of at most one packet       *)
(*   avail   messageAvailable       sent  messageSent                      *)
(*   letter  what PostalDelivery has received and not yet put in its box   *)
(*   worker  where PostalDelivery is                                       *)
(*   boxes   the mailboxes, each a SynchList, whose order and waking       *)
(*           SynchList shows                                               *)
(*   pc, in  where the main thread is in NetworkTest, and its inPktHdr and *)
(*           inMailHdr                                                     *)
(*   tries   the failed attempts of SendToSocket's current packet          *)
(*   lost    whether a packet that h sent was lost                         *)
(* and the history variables wire, the packets ever put into the socket,   *)
(* and put, the ones ever put into a mailbox.                              *)
(***************************************************************************)
EXTENDS Interrupt

CONSTANTS NetworkTime,  \* ticks between polls, and to send one packet
          MaxTries      \* attempts of SendToSocket, 10 in the code

VARIABLES lossy,        \* -n: the chance to work is below 1
          net

networkVars == <<lossy, net>>

\* The two machines, host names 0 and 1, and the far one of each.
Hosts == {0, 1}
Far(h) == 1 - h

\* class PacketHeader and class MailHeader: machine and mailbox, to and from.
Packet(to, from, box, reply) ==
    [to |-> to, from |-> from, box |-> box, reply |-> reply]

\* NetworkOutput::NetworkOutput: chanceToWork is 1 or less.
NetworkOutput == lossy \in BOOLEAN

\* NetworkInput::NetworkInput starts to poll.
NetworkInput == Interrupt(Hosts, <<PendingInterrupt("NetworkRecvInt", NetworkTime)>>)

\* PostOfficeInput and PostOfficeOutput as constructed, on machines that are off
NetworkInit ==
    /\ NetworkOutput
    /\ net = [h \in Hosts |->
                 [state |-> "off", socket |-> <<>>, inHdr |-> <<>>,
                  avail |-> 0, sent |-> 0, letter |-> <<>>, worker |-> "P",
                  boxes |-> [b \in {0, 1} |-> <<>>], pc |-> "Send", tries |-> 0,
                  in |-> Packet(h, h, 0, 0), lost |-> FALSE, wire |-> <<>>, put |-> <<>>]]
    /\ NetworkInput

\* The user starts the other program: AssignNameToSocket.
Boot(h) ==
    /\ net[h].state = "off"
    /\ net' = [net EXCEPT ![h].state = "up"]
    /\ UNCHANGED <<interruptVars, lossy, aborted>>

\* The program h runs, and does not wait in SendToSocket's Delay.
Up(h) == net[h].state = "up" /\ net[h].tries = 0

\* UNIX holds a packet; ReadFromSocket takes the first one out.
PollSocket(h) == net[h].socket # <<>>
ReadFromSocket(n, h) ==
    [n EXCEPT ![h].inHdr = <<Head(n[h].socket)>>, ![h].socket = Tail(@)]

\* PostOfficeInput::CallBack and PostOfficeOutput::CallBack
PacketArrived(n, h) == [n EXCEPT ![h].avail = @ + 1]
PacketSent(n, h) == [n EXCEPT ![h].sent = @ + 1]

\* Mutant: NetworkInput::CallBack reads the next packet over a buffered one.
NoRoomMutated(h) == FALSE

\* A packet is buffered and has not been received.
NoRoom(h) == net[h].inHdr # <<>>

(***************************************************************************)
(* NetworkInput::CallBack: poll again later; leave the packet in the       *)
(* socket while one is buffered; else read it and tell the post office     *)
(* (PostOfficeInput::CallBack).                                            *)
(***************************************************************************)
ReceiveCallBack(h) ==
    /\ Calls(h, "NetworkRecvInt")
    /\ CheckIfDue(h, Schedule(Rest(h), "NetworkRecvInt", NetworkTime))
    /\ \/ /\ NoRoom(h) \/ ~PollSocket(h)
          /\ UNCHANGED <<net, aborted>>
       \/ /\ ~NoRoom(h) /\ PollSocket(h)
          /\ net' = PacketArrived(ReadFromSocket(net, h), h)
          /\ aborted' = (aborted \/ Head(net[h].socket).to # h)
    /\ UNCHANGED lossy

\* NetworkOutput::CallBack
SendCallBack(h) ==
    /\ Calls(h, "NetworkSendInt")
    /\ net' = PacketSent(net, h)
    /\ CheckIfDue(h, Rest(h))
    /\ UNCHANGED <<lossy, aborted>>

(***************************************************************************)
(* PostalDelivery: wait for a packet, receive it (NetworkInput::Receive),  *)
(* check its mailbox and put it there (MailBox::Put).                      *)
(***************************************************************************)
DeliveryWait(h) ==
    /\ net[h].worker = "P" /\ net[h].avail > 0
    /\ net' = [net EXCEPT ![h].avail = @ - 1, ![h].worker = "Receive"]
    /\ UNCHANGED <<interruptVars, lossy, aborted>>

DeliveryReceive(h) ==
    /\ net[h].worker = "Receive"
    /\ net' = [net EXCEPT ![h].letter = net[h].inHdr, ![h].inHdr = <<>>,
                          ![h].worker = "Put"]
    /\ aborted' = (aborted \/ net[h].inHdr = <<>>
                           \/ \E p \in {net[h].inHdr[i] : i \in DOMAIN net[h].inHdr} :
                                  p.box \notin DOMAIN net[h].boxes)
    /\ UNCHANGED <<interruptVars, lossy>>

DeliveryPut(h) ==
    /\ net[h].worker = "Put"
    /\ net' = [net EXCEPT ![h].boxes[net[h].letter[1].box] = Append(@, net[h].letter[1]),
                          ![h].put = Append(@, net[h].letter[1]),
                          ![h].letter = <<>>, ![h].worker = "P"]
    /\ UNCHANGED <<interruptVars, lossy, aborted>>

\* SendToSocket: the packet is in the socket of the other machine, or, when
\* that is not there, the program sleeps and tries again, or gives up.
SendToSocket(h, packet, next) ==
    \/ /\ net[packet.to].state = "up"
       /\ net' = [net EXCEPT ![packet.to].socket = Append(@, packet),
                             ![packet.to].wire = Append(@, packet),
                             ![h].pc = next, ![h].tries = 0]
    \/ /\ net[packet.to].state # "up"
       /\ net' = IF net[h].tries + 1 < MaxTries
                 THEN [net EXCEPT ![h].tries = @ + 1]
                 ELSE [net EXCEPT ![h].pc = next, ![h].tries = 0, ![h].lost = TRUE]

(***************************************************************************)
(* NetworkOutput::Send: the interrupt is scheduled whether the packet is   *)
(* lost or not, and it is lost at random, or after SendToSocket's last     *)
(* try.  sendBusy is never set by the code.                                *)
(***************************************************************************)
Send(h, packet, next) ==
    /\ pending' = IF net[h].tries = 0
                  THEN [pending EXCEPT ![h] = Schedule(@, "NetworkSendInt", NetworkTime)]
                  ELSE pending
    /\ \/ /\ lossy /\ net[h].tries = 0
          /\ net' = [net EXCEPT ![h].pc = next, ![h].lost = TRUE]
       \/ SendToSocket(h, packet, next)
    /\ UNCHANGED <<inHandler, lossy, aborted>>

\* The message, to mailbox 0 of the other machine, and mailbox 1 for the answer
SendMessage(h) ==
    /\ net[h].pc = "Send"
    /\ Send(h, Packet(Far(h), h, 0, 1), "SendP")

\* Mutant: NetworkTest acknowledges before it has received the message.
SendAckMutated(h) ==
    /\ net[h].pc = "Receive0"
    /\ Send(h, Packet(Far(h), h, 1, 1), "AckP")

\* The acknowledgement, to where the message that has come says
SendAck(h) ==
    /\ net[h].pc = "Ack"
    /\ Send(h, Packet(net[h].in.from, h, net[h].in.reply, 1), "AckP")

\* messageSent->P()
SendWait(h, here, next) ==
    /\ net[h].pc = here /\ net[h].sent > 0
    /\ net' = [net EXCEPT ![h].sent = @ - 1, ![h].pc = next]
    /\ UNCHANGED <<interruptVars, lossy, aborted>>

\* PostOfficeInput::Receive: MailBox::Get
Receive(h, here, box, next) ==
    /\ net[h].pc = here /\ net[h].boxes[box] # <<>>
    /\ net' = [net EXCEPT ![h].in = Head(net[h].boxes[box]),
                          ![h].boxes[box] = Tail(@), ![h].pc = next]
    /\ UNCHANGED <<interruptVars, lossy, aborted>>

\* The main thread returns from NetworkTest and halts the machine.
Halt(h) ==
    /\ net[h].pc = "done"
    /\ net' = [net EXCEPT ![h].state = "halted"]
    /\ UNCHANGED <<interruptVars, lossy, aborted>>

NetworkMain(h) ==
    /\ net[h].state = "up" /\ ~inHandler[h]
    /\ \/ SendMessage(h)
       \/ SendWait(h, "SendP", "Receive0")
       \/ Receive(h, "Receive0", 0, "Ack")
       \/ SendAck(h)
       \/ SendWait(h, "AckP", "Receive1")
       \/ Receive(h, "Receive1", 1, "done")
       \/ Halt(h)

PostalDelivery(h) ==
    /\ Up(h) /\ ~inHandler[h]
    /\ DeliveryWait(h) \/ DeliveryReceive(h) \/ DeliveryPut(h)

NetworkHandler(h) == Up(h) /\ (ReceiveCallBack(h) \/ SendCallBack(h))

NetworkRunnable(h) ==
    \/ net[h].worker # "P" \/ net[h].avail > 0
    \/ net[h].pc \in {"Send", "Ack", "done"}
    \/ net[h].pc \in {"SendP", "AckP"} /\ net[h].sent > 0
    \/ net[h].pc = "Receive0" /\ net[h].boxes[0] # <<>>
    \/ net[h].pc = "Receive1" /\ net[h].boxes[1] # <<>>

NetworkTick(h) ==
    /\ Up(h)
    /\ \/ NetworkRunnable(h) /\ OneTick(h)
       \/ ~NetworkRunnable(h) /\ Idle(h)
    /\ UNCHANGED <<networkVars, aborted>>

NetworkFinished == \A h \in Hosts : net[h].state = "halted"
NothingLost == \A h \in Hosts : ~net[h].lost

(***************************************************************************)
(* The post office neither loses, repeats nor reorders what reaches the    *)
(* machine: every packet is in a mailbox or was taken out of it, in the    *)
(* hands of PostalDelivery, in the device's buffer or in the socket, in    *)
(* the order in which they were sent.                                      *)
(***************************************************************************)
DeliveredInOrder ==
    \A h \in Hosts :
        net[h].wire = net[h].put \o net[h].letter \o net[h].inHdr \o net[h].socket

(***************************************************************************)
(* An acknowledgement means what it says, however many packets are lost: a *)
(* machine that has one was heard by the other, whose main thread has      *)
(* taken the message out of its mailbox.                                   *)
(***************************************************************************)
AnswerMeansReceived ==
    \A h \in Hosts :
        net[h].pc = "done" =>
            LET message == Packet(Far(h), h, 0, 1)
            IN  /\ \E i \in DOMAIN net[Far(h)].put : net[Far(h)].put[i] = message
                /\ \A i \in DOMAIN net[Far(h)].boxes[0] : net[Far(h)].boxes[0][i] # message
=============================================================================

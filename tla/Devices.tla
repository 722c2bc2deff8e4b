------------------------------ MODULE Devices ------------------------------
(***************************************************************************)
(* The simulated devices and what the kernel builds on them, driven as     *)
(* main (threads/main.cc) drives them:                                     *)
(*   "disk"     threads that read and write sectors   SynchDisk            *)
(*   "console"  nachos -C                             ConsoleTest          *)
(*   "network"  nachos -N on two machines             NetworkTest          *)
(* All of them are over the interrupt simulation of Interrupt, whose       *)
(* variables they share.                                                   *)
(***************************************************************************)
EXTENDS SynchDisk, ConsoleTest, NetworkTest

\* What is typed: no character of it is the mark of the end of the file.
Chars == {Input[i] : i \in DOMAIN Input}

\* Delays and sizes are not zero; a tick and a seek may take no time.  The byte
\* 0xFF is not typed: ConsoleInput's char cannot tell it from EOF.
ASSUME DeviceConstants ==
    /\ SystemTick \in Nat /\ TimerTicks \in Nat \ {0}
    /\ SectorsPerTrack \in Nat \ {0} /\ NumTracks \in Nat \ {0}
    /\ RotationTime \in Nat \ {0} /\ SeekTime \in Nat
    /\ Input \in Seq(Chars) /\ EOF \notin Chars /\ ConsoleTime \in Nat \ {0}
    /\ NetworkTime \in Nat \ {0}

VARIABLE test

vars == <<test, interruptVars, aborted, diskVars, console, networkVars>>

\* The devices of the other tests are not there.
Absent(x) == x = <<>>
NoDisk ==
    /\ Absent(at) /\ Absent(left) /\ Absent(lock) /\ Absent(semaphore)
    /\ Absent(active) /\ Absent(lastSector) /\ Absent(bufferInit) /\ Absent(clock)

Init ==
    \/ /\ test = "disk" /\ DiskInit
       /\ Absent(console) /\ Absent(lossy) /\ Absent(net)
    \/ /\ test = "console" /\ ConsoleInit
       /\ NoDisk /\ Absent(lossy) /\ Absent(net)
    \/ /\ test = "network" /\ NetworkInit
       /\ NoDisk /\ Absent(console)
-----------------------------------------------------------------------------
InTest(name) == test = name /\ ~aborted /\ UNCHANGED test
Disk == InTest("disk") /\ UNCHANGED <<console, networkVars>>
Console == InTest("console") /\ UNCHANGED <<diskVars, networkVars>>
Network == InTest("network") /\ UNCHANGED <<diskVars, console>>

DiskThread(t) == Disk /\ ThreadStep(t)
DiskHandler == Disk /\ DiskCallBack
DiskAlarm == Disk /\ DiskTimer
DiskClock == Disk /\ DiskTick

ConsoleType == Console /\ Type
ConsoleHandler == Console /\ (InputCallBack \/ OutputCallBack)
ConsoleThread == Console /\ ConsoleMain
ConsoleClock == Console /\ ConsoleTick

NetworkBoot(h) == Network /\ Boot(h)
NetworkThread(h) == Network /\ NetworkMain(h)
NetworkWorker(h) == Network /\ PostalDelivery(h)
NetworkInterrupt(h) == Network /\ NetworkHandler(h)
NetworkClock(h) == Network /\ NetworkTick(h)

Finished ==
    \/ test = "disk" /\ DiskFinished
    \/ test = "console" /\ ConsoleFinished
    \/ test = "network" /\ NetworkFinished

\* The test is over and main has halted the machine.
Halted == Finished /\ UNCHANGED vars

Next ==
    \/ \E t \in Clients : DiskThread(t)
    \/ DiskHandler \/ DiskAlarm \/ DiskClock
    \/ ConsoleType \/ ConsoleHandler \/ ConsoleThread \/ ConsoleClock
    \/ \E h \in Hosts : NetworkBoot(h) \/ NetworkThread(h) \/ NetworkWorker(h)
                            \/ NetworkInterrupt(h) \/ NetworkClock(h)
    \/ Halted

(***************************************************************************)
(* A thread that has a step to take takes it in the end: it resumes after  *)
(* each interrupt, which is why its fairness is strong.  Handlers that are *)
(* due are called, time passes, the user types and starts the machines.    *)
(***************************************************************************)
Fairness ==
    /\ \A t \in Clients : SF_vars(DiskThread(t))
    /\ WF_vars(DiskHandler) /\ WF_vars(DiskAlarm) /\ WF_vars(DiskClock)
    /\ WF_vars(ConsoleType) /\ WF_vars(ConsoleHandler)
    /\ SF_vars(ConsoleThread) /\ WF_vars(ConsoleClock)
    /\ \A h \in Hosts :
          /\ WF_vars(NetworkBoot(h)) /\ SF_vars(NetworkThread(h))
          /\ SF_vars(NetworkWorker(h)) /\ WF_vars(NetworkInterrupt(h))
          /\ WF_vars(NetworkClock(h))

Spec == Init /\ [][Next]_vars /\ Fairness
-----------------------------------------------------------------------------
(***************************************************************************)
(* The assertions of the device emulation hold: no request to a busy disk  *)
(* or display, no character read over another, no packet for another       *)
(* machine or for a mailbox that does not exist.  Each disk request is     *)
(* answered once, and its own thread takes the answer (ReadSector,         *)
(* WriteSector and CallBack of SynchDisk).                                 *)
(***************************************************************************)
NoAssertionFails ==
    /\ ~aborted
    /\ test = "disk" => OneCompletionEach

(***************************************************************************)
(* Disk::ComputeLatency with its rotation, seek and track buffer gives the *)
(* times of a disk that turns.                                             *)
(***************************************************************************)
LatencyIsExact == test = "disk" => DiskLatencyIsExact

(***************************************************************************)
(* What passes through a device is neither lost, repeated nor reordered:   *)
(* the characters from the keyboard to the display, the packets from the   *)
(* socket to the mailboxes.                                                *)
(***************************************************************************)
KeptInOrder ==
    /\ test = "console" => EchoedInOrder
    /\ test = "network" => DeliveredInOrder

(***************************************************************************)
(* In Kernel::NetworkTest an acknowledgement means that the other machine  *)
(* had the message, however many packets are lost.                         *)
(***************************************************************************)
AckMeansReceived == test = "network" => AnswerMeansReceived

(***************************************************************************)
(* The tests end: every disk request returns, the console test sees the    *)
(* end of its input, and the network test is over on both machines unless  *)
(* a packet was lost, which nothing sends again.                           *)
(***************************************************************************)
TestsFinish == <>(Finished \/ (test = "network" /\ ~NothingLost))
=============================================================================

---------------------------- MODULE ConsoleTest ----------------------------
(***************************************************************************)
(* Kernel::ConsoleTest (nachos -C): the main thread echoes what is typed,  *)
(* through the synchronous console (userprog/synchconsole.cc) over the     *)
(* simulated keyboard and display (machine/console.cc).                    *)
(*                                                                         *)
(* console is a record:                                                    *)
(*   script, typed  what is still to be typed, and what UNIX has for us    *)
(*   incoming       ConsoleInput::incoming        inWait   its semaphore   *)
(*   putBusy        ConsoleOutput::putBusy        outWait  its semaphore   *)
(*   pc, ch         where the main thread is, and its variable ch          *)
(*   shown          what has been written to the display                   *)
(* The locks around the two devices have one user here and are left out.   *)
(***************************************************************************)
EXTENDS Interrupt

CONSTANTS Input,        \* the characters that will be typed, a sequence
          EOF,          \* "no character"
          ConsoleTime   \* ticks to read or write one character

VARIABLE console

\* ConsoleInput::ConsoleInput starts to poll.
ConsoleInput == Interrupt({Host}, <<PendingInterrupt("ConsoleReadInt", ConsoleTime)>>)

\* class ConsoleInput, class ConsoleOutput and their synchronous versions, as constructed.
ConsoleInit ==
    /\ console = [script |-> Input, typed |-> <<>>,
                  incoming |-> EOF, inWait |-> 0,
                  putBusy |-> FALSE, outWait |-> 0,
                  pc |-> "GetChar", ch |-> EOF, shown |-> <<>>]
    /\ ConsoleInput

\* The user types a character, and UNIX passes it on.
Type ==
    /\ console.script # <<>>
    /\ console' = [console EXCEPT !.script = Tail(@),
                                  !.typed = Append(@, Head(console.script))]
    /\ UNCHANGED <<interruptVars, aborted>>

\* PollFile: there is a character, or the end of the file, to be read.
PollFile == console.typed # <<>> \/ console.script = <<>>

\* SynchConsoleInput::CallBack and SynchConsoleOutput::CallBack: waitFor->V()
InputAvailable(c) == [c EXCEPT !.inWait = @ + 1]
OutputDone(c) == [c EXCEPT !.outWait = @ + 1]

(***************************************************************************)
(* ConsoleInput::CallBack: poll again later, or read.  At the end of the   *)
(* file no character comes and none will.  Then SynchConsoleInput's V.     *)
(***************************************************************************)
InputCallBack ==
    /\ Calls(Host, "ConsoleReadInt")
    /\ aborted' = (aborted \/ console.incoming # EOF)
    /\ \/ /\ ~PollFile
          /\ CheckIfDue(Host, Schedule(Rest(Host), "ConsoleReadInt", ConsoleTime))
          /\ UNCHANGED console
       \/ /\ PollFile
          /\ console' = IF console.typed = <<>>
                        THEN InputAvailable(console)
                        ELSE InputAvailable([console EXCEPT !.incoming = Head(console.typed),
                                                            !.typed = Tail(@)])
          /\ CheckIfDue(Host, Rest(Host))

\* ConsoleOutput::CallBack
OutputCallBack ==
    /\ Calls(Host, "ConsoleWriteInt")
    /\ console' = OutputDone([console EXCEPT !.putBusy = FALSE])
    /\ CheckIfDue(Host, Rest(Host))
    /\ UNCHANGED aborted

\* SynchConsoleInput::GetChar, up to the return of its P
GetChar ==
    /\ console.pc = "GetChar" /\ console.inWait > 0
    /\ console' = [console EXCEPT !.inWait = @ - 1, !.pc = "take"]
    /\ UNCHANGED <<interruptVars, aborted>>

\* Mutant: ConsoleInput::GetChar leaves the character in the buffer.
TakeMutated ==
    /\ console.pc = "take"
    /\ pending' = IF console.incoming = EOF
                  THEN pending
                  ELSE [pending EXCEPT ![Host] =
                            Schedule(@, "ConsoleReadInt", ConsoleTime)]
    /\ console' = [console EXCEPT !.ch = console.incoming,
                                  !.pc = IF console.incoming = EOF
                                         THEN "done" ELSE "PutChar"]
    /\ UNCHANGED <<inHandler, aborted>>

\* ConsoleInput::GetChar takes the character and asks for the next; ConsoleTest looks at it.
Take ==
    /\ console.pc = "take"
    /\ pending' = IF console.incoming = EOF
                  THEN pending
                  ELSE [pending EXCEPT ![Host] =
                            Schedule(@, "ConsoleReadInt", ConsoleTime)]
    /\ console' = [console EXCEPT !.ch = console.incoming, !.incoming = EOF,
                                  !.pc = IF console.incoming = EOF
                                         THEN "done" ELSE "PutChar"]
    /\ UNCHANGED <<inHandler, aborted>>

\* SynchConsoleOutput::PutChar calls ConsoleOutput::PutChar ...
PutChar ==
    /\ console.pc = "PutChar"
    /\ aborted' = (aborted \/ console.putBusy)
    /\ console' = [console EXCEPT !.shown = Append(@, console.ch),
                                  !.putBusy = TRUE, !.pc = "P"]
    /\ pending' = [pending EXCEPT ![Host] = Schedule(@, "ConsoleWriteInt", ConsoleTime)]
    /\ UNCHANGED inHandler

\* ... and waits for its interrupt.
PutCharWait ==
    /\ console.pc = "P" /\ console.outWait > 0
    /\ console' = [console EXCEPT !.outWait = @ - 1, !.pc = "GetChar"]
    /\ UNCHANGED <<interruptVars, aborted>>

ConsoleRunnable ==
    \/ console.pc \in {"take", "PutChar"}
    \/ console.pc = "GetChar" /\ console.inWait > 0
    \/ console.pc = "P" /\ console.outWait > 0

ConsoleMain == ~inHandler[Host] /\ (GetChar \/ Take \/ PutChar \/ PutCharWait)

ConsoleTick ==
    /\ \/ ConsoleRunnable /\ OneTick(Host)
       \/ ~ConsoleRunnable /\ Idle(Host)
    /\ UNCHANGED <<console, aborted>>

ConsoleFinished == console.pc = "done"

(***************************************************************************)
(* Every character is in exactly one place, and they stay in order: the    *)
(* display, the hands of the main thread, the device, UNIX, the user.      *)
(***************************************************************************)
Held(c) == IF c = EOF THEN <<>> ELSE <<c>>

EchoedInOrder ==
    Input = console.shown
            \o (IF console.pc = "PutChar" THEN <<console.ch>> ELSE <<>>)
            \o Held(console.incoming) \o console.typed \o console.script
=============================================================================

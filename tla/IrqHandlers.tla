---------------------------- MODULE IrqHandlers ----------------------------
(***************************************************************************)
(* PicIrq with the interrupt handlers of the emulated BIOS: the processor  *)
(* keeps a stack of the handlers it is in, and each of them sends the end  *)
(* of its interrupt and returns, as the code written by CALLBACK_SetupExtra *)
(* and the callbacks it calls do.  The question is whether handlers that    *)
(* interrupt one another end their own interrupts and no others.            *)
(***************************************************************************)
EXTENDS PicIrq, Sequences

VARIABLE stack  \* the handlers entered and not returned from, innermost last

handlerVars == <<vars, stack>>

\* What a handler does, as far as the controllers can tell.  "call" runs code
\* that a program may have hooked and that may enable interrupts: INT 1C, INT
\* 15, the mouse callback.
TimerHandler == <<"call", "cli", "eoi0", "iret">>
KeyboardHandler == <<"call", "cli", "eoi0", "iret">>
ClockHandler == <<"eoi1", "eoi0", "iret">>
CascadeHandler == <<"end9", "eoi0", "cli", "iret">>
MouseHandler == <<"sti", "call", "cli", "eoi1", "eoi0", "iret">>
\* A handler of a program, on a line of the first controller.
ProgramHandler == <<"call", "cli", "eoi0", "iret">>

Handler(i) == CASE i = 0 -> TimerHandler
                [] i = 1 -> KeyboardHandler
                [] i = 8 -> ClockHandler
                [] i = 9 -> CascadeHandler
                [] i = 12 -> MouseHandler
                [] OTHER -> ProgramHandler

Top == stack[Len(stack)]
Instruction == Handler(Top.line)[Top.at]
Advance == stack' = [stack EXCEPT ![Len(stack)].at = @ + 1]
Return == stack' = SubSeq(stack, 1, Len(stack) - 1)

At(instruction) == stack # <<>> /\ Instruction = instruction

HandlerSti == At("sti") /\ Sti /\ Advance
HandlerCli == At("cli") /\ Cli /\ Advance

\* The hooked code enables interrupts for a time, or returns.
HookSti == At("call") /\ Sti /\ UNCHANGED stack
HookReturns == At("call") /\ pc = "program" /\ Advance /\ UNCHANGED vars

SendEOI(p) ==
  /\ At(IF p = 0 THEN "eoi0" ELSE "eoi1")
  /\ NonspecificEOI(p)
  /\ Advance

SendSpecificEOI == At("end9") /\ SpecificEOI(1, 9) /\ Advance

\* IRET restores the flag, which was set when the handler was entered.
Iret == At("iret") /\ Sti /\ Return

\* The program that was interrupted changes the masks, the flag.
Main == stack = <<>> /\ (Mask \/ Sti \/ Cli) /\ UNCHANGED stack

\* The interrupt PIC_runIRQs starts pushes a frame.
Deliver ==
  /\ RunQueue
  /\ stack' = IF active' = active THEN stack
              ELSE Append(stack, [line |-> CHOOSE i \in active : i \notin active', at |-> 1])

HandlersInit == Init /\ stack = <<>>

HandlersNext ==
  \/ (Device \/ SliceEnd) /\ UNCHANGED stack
  \/ Deliver
  \/ HandlerSti \/ HandlerCli \/ HookSti \/ HookReturns
  \/ SendEOI(0) \/ SendEOI(1) \/ SendSpecificEOI \/ Iret
  \/ Main

HandlersSpec == HandlersInit /\ [][HandlersNext]_handlerVars

-----------------------------------------------------------------------------

\* The command by which a handler ends the interrupt of its own line.
OwnEOI(i) == IF i = 9 THEN "end9" ELSE IF PicOf(i) = 1 THEN "eoi1" ELSE "eoi0"

Unended(frame) ==
  \E k \in frame.at..Len(Handler(frame.line)) : Handler(frame.line)[k] = OwnEOI(frame.line)

\* The lines in service are those of the handlers that have not sent their end
\* of interrupt yet, each handler that interrupts another included: the two
\* EOIs of a handler of the second controller ("Signal EOI to both pics",
\* bios.cpp:60) end one interrupt, its own.
OwnServiceEnds ==
  inservice = {stack[n].line : n \in {m \in DOMAIN stack : Unended(stack[m])}}

\* Handlers are nested by priority: one that has not ended its interrupt yet
\* is only interrupted by lines of a higher priority.
NestedByPriority ==
  \A m, n \in DOMAIN stack :
    m < n /\ Unended(stack[m]) => Rank(stack[n].line) < Rank(stack[m].line)

=============================================================================

------------------------------- MODULE PicIrq -------------------------------
(***************************************************************************)
(* The two interrupt controllers of hardware/pic.cpp: sixteen lines that   *)
(* devices raise and lower, the mask and command registers a program       *)
(* writes, and PIC_runIRQs, which picks the line the processor is          *)
(* interrupted with.  The arrays of flags irqs[16] are sets of lines here. *)
(*                                                                         *)
(* The processor is what Normal_Loop sees of it: it is either in the loop, *)
(* about to call PIC_RunQueue, or running the program in a time slice, and *)
(* it takes interrupts or not (FlagIF).  Vectors are not modelled, nor is      *)
(* PIC_IRQOnSecondPicActive, which is written and never read.              *)
(***************************************************************************)
EXTENDS Integers, FiniteSets

CONSTANTS
  Lines,     \* the lines that have a device
  PCJR,      \* machine == MCH_PCJR
  Programmed,\* the controllers a program writes commands to
  Commands   \* the commands it writes, see the actions

Irqs == 0..15
Controllers == {0, 1}
PIC_NOIRQ == 255

ASSUME LinesAssumption == Lines \subseteq Irqs
ASSUME ProgrammedAssumption == Programmed \subseteq Controllers
ASSUME MachineAssumption == PCJR \in BOOLEAN

VARIABLES
  active, masked, inservice,  \* the lines with the flag of that name set
  PIC_IRQCheck,               \* the bits of the word of that name
  PIC_IRQActive,
  PIC_Special_Mode,
  pics,                       \* the registers of the two controllers
  FlagIF,                     \* the processor's interrupt flag
  pc                          \* "loop", "program", or "exited" by E_Exit

lineVars == <<active, masked, inservice, PIC_IRQCheck, PIC_IRQActive>>
picVars == <<lineVars, PIC_Special_Mode, pics>>
vars == <<picVars, FlagIF, pc>>

\* The controller of a line, and the lines of a controller.
PicOf(i) == IF i > 7 THEN 1 ELSE 0
LinesOf(p) == {i \in Irqs : PicOf(i) = p}

\* The place of a line in IRQ_priority_order, 16 for no line: the second
\* controller hangs on line 2 of the first.
Rank(i) == IF i <= 2 THEN i ELSE IF i <= 7 THEN i + 8
           ELSE IF i <= 15 THEN i - 5 ELSE 16

Highest(S) == CHOOSE i \in S : \A k \in S : Rank(i) <= Rank(k)

-----------------------------------------------------------------------------
(* Devices: PIC_ActivateIRQ and PIC_DeActivateIRQ, called from events while *)
(* the emulator is in its loop and from port handlers while a program runs. *)

\* The lines among A that the word PIC_IRQCheck has a bit for, when M is masked.
Requested(A, M) == {i \in A \ M : PicOf(i) = 0 \/ 2 \notin M}

Activated(i) ==
  /\ active' = active \cup {i}
  /\ PIC_IRQCheck' = PIC_IRQCheck \cup Requested({i}, masked)

ActivateIRQ(i) ==
  /\ pc # "exited"
  /\ Activated(i)
  /\ UNCHANGED <<masked, inservice, PIC_IRQActive, PIC_Special_Mode, pics, FlagIF, pc>>

DeActivateIRQ(i) ==
  /\ pc # "exited"
  /\ active' = active \ {i}
  /\ PIC_IRQCheck' = PIC_IRQCheck \ {i}
  /\ UNCHANGED <<masked, inservice, PIC_IRQActive, PIC_Special_Mode, pics, FlagIF, pc>>

-----------------------------------------------------------------------------
(* The mask register.  Whoever changes it while a line is requested ends    *)
(* the time slice, so that the loop looks at the lines again.               *)

Recheck(check) == IF check # {} THEN "loop" ELSE pc

\* The word when the lines in M are masked and the bits of S computed anew.
CheckAnew(S, M) == (PIC_IRQCheck \ S) \cup (Requested(active, M) \cap S)

\* (Mutant: the second controller is forgotten.)
SecondPicForgotten(M) == {}

\* Both functions look at the second controller again when the mask of line 2
\* has changed.
SecondPic(M) == IF (2 \in M) # (2 \in masked) THEN LinesOf(1) ELSE {}

\* Port 0x21 or 0xa1 while no initialisation is under way.  On a PCjr line 6
\* is unmasked again after the bits were computed.
WriteMask(p, word) ==
  /\ pc = "program"
  /\ pics[p].icw_index = 0
  /\ LET M == (masked \ LinesOf(p)) \cup word IN
     /\ masked' = IF PCJR THEN M \ {6} ELSE M
     /\ PIC_IRQCheck' = CheckAnew(LinesOf(p) \cup SecondPic(M), M)
  /\ pc' = Recheck(PIC_IRQCheck')
  /\ UNCHANGED <<active, inservice, PIC_IRQActive, PIC_Special_Mode, pics, FlagIF>>

\* PIC_SetIRQMask, called by the mouse driver and the MPU-401: one line.
SetIRQMask(i, m) ==
  /\ pc = "program"
  /\ (i \in masked) # m
  /\ masked' = IF m THEN masked \cup {i} ELSE masked \ {i}
  /\ PIC_IRQCheck' = CheckAnew({i} \cup SecondPic(masked'), masked')
  /\ pc' = Recheck(PIC_IRQCheck')
  /\ UNCHANGED <<active, inservice, PIC_IRQActive, PIC_Special_Mode, pics, FlagIF>>

-----------------------------------------------------------------------------
(* The command register.                                                   *)

SetPic(p, field, v) == pics' = [pics EXCEPT ![p][field] = v]

\* ICW1: the words that follow on the data port initialise the controller.
Icw1(p, single, icw4) ==
  /\ pc = "program" /\ "icw" \in Commands
  /\ pics' = [pics EXCEPT ![p] = [@ EXCEPT !.single = single, !.icw_index = 1,
                                           !.icw_words = IF icw4 THEN 3 ELSE 2]]
  /\ UNCHANGED <<lineVars, PIC_Special_Mode, FlagIF, pc>>

\* The index after the word at the present one: ICW3 is skipped in single mode, but
\* the test for the last word comes first.
IndexAfter(p) ==
  LET pic == pics[p] IN
  IF pic.icw_index >= pic.icw_words THEN 0
  ELSE IF pic.icw_index = 1 /\ pic.single THEN 3
  ELSE pic.icw_index + 1

\* A word on the data port during the initialisation: ICW2 and ICW3 (whose
\* values are not modelled), or ICW4.  An ICW4 without its low bit exits.
IcwWord(p, auto_eoi, mode86) ==
  /\ pc = "program"
  /\ pics[p].icw_index > 0
  /\ pics' = [pics EXCEPT
       ![p].icw_index = IndexAfter(p),
       ![p].auto_eoi = IF pics[p].icw_index = 3 THEN auto_eoi ELSE @]
  /\ pc' = IF pics[p].icw_index = 3 /\ ~mode86 THEN "exited" ELSE pc
  /\ UNCHANGED <<lineVars, PIC_Special_Mode, FlagIF>>

\* OCW3: which register the command port reads, and special mask mode.
SelectRegister(p, issr) ==
  /\ pc = "program" /\ "read" \in Commands
  /\ SetPic(p, "request_issr", issr)
  /\ UNCHANGED <<lineVars, PIC_Special_Mode, FlagIF, pc>>

\* `pic' is the controller written to, so pic[0] is pics[p].
SpecialMode(p) == pics'[p].special \/ pics'[1].special

SetSpecialMask(p, on) ==
  /\ pc = "program" /\ "special" \in Commands
  /\ SetPic(p, "special", on)
  /\ PIC_Special_Mode' = SpecialMode(p)
  /\ pc' = Recheck(PIC_IRQCheck)
  /\ UNCHANGED <<lineVars, FlagIF>>

\* (Mutants: the search for the line that was interrupted is left out, starts
\* in the order of the numbers, or ends with its index 16.)
EndServiceNoSearch ==
  /\ inservice' = inservice \ {PIC_IRQActive}
  /\ PIC_IRQActive' = PIC_NOIRQ

EndServiceByNumber ==
  /\ inservice' = inservice \ {PIC_IRQActive}
  /\ PIC_IRQActive' = IF inservice' = {} THEN PIC_NOIRQ
                      ELSE CHOOSE i \in inservice' : \A k \in inservice' : i <= k

EndServiceSixteen ==
  /\ inservice' = inservice \ {PIC_IRQActive}
  /\ PIC_IRQActive' = IF inservice' = {} THEN 16 ELSE Highest(inservice')

\* OCW2: the end of an interrupt.  The line that was interrupted, if any, is
\* the active one again.
EndService ==
  /\ inservice' = inservice \ {PIC_IRQActive}
  /\ PIC_IRQActive' = IF inservice' = {} THEN PIC_NOIRQ ELSE Highest(inservice')

\* Specific: only the active line can be ended.
SpecificEOI(p, i) ==
  /\ pc = "program" /\ "specific" \in Commands
  /\ i \in LinesOf(p)
  /\ IF PIC_IRQActive = i THEN EndService ELSE UNCHANGED <<inservice, PIC_IRQActive>>
  /\ UNCHANGED <<active, masked, PIC_IRQCheck, PIC_Special_Mode, pics, FlagIF, pc>>

\* Not specific: irq_base+8 is 16 on the second controller, so that its
\* command ends a line of the first as well.
CanEnd(p) == PIC_IRQActive < 8 * p + 8

NonspecificEOI(p) ==
  /\ pc = "program" /\ "eoi" \in Commands
  /\ IF CanEnd(p) THEN EndService ELSE UNCHANGED <<inservice, PIC_IRQActive>>
  /\ UNCHANGED <<active, masked, PIC_IRQCheck, PIC_Special_Mode, pics, FlagIF, pc>>

SetRotate(p, on) ==
  /\ pc = "program" /\ "rotate" \in Commands
  /\ SetPic(p, "rotate_on_auto_eoi", on)
  /\ UNCHANGED <<lineVars, PIC_Special_Mode, FlagIF, pc>>

\* The commands that are not handled: polling, level triggered mode, rotation
\* of the priorities, the 8080 mode.
Unhandled ==
  /\ pc = "program" /\ "unhandled" \in Commands
  /\ pc' = "exited"
  /\ UNCHANGED <<picVars, FlagIF>>

-----------------------------------------------------------------------------
(* PIC_runIRQs.                                                            *)

\* (Mutants: priorities compared as numbers, or not at all.)
OutranksByNumber(i) == i < PIC_IRQActive
OutranksIgnored(i) == TRUE

\* A line has to beat the active one, or be in special mask mode.
Outranks(i) == Rank(i) < Rank(PIC_IRQActive)
Allowed(i) == Outranks(i) \/ (PIC_Special_Mode /\ pics[PicOf(i)].special)

\* PIC_startIRQ refuses the lines of the second controller while line 2 is
\* masked, and the walk goes on to the next line.
Ready == {i \in active \ masked : Allowed(i) /\ (PicOf(i) = 0 \/ 2 \notin masked)}

\* PIC_startIRQ, which interrupts the program: the processor clears IF.
StartIRQ(i) ==
  /\ active' = active \ {i}
  /\ PIC_IRQCheck' = PIC_IRQCheck \ {i}
  /\ FlagIF' = FALSE
  /\ IF pics[PicOf(i)].auto_eoi
     THEN /\ pc' = IF pics[PicOf(i)].rotate_on_auto_eoi THEN "exited" ELSE "program"
          /\ UNCHANGED <<inservice, PIC_IRQActive>>
     ELSE /\ pc' = "program"
          /\ PIC_IRQActive' = i
          /\ inservice' = inservice \cup {i}
  /\ UNCHANGED masked

\* (Mutant: the walk ends at a line that PIC_startIRQ refuses.)
RunIRQsGivesUp ==
  LET waiting == {i \in active \ masked : Allowed(i)} IN
  IF FlagIF /\ PIC_IRQCheck # {} /\ waiting # {} /\ Highest(waiting) \in Ready
  THEN StartIRQ(Highest(Ready))
  ELSE pc' = "program" /\ UNCHANGED <<lineVars, FlagIF>>

RunIRQs ==
  IF FlagIF /\ PIC_IRQCheck # {} /\ Ready # {}
  THEN StartIRQ(Highest(Ready))
  ELSE pc' = "program" /\ UNCHANGED <<lineVars, FlagIF>>

\* The end of PIC_RunQueue: the loop goes on to run the program.
RunQueue ==
  /\ pc = "loop"
  /\ RunIRQs
  /\ UNCHANGED <<PIC_Special_Mode, pics>>

\* The same while the processor single-steps: no line is started.
TrapRun ==
  /\ pc = "loop" /\ "trap" \in Commands
  /\ pc' = "program"
  /\ UNCHANGED <<picVars, FlagIF>>

-----------------------------------------------------------------------------
(* The program.  STI, POPF and IRET leave the decoder when they enable      *)
(* interrupts and a line is requested.                                      *)

\* (Mutant: STI stays in the decoder.)
StiStays ==
  /\ pc = "program"
  /\ FlagIF' = TRUE
  /\ UNCHANGED <<picVars, pc>>

Sti ==
  /\ pc = "program"
  /\ FlagIF' = TRUE
  /\ pc' = Recheck(PIC_IRQCheck)
  /\ UNCHANGED picVars

Cli ==
  /\ pc = "program"
  /\ FlagIF' = FALSE
  /\ UNCHANGED <<picVars, pc>>

\* The cycles of the slice are used up.
SliceEnd ==
  /\ pc = "program"
  /\ pc' = "loop"
  /\ UNCHANGED <<picVars, FlagIF>>

-----------------------------------------------------------------------------

ResetPic ==
  [special |-> FALSE, auto_eoi |-> FALSE, rotate_on_auto_eoi |-> FALSE,
   single |-> FALSE, request_issr |-> FALSE, icw_index |-> 0, icw_words |-> 0]

\* The constructor: the timer, the keyboard, the second controller and the
\* clock are enabled, and line 6 on a PCjr.
Init ==
  /\ active = {} /\ inservice = {}
  /\ masked = Irqs \ ({0, 1, 2, 8} \cup (IF PCJR THEN {6} ELSE {}))
  /\ PIC_IRQCheck = {}
  /\ PIC_IRQActive = PIC_NOIRQ
  /\ PIC_Special_Mode = FALSE
  /\ pics = [p \in Controllers |-> ResetPic]
  /\ FlagIF = FALSE
  /\ pc = "loop"

\* The programs change the masks of the lines that have a device, and of line 2.
Masks(p) == {(LinesOf(p) \ (Lines \cup {2})) \cup w :
               w \in SUBSET (LinesOf(p) \cap (Lines \cup {2}))}

Device == \E i \in Lines : ActivateIRQ(i) \/ DeActivateIRQ(i)

Mask == \/ \E p \in Controllers : \E word \in Masks(p) : WriteMask(p, word)
        \/ \E i \in Lines \cup {2}, m \in BOOLEAN : SetIRQMask(i, m)

Command ==
  \/ \E p \in Programmed, a, b \in BOOLEAN : Icw1(p, a, b) \/ IcwWord(p, a, b)
  \/ \E p \in Programmed, on \in BOOLEAN :
       SelectRegister(p, on) \/ SetSpecialMask(p, on) \/ SetRotate(p, on)
  \/ \E p \in Programmed : NonspecificEOI(p)
  \/ \E p \in Programmed, i \in Irqs : SpecificEOI(p, i)
  \/ Unhandled

Next == Device \/ Mask \/ Command \/ RunQueue \/ TrapRun \/ Sti \/ Cli \/ SliceEnd

Spec == Init /\ [][Next]_vars

\* The loop of Normal_Loop goes on, and the cycles of a slice run out.
FairSpec == Spec /\ WF_vars(RunQueue) /\ WF_vars(SliceEnd)

-----------------------------------------------------------------------------
(* Properties.                                                             *)

TypeOK ==
  /\ active \in SUBSET Irqs /\ masked \in SUBSET Irqs /\ inservice \in SUBSET Irqs
  /\ PIC_IRQCheck \in SUBSET Irqs
  /\ PIC_IRQActive \in Irqs \cup {PIC_NOIRQ}
  /\ PIC_Special_Mode \in BOOLEAN
  /\ pics \in [Controllers ->
       [special : BOOLEAN, auto_eoi : BOOLEAN, rotate_on_auto_eoi : BOOLEAN,
        single : BOOLEAN, request_issr : BOOLEAN,
        icw_index : 0..3, icw_words : {0, 2, 3}]]
  /\ FlagIF \in BOOLEAN
  /\ pc \in {"loop", "program", "exited"}

\* The word that decides whether PIC_runIRQs is called at all has a bit for
\* exactly the lines that are raised and enabled, whatever the order in which
\* devices, mask writes and deliveries changed either.  (Not so for line 6 of
\* a PCjr, which a write to the mask register unmasks after its bit is
\* computed, so that it may be raised, enabled and not seen.)
CheckExact ==
  LET nmi == IF PCJR THEN {6} ELSE {} IN
  PIC_IRQCheck \ nmi = Requested(active, masked) \ nmi

\* While any interrupt is in service the emulator knows of one that is, and
\* PIC_NOIRQ stands for none: a line in service is never forgotten (it would
\* be blocked for ever), in whatever modes the controllers are.
ServiceRemembered ==
  IF inservice = {} THEN PIC_IRQActive = PIC_NOIRQ ELSE PIC_IRQActive \in inservice

\* Without special mask mode the line it knows of is the one of the highest
\* priority, so that PIC_runIRQs compares with the right one after nested
\* interrupts have ended in any order.
HighestIsActive ==
  "special" \notin Commands =>
     PIC_IRQActive = IF inservice = {} THEN PIC_NOIRQ ELSE Highest(inservice)

\* Without special mask mode an interrupt is only interrupted by a line of a
\* higher priority than all that are in service.
NoInversion ==
  [][ "special" \notin Commands =>
        \A i \in inservice' \ inservice, k \in inservice : Rank(i) < Rank(k) ]_vars

\* The emulator never runs on for ever with interrupts enabled and a line that
\* may interrupt: not even when the line of the highest priority is one that
\* PIC_startIRQ refuses.
NeverStuck ==
  "trap" \notin Commands => []<>(pc = "exited" \/ ~FlagIF \/ Ready = {})

\* The timer is not missed by a program that enables interrupts for the
\* shortest time, again and again, while no handler runs: STI leaves the
\* decoder at once, and line 0 comes first.
TimerServed ==
  <>[](0 \in active \ masked) => <>[][~(Sti /\ inservice = {})]_vars

=============================================================================

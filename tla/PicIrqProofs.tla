---------------------------- MODULE PicIrqProofs ----------------------------
(***************************************************************************)
(* Theorems about PicIrq for every set of lines and commands, on a PCjr and *)
(* on the other machines; and at the end about IrqHandlers, for handlers   *)
(* of the BIOS that interrupt one another to any depth.                    *)
(***************************************************************************)
EXTENDS IrqHandlers, WellFoundedInduction, TLAPS

\* What HighestIsActive needs besides: without the command nobody sets the mode.
NormalMode == "special" \notin Commands => ~PIC_Special_Mode

IInv == TypeOK /\ CheckExact /\ ServiceRemembered /\ HighestIsActive /\ NormalMode

-----------------------------------------------------------------------------
(* The order of the priorities.                                            *)

\* A rank for every line, and no two lines with the same.
LEMMA RankFacts ==
  /\ \A i \in Irqs : Rank(i) \in 0..15
  /\ \A i, k \in Irqs : Rank(i) = Rank(k) => i = k
  /\ Rank(PIC_NOIRQ) = 16
BY DEF Rank, Irqs, PIC_NOIRQ

\* A set of lines that is not empty has one of the highest priority.
LEMMA HighestExists ==
  ASSUME NEW S \in SUBSET Irqs, S # {}
  PROVE  /\ Highest(S) \in S
         /\ \A k \in S : Rank(Highest(S)) <= Rank(k)
<1> DEFINE R == {ss \in Nat \X Nat : ss[1] < ss[2]}
           Ranks == {Rank(i) : i \in S}
<1>1. IsWellFoundedOn(R, Nat)
  BY NatLessThanWellFounded DEF OpToRel
<1>2. Ranks \in SUBSET Nat /\ Ranks # {}
  BY RankFacts
<1> HIDE DEF R, Ranks
<1>3. PICK r \in Ranks : \A q \in Ranks : ~(<<q, r>> \in R)
  BY <1>1, <1>2, WFMin, Zenon
<1>4. \A q \in Ranks : ~(q < r)
  BY <1>2, <1>3 DEF R
<1>4a. \A q \in Ranks : r <= q
  BY <1>2, <1>4
<1>5. \E i \in S : \A k \in S : Rank(i) <= Rank(k)
  BY <1>4a DEF Ranks
<1> QED
  BY <1>5 DEF Highest

\* It is the only one.
LEMMA HighestIs ==
  ASSUME NEW S \in SUBSET Irqs, NEW i \in S, \A k \in S : Rank(i) <= Rank(k)
  PROVE  Highest(S) = i
<1>1. Highest(S) \in S /\ Rank(Highest(S)) <= Rank(i)
  BY HighestExists
<1>2. Rank(i) <= Rank(Highest(S))
  BY <1>1
<1> QED
  BY <1>1, <1>2, RankFacts

-----------------------------------------------------------------------------

LEMMA LinesFacts ==
  /\ \A p \in Controllers : LinesOf(p) \subseteq Irqs
  /\ \A i \in Irqs : PicOf(i) \in Controllers /\ i \in LinesOf(PicOf(i))
  /\ 2 \in Irqs /\ 6 \in Irqs /\ PicOf(2) = 0 /\ PicOf(6) = 0
BY DEF LinesOf, PicOf, Irqs, Controllers

\* The fields of a register of a controller.
Registers ==
  [special : BOOLEAN, auto_eoi : BOOLEAN, rotate_on_auto_eoi : BOOLEAN,
   single : BOOLEAN, request_issr : BOOLEAN,
   icw_index : 0..3, icw_words : {0, 2, 3}]

\* The initial state.
LEMMA InitSound == Init => IInv
<1> SUFFICES ASSUME Init PROVE IInv
  OBVIOUS
<1> USE DEF Init
<1>1. TypeOK
  <2>1. ResetPic \in Registers
    BY DEF ResetPic, Registers
  <2>2. pics \in [Controllers -> Registers]
    BY <2>1
  <2> QED
    BY <2>2, MachineAssumption DEF TypeOK, Registers, Irqs
<1>2. CheckExact
  BY DEF CheckExact, Requested
<1> QED
  BY <1>1, <1>2 DEF IInv, ServiceRemembered, HighestIsActive, NormalMode

\* Raising and lowering a line.
LEMMA DeviceSound ==
  ASSUME IInv, Device
  PROVE  IInv'
<1>1. PICK i \in Lines : ActivateIRQ(i) \/ DeActivateIRQ(i)
  BY DEF Device
<1>2. i \in Irqs
  BY LinesAssumption
<1>3. UNCHANGED <<masked, inservice, PIC_IRQActive, PIC_Special_Mode, pics, FlagIF, pc>>
  BY <1>1 DEF ActivateIRQ, DeActivateIRQ
<1>4. /\ active' \in SUBSET Irqs
      /\ PIC_IRQCheck' \in SUBSET Irqs
  BY <1>1, <1>2 DEF IInv, TypeOK, ActivateIRQ, DeActivateIRQ, Activated, Requested
<1>5. TypeOK'
  BY <1>3, <1>4 DEF IInv, TypeOK
<1>6. CheckExact'
  BY <1>1, <1>3 DEF IInv, CheckExact, ActivateIRQ, DeActivateIRQ, Activated, Requested
<1> QED
  BY <1>3, <1>5, <1>6 DEF IInv, ServiceRemembered, HighestIsActive, NormalMode

\* The word is exact again after the bits of S were computed anew, when they
\* are those of all lines whose mask changed, and those of the second
\* controller when the mask of line 2 did.
LEMMA CheckAnewExact ==
  ASSUME NEW S \in SUBSET Irqs, NEW M \in SUBSET Irqs, TypeOK,
         CheckExact, \A i \in Irqs : (i \in M) # (i \in masked) => i \in S
  PROVE  LET nmi == IF PCJR THEN {6} ELSE {} IN
         CheckAnew(S \cup SecondPic(M), M) \ nmi = Requested(active, M) \ nmi
<1> DEFINE T == S \cup SecondPic(M)
<1>1. \A i \in Irqs \ T : (i \in Requested(active, M)) <=> (i \in Requested(active, masked))
  BY LinesFacts DEF Requested, SecondPic, LinesOf, PicOf
<1>2. \A i \in Irqs \ T : (i \in CheckAnew(T, M)) <=> (i \in PIC_IRQCheck)
  BY DEF CheckAnew
<1>3. \A i \in T : (i \in CheckAnew(T, M)) <=> (i \in Requested(active, M))
  BY DEF CheckAnew
<1>4. /\ CheckAnew(T, M) \subseteq Irqs
      /\ Requested(active, M) \subseteq Irqs
  BY DEF TypeOK, CheckAnew, Requested
<1> QED
  BY <1>1, <1>2, <1>3, <1>4 DEF CheckExact

\* Changes of the masks.
LEMMA MaskSound ==
  ASSUME IInv, Mask
  PROVE  IInv'
<1>1. ASSUME NEW p \in Controllers, NEW word \in Masks(p), WriteMask(p, word)
      PROVE  IInv'
  <2> DEFINE M == (masked \ LinesOf(p)) \cup word
             S == LinesOf(p)
  <2>1. word \subseteq LinesOf(p)
    BY <1>1 DEF Masks
  <2>2. M \in SUBSET Irqs /\ S \in SUBSET Irqs
    BY <2>1, LinesFacts DEF IInv, TypeOK
  <2>3. \A i \in Irqs : (i \in M) # (i \in masked) => i \in S
    BY <2>1
  <2>4. masked' = IF PCJR THEN M \ {6} ELSE M
    BY <1>1 DEF WriteMask
  <2>5. PIC_IRQCheck' = CheckAnew(S \cup SecondPic(M), M)
    BY <1>1 DEF WriteMask
  <2>6. UNCHANGED <<active, inservice, PIC_IRQActive, PIC_Special_Mode, pics, FlagIF>>
    BY <1>1 DEF WriteMask
  <2>7. pc' \in {"loop", "program", "exited"}
    BY <1>1 DEF WriteMask, Recheck
  <2>8. LET nmi == IF PCJR THEN {6} ELSE {} IN
        PIC_IRQCheck' \ nmi = Requested(active, M) \ nmi
    <3> HIDE DEF M, S
    <3> QED
      BY <2>2, <2>3, <2>5, CheckAnewExact DEF IInv
  <2>9. PIC_IRQCheck' \in SUBSET Irqs
    BY <2>5 DEF IInv, TypeOK, CheckAnew, Requested
  <2> HIDE DEF M, S
  <2>10. TypeOK'
    BY <2>2, <2>4, <2>6, <2>7, <2>9 DEF IInv, TypeOK
  <2>11. CheckExact'
    BY <2>4, <2>6, <2>8 DEF CheckExact, Requested
  <2> QED
    BY <2>6, <2>10, <2>11 DEF IInv, ServiceRemembered, HighestIsActive, NormalMode
<1>2. ASSUME NEW i \in Lines \cup {2}, NEW m \in BOOLEAN, SetIRQMask(i, m)
      PROVE  IInv'
  <2>1. i \in Irqs
    BY LinesAssumption DEF Irqs
  <2>2. masked' \in SUBSET Irqs
    BY <1>2, <2>1 DEF IInv, TypeOK, SetIRQMask
  <2>3. \A k \in Irqs : (k \in masked') # (k \in masked) => k \in {i}
    BY <1>2 DEF SetIRQMask
  <2>4. PIC_IRQCheck' = CheckAnew({i} \cup SecondPic(masked'), masked')
    BY <1>2 DEF SetIRQMask
  <2>5. UNCHANGED <<active, inservice, PIC_IRQActive, PIC_Special_Mode, pics, FlagIF>>
    BY <1>2 DEF SetIRQMask
  <2>6. pc' \in {"loop", "program", "exited"}
    BY <1>2 DEF SetIRQMask, Recheck
  <2>7. LET nmi == IF PCJR THEN {6} ELSE {} IN
        PIC_IRQCheck' \ nmi = Requested(active, masked') \ nmi
    BY <2>1, <2>2, <2>3, <2>4, CheckAnewExact DEF IInv
  <2>8. PIC_IRQCheck' \in SUBSET Irqs
    BY <2>4 DEF IInv, TypeOK, CheckAnew, Requested
  <2>9. TypeOK'
    BY <2>2, <2>5, <2>6, <2>8 DEF IInv, TypeOK
  <2>10. CheckExact'
    BY <2>5, <2>7 DEF CheckExact
  <2> QED
    BY <2>5, <2>9, <2>10 DEF IInv, ServiceRemembered, HighestIsActive, NormalMode
<1> QED
  BY <1>1, <1>2 DEF Mask

-----------------------------------------------------------------------------
\* The end of an interrupt: what is active next follows from what is left.
LEMMA EndServiceSound ==
  ASSUME TypeOK, EndService
  PROVE  /\ inservice' \in SUBSET Irqs
         /\ PIC_IRQActive' \in Irqs \cup {PIC_NOIRQ}
         /\ ServiceRemembered'
         /\ HighestIsActive'
<1>1. inservice' \in SUBSET Irqs
  BY DEF TypeOK, EndService
<1>2. inservice' # {} => Highest(inservice') \in inservice'
  BY <1>1, HighestExists
<1> QED
  BY <1>1, <1>2 DEF EndService, ServiceRemembered, HighestIsActive

\* A command that leaves the lines alone.
LEMMA RegistersSound ==
  ASSUME IInv, UNCHANGED lineVars, TypeOK', NormalMode'
  PROVE  IInv'
BY DEF IInv, lineVars, CheckExact, ServiceRemembered, HighestIsActive, Requested

\* The initialisation words.
LEMMA IcwSound ==
  ASSUME IInv, NEW p \in Programmed, NEW a \in BOOLEAN, NEW b \in BOOLEAN,
         Icw1(p, a, b) \/ IcwWord(p, a, b)
  PROVE  IInv'
<1>1. p \in Controllers
  BY ProgrammedAssumption
<1>2. pics \in [Controllers -> Registers]
  BY DEF IInv, TypeOK, Registers
<1>3. UNCHANGED <<lineVars, PIC_Special_Mode, FlagIF>>
  BY DEF Icw1, IcwWord
<1>4. pc' \in {"loop", "program", "exited"}
  BY DEF IInv, TypeOK, Icw1, IcwWord
<1>5. pics' \in [Controllers -> Registers]
  <2>1. CASE Icw1(p, a, b)
    <3>1. ASSUME NEW r \in Registers
          PROVE  [r EXCEPT !.single = a, !.icw_index = 1,
                           !.icw_words = IF b THEN 3 ELSE 2] \in Registers
      <4> DEFINE words == IF b THEN 3 ELSE 2
      <4>1. words \in {0, 2, 3}
        OBVIOUS
      <4> HIDE DEF words
      <4>2. [r EXCEPT !.single = a] \in Registers
        BY <3>1 DEF Registers
      <4>3. \A q \in Registers : [q EXCEPT !.icw_index = 1] \in Registers
        BY DEF Registers
      <4>4. \A q \in Registers : [q EXCEPT !.icw_words = words] \in Registers
        BY <4>1 DEF Registers
      <4> HIDE DEF Registers
      <4>5. [[[r EXCEPT !.single = a] EXCEPT !.icw_index = 1] EXCEPT !.icw_words = words]
              \in Registers
        BY <4>2, <4>3, <4>4
      <4> QED
        BY <4>5 DEF words
    <3>2. pics[p] \in Registers
      BY <1>1, <1>2
    <3> HIDE DEF Registers
    <3> QED
      BY <1>1, <1>2, <2>1, <3>1, <3>2 DEF Icw1
  <2>2. CASE IcwWord(p, a, b)
    <3>1. IndexAfter(p) \in 0..3
      BY <1>1, <1>2 DEF IndexAfter, Registers
    <3> QED
      BY <1>1, <1>2, <2>2, <3>1, ZenonT(40) DEF IcwWord, Registers
  <2> QED
    BY <2>1, <2>2
<1>6. TypeOK'
  BY <1>3, <1>4, <1>5 DEF IInv, TypeOK, Registers, lineVars
<1> QED
  BY <1>3, <1>6, RegistersSound DEF IInv, NormalMode

\* OCW3 and the rotation flag.
LEMMA SettingSound ==
  ASSUME IInv, NEW p \in Programmed, NEW on \in BOOLEAN,
         SelectRegister(p, on) \/ SetSpecialMask(p, on) \/ SetRotate(p, on)
  PROVE  IInv'
<1>1. p \in Controllers
  BY ProgrammedAssumption
<1>2. pics \in [Controllers -> Registers]
  BY DEF IInv, TypeOK, Registers
<1>3. UNCHANGED <<lineVars, FlagIF>>
  BY DEF SelectRegister, SetSpecialMask, SetRotate
<1>4. pc' \in {"loop", "program", "exited"}
  BY DEF IInv, TypeOK, SelectRegister, SetSpecialMask, SetRotate, Recheck
<1>5. pics' \in [Controllers -> Registers]
  BY <1>1, <1>2 DEF SelectRegister, SetSpecialMask, SetRotate, SetPic, Registers
<1>6. /\ PIC_Special_Mode' \in BOOLEAN
      /\ NormalMode'
  <2>1. CASE SetSpecialMask(p, on)
    <3>1. pics'[p].special \in BOOLEAN /\ pics'[1].special \in BOOLEAN
      BY <1>1, <1>5 DEF Registers, Controllers
    <3> QED
      BY <2>1, <3>1 DEF SetSpecialMask, SpecialMode, NormalMode
  <2>2. CASE SelectRegister(p, on) \/ SetRotate(p, on)
    BY <2>2 DEF IInv, TypeOK, SelectRegister, SetRotate, NormalMode
  <2> QED
    BY <2>1, <2>2
<1>7. TypeOK'
  BY <1>3, <1>4, <1>5, <1>6 DEF IInv, TypeOK, Registers, lineVars
<1> QED
  BY <1>3, <1>6, <1>7, RegistersSound

\* The two kinds of EOI.
LEMMA EoiSound ==
  ASSUME IInv, NEW p \in Programmed,
         NonspecificEOI(p) \/ \E i \in Irqs : SpecificEOI(p, i)
  PROVE  IInv'
<1>1. UNCHANGED <<active, masked, PIC_IRQCheck, PIC_Special_Mode, pics, FlagIF, pc>>
  BY DEF NonspecificEOI, SpecificEOI
<1>2. EndService \/ UNCHANGED <<inservice, PIC_IRQActive>>
  BY DEF NonspecificEOI, SpecificEOI
<1>3. /\ inservice' \in SUBSET Irqs
      /\ PIC_IRQActive' \in Irqs \cup {PIC_NOIRQ}
      /\ ServiceRemembered'
      /\ HighestIsActive'
  <2>1. CASE EndService
    BY <2>1, EndServiceSound DEF IInv
  <2>2. CASE UNCHANGED <<inservice, PIC_IRQActive>>
    BY <2>2 DEF IInv, TypeOK, ServiceRemembered, HighestIsActive
  <2> QED
    BY <1>2, <2>1, <2>2
<1>4. TypeOK'
  BY <1>1, <1>3 DEF IInv, TypeOK
<1> QED
  BY <1>1, <1>3, <1>4 DEF IInv, CheckExact, Requested, NormalMode

\* PIC_startIRQ on a line that PIC_runIRQs may choose.
LEMMA StartSound ==
  ASSUME IInv, NEW i \in Ready, StartIRQ(i), UNCHANGED <<PIC_Special_Mode, pics>>
  PROVE  IInv'
<1>1. i \in Irqs /\ i \in active /\ i \notin masked
  BY DEF Ready, IInv, TypeOK
<1>2. /\ active' = active \ {i}
      /\ PIC_IRQCheck' = PIC_IRQCheck \ {i}
      /\ FlagIF' = FALSE
      /\ masked' = masked
      /\ pc' \in {"program", "exited"}
  BY DEF StartIRQ
<1>3. \/ inservice' = inservice /\ PIC_IRQActive' = PIC_IRQActive
      \/ inservice' = inservice \cup {i} /\ PIC_IRQActive' = i
  BY DEF StartIRQ
<1>4. TypeOK'
  BY <1>1, <1>2, <1>3 DEF IInv, TypeOK
<1>5. CheckExact'
  BY <1>1, <1>2 DEF IInv, CheckExact, Requested
<1>6. ServiceRemembered'
  BY <1>3 DEF IInv, ServiceRemembered
<1>7. HighestIsActive'
  <2>1. SUFFICES ASSUME "special" \notin Commands, inservice' = inservice \cup {i},
                        PIC_IRQActive' = i
                 PROVE  Highest(inservice') = i
    BY <1>3 DEF IInv, HighestIsActive
  <2>2. Rank(i) < Rank(PIC_IRQActive)
    BY <2>1 DEF Ready, Allowed, Outranks, IInv, NormalMode
  <2>3. \A k \in inservice : Rank(i) <= Rank(k)
    <3>1. SUFFICES ASSUME NEW k \in inservice PROVE Rank(i) <= Rank(k)
      OBVIOUS
    <3>2. inservice \in SUBSET Irqs /\ inservice # {}
      BY <3>1 DEF IInv, TypeOK
    <3>3. PIC_IRQActive = Highest(inservice)
      BY <2>1, <3>2 DEF IInv, HighestIsActive
    <3>4. Rank(PIC_IRQActive) <= Rank(k) /\ PIC_IRQActive \in Irqs
      BY <3>2, <3>3, HighestExists
    <3>5. Rank(i) \in Int /\ Rank(k) \in Int /\ Rank(PIC_IRQActive) \in Int
      BY <1>1, <3>2, <3>4, RankFacts
    <3> QED
      BY <2>2, <3>4, <3>5
  <2>4. Rank(i) <= Rank(i)
    BY <1>1, RankFacts
  <2> QED
    BY <1>1, <2>1, <2>3, <2>4, HighestIs DEF IInv, TypeOK
<1> QED
  BY <1>4, <1>5, <1>6, <1>7 DEF IInv, NormalMode

\* PIC_RunQueue.
LEMMA RunSound ==
  ASSUME IInv, RunQueue
  PROVE  IInv'
<1>1. Ready \in SUBSET Irqs
  BY DEF Ready, IInv, TypeOK
<1>2. CASE FlagIF /\ PIC_IRQCheck # {} /\ Ready # {}
  <2>1. Highest(Ready) \in Ready
    BY <1>1, <1>2, HighestExists
  <2> QED
    BY <1>2, <2>1, StartSound DEF RunQueue, RunIRQs
<1>3. CASE ~(FlagIF /\ PIC_IRQCheck # {} /\ Ready # {})
  <2>1. UNCHANGED <<lineVars, FlagIF, PIC_Special_Mode, pics>> /\ pc' = "program"
    BY <1>3 DEF RunQueue, RunIRQs
  <2>2. TypeOK'
    BY <2>1 DEF IInv, TypeOK, lineVars
  <2> QED
    BY <2>1, <2>2, RegistersSound DEF IInv, NormalMode
<1> QED
  BY <1>2, <1>3

\* Steps that touch nothing but the processor.
LEMMA ProcessorSound ==
  ASSUME IInv, UNCHANGED picVars, FlagIF' \in BOOLEAN,
         pc' \in {"loop", "program", "exited"}
  PROVE  IInv'
<1>1. TypeOK'
  BY DEF IInv, TypeOK, picVars, lineVars
<1> QED
  BY <1>1, RegistersSound DEF IInv, NormalMode, picVars

\* IInv is inductive.
LEMMA Inductive == IInv /\ [Next]_vars => IInv'
<1> SUFFICES ASSUME IInv, [Next]_vars PROVE IInv'
  OBVIOUS
<1>1. CASE Device
  BY <1>1, DeviceSound
<1>2. CASE Mask
  BY <1>2, MaskSound
<1>3. CASE Command
  <2>1. ASSUME NEW p \in Programmed, NEW a \in BOOLEAN, NEW b \in BOOLEAN,
               Icw1(p, a, b) \/ IcwWord(p, a, b)
        PROVE  IInv'
    BY <2>1, IcwSound
  <2>2. ASSUME NEW p \in Programmed, NEW on \in BOOLEAN,
               SelectRegister(p, on) \/ SetSpecialMask(p, on) \/ SetRotate(p, on)
        PROVE  IInv'
    BY <2>2, SettingSound
  <2>3. ASSUME NEW p \in Programmed,
               NonspecificEOI(p) \/ \E i \in Irqs : SpecificEOI(p, i)
        PROVE  IInv'
    BY <2>3, EoiSound
  <2>4. ASSUME Unhandled PROVE IInv'
    BY <2>4, ProcessorSound DEF Unhandled, IInv, TypeOK
  <2> QED
    BY <1>3, <2>1, <2>2, <2>3, <2>4 DEF Command
<1>4. CASE RunQueue
  BY <1>4, RunSound
<1>5. CASE TrapRun \/ Sti \/ Cli \/ SliceEnd
  BY <1>5, ProcessorSound DEF TrapRun, Sti, Cli, SliceEnd, Recheck, IInv, TypeOK
<1>6. CASE UNCHANGED vars
  BY <1>6, ProcessorSound DEF vars, IInv, TypeOK
<1> QED
  BY <1>1, <1>2, <1>3, <1>4, <1>5, <1>6 DEF Next

\* IInv holds in every state the controllers reach.
LEMMA Invariant == Spec => []IInv
BY InitSound, Inductive, PTL DEF Spec

-----------------------------------------------------------------------------
(* The theorems.                                                           *)

\* Every variable stays in its type.
THEOREM TypeCorrect == Spec => []TypeOK
<1>1. IInv => TypeOK
  BY DEF IInv
<1> QED
  BY <1>1, Invariant, PTL

\* The word PIC_IRQCheck has a bit for exactly the lines that are raised and
\* enabled, whatever the sequence of mask writes, devices and interrupts.
THEOREM RequestsExact == Spec => []CheckExact
<1>1. IInv => CheckExact
  BY DEF IInv
<1> QED
  BY <1>1, Invariant, PTL

\* A line in service is never forgotten, in whatever modes the controllers are.
THEOREM NoneForgotten == Spec => []ServiceRemembered
<1>1. IInv => ServiceRemembered
  BY DEF IInv
<1> QED
  BY <1>1, Invariant, PTL

\* Without special mask mode the active line is the highest in service.
THEOREM HighestRemembered == Spec => []HighestIsActive
<1>1. IInv => HighestIsActive
  BY DEF IInv
<1> QED
  BY <1>1, Invariant, PTL

\* Without special mask mode interrupts nest by priority: a line that goes
\* into service outranks all that are.
THEOREM NestsByPriority == Spec => NoInversion
<1>1. ASSUME IInv, Next, "special" \notin Commands,
             NEW i \in inservice' \ inservice, NEW k \in inservice
      PROVE  Rank(i) < Rank(k)
  <2>1. inservice \in SUBSET Irqs /\ inservice # {}
    BY <1>1 DEF IInv, TypeOK
  <2>2. RunQueue
    BY <1>1 DEF Next, Device, Mask, Command, ActivateIRQ, DeActivateIRQ, WriteMask,
      SetIRQMask, Icw1, IcwWord, SelectRegister, SetSpecialMask, SetRotate,
      NonspecificEOI, SpecificEOI, EndService, Unhandled, TrapRun, Sti, Cli,
      SliceEnd, lineVars, picVars
  <2>3. Ready # {} /\ StartIRQ(Highest(Ready))
    BY <1>1, <2>2 DEF RunQueue, RunIRQs, lineVars
  <2>4. Ready \in SUBSET Irqs
    BY <1>1 DEF Ready, IInv, TypeOK
  <2>5. Highest(Ready) \in Ready
    BY <2>3, <2>4, HighestExists
  <2>6. i = Highest(Ready)
    BY <1>1, <2>3 DEF StartIRQ
  <2>7. Rank(i) < Rank(PIC_IRQActive)
    BY <1>1, <2>5, <2>6 DEF Ready, Allowed, Outranks, IInv, NormalMode
  <2>8. PIC_IRQActive = Highest(inservice)
    BY <1>1, <2>1 DEF IInv, HighestIsActive
  <2>9. Rank(PIC_IRQActive) <= Rank(k) /\ PIC_IRQActive \in Irqs
    BY <2>1, <2>8, HighestExists
  <2>10. Rank(i) \in Int /\ Rank(k) \in Int /\ Rank(PIC_IRQActive) \in Int
    BY <2>1, <2>4, <2>5, <2>6, <2>9, RankFacts
  <2> QED
    BY <2>7, <2>9, <2>10
<1> DEFINE Nests == "special" \notin Commands =>
             \A i \in inservice' \ inservice, k \in inservice : Rank(i) < Rank(k)
<1>2. IInv /\ [Next]_vars => [Nests]_vars
  BY <1>1
<1> QED
  BY <1>2, Invariant, PTL DEF Spec, NoInversion

-----------------------------------------------------------------------------
(* The handlers of the BIOS: each frame of the stack is the handler of a   *)
(* line and where it is in it.  What a frame says about the controllers    *)
(* follows from a table of the five handlers.                              *)

BiosLines == {0, 1, 8, 9, 12}

Length(i) == IF i = 8 THEN 3 ELSE IF i = 12 THEN 6 ELSE 4
\* Where a handler ends its own interrupt.
EndsAt(i) == IF i \in {0, 1} THEN 3 ELSE IF i = 12 THEN 4 ELSE 1
\* Where interrupts may be enabled.
Open(frame) == \/ frame.line \in {0, 1} /\ frame.at <= 2
               \/ frame.line = 12 /\ frame.at <= 3

Frames == [line : BiosLines, at : 1..6]
InHandler(frame) == frame.at <= Length(frame.line)

LEMMA HandlerTable ==
  ASSUME NEW i \in BiosLines, NEW k \in 1..6, k <= Length(i)
  PROVE  /\ Len(Handler(i)) = Length(i)
         /\ Handler(i)[k] = "call" <=> (i \in {0, 1} /\ k = 1) \/ (i = 12 /\ k = 2)
         /\ Handler(i)[k] = "sti" <=> i = 12 /\ k = 1
         /\ Handler(i)[k] = "cli" <=>
              (i \in {0, 1} /\ k = 2) \/ (i = 9 /\ k = 3) \/ (i = 12 /\ k = 3)
         /\ Handler(i)[k] = "eoi0" <=>
              (i \in {0, 1} /\ k = 3) \/ (i \in {8, 9} /\ k = 2) \/ (i = 12 /\ k = 5)
         /\ Handler(i)[k] = "eoi1" <=> (i = 8 /\ k = 1) \/ (i = 12 /\ k = 4)
         /\ Handler(i)[k] = "end9" <=> i = 9 /\ k = 1
         /\ Handler(i)[k] = "iret" <=> k = Length(i)
<1>1. CASE i = 0
  <2>1. Handler(i) = <<"call", "cli", "eoi0", "iret">>
    <3>1. (i = 0) = TRUE /\ (i = 1) = FALSE /\ (i = 8) = FALSE /\ (i = 9) = FALSE /\ (i = 12) = FALSE
      BY <1>1
    <3>2. Handler(i) = TimerHandler
      BY <3>1, Zenon DEF Handler
    <3> QED
      BY <3>2 DEF TimerHandler
  <2>2. k \in 1..4
    BY <1>1 DEF Length
  <2> QED
    BY <1>1, <2>1, <2>2 DEF Length
<1>2. CASE i = 1
  <2>1. Handler(i) = <<"call", "cli", "eoi0", "iret">>
    <3>1. (i = 0) = FALSE /\ (i = 1) = TRUE /\ (i = 8) = FALSE /\ (i = 9) = FALSE /\ (i = 12) = FALSE
      BY <1>2
    <3>2. Handler(i) = KeyboardHandler
      BY <3>1, Zenon DEF Handler
    <3> QED
      BY <3>2 DEF KeyboardHandler
  <2>2. k \in 1..4
    BY <1>2 DEF Length
  <2> QED
    BY <1>2, <2>1, <2>2 DEF Length
<1>3. CASE i = 8
  <2>1. Handler(i) = <<"eoi1", "eoi0", "iret">>
    <3>1. (i = 0) = FALSE /\ (i = 1) = FALSE /\ (i = 8) = TRUE /\ (i = 9) = FALSE /\ (i = 12) = FALSE
      BY <1>3
    <3>2. Handler(i) = ClockHandler
      BY <3>1, Zenon DEF Handler
    <3> QED
      BY <3>2 DEF ClockHandler
  <2>2. k \in 1..3
    BY <1>3 DEF Length
  <2> QED
    BY <1>3, <2>1, <2>2 DEF Length
<1>4. CASE i = 9
  <2>1. Handler(i) = <<"end9", "eoi0", "cli", "iret">>
    <3>1. (i = 0) = FALSE /\ (i = 1) = FALSE /\ (i = 8) = FALSE /\ (i = 9) = TRUE /\ (i = 12) = FALSE
      BY <1>4
    <3>2. Handler(i) = CascadeHandler
      BY <3>1, Zenon DEF Handler
    <3> QED
      BY <3>2 DEF CascadeHandler
  <2>2. k \in 1..4
    BY <1>4 DEF Length
  <2> QED
    BY <1>4, <2>1, <2>2 DEF Length
<1>5. CASE i = 12
  <2>1. Handler(i) = <<"sti", "call", "cli", "eoi1", "eoi0", "iret">>
    <3>1. (i = 0) = FALSE /\ (i = 1) = FALSE /\ (i = 8) = FALSE /\ (i = 9) = FALSE /\ (i = 12) = TRUE
      BY <1>5
    <3>2. Handler(i) = MouseHandler
      BY <3>1, Zenon DEF Handler
    <3> QED
      BY <3>2 DEF MouseHandler
  <2>2. k \in 1..6
    OBVIOUS
  <2> QED
    BY <1>5, <2>1, <2>2 DEF Length
<1> QED
  BY <1>1, <1>2, <1>3, <1>4, <1>5 DEF BiosLines

\* A handler has ended its interrupt when it is past its own EOI.
LEMMA UnendedIs ==
  ASSUME NEW frame \in Frames, InHandler(frame)
  PROVE  Unended(frame) <=> frame.at <= EndsAt(frame.line)
<1> DEFINE i == frame.line
           a == frame.at
<1>1. i \in BiosLines /\ a \in 1..6 /\ a <= Length(i) /\ Length(i) \in 1..6
  BY DEF Frames, InHandler, Length
<1>2. OwnEOI(i) = IF i = 9 THEN "end9" ELSE IF i \in {0, 1} THEN "eoi0" ELSE "eoi1"
  BY <1>1 DEF OwnEOI, PicOf, BiosLines
<1>3. Unended(frame) <=> \E k \in a .. Length(i) : Handler(i)[k] = OwnEOI(i)
  BY <1>1, HandlerTable DEF Unended
<1> HIDE DEF i, a
<1>4. \A k \in a .. Length(i) : Handler(i)[k] = OwnEOI(i) <=> k = EndsAt(i)
  <2>1. SUFFICES ASSUME NEW k \in a .. Length(i)
                 PROVE  Handler(i)[k] = OwnEOI(i) <=> k = EndsAt(i)
    OBVIOUS
  <2>2. k \in 1..6 /\ k <= Length(i)
    BY <1>1
  <2>3. /\ Handler(i)[k] = "eoi0" <=>
              (i \in {0, 1} /\ k = 3) \/ (i \in {8, 9} /\ k = 2) \/ (i = 12 /\ k = 5)
        /\ Handler(i)[k] = "eoi1" <=> (i = 8 /\ k = 1) \/ (i = 12 /\ k = 4)
        /\ Handler(i)[k] = "end9" <=> i = 9 /\ k = 1
    BY <1>1, <2>2, HandlerTable
  <2> QED
    BY <1>1, <1>2, <2>2, <2>3 DEF EndsAt, BiosLines
<1>5. EndsAt(i) \in 1..6 /\ EndsAt(i) <= Length(i)
  BY <1>1 DEF EndsAt, Length, BiosLines
<1>6. (\E k \in a .. Length(i) : k = EndsAt(i)) <=> a <= EndsAt(i)
  BY <1>1, <1>5
<1>7. Unended(frame) <=> a <= EndsAt(i)
  BY <1>3, <1>4, <1>6
<1> QED
  BY <1>7 DEF a, i

-----------------------------------------------------------------------------
(* The stack.                                                              *)

UnendedLines(s) == {s[n].line : n \in {m \in DOMAIN s : Unended(s[m])}}

\* Frames are nested: only the innermost one may have interrupts disabled.
Nested(s, enabled) ==
  /\ s \in Seq(Frames)
  /\ \A m \in DOMAIN s : InHandler(s[m])
  /\ \A m, n \in DOMAIN s : m < n /\ Unended(s[m]) => Rank(s[n].line) < Rank(s[m].line)
  /\ \A m \in DOMAIN s : m < Len(s) \/ enabled => Open(s[m])

HighestKnown ==
  PIC_IRQActive = IF inservice = {} THEN PIC_NOIRQ ELSE Highest(inservice)

HandlersInv ==
  /\ active \subseteq BiosLines
  /\ pics = [p \in Controllers |-> ResetPic] /\ PIC_Special_Mode = FALSE
  /\ FlagIF \in BOOLEAN
  /\ HighestKnown
  /\ inservice = UnendedLines(stack)
  /\ Nested(stack, FlagIF)

LEMMA StackIs ==
  ASSUME NEW s, NEW enabled, Nested(s, enabled)
  PROVE  /\ Len(s) \in Nat /\ DOMAIN s = 1 .. Len(s)
         /\ s # <<>> => Len(s) \in DOMAIN s
         /\ \A m \in DOMAIN s : /\ s[m] \in Frames /\ InHandler(s[m])
                                /\ s[m].line \in BiosLines /\ s[m].line \in Irqs
                                /\ Rank(s[m].line) \in Nat
         /\ UnendedLines(s) \in SUBSET Irqs
         /\ \A m \in DOMAIN s : m < Len(s) => Unended(s[m])
<1>1. s \in Seq(Frames) /\ Len(s) \in Nat /\ DOMAIN s = 1 .. Len(s)
  BY DEF Nested
<1>2. s # <<>> => Len(s) # 0
  BY <1>1
<1>3. ASSUME NEW m \in DOMAIN s
      PROVE  /\ s[m] \in Frames /\ InHandler(s[m])
             /\ s[m].line \in BiosLines /\ s[m].line \in Irqs /\ Rank(s[m].line) \in Nat
  <2>1. s[m] \in Frames /\ InHandler(s[m])
    BY <1>1 DEF Nested
  <2>2. s[m].line \in BiosLines
    BY <2>1 DEF Frames
  <2>3. s[m].line \in Irqs
    BY <2>2 DEF BiosLines, Irqs
  <2> QED
    BY <2>1, <2>2, <2>3, RankFacts
<1>4. ASSUME NEW m \in DOMAIN s, m < Len(s)
      PROVE  Unended(s[m])
  <2>1. Open(s[m])
    BY <1>4 DEF Nested
  <2>2. s[m].at <= EndsAt(s[m].line)
    BY <2>1, <1>3 DEF Open, EndsAt, Frames
  <2> QED
    BY <1>3, <2>2, UnendedIs
<1> QED
  BY <1>1, <1>2, <1>3, <1>4 DEF UnendedLines

\* The innermost frame outranks all others, which are in service.
LEMMA TopOutranks ==
  ASSUME NEW s, NEW enabled, Nested(s, enabled), s # <<>>
  PROVE  /\ \A m \in DOMAIN s \ {Len(s)} : Rank(s[Len(s)].line) < Rank(s[m].line)
         /\ Unended(s[Len(s)]) =>
              /\ s[Len(s)].line \in UnendedLines(s)
              /\ Highest(UnendedLines(s)) = s[Len(s)].line
<1> DEFINE n == Len(s)
<1>1. ASSUME NEW m \in DOMAIN s \ {n}
      PROVE  Rank(s[n].line) < Rank(s[m].line)
  <2>1. m < n /\ m \in DOMAIN s /\ n \in DOMAIN s
    BY StackIs
  <2>2. Unended(s[m])
    BY <2>1, StackIs
  <2> QED
    BY <2>1, <2>2 DEF Nested
<1>2. ASSUME Unended(s[n])
      PROVE  s[n].line \in UnendedLines(s) /\ Highest(UnendedLines(s)) = s[n].line
  <2>1. s[n].line \in UnendedLines(s) /\ UnendedLines(s) \in SUBSET Irqs
    BY <1>2, StackIs DEF UnendedLines
  <2>2. ASSUME NEW k \in UnendedLines(s)
        PROVE  Rank(s[n].line) <= Rank(k)
    <3>1. PICK m \in DOMAIN s : k = s[m].line
      BY DEF UnendedLines
    <3>2. Rank(s[n].line) \in Nat /\ Rank(k) \in Nat
      BY <3>1, StackIs
    <3> QED
      BY <1>1, <3>1, <3>2
  <2> HIDE DEF n
  <2>3. Highest(UnendedLines(s)) = s[n].line
    BY <2>1, <2>2, HighestIs
  <2> QED
    BY <2>1, <2>3
<1> QED
  BY <1>1, <1>2

\* The innermost handler goes on.
Gone(s) == [s EXCEPT ![Len(s)].at = @ + 1]

LEMMA GoesOn ==
  ASSUME NEW s, NEW enabled, Nested(s, enabled), s # <<>>,
         NEW line, NEW at, s[Len(s)] = [line |-> line, at |-> at], at < Length(line),
         NEW after, after => Open([line |-> line, at |-> at + 1])
  PROVE  /\ Nested(Gone(s), after)
         /\ at # EndsAt(line) => UnendedLines(Gone(s)) = UnendedLines(s)
         /\ at = EndsAt(line) => UnendedLines(Gone(s)) = UnendedLines(s) \ {line}
<1> DEFINE n == Len(s)
           t == Gone(s)
           top == [line |-> line, at |-> at + 1]
<1>1. /\ s \in Seq(Frames) /\ n \in DOMAIN s /\ DOMAIN s = 1 .. n /\ n \in Nat
      /\ s[n] \in Frames /\ InHandler(s[n])
  BY StackIs DEF Nested
<1>2. line \in BiosLines /\ at \in 1..6 /\ Length(line) \in 1..6
  BY <1>1 DEF Frames, Length
<1>3. top \in Frames /\ InHandler(top)
  BY <1>2 DEF Frames, InHandler
<1>4. t = [s EXCEPT ![n] = top]
  <2>1. [s[n] EXCEPT !.at = @ + 1] = top
    OBVIOUS
  <2> QED
    BY <2>1 DEF Gone
<1> HIDE DEF t, n, top
<1>5. t \in Seq(Frames) /\ Len(t) = n /\ DOMAIN t = DOMAIN s
  BY <1>1, <1>3, <1>4 DEF n
<1>6. t[n] = top /\ \A m \in DOMAIN s \ {n} : t[m] = s[m]
  BY <1>1, <1>4
<1>7. top.line = line /\ top.at = at + 1
  BY DEF top
<1>8. Unended(top) <=> at + 1 <= EndsAt(line)
  BY <1>3, <1>7, UnendedIs
<1>9. Unended(s[n]) <=> at <= EndsAt(line)
  BY <1>1, UnendedIs DEF n
<1>10. /\ EndsAt(line) \in Nat
       /\ Unended(top) => Unended(s[n])
       /\ at # EndsAt(line) => (Unended(top) <=> Unended(s[n]))
       /\ at = EndsAt(line) => Unended(s[n]) /\ ~Unended(top)
  <2>1. EndsAt(line) \in Nat
    BY DEF EndsAt
  <2> QED
    BY <1>2, <1>8, <1>9, <2>1
<1>11. \A m \in DOMAIN t : t[m].line = s[m].line
  BY <1>5, <1>6, <1>7 DEF n
<1>12. Nested(t, after)
  <2>1. \A m \in DOMAIN t : InHandler(t[m])
    BY <1>3, <1>5, <1>6 DEF Nested
  <2>2. ASSUME NEW m \in DOMAIN t, NEW k \in DOMAIN t, m < k, Unended(t[m])
        PROVE  Rank(t[k].line) < Rank(t[m].line)
    <3>1. Unended(s[m])
      BY <1>5, <1>6, <1>10, <2>2
    <3> QED
      BY <1>5, <1>11, <2>2, <3>1 DEF Nested
  <2>3. ASSUME NEW m \in DOMAIN t, m < Len(t) \/ after
        PROVE  Open(t[m])
    <3>1. CASE m = n
      BY <1>5, <1>6, <2>3, <3>1 DEF top
    <3>2. CASE m # n
      <4>1. m \in DOMAIN s /\ m < Len(s)
        BY <1>1, <1>5, <3>2 DEF n
      <4> QED
        BY <1>6, <3>2, <4>1 DEF Nested
    <3> QED
      BY <3>1, <3>2
  <2> QED
    BY <1>5, <2>1, <2>2, <2>3 DEF Nested
<1>13. \A k : k \in UnendedLines(s) <=> \E m \in DOMAIN s : Unended(s[m]) /\ k = s[m].line
  BY DEF UnendedLines
<1>14. \A k : k \in UnendedLines(t) <=> \E m \in DOMAIN t : Unended(t[m]) /\ k = t[m].line
  BY DEF UnendedLines
<1>15. s[n].line = line
  BY DEF n
<1>16. ASSUME at # EndsAt(line)
       PROVE  UnendedLines(t) = UnendedLines(s)
  <2>1. \A m \in DOMAIN s : Unended(t[m]) <=> Unended(s[m])
    BY <1>6, <1>10, <1>16
  <2>2. \A m \in DOMAIN t : m \in DOMAIN s /\ (Unended(t[m]) <=> Unended(s[m]))
                             /\ t[m].line = s[m].line
    BY <1>5, <1>11, <2>1
  <2>3. \A m \in DOMAIN s : m \in DOMAIN t
    BY <1>5
  <2>4. ASSUME NEW k \in UnendedLines(t)
        PROVE  k \in UnendedLines(s)
    <3>1. PICK m \in DOMAIN t : Unended(t[m]) /\ k = t[m].line
      BY <1>14, <2>4
    <3>2. m \in DOMAIN s /\ Unended(s[m]) /\ k = s[m].line
      BY <2>2, <3>1
    <3> QED
      BY <1>13, <3>2
  <2>5. ASSUME NEW k \in UnendedLines(s)
        PROVE  k \in UnendedLines(t)
    <3>1. PICK m \in DOMAIN s : Unended(s[m]) /\ k = s[m].line
      BY <1>13, <2>5
    <3>2. m \in DOMAIN t /\ Unended(t[m]) /\ k = t[m].line
      BY <2>2, <2>3, <3>1
    <3> QED
      BY <1>14, <3>2
  <2> QED
    BY <2>4, <2>5
<1>17. ASSUME at = EndsAt(line)
       PROVE  UnendedLines(t) = UnendedLines(s) \ {line}
  <2>1. \A m \in DOMAIN s \ {n} : s[m].line # line
    <3>1. ASSUME NEW m \in DOMAIN s \ {n}
          PROVE  s[m].line # line
      <4>1. Rank(line) < Rank(s[m].line)
        BY <1>15, TopOutranks DEF n
      <4>2. Rank(line) \in Nat
        BY <1>1, <1>15, StackIs
      <4> QED
        BY <4>1, <4>2
    <3> QED
      BY <3>1
  <2> QED
    BY <1>5, <1>6, <1>10, <1>11, <1>13, <1>14, <1>15, <1>17, <2>1
<1> QED
  BY <1>12, <1>16, <1>17 DEF t

\* The innermost handler returns; it has ended its interrupt.
LEMMA Returned ==
  ASSUME NEW s, NEW enabled, Nested(s, enabled), s # <<>>,
         s[Len(s)].at = Length(s[Len(s)].line), NEW after
  PROVE  /\ Nested(SubSeq(s, 1, Len(s) - 1), after)
         /\ UnendedLines(SubSeq(s, 1, Len(s) - 1)) = UnendedLines(s)
<1> DEFINE n == Len(s)
           t == SubSeq(s, 1, n - 1)
<1>1. /\ s \in Seq(Frames) /\ n \in DOMAIN s /\ DOMAIN s = 1 .. n /\ n \in Nat
      /\ s[n] \in Frames /\ InHandler(s[n])
  BY StackIs DEF Nested
<1>2. /\ t \in Seq(Frames) /\ Len(t) = n - 1 /\ DOMAIN t = 1 .. n - 1
      /\ \A m \in 1 .. n - 1 : t[m] = s[m] /\ m \in DOMAIN s /\ m < n
  BY <1>1
<1>3. ~Unended(s[n])
  <2>1. s[n].at > EndsAt(s[n].line)
    BY <1>1 DEF Frames, BiosLines, Length, EndsAt
  <2>2. s[n].at \in Nat /\ EndsAt(s[n].line) \in Nat
    BY <1>1 DEF Frames, EndsAt
  <2> QED
    BY <1>1, <2>1, <2>2, UnendedIs
<1>4. Nested(t, after)
  <2> HIDE DEF t
  <2>1. \A m \in DOMAIN t : Open(t[m])
    BY <1>2 DEF Nested
  <2>2. \A m \in DOMAIN t : InHandler(t[m])
    BY <1>2 DEF Nested
  <2>3. \A m, k \in DOMAIN t : m < k /\ Unended(t[m]) => Rank(t[k].line) < Rank(t[m].line)
    BY <1>2 DEF Nested
  <2> QED
    BY <1>2, <2>1, <2>2, <2>3 DEF Nested
<1>5. \A k : k \in UnendedLines(s) <=> \E m \in DOMAIN s : Unended(s[m]) /\ k = s[m].line
  BY DEF UnendedLines
<1>6. \A k : k \in UnendedLines(t) <=> \E m \in DOMAIN t : Unended(t[m]) /\ k = t[m].line
  BY DEF UnendedLines
<1>7. \A m \in DOMAIN s : m # n => m \in DOMAIN t
  BY <1>1, <1>2
<1> HIDE DEF t, n
<1>8. UnendedLines(t) = UnendedLines(s)
  <2>1. \A m \in DOMAIN t : m \in DOMAIN s /\ t[m] = s[m]
    BY <1>2
  <2>2. \A m \in DOMAIN s : Unended(s[m]) => m \in DOMAIN t /\ t[m] = s[m]
    BY <1>3, <1>7, <2>1
  <2>3. ASSUME NEW k \in UnendedLines(t)
        PROVE  k \in UnendedLines(s)
    <3>1. PICK m \in DOMAIN t : Unended(t[m]) /\ k = t[m].line
      BY <1>6, <2>3
    <3>2. m \in DOMAIN s /\ Unended(s[m]) /\ k = s[m].line
      BY <2>1, <3>1
    <3> QED
      BY <1>5, <3>2
  <2>4. ASSUME NEW k \in UnendedLines(s)
        PROVE  k \in UnendedLines(t)
    <3>1. PICK m \in DOMAIN s : Unended(s[m]) /\ k = s[m].line
      BY <1>5, <2>4
    <3>2. m \in DOMAIN t /\ Unended(t[m]) /\ k = t[m].line
      BY <2>2, <3>1
    <3> QED
      BY <1>6, <3>2
  <2> QED
    BY <2>3, <2>4
<1> QED
  BY <1>4, <1>8 DEF t, n

\* A line that outranks all in service interrupts.
LEMMA Entered ==
  ASSUME NEW s, Nested(s, TRUE), NEW i \in BiosLines,
         \A k \in UnendedLines(s) : Rank(i) < Rank(k)
  PROVE  /\ Nested(Append(s, [line |-> i, at |-> 1]), FALSE)
         /\ UnendedLines(Append(s, [line |-> i, at |-> 1])) = UnendedLines(s) \cup {i}
<1> DEFINE n == Len(s)
           frame == [line |-> i, at |-> 1]
           t == Append(s, frame)
<1>1. s \in Seq(Frames) /\ DOMAIN s = 1 .. n /\ n \in Nat
  BY StackIs DEF Nested
<1>2. frame \in Frames /\ InHandler(frame) /\ frame.at <= EndsAt(frame.line)
  BY DEF Frames, InHandler, Length, EndsAt
<1>3. frame.line = i /\ Unended(frame)
  BY <1>2, UnendedIs
<1> HIDE DEF frame
<1>4. /\ t \in Seq(Frames) /\ Len(t) = n + 1 /\ DOMAIN t = 1 .. n + 1 /\ t[n + 1] = frame
      /\ \A m \in DOMAIN s : t[m] = s[m] /\ m \in DOMAIN t /\ m < n + 1
      /\ \A m \in DOMAIN t : m = n + 1 \/ m \in DOMAIN s
  BY <1>1, <1>2
<1> HIDE DEF t
<1>5. Nested(t, FALSE)
  <2>1. \A m \in DOMAIN t : InHandler(t[m])
    BY <1>2, <1>4 DEF Nested
  <2>2. \A m \in DOMAIN t : m < Len(t) => Open(t[m])
    BY <1>1, <1>4 DEF Nested
  <2>3. ASSUME NEW m \in DOMAIN t, NEW k \in DOMAIN t, m < k, Unended(t[m])
        PROVE  Rank(t[k].line) < Rank(t[m].line)
    <3>1. m \in DOMAIN s /\ t[m] = s[m]
      BY <1>1, <1>4, <2>3
    <3>2. CASE k = n + 1
      <4>1. s[m].line \in UnendedLines(s)
        BY <2>3, <3>1 DEF UnendedLines
      <4> QED
        BY <1>3, <1>4, <3>1, <3>2, <4>1
    <3>3. CASE k \in DOMAIN s
      BY <1>4, <2>3, <3>1, <3>3 DEF Nested
    <3> QED
      BY <1>4, <3>2, <3>3
  <2> QED
    BY <1>4, <2>1, <2>2, <2>3 DEF Nested
<1>6. \A k : k \in UnendedLines(s) <=> \E m \in DOMAIN s : Unended(s[m]) /\ k = s[m].line
  BY DEF UnendedLines
<1>7. \A k : k \in UnendedLines(t) <=> \E m \in DOMAIN t : Unended(t[m]) /\ k = t[m].line
  BY DEF UnendedLines
<1>8. n + 1 \in DOMAIN t
  BY <1>1, <1>4
<1>9. UnendedLines(t) = UnendedLines(s) \cup {i}
  BY <1>3, <1>4, <1>6, <1>7, <1>8
<1> QED
  BY <1>5, <1>9 DEF t, frame

-----------------------------------------------------------------------------
(* The steps of the handlers.                                              *)

\* The lines are those that the BIOS has handlers for.
BiosOnly == Lines \subseteq BiosLines

LEMMA StandsAt ==
  ASSUME HandlersInv, stack # <<>>
  PROVE  /\ Top.line \in BiosLines /\ Top.at \in 1..6 /\ Top.at <= Length(Top.line)
         /\ stack[Len(stack)] = [line |-> Top.line, at |-> Top.at]
         /\ Instruction = Handler(Top.line)[Top.at]
         /\ Instruction # "iret" => Top.at < Length(Top.line)
         /\ Length(Top.line) \in Nat
<1>1. Top \in Frames /\ InHandler(Top)
  BY StackIs DEF HandlersInv, Top
<1>2. Top.line \in BiosLines /\ Top.at \in 1..6 /\ Top.at <= Length(Top.line)
      /\ Top = [line |-> Top.line, at |-> Top.at] /\ Length(Top.line) \in Nat
  BY <1>1 DEF Frames, InHandler, Length
<1>3. Instruction = "iret" <=> Top.at = Length(Top.line)
  BY <1>2, HandlerTable DEF Instruction
<1> QED
  BY <1>2, <1>3 DEF Top, Instruction

\* Steps that neither end an interrupt nor start one.
LEMMA ServiceStays ==
  ASSUME HandlersInv, active' \subseteq BiosLines,
         UNCHANGED <<inservice, PIC_IRQActive, PIC_Special_Mode, pics>>,
         FlagIF' \in BOOLEAN, Nested(stack', FlagIF'),
         UnendedLines(stack') = UnendedLines(stack)
  PROVE  HandlersInv'
<1>1. HighestKnown'
  BY DEF HandlersInv, HighestKnown
<1>2. inservice' = UnendedLines(stack')
  BY DEF HandlersInv
<1>3. pics' = [p \in Controllers |-> ResetPic] /\ PIC_Special_Mode' = FALSE
  BY DEF HandlersInv
<1> QED
  BY <1>1, <1>2, <1>3 DEF HandlersInv

LEMMA MainSteps ==
  ASSUME HandlersInv, BiosOnly, UNCHANGED stack,
         \/ Device \/ SliceEnd
         \/ stack = <<>> /\ (Mask \/ Sti \/ Cli)
  PROVE  HandlersInv'
<1>1. UNCHANGED <<inservice, PIC_IRQActive, PIC_Special_Mode, pics>> /\ FlagIF' \in BOOLEAN
  BY DEF HandlersInv, Device, SliceEnd, Mask, Sti, Cli, ActivateIRQ, DeActivateIRQ, WriteMask,
         SetIRQMask, picVars, lineVars
<1>2. active' \subseteq BiosLines
  <2>1. CASE Device
    <3>1. PICK i \in Lines : ActivateIRQ(i) \/ DeActivateIRQ(i)
      BY <2>1 DEF Device
    <3> QED
      BY <3>1 DEF HandlersInv, BiosOnly, ActivateIRQ, DeActivateIRQ, Activated
  <2>2. CASE ~Device
    BY <2>2 DEF HandlersInv, SliceEnd, Mask, Sti, Cli, WriteMask, SetIRQMask, picVars, lineVars
  <2> QED
    BY <2>1, <2>2
<1>3. Nested(stack', FlagIF')
  <2>1. CASE Device \/ SliceEnd
    <3>1. FlagIF' = FlagIF
      BY <2>1 DEF Device, SliceEnd, ActivateIRQ, DeActivateIRQ
    <3> QED
      BY <3>1 DEF HandlersInv
  <2>2. CASE stack = <<>>
    <3>1. DOMAIN stack = {} /\ stack \in Seq(Frames)
      BY <2>2 DEF HandlersInv, Nested
    <3> QED
      BY <3>1 DEF Nested
  <2> QED
    BY <2>1, <2>2
<1> QED
  BY <1>1, <1>2, <1>3, ServiceStays

\* Instructions of a handler that are no EOI.
LEMMA HandlerSteps ==
  ASSUME HandlersInv, HandlerSti \/ HandlerCli \/ HookSti \/ HookReturns \/ Iret
  PROVE  HandlersInv'
<1>1. /\ stack # <<>> /\ UNCHANGED picVars
      /\ Instruction \in {"sti", "cli", "call", "iret"}
  BY DEF HandlerSti, HandlerCli, HookSti, HookReturns, Iret, At, Sti, Cli, vars
<1>2. /\ UNCHANGED <<inservice, PIC_IRQActive, PIC_Special_Mode, pics, active>>
      /\ active' \subseteq BiosLines /\ FlagIF' \in BOOLEAN
  BY <1>1 DEF picVars, lineVars, HandlersInv, HandlerSti, HandlerCli, HookSti, HookReturns, Iret,
              Sti, Cli, vars
<1> DEFINE line == Top.line
           at == Top.at
           e == FlagIF'
<1>3. /\ Nested(stack, FlagIF) /\ line \in BiosLines /\ at \in 1..6 /\ at <= Length(line)
      /\ stack[Len(stack)] = [line |-> line, at |-> at]
      /\ Instruction = Handler(line)[at]
      /\ Instruction # "iret" => at < Length(line)
  BY <1>1, StandsAt DEF HandlersInv
<1> HIDE DEF line, at, e
<1>3a. /\ Instruction = "call" <=> (line \in {0, 1} /\ at = 1) \/ (line = 12 /\ at = 2)
       /\ Instruction = "sti" <=> line = 12 /\ at = 1
       /\ Instruction = "cli" <=>
            (line \in {0, 1} /\ at = 2) \/ (line = 9 /\ at = 3) \/ (line = 12 /\ at = 3)
       /\ Instruction = "iret" <=> at = Length(line)
  BY <1>3, HandlerTable
<1>4. CASE HandlerSti \/ HandlerCli \/ HookReturns
  <2>1. /\ stack' = Gone(stack)
        /\ \/ Instruction = "sti"
           \/ Instruction = "cli" /\ e = FALSE
           \/ Instruction = "call" /\ e = FlagIF
    BY <1>4 DEF HandlerSti, HandlerCli, HookReturns, At, Advance, Gone, Sti, Cli, vars, e
  <2>2. at < Length(line) /\ at # EndsAt(line)
    <3>1. at < Length(line)
      BY <1>3, <2>1
    <3>2. \/ (line \in {0, 1} /\ at \in {1, 2}) \/ (line = 12 /\ at \in {1, 2, 3})
          \/ (line = 9 /\ at = 3)
      BY <1>3, <2>1, <1>3a
    <3> QED
      BY <3>1, <3>2 DEF EndsAt
  <2>3. e => Open([line |-> line, at |-> at + 1])
    <3>1. CASE Instruction = "sti"
      <4>1. line = 12 /\ at = 1
        BY <1>3, <3>1, <1>3a
      <4> QED
        BY <4>1 DEF Open
    <3>2. CASE Instruction = "call"
      <4>1. (line \in {0, 1} /\ at = 1) \/ (line = 12 /\ at = 2)
        BY <1>3, <3>2, <1>3a
      <4> QED
        BY <4>1 DEF Open
    <3> QED
      BY <2>1, <3>1, <3>2
  <2>4. Nested(Gone(stack), e) /\ UnendedLines(Gone(stack)) = UnendedLines(stack)
    BY <1>1, <1>3, <2>2, <2>3, GoesOn
  <2> QED
    BY <1>2, <2>1, <2>4, ServiceStays DEF e
<1>5. CASE HookSti
  <2>1. stack' = stack /\ Instruction = "call"
    BY <1>5 DEF HookSti, At
  <2>2. (line \in {0, 1} /\ at = 1) \/ (line = 12 /\ at = 2)
    BY <1>3, <2>1, <1>3a
  <2>3. Open(stack[Len(stack)])
    BY <1>3, <2>2 DEF Open
  <2>4. \A m \in DOMAIN stack : m < Len(stack) \/ m = Len(stack)
    BY <1>3, StackIs
  <2>5. Nested(stack, e)
    BY <1>3, <2>3, <2>4 DEF Nested
  <2> QED
    BY <1>2, <2>1, <2>5, ServiceStays DEF e
<1>6. CASE Iret
  <2>1. stack' = SubSeq(stack, 1, Len(stack) - 1) /\ Instruction = "iret"
    BY <1>6 DEF Iret, Return, At
  <2>2. at = Length(line)
    BY <1>3, <2>1, <1>3a
  <2>3. stack[Len(stack)].at = Length(stack[Len(stack)].line)
    BY <1>3, <2>2
  <2>4. Nested(SubSeq(stack, 1, Len(stack) - 1), e)
        /\ UnendedLines(SubSeq(stack, 1, Len(stack) - 1)) = UnendedLines(stack)
    BY <1>1, <1>3, <2>3, Returned
  <2> QED
    BY <1>2, <2>1, <2>4, ServiceStays DEF e
<1> QED
  BY <1>4, <1>5, <1>6

\* Its own EOI ends the interrupt of a handler, and no other EOI of it ends one.
LEMMA EoiSteps ==
  ASSUME HandlersInv, SendEOI(0) \/ SendEOI(1) \/ SendSpecificEOI
  PROVE  HandlersInv'
<1>1. /\ stack # <<>> /\ stack' = Gone(stack)
      /\ UNCHANGED <<active, PIC_Special_Mode, pics, FlagIF>>
      /\ Instruction \in {"eoi0", "eoi1", "end9"}
      /\ Instruction = "eoi0" => NonspecificEOI(0)
      /\ Instruction = "eoi1" => NonspecificEOI(1)
      /\ Instruction = "end9" => SpecificEOI(1, 9)
  BY DEF SendEOI, SendSpecificEOI, At, NonspecificEOI, SpecificEOI, Advance, Gone
<1> DEFINE line == Top.line
           at == Top.at
<1>3. /\ Nested(stack, FlagIF) /\ line \in BiosLines /\ at \in 1..6 /\ at <= Length(line)
      /\ stack[Len(stack)] = [line |-> line, at |-> at]
      /\ Instruction = Handler(line)[at]
      /\ at < Length(line)
      /\ Len(stack) \in DOMAIN stack /\ stack[Len(stack)] \in Frames /\ InHandler(stack[Len(stack)])
  BY <1>1, StandsAt, StackIs DEF HandlersInv
<1> HIDE DEF line, at
<1>4. /\ Instruction = "eoi0" <=>
              (line \in {0, 1} /\ at = 3) \/ (line \in {8, 9} /\ at = 2) \/ (line = 12 /\ at = 5)
      /\ Instruction = "eoi1" <=> (line = 8 /\ at = 1) \/ (line = 12 /\ at = 4)
      /\ Instruction = "end9" <=> line = 9 /\ at = 1
  BY <1>3, HandlerTable
<1>5. FlagIF = FALSE
  <2>1. ~Open(stack[Len(stack)])
    BY <1>1, <1>3, <1>4 DEF Open
  <2> QED
    BY <1>3, <2>1 DEF Nested, HandlersInv
<1>6. Nested(Gone(stack), FlagIF)
  BY <1>1, <1>3, <1>5, GoesOn
<1>7. inservice = UnendedLines(stack) /\ HighestKnown
  BY DEF HandlersInv
<1>8. CASE at = EndsAt(line)
  <2>1. Unended(stack[Len(stack)])
    <3>1. stack[Len(stack)].at <= EndsAt(stack[Len(stack)].line)
      BY <1>3, <1>8
    <3> QED
      BY <1>3, <3>1, UnendedIs
  <2>2. PIC_IRQActive = line
    BY <1>1, <1>3, <1>7, <2>1, TopOutranks DEF HighestKnown
  <2>3. EndService
    <3>1. CASE Instruction = "end9"
      BY <1>1, <1>4, <2>2, <3>1 DEF SpecificEOI
    <3>2. CASE Instruction = "eoi1"
      <4>1. CanEnd(1)
        BY <1>4, <2>2, <3>2 DEF CanEnd
      <4> QED
        BY <1>1, <3>2, <4>1 DEF NonspecificEOI
    <3>3. CASE Instruction = "eoi0"
      <4>1. line \in {0, 1}
        BY <1>4, <1>8, <3>3 DEF EndsAt
      <4>2. CanEnd(0)
        BY <2>2, <4>1 DEF CanEnd
      <4> QED
        BY <1>1, <3>3, <4>2 DEF NonspecificEOI
    <3> QED
      BY <1>1, <3>1, <3>2, <3>3
  <2>4. inservice' = inservice \ {line} /\ HighestKnown'
    BY <2>2, <2>3 DEF EndService, HighestKnown, Highest
  <2>5. UnendedLines(Gone(stack)) = UnendedLines(stack) \ {line}
    BY <1>1, <1>3, <1>5, <1>8, GoesOn
  <2> QED
    BY <1>1, <1>6, <1>7, <2>4, <2>5 DEF HandlersInv
<1>9. CASE at # EndsAt(line)
  <2>1. Instruction = "eoi0" /\ line \in {8, 9, 12} /\ at > EndsAt(line)
    BY <1>1, <1>4, <1>9 DEF EndsAt
  <2>2. ~Unended(stack[Len(stack)])
    <3>1. ~(stack[Len(stack)].at <= EndsAt(stack[Len(stack)].line))
      <4>1. EndsAt(line) \in Nat
        BY DEF EndsAt
      <4> QED
        BY <1>3, <2>1, <4>1
    <3> QED
      BY <1>3, <3>1, UnendedIs
  <2>3. ASSUME NEW k \in inservice
        PROVE  k \in {9, 12}
    <3>1. PICK m \in DOMAIN stack : Unended(stack[m]) /\ k = stack[m].line
      BY <1>7, <2>3 DEF UnendedLines
    <3>2. m # Len(stack)
      BY <2>2, <3>1
    <3>3. Rank(line) < Rank(k) /\ k \in BiosLines
      <4>1. Rank(stack[Len(stack)].line) < Rank(stack[m].line)
        BY <1>1, <1>3, <3>2, TopOutranks
      <4> QED
        BY <1>3, <3>1, <4>1, StackIs
    <3> QED
      BY <2>1, <3>3 DEF Rank, BiosLines
  <2>4. PIC_IRQActive \in {9, 12, PIC_NOIRQ}
    <3>1. CASE inservice = {}
      BY <1>7, <3>1 DEF HighestKnown
    <3>2. CASE inservice # {}
      <4>1. inservice \in SUBSET Irqs
        BY <1>3, <1>7, StackIs
      <4>2. Highest(inservice) \in inservice
        BY <3>2, <4>1, HighestExists
      <4> QED
        BY <1>7, <2>3, <3>2, <4>2 DEF HighestKnown
    <3> QED
      BY <3>1, <3>2
  <2>5. ~CanEnd(0)
    BY <2>4 DEF CanEnd, PIC_NOIRQ
  <2>6. UNCHANGED <<inservice, PIC_IRQActive>>
    BY <1>1, <2>1, <2>5 DEF NonspecificEOI
  <2>7. UnendedLines(Gone(stack)) = UnendedLines(stack)
    BY <1>1, <1>3, <1>5, <1>9, GoesOn
  <2> QED
    BY <1>1, <1>6, <2>6, <2>7, ServiceStays DEF HandlersInv
<1> QED
  BY <1>8, <1>9

\* PIC_runIRQs starts a line, or none.
LEMMA DeliverStep ==
  ASSUME HandlersInv, Deliver
  PROVE  HandlersInv'
<1>1. UNCHANGED <<PIC_Special_Mode, pics>> /\ RunIRQs /\ PIC_Special_Mode = FALSE
      /\ \A p \in Controllers : pics[p] = ResetPic
  BY DEF Deliver, RunQueue, HandlersInv
<1>2. CASE FlagIF /\ PIC_IRQCheck # {} /\ Ready # {}
  <2> DEFINE i == Highest(Ready)
  <2>1. Ready \in SUBSET Irqs /\ Ready \subseteq active /\ active \subseteq BiosLines
    <3>1. active \subseteq BiosLines /\ BiosLines \subseteq Irqs
      BY DEF HandlersInv, BiosLines, Irqs
    <3>2. \A k \in Ready : k \in active
      BY DEF Ready
    <3> QED
      BY <3>1, <3>2
  <2>2. i \in Ready /\ StartIRQ(i)
    BY <1>1, <1>2, <2>1, HighestExists DEF RunIRQs
  <2> HIDE DEF i
  <2>3. i \in active /\ i \in BiosLines /\ i \in Irqs /\ PicOf(i) \in Controllers
    BY <2>1, <2>2, LinesFacts
  <2>4. pics[PicOf(i)].auto_eoi = FALSE
    BY <1>1, <2>3 DEF ResetPic
  <2>5. /\ active' = active \ {i} /\ FlagIF' = FALSE
        /\ PIC_IRQActive' = i /\ inservice' = inservice \cup {i}
    BY <2>2, <2>4 DEF StartIRQ
  <2>6. (CHOOSE k \in active : k \notin active') = i /\ active' # active
    BY <2>3, <2>5
  <2>7. stack' = Append(stack, [line |-> i, at |-> 1])
    BY <2>6 DEF Deliver
  <2>8. inservice = UnendedLines(stack) /\ HighestKnown /\ Nested(stack, FlagIF) /\ FlagIF = TRUE
    BY <1>2 DEF HandlersInv
  <2>9. inservice \in SUBSET Irqs
    BY <2>8, StackIs
  <2>10. Rank(i) < Rank(PIC_IRQActive)
    BY <1>1, <2>2 DEF Ready, Allowed, Outranks
  <2>11. ASSUME NEW k \in inservice
         PROVE  Rank(i) < Rank(k)
    <3>1. PIC_IRQActive = Highest(inservice)
      BY <2>8, <2>11 DEF HighestKnown
    <3>2. Rank(PIC_IRQActive) <= Rank(k) /\ PIC_IRQActive \in Irqs
      BY <2>9, <3>1, HighestExists
    <3>3. Rank(i) \in Int /\ Rank(k) \in Int /\ Rank(PIC_IRQActive) \in Int
      BY <2>3, <2>9, <3>2, RankFacts
    <3> QED
      BY <2>10, <3>2, <3>3
  <2>12. HighestKnown'
    <3>1. \A k \in inservice' : Rank(i) <= Rank(k)
      <4>1. ASSUME NEW k \in inservice'
            PROVE  Rank(i) <= Rank(k)
        <5>1. Rank(i) \in Int /\ Rank(k) \in Int
          BY <2>3, <2>5, <2>9, RankFacts
        <5> QED
          BY <2>5, <2>11, <5>1
      <4> QED
        BY <4>1
    <3>2. inservice' \in SUBSET Irqs /\ i \in inservice'
      BY <2>3, <2>5, <2>9
    <3>3. Highest(inservice') = i
      BY <3>1, <3>2, HighestIs
    <3> QED
      BY <2>5, <3>2, <3>3 DEF HighestKnown
  <2>13. Nested(stack', FALSE) /\ UnendedLines(stack') = UnendedLines(stack) \cup {i}
    BY <2>3, <2>7, <2>8, <2>11, Entered
  <2> QED
    BY <1>1, <2>5, <2>8, <2>12, <2>13 DEF HandlersInv
<1>3. CASE ~(FlagIF /\ PIC_IRQCheck # {} /\ Ready # {})
  <2>1. UNCHANGED <<lineVars, FlagIF>>
    BY <1>1, <1>3 DEF RunIRQs
  <2>2. stack' = stack
    BY <2>1 DEF Deliver, lineVars
  <2> QED
    BY <1>1, <2>1, <2>2, ServiceStays DEF lineVars, HandlersInv
<1> QED
  BY <1>2, <1>3

LEMMA HandlersStep ==
  ASSUME BiosOnly, HandlersInv, [HandlersNext]_handlerVars
  PROVE  HandlersInv'
<1>1. CASE HandlersNext
  BY <1>1, MainSteps, HandlerSteps, EoiSteps, DeliverStep DEF HandlersNext, Main
<1>2. CASE UNCHANGED handlerVars
  BY <1>2, ServiceStays DEF handlerVars, vars, picVars, lineVars, HandlersInv
<1> QED
  BY <1>1, <1>2

LEMMA HandlersStart ==
  ASSUME HandlersInit
  PROVE  HandlersInv
<1>1. stack = <<>> /\ stack \in Seq(Frames) /\ DOMAIN stack = {}
  BY DEF HandlersInit
<1>2. Nested(stack, FlagIF) /\ UnendedLines(stack) = {}
  BY <1>1 DEF Nested, UnendedLines
<1> QED
  BY <1>2 DEF HandlersInit, Init, HandlersInv, HighestKnown

LEMMA HandlersInvariant == ASSUME BiosOnly PROVE HandlersSpec => []HandlersInv
<1>1. HandlersInit => HandlersInv
  BY HandlersStart
<1>2. HandlersInv /\ [HandlersNext]_handlerVars => HandlersInv'
  BY HandlersStep
<1> QED
  BY <1>1, <1>2, PTL DEF HandlersSpec

\* The handlers of the BIOS end their own interrupts and no others, however
\* they interrupt one another, on the lines that have one (on others they do
\* not: the second EOI to both controllers ends the interrupt of a program's
\* handler on line 3 to 7).
THEOREM OwnServiceIsEnded ==
  ASSUME BiosOnly
  PROVE  HandlersSpec => []OwnServiceEnds
<1>1. HandlersInv => OwnServiceEnds
  BY DEF HandlersInv, OwnServiceEnds, UnendedLines
<1> QED
  BY <1>1, HandlersInvariant, PTL

\* A handler that has not ended its interrupt is interrupted by lines of higher
\* priority alone, to any depth.
THEOREM HandlersNest ==
  ASSUME BiosOnly
  PROVE  HandlersSpec => []NestedByPriority
<1>1. HandlersInv => NestedByPriority
  BY DEF HandlersInv, NestedByPriority, Nested
<1> QED
  BY <1>1, HandlersInvariant, PTL

=============================================================================

------------------------------ MODULE Keyboard ------------------------------
(***************************************************************************)
(* The keyboard and its controller, hardware/keyboard.cpp: a ring of codes  *)
(* that keys and acknowledgements go into, port 60h they come out of, one   *)
(* code at a time by an event of the timer and with an interrupt, and the   *)
(* commands a program writes to ports 60h and 64h.                         *)
(*                                                                         *)
(* `active' and `scanning' are left out: they are written and never read.  *)
(* So is port 61h, the speaker's.  The program reads port 60h from its      *)
(* interrupt handler, or polls it.  The event queue and the interrupt      *)
(* controller are in modules of their own (PicQueue, PicIrq); here they are *)
(* the number of events that wait and the line that is raised.             *)
(***************************************************************************)
EXTENDS Integers, Sequences

CONSTANTS
  KEYBUFSIZE,
  Plain, Extended,  \* keys that send one code, and those with a prefix
  Written           \* the bytes a program writes to port 60h

KBD_NONE == "none"
KBD_pause == "pause"

ASSUME KeyboardAssumption ==
  /\ KEYBUFSIZE \in Nat \ {0}
  /\ {KBD_NONE, KBD_pause} \cap (Plain \cup Extended) = {}
  /\ Plain \cap Extended = {}
  /\ Written \subseteq 0..255

Repeating == Plain \cup Extended
Keys == Repeating \cup {KBD_pause}

\* The bytes that go through the buffer: make and break codes, prefixes, and
\* the acknowledgement.  Zero is what memory holds at first.
Code(key, down) == [key |-> key, down |-> down]
Zero == Code("zero", FALSE)
E0 == Code("e0", TRUE)
E1 == Code("e1", TRUE)
Ack == Code("fa", TRUE)
PauseCodes(down) == <<E1, Code("29", down), Code("69", down)>>
Outport(enabled) == Code("outport", enabled)

CMD_NONE == "CMD_NONE"
CMD_SETLEDS == "CMD_SETLEDS"
CMD_SETTYPERATE == "CMD_SETTYPERATE"
CMD_SETOUTPORT == "CMD_SETOUTPORT"

VARIABLES
  keyb,     \* the structure of that name, with two more fields: transfers, the
            \* events of KEYBOARD_TransferBuffer in the timer's queue, and irq,
            \* the keyboard's line at the interrupt controller
  a20,      \* MEM_A20_Enabled()
  handler,  \* the interrupt has been taken and its handler has not read the port
  held      \* the keys that are down

vars == <<keyb, a20, handler, held>>

-----------------------------------------------------------------------------
(* The functions of the file, as functions of the structure.               *)

SetPort60(s, val) == [s EXCEPT !.p60changed = TRUE, !.p60data = val, !.irq = TRUE]

\* A position in the ring.
Wrap(p) == IF p >= KEYBUFSIZE THEN p - KEYBUFSIZE ELSE p

Schedule(s) == [s EXCEPT !.scheduled = TRUE, !.transfers = @ + 1]

\* Mutant: the position runs over the end of the ring.
TransferPastEnd(s) ==
  [SetPort60(s, s.buffer[s.pos]) EXCEPT
     !.transfers = @ - 1, !.scheduled = FALSE, !.used = @ - 1,
     !.pos = IF @ + 1 > KEYBUFSIZE THEN 0 ELSE @ + 1]

\* Mutant: the event does not note that it is over.
TransferStaysScheduled(s) ==
  LET t == [s EXCEPT !.transfers = @ - 1]
  IN  IF t.used = 0 THEN t
      ELSE [SetPort60(t, t.buffer[t.pos]) EXCEPT
              !.pos = Wrap(@ + 1), !.used = @ - 1]

\* The timer has taken the event out of its queue.
TransferBuffer(s) ==
  LET t == [s EXCEPT !.transfers = @ - 1, !.scheduled = FALSE]
  IN  IF t.used = 0 THEN t
      ELSE [SetPort60(t, t.buffer[t.pos]) EXCEPT
              !.pos = Wrap(@ + 1), !.used = @ - 1]

\* Mutant: the event of a buffer that is cleared stays in the queue.
ClrBufferKeepsEvent(s) == [s EXCEPT !.used = 0, !.pos = 0, !.scheduled = FALSE]

ClrBuffer(s) ==
  [s EXCEPT !.used = 0, !.pos = 0, !.transfers = 0, !.scheduled = FALSE]

\* Mutant: the slot is taken as if the ring began at 0.
AddBufferFromZero(s, data) ==
  LET t == [s EXCEPT !.buffer[s.used] = data, !.used = @ + 1]
  IN  IF s.used >= KEYBUFSIZE THEN s
      ELSE IF ~s.scheduled /\ ~s.p60changed THEN Schedule(t) ELSE t

\* Mutant: the code in the port need not have been read.
AddBufferEager(s, data) ==
  LET t == [s EXCEPT !.buffer[Wrap(s.pos + s.used)] = data, !.used = @ + 1]
  IN  IF s.used >= KEYBUFSIZE THEN s
      ELSE IF ~s.scheduled THEN Schedule(t) ELSE t

AddBuffer(s, data) ==
  LET start == Wrap(s.pos + s.used)
      t == [s EXCEPT !.buffer[start] = data, !.used = @ + 1]
  IN  IF s.used >= KEYBUFSIZE THEN s
      ELSE IF ~s.scheduled /\ ~s.p60changed THEN Schedule(t) ELSE t

\* Mutant: a read does not ask for the next code.
ReadP60Only(s) == [s EXCEPT !.p60changed = FALSE]

ReadP60(s) ==
  LET t == [s EXCEPT !.p60changed = FALSE]
  IN  IF ~s.scheduled /\ s.used > 0 THEN Schedule(t) ELSE t

Acknowledged(s) == AddBuffer(ClrBuffer(s), Ack)

\* Bit 2 of the value enables A20.
Bit(val, b) == (val \div b) % 2 = 1

\* The times of the typematic tables are shortened to one tick or two; they
\* are positive and the pause is never the shorter one.
WithRate(s, val) ==
  [s EXCEPT !.repeat.pause = IF Bit(val, 64) THEN 2 ELSE 1, !.repeat.rate = 1]

WriteP60(s, val) ==
  CASE s.command = CMD_NONE ->
         [Acknowledged(s) EXCEPT
            !.command = CASE val = 237 -> CMD_SETLEDS
                          [] val = 243 -> CMD_SETTYPERATE
                          [] OTHER -> CMD_NONE]
    [] s.command = CMD_SETOUTPORT -> [s EXCEPT !.command = CMD_NONE]
    [] s.command = CMD_SETTYPERATE ->
         Acknowledged([WithRate(s, val) EXCEPT !.command = CMD_NONE])
    [] s.command = CMD_SETLEDS -> Acknowledged([s EXCEPT !.command = CMD_NONE])

\* The byte 0AEh to port 64h: the keyboard is activated.
Activate(s) ==
  IF s.used > 0 /\ ~s.scheduled /\ ~s.p60changed THEN Schedule(s) ELSE s

Pressed(r, key) ==
  [r EXCEPT !.wait = IF r.key = key THEN r.rate ELSE r.pause, !.key = key]

\* Mutant: the key is forgotten but its time runs on.
ReleasedKeepsTime(r) == [r EXCEPT !.key = KBD_NONE]

Released(r) == [r EXCEPT !.key = KBD_NONE, !.wait = 0]

AddKey(s, key, down) ==
  IF key = KBD_pause
  THEN LET c == PauseCodes(down) IN AddBuffer(AddBuffer(AddBuffer(s, c[1]), c[2]), c[3])
  ELSE LET t == [s EXCEPT !.repeat = IF down THEN Pressed(@, key) ELSE Released(@)]
       IN  AddBuffer(IF key \in Extended THEN AddBuffer(t, E0) ELSE t, Code(key, down))

TickHandler(s) ==
  LET t == [s EXCEPT !.repeat.wait = @ - 1]
  IN  IF t.repeat.wait = 0 THEN AddKey(t, t.repeat.key, TRUE) ELSE t

-----------------------------------------------------------------------------

Init ==
  /\ keyb = [buffer |-> [i \in 0..KEYBUFSIZE - 1 |-> Zero], used |-> 0, pos |-> 0,
             repeat |-> [key |-> KBD_NONE, wait |-> 0, pause |-> 2, rate |-> 1],
             command |-> CMD_NONE, p60data |-> Zero, p60changed |-> FALSE,
             scheduled |-> FALSE, transfers |-> 0, irq |-> FALSE]
  /\ a20 = FALSE /\ handler = FALSE /\ held = {}

\* The user, by way of the mapper.  A key that is not down is released when
\* the window gets the focus back.
Press(key) ==
  /\ key \notin held
  /\ keyb' = AddKey(keyb, key, TRUE)
  /\ held' = held \cup {key}
  /\ UNCHANGED <<a20, handler>>

Release(key) ==
  /\ keyb' = AddKey(keyb, key, FALSE)
  /\ held' = held \ {key}
  /\ UNCHANGED <<a20, handler>>

\* The emulator is paused or its mapper called up.
Clear == keyb' = ClrBuffer(keyb) /\ UNCHANGED <<a20, handler, held>>

\* The timer: the tick of a millisecond, and the event.
Tick ==
  /\ keyb.repeat.wait > 0
  /\ keyb' = TickHandler(keyb)
  /\ UNCHANGED <<a20, handler, held>>

Transfer ==
  /\ keyb.transfers > 0
  /\ keyb' = TransferBuffer(keyb)
  /\ UNCHANGED <<a20, handler, held>>

\* The processor: the interrupt, its handler, and the program.
Interrupt ==
  /\ keyb.irq /\ ~handler
  /\ keyb' = [keyb EXCEPT !.irq = FALSE]
  /\ handler' = TRUE
  /\ UNCHANGED <<a20, held>>

HandlerReads ==
  /\ handler
  /\ keyb' = ReadP60(keyb)
  /\ handler' = FALSE
  /\ UNCHANGED <<a20, held>>

PollPort60 ==
  /\ ~handler
  /\ keyb' = ReadP60(keyb)
  /\ UNCHANGED <<a20, handler, held>>

WritePort60(val) ==
  /\ ~handler
  /\ keyb' = WriteP60(keyb, val)
  /\ a20' = IF keyb.command = CMD_SETOUTPORT THEN Bit(val, 2) ELSE a20
  /\ UNCHANGED <<handler, held>>

\* Port 64h: activate, read the output port, write the output port.
WritePort64 ==
  /\ ~handler
  /\ \/ keyb' = Activate(keyb)
     \/ keyb' = SetPort60(keyb, Outport(a20))
     \/ keyb' = [keyb EXCEPT !.command = CMD_SETOUTPORT]
  /\ UNCHANGED <<a20, handler, held>>

Typing == Tick \/ Clear \/ \E key \in Keys : Press(key) \/ Release(key)

Programming == PollPort60 \/ WritePort64 \/ \E val \in Written : WritePort60(val)

Next == Typing \/ Programming \/ Transfer \/ Interrupt \/ HandlerReads

Spec == Init /\ [][Next]_vars

\* An event's time comes, and the processor takes the interrupt and runs its
\* handler, unless the program keeps the line masked for ever.
FairSpec == Spec /\ WF_vars(Transfer) /\ WF_vars(Interrupt) /\ WF_vars(HandlerReads)

-----------------------------------------------------------------------------
(* What the keyboard must guarantee.                                       *)

Codes == {Zero, E0, E1, Ack} \cup {Outport(e) : e \in BOOLEAN}
           \cup {Code(k, d) : k \in Repeating \cup {"29", "69"}, d \in BOOLEAN}

Structures ==
  [buffer : [0..KEYBUFSIZE - 1 -> Codes], used : 0..KEYBUFSIZE, pos : 0..KEYBUFSIZE - 1,
   repeat : [key : Repeating \cup {KBD_NONE}, wait : 0..2, pause : 1..2, rate : {1}],
   command : {CMD_NONE, CMD_SETLEDS, CMD_SETTYPERATE, CMD_SETOUTPORT},
   p60data : Codes, p60changed : BOOLEAN, scheduled : BOOLEAN,
   transfers : Nat, irq : BOOLEAN]

\* The type invariant: the ring's position and count stay within the ring.
TypeOK ==
  /\ keyb \in Structures
  /\ a20 \in BOOLEAN /\ handler \in BOOLEAN /\ held \subseteq Keys

\* `scheduled' tells the truth about the timer's queue: one event of
\* KEYBOARD_TransferBuffer waits there when it is set and none when it is not,
\* whatever clears the buffer in between.  Two events would send two codes at
\* once; none would leave the keyboard dead.
ScheduledIsQueued == keyb.transfers = (IF keyb.scheduled THEN 1 ELSE 0)

\* While codes wait there is always something that brings the next one: an
\* event in the queue, or a code in the port whose reading will schedule one.
\* The four places that schedule the event have to see to that together.
NeverStuck == keyb.used > 0 => keyb.scheduled \/ keyb.p60changed

\* No event is on its way to replace a code the program has not read yet; only
\* the controller's own answer, on the output port, may still be replaced.
UnreadIsSafe ==
  keyb.scheduled /\ keyb.p60changed => \E e \in BOOLEAN : keyb.p60data = Outport(e)

\* The key whose time runs is one the user holds down.  Were there none, the
\* next tick would call KEYBOARD_AddKey with KBD_NONE, which ends the emulator.
OnlyHeldKeysRepeat == keyb.repeat.wait > 0 => keyb.repeat.key \in held

\* The codes in the ring, first to last.
Ring == [i \in 1..keyb.used |-> keyb.buffer[Wrap(keyb.pos + i - 1)]]

\* The codes a key sends when it is pressed or released.
KeyStrokes ==
  {PauseCodes(d) : d \in BOOLEAN}
    \cup {<<Code(k, d)>> : k \in Plain, d \in BOOLEAN}
    \cup {<<E0, Code(k, d)>> : k \in Extended, d \in BOOLEAN}

Stream == INSTANCE KeyStream WITH
  Strokes <- KeyStrokes,
  Ack <- Ack, Answers <- {Outport(e) : e \in BOOLEAN}, Capacity <- KEYBUFSIZE,
  waiting <- Ring, shown <- keyb.p60data, unread <- keyb.p60changed

\* The ring and the flags implement the stream of codes of KeyStream: order is
\* kept, no code comes twice, none is lost but by a full or a cleared buffer,
\* and an unread code stays in the port.
ImplementsStream == Stream!StreamInit(Zero) /\ [][Stream!StreamNext]_(Stream!streamVars)

\* When nobody types and the program does nothing but take its interrupts, all
\* codes come to be read: the chain of event, interrupt, read and next event
\* does not break.
Drains ==
  <>[][~(Typing \/ Programming)]_vars
    => <>[](keyb.used = 0 /\ ~keyb.p60changed /\ ~keyb.irq /\ ~handler)

=============================================================================

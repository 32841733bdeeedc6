--------------------------- MODULE KeyboardProofs ---------------------------
(***************************************************************************)
(* Proofs about the keyboard: for rings of any size, any keys and any      *)
(* commands, the event that brings the next code is in the queue exactly   *)
(* when `scheduled' says so, something always brings the next code, an     *)
(* unread code is safe, only keys that are down repeat, and the whole is    *)
(* the stream of sent of KeyStream.                                       *)
(***************************************************************************)
EXTENDS Keyboard, KeyboardBios, SequenceTheorems, TLAPS

USE KeyboardAssumption

\* The part of the invariant that each function of the file keeps by itself.
Sound(s) ==
  /\ s.transfers = (IF s.scheduled THEN 1 ELSE 0)
  /\ s.used > 0 => s.scheduled \/ s.p60changed
  /\ s.scheduled /\ s.p60changed => \E e \in BOOLEAN : s.p60data = Outport(e)

Good(s) == s \in Structures /\ Sound(s)

Commands == {CMD_NONE, CMD_SETLEDS, CMD_SETTYPERATE, CMD_SETOUTPORT}
Repeats == [key : Repeating \cup {KBD_NONE}, wait : 0..2, pause : 1..2, rate : {1}]

\* The inductive invariant.
Inv == TypeOK /\ Sound(keyb) /\ OnlyHeldKeysRepeat

-----------------------------------------------------------------------------
(* Typing of the structure, field by field.                                *)

\* Assigning a value of its type to a field gives a structure again.
LEMMA FieldsTyped ==
  ASSUME NEW s \in Structures
  PROVE  /\ \A b \in BOOLEAN : /\ [s EXCEPT !.scheduled = b] \in Structures
                               /\ [s EXCEPT !.p60changed = b] \in Structures
                               /\ [s EXCEPT !.irq = b] \in Structures
         /\ \A n \in Nat : [s EXCEPT !.transfers = n] \in Structures
         /\ \A d \in Codes : [s EXCEPT !.p60data = d] \in Structures
         /\ \A u \in 0..KEYBUFSIZE, p \in 0..KEYBUFSIZE - 1 :
              [s EXCEPT !.used = u, !.pos = p] \in Structures
         /\ \A c \in Commands : [s EXCEPT !.command = c] \in Structures
         /\ \A r \in Repeats : [s EXCEPT !.repeat = r] \in Structures
<1>1. \A b \in BOOLEAN : [s EXCEPT !.scheduled = b] \in Structures
  BY SMTT(30) DEF Structures
<1>2. \A b \in BOOLEAN : [s EXCEPT !.p60changed = b] \in Structures
  BY SMTT(30) DEF Structures
<1>3. \A b \in BOOLEAN : [s EXCEPT !.irq = b] \in Structures
  BY DEF Structures
<1>4. \A n \in Nat : [s EXCEPT !.transfers = n] \in Structures
  BY DEF Structures
<1>5. \A d \in Codes : [s EXCEPT !.p60data = d] \in Structures
  BY DEF Structures
<1>6. \A u \in 0..KEYBUFSIZE, p \in 0..KEYBUFSIZE - 1 :
              [s EXCEPT !.used = u, !.pos = p] \in Structures
  BY ZenonT(40) DEF Structures
<1>7. \A c \in Commands : [s EXCEPT !.command = c] \in Structures
  BY DEF Structures, Commands
<1>8. \A r \in Repeats : [s EXCEPT !.repeat = r] \in Structures
  BY DEF Structures, Repeats
<1> QED  BY <1>1, <1>2, <1>3, <1>4, <1>5, <1>6, <1>7, <1>8


\* The functions that set several fields at once give structures.
LEMMA SettersTyped ==
  ASSUME NEW s \in Structures
  PROVE  /\ Schedule(s) \in Structures
         /\ ClrBuffer(s) \in Structures
         /\ \A val \in Codes : SetPort60(s, val) \in Structures
<1>1. Schedule(s) \in Structures
  <2> DEFINE q == [s EXCEPT !.scheduled = TRUE]
  <2>1. q \in Structures
    BY FieldsTyped
  <2>2. s.transfers + 1 \in Nat
    BY DEF Structures
  <2>3. Schedule(s) = [q EXCEPT !.transfers = s.transfers + 1]
    BY DEF Schedule, Structures
  <2> HIDE DEF q
  <2> QED  BY <2>1, <2>2, <2>3, FieldsTyped, ZenonT(40)
<1>2. ClrBuffer(s) \in Structures
  <2> DEFINE q == [s EXCEPT !.used = 0, !.pos = 0]
             r == [q EXCEPT !.transfers = 0]
  <2>1. 0 \in 0..KEYBUFSIZE /\ 0 \in 0..KEYBUFSIZE - 1
    OBVIOUS
  <2>2. q \in Structures
    BY <2>1, FieldsTyped
  <2>3. r \in Structures
    BY <2>2, FieldsTyped
  <2>4. ClrBuffer(s) = [r EXCEPT !.scheduled = FALSE]
    BY DEF ClrBuffer, Structures
  <2> HIDE DEF r
  <2> QED  BY <2>3, <2>4, FieldsTyped
<1>3. ASSUME NEW val \in Codes
      PROVE  SetPort60(s, val) \in Structures
  <2> DEFINE q == [s EXCEPT !.p60changed = TRUE]
             r == [q EXCEPT !.p60data = val]
  <2>1. q \in Structures
    BY FieldsTyped
  <2>2. r \in Structures
    BY <2>1, FieldsTyped
  <2>3. SetPort60(s, val) = [r EXCEPT !.irq = TRUE]
    BY DEF SetPort60, Structures
  <2> HIDE DEF r
  <2> QED  BY <2>2, <2>3, FieldsTyped
<1> QED  BY <1>1, <1>2, <1>3

-----------------------------------------------------------------------------
(* Each function of the file keeps the structure good, and only AddKey     *)
(* touches the repeat.                                                     *)

\* One code into the buffer.
LEMMA AddBufferGood ==
  ASSUME NEW s, Good(s), NEW d \in Codes
  PROVE  /\ Good(AddBuffer(s, d))
         /\ AddBuffer(s, d).repeat = s.repeat
<1> DEFINE start == Wrap(s.pos + s.used)
           t == [s EXCEPT !.buffer[start] = d, !.used = @ + 1]
<1>1. s \in Structures /\ Sound(s)
  BY DEF Good
<1>2. CASE s.used >= KEYBUFSIZE
  BY <1>1, <1>2 DEF AddBuffer, Good
<1>3. CASE ~(s.used >= KEYBUFSIZE)
  <2>1. start \in 0..KEYBUFSIZE - 1 /\ s.used + 1 \in 0..KEYBUFSIZE
    BY <1>1, <1>3 DEF Structures, Wrap
  <2>2. t \in Structures
    BY <1>1, <2>1, ZenonT(40) DEF Structures
  <2>3. CASE ~s.scheduled /\ ~s.p60changed
    <3>1. AddBuffer(s, d) = Schedule(t)
      BY <1>3, <2>3 DEF AddBuffer
    <3>2. Schedule(t) \in Structures
      BY <2>2, SettersTyped
    <3>3. Sound(Schedule(t)) /\ Schedule(t).repeat = s.repeat
      BY <1>1, <2>2, <2>3 DEF Schedule, Structures, Sound
    <3> QED  BY <3>1, <3>2, <3>3 DEF Good
  <2>4. CASE ~(~s.scheduled /\ ~s.p60changed)
    <3>1. AddBuffer(s, d) = t
      BY <1>3, <2>4 DEF AddBuffer
    <3>2. Sound(t) /\ t.repeat = s.repeat
      BY <1>1, <2>4 DEF Sound, Structures
    <3> QED  BY <2>2, <3>1, <3>2 DEF Good
  <2> QED  BY <2>3, <2>4
<1> QED  BY <1>2, <1>3

\* Clearing the buffer.
LEMMA ClrBufferGood ==
  ASSUME NEW s, Good(s)
  PROVE  Good(ClrBuffer(s)) /\ ClrBuffer(s).repeat = s.repeat
<1>1. ClrBuffer(s) \in Structures
  BY SettersTyped DEF Good
<1>2. Sound(ClrBuffer(s)) /\ ClrBuffer(s).repeat = s.repeat
  BY DEF Good, ClrBuffer, Structures, Sound
<1> QED  BY <1>1, <1>2 DEF Good

\* The acknowledgement of a command.
LEMMA AcknowledgedGood ==
  ASSUME NEW s, Good(s)
  PROVE  Good(Acknowledged(s)) /\ Acknowledged(s).repeat = s.repeat
<1>1. Ack \in Codes
  BY DEF Codes
<1> QED  BY <1>1, ClrBufferGood, AddBufferGood DEF Acknowledged

\* A read of the port, which schedules the next event itself.
LEMMA ReadGood ==
  ASSUME NEW s, Good(s)
  PROVE  Good(ReadP60(s)) /\ ReadP60(s).repeat = s.repeat
<1> DEFINE t == [s EXCEPT !.p60changed = FALSE]
<1>1. s \in Structures /\ Sound(s)
  BY DEF Good
<1>2. t \in Structures
  BY <1>1, FieldsTyped
<1>3. CASE ~s.scheduled /\ s.used > 0
  <2>1. ReadP60(s) = Schedule(t)
    BY <1>3 DEF ReadP60
  <2>2. Schedule(t) \in Structures
    BY <1>2, SettersTyped
  <2>3. Sound(Schedule(t)) /\ Schedule(t).repeat = s.repeat
    BY <1>1, <1>3 DEF Schedule, Structures, Sound
  <2> QED  BY <2>1, <2>2, <2>3 DEF Good
<1>4. CASE ~(~s.scheduled /\ s.used > 0)
  <2>1. ReadP60(s) = t
    BY <1>4 DEF ReadP60
  <2>2. Sound(t) /\ t.repeat = s.repeat
    BY <1>1, <1>4 DEF Structures, Sound
  <2> QED  BY <1>2, <2>1, <2>2 DEF Good
<1> QED  BY <1>3, <1>4

\* The byte that activates the keyboard.
LEMMA ActivateGood ==
  ASSUME NEW s, Good(s)
  PROVE  Good(Activate(s)) /\ Activate(s).repeat = s.repeat
<1>1. s \in Structures /\ Sound(s)
  BY DEF Good
<1>2. CASE s.used > 0 /\ ~s.scheduled /\ ~s.p60changed
  \* Such a state is not sound: nothing would bring the next code.
  BY <1>1, <1>2 DEF Sound
<1>3. CASE ~(s.used > 0 /\ ~s.scheduled /\ ~s.p60changed)
  BY <1>3 DEF Activate
<1> QED  BY <1>2, <1>3

\* The controller's own answer.
LEMMA AnswerGood ==
  ASSUME NEW s, Good(s), NEW e \in BOOLEAN
  PROVE  Good(SetPort60(s, Outport(e))) /\ SetPort60(s, Outport(e)).repeat = s.repeat
<1>1. Outport(e) \in Codes
  BY DEF Codes
<1>2. SetPort60(s, Outport(e)) \in Structures
  BY <1>1, SettersTyped DEF Good
<1>3. Sound(SetPort60(s, Outport(e))) /\ SetPort60(s, Outport(e)).repeat = s.repeat
  BY DEF Good, SetPort60, Structures, Sound
<1> QED  BY <1>2, <1>3 DEF Good

\* The event: it finds the code that waits longest.
LEMMA TransferGood ==
  ASSUME NEW s, Good(s), s.transfers > 0
  PROVE  Good(TransferBuffer(s)) /\ TransferBuffer(s).repeat = s.repeat
<1> DEFINE q == [s EXCEPT !.transfers = s.transfers - 1]
           t == [q EXCEPT !.scheduled = FALSE]
           pos == Wrap(s.pos + 1)
           p == SetPort60(t, t.buffer[t.pos])
<1>1. s \in Structures /\ Sound(s)
  BY DEF Good
<1>2. s.scheduled /\ s.transfers = 1
  BY <1>1 DEF Sound, Structures
<1>3. t \in Structures
  <2>1. s.transfers - 1 \in Nat
    BY <1>2
  <2>2. q \in Structures
    BY <1>1, <2>1, FieldsTyped
  <2> HIDE DEF q
  <2> QED  BY <2>2, FieldsTyped
<1>4. /\ t.transfers = 0 /\ t.scheduled = FALSE /\ t.used = s.used /\ t.pos = s.pos
      /\ t.buffer = s.buffer /\ t.repeat = s.repeat /\ t.p60changed = s.p60changed
  BY <1>1, <1>2 DEF Structures
<1>5. t = [s EXCEPT !.transfers = @ - 1, !.scheduled = FALSE]
  BY <1>1 DEF Structures
<1> HIDE DEF t
<1>6. CASE s.used = 0
  <2>1. TransferBuffer(s) = t
    BY <1>4, <1>5, <1>6 DEF TransferBuffer
  <2>2. Sound(t)
    BY <1>4, <1>6 DEF Sound
  <2> QED  BY <1>3, <1>4, <2>1, <2>2 DEF Good
<1>7. CASE s.used # 0
  <2>1. t.buffer[t.pos] \in Codes
    BY <1>3 DEF Structures
  <2>2. p \in Structures
    BY <1>3, <2>1, SettersTyped
  <2>3. /\ p.transfers = 0 /\ p.scheduled = FALSE /\ p.used = s.used /\ p.pos = s.pos
        /\ p.repeat = s.repeat /\ p.p60changed = TRUE
    BY <1>3, <1>4 DEF SetPort60, Structures
  <2>4. s.used - 1 \in 0..KEYBUFSIZE /\ pos \in 0..KEYBUFSIZE - 1
    BY <1>1, <1>7 DEF Structures, Wrap
  <2>5. TransferBuffer(s) = [p EXCEPT !.used = s.used - 1, !.pos = pos]
    <3>1. TransferBuffer(s) =
            [p EXCEPT !.pos = Wrap(@ + 1), !.used = @ - 1]
      BY <1>4, <1>5, <1>7 DEF TransferBuffer
    <3> HIDE DEF p
    <3> QED  BY <2>2, <2>3, <3>1 DEF Structures
  <2> HIDE DEF p, pos
  <2>6. [p EXCEPT !.used = s.used - 1, !.pos = pos] \in Structures
    BY <2>2, <2>4, FieldsTyped
  <2>7. /\ Sound([p EXCEPT !.used = s.used - 1, !.pos = pos])
        /\ [p EXCEPT !.used = s.used - 1, !.pos = pos].repeat = s.repeat
    BY <2>2, <2>3 DEF Sound, Structures
  <2> QED  BY <2>5, <2>6, <2>7 DEF Good
<1> QED  BY <1>6, <1>7

\* A new command, or a new repeat, alone.
LEMMA AssignedGood ==
  ASSUME NEW s, Good(s)
  PROVE  /\ \A c \in Commands : /\ Good([s EXCEPT !.command = c])
                                 /\ [s EXCEPT !.command = c].repeat = s.repeat
         /\ \A r \in Repeats : /\ Good([s EXCEPT !.repeat = r])
                               /\ [s EXCEPT !.repeat = r].repeat = r
<1>1. s \in Structures /\ Sound(s)
  BY DEF Good
<1>2. ASSUME NEW c \in Commands
      PROVE  Good([s EXCEPT !.command = c]) /\ [s EXCEPT !.command = c].repeat = s.repeat
  <2>1. [s EXCEPT !.command = c] \in Structures
    BY <1>1, FieldsTyped
  <2>2. Sound([s EXCEPT !.command = c]) /\ [s EXCEPT !.command = c].repeat = s.repeat
    BY <1>1 DEF Sound, Structures
  <2> QED  BY <2>1, <2>2 DEF Good
<1>3. ASSUME NEW r \in Repeats
      PROVE  Good([s EXCEPT !.repeat = r]) /\ [s EXCEPT !.repeat = r].repeat = r
  <2>1. [s EXCEPT !.repeat = r] \in Structures
    BY <1>1, FieldsTyped
  <2>2. Sound([s EXCEPT !.repeat = r]) /\ [s EXCEPT !.repeat = r].repeat = r
    BY <1>1 DEF Sound, Structures
  <2> QED  BY <2>1, <2>2 DEF Good
<1> QED  BY <1>2, <1>3

\* A byte written to port 60h.  It may set the times of the repeat, not its key.
LEMMA WriteGood ==
  ASSUME NEW s, Good(s), NEW val
  PROVE  /\ Good(WriteP60(s, val))
         /\ WriteP60(s, val).repeat.key = s.repeat.key
         /\ WriteP60(s, val).repeat.wait = s.repeat.wait
<1>1. s \in Structures
  BY DEF Good
<1>2. CMD_NONE \in Commands /\ CMD_SETLEDS \in Commands /\ CMD_SETTYPERATE \in Commands
  BY DEF Commands
<1>3. CASE s.command = CMD_NONE
  <2> DEFINE c == CASE val = 237 -> CMD_SETLEDS
                    [] val = 243 -> CMD_SETTYPERATE
                    [] OTHER -> CMD_NONE
  <2>1. c \in Commands
    BY <1>2
  <2>2. WriteP60(s, val) = [Acknowledged(s) EXCEPT !.command = c]
    BY <1>3 DEF WriteP60, CMD_NONE, CMD_SETLEDS, CMD_SETTYPERATE, CMD_SETOUTPORT
  <2> HIDE DEF c
  <2> QED  BY <2>1, <2>2, AcknowledgedGood, AssignedGood
<1>4. CASE s.command = CMD_SETOUTPORT
  <2>1. WriteP60(s, val) = [s EXCEPT !.command = CMD_NONE]
    BY <1>4 DEF WriteP60, CMD_NONE, CMD_SETLEDS, CMD_SETTYPERATE, CMD_SETOUTPORT
  <2> QED  BY <1>2, <2>1, AssignedGood
<1>5. CASE s.command = CMD_SETTYPERATE
  <2> DEFINE pause == IF Bit(val, 64) THEN 2 ELSE 1
             r == [s.repeat EXCEPT !.pause = pause, !.rate = 1]
             t == [s EXCEPT !.repeat = r]
  <2>1. r \in Repeats /\ r.key = s.repeat.key /\ r.wait = s.repeat.wait
    <3>1. s.repeat \in Repeats /\ pause \in 1..2
      BY <1>1 DEF Structures, Repeats
    <3> HIDE DEF pause
    <3> QED  BY <3>1 DEF Repeats
  <2> HIDE DEF r
  <2>2. Good(t) /\ t.repeat = r
    BY <2>1, AssignedGood
  <2>3. WriteP60(s, val) = Acknowledged([t EXCEPT !.command = CMD_NONE])
    <3>1. WriteP60(s, val) = Acknowledged([WithRate(s, val) EXCEPT !.command = CMD_NONE])
      BY <1>5 DEF WriteP60, CMD_NONE, CMD_SETLEDS, CMD_SETTYPERATE, CMD_SETOUTPORT
    <3>2. WithRate(s, val) = t
      BY <1>1 DEF WithRate, r, Structures
    <3> QED  BY <3>1, <3>2
  <2> HIDE DEF t
  <2> DEFINE u == [t EXCEPT !.command = CMD_NONE]
  <2>4. Good(u) /\ u.repeat = r
    BY <1>2, <2>2, AssignedGood
  <2> HIDE DEF u
  <2>5. Good(Acknowledged(u)) /\ Acknowledged(u).repeat = r
    BY <2>4, AcknowledgedGood
  <2> QED  BY <2>1, <2>3, <2>5 DEF u
<1>6. CASE s.command = CMD_SETLEDS
  <2>1. WriteP60(s, val) = Acknowledged([s EXCEPT !.command = CMD_NONE])
    BY <1>6 DEF WriteP60, CMD_NONE, CMD_SETLEDS, CMD_SETTYPERATE, CMD_SETOUTPORT
  <2> DEFINE u == [s EXCEPT !.command = CMD_NONE]
  <2>2. Good(u) /\ u.repeat = s.repeat
    BY <1>2, AssignedGood
  <2> HIDE DEF u
  <2>3. Good(Acknowledged(u)) /\ Acknowledged(u).repeat = s.repeat
    BY <2>2, AcknowledgedGood
  <2> QED  BY <2>1, <2>3 DEF u
<1> QED  BY <1>1, <1>3, <1>4, <1>5, <1>6 DEF Structures, Commands

\* A key pressed or released gives a repeat.
LEMMA RepeatsTyped ==
  ASSUME NEW r \in Repeats, NEW key \in Repeating
  PROVE  Pressed(r, key) \in Repeats /\ Released(r) \in Repeats
<1> DEFINE wait == IF r.key = key THEN r.rate ELSE r.pause
<1>1. wait \in 0..2
  BY DEF Repeats
<1>2. Pressed(r, key) = [r EXCEPT !.wait = wait, !.key = key]
  BY DEF Pressed
<1> HIDE DEF wait
<1>3. Pressed(r, key) \in Repeats
  BY <1>1, <1>2, ZenonT(40) DEF Repeats
<1>4. \A k \in Repeating \cup {KBD_NONE}, w \in 0..2 :
        [r EXCEPT !.key = k, !.wait = w] \in Repeats
  BY DEF Repeats
<1>5. Released(r) \in Repeats
  <2>1. KBD_NONE \in Repeating \cup {KBD_NONE} /\ 0 \in 0..2
    OBVIOUS
  <2>2. [r EXCEPT !.key = KBD_NONE, !.wait = 0] \in Repeats
    BY <1>4, <2>1
  <2> QED  BY <2>2 DEF Released
<1> QED  BY <1>3, <1>5

\* A key.
LEMMA AddKeyGood ==
  ASSUME NEW s, Good(s), NEW key \in Keys, NEW pressed \in BOOLEAN
  PROVE  /\ Good(AddKey(s, key, pressed))
         /\ AddKey(s, key, pressed).repeat =
              IF key = KBD_pause THEN s.repeat
              ELSE IF pressed THEN Pressed(s.repeat, key) ELSE Released(s.repeat)
<1>1. s \in Structures
  BY DEF Good
<1>2. CASE key = KBD_pause
  <2>1. E1 \in Codes /\ Code("29", pressed) \in Codes /\ Code("69", pressed) \in Codes
    BY DEF Codes
  <2>2. AddKey(s, key, pressed) =
          AddBuffer(AddBuffer(AddBuffer(s, E1), Code("29", pressed)), Code("69", pressed))
    BY <1>2 DEF AddKey, PauseCodes
  <2> QED  BY <1>2, <2>1, <2>2, AddBufferGood
<1>3. CASE key # KBD_pause
  <2> DEFINE r == IF pressed THEN Pressed(s.repeat, key) ELSE Released(s.repeat)
             t == [s EXCEPT !.repeat = r]
  <2>1. key \in Repeating /\ Code(key, pressed) \in Codes /\ E0 \in Codes
    BY <1>3 DEF Keys, Codes
  <2>2. r \in Repeats
    <3>1. s.repeat \in Repeats
      BY <1>1 DEF Structures, Repeats
    <3>2. Pressed(s.repeat, key) \in Repeats /\ Released(s.repeat) \in Repeats
      BY <2>1, <3>1, RepeatsTyped
    <3> QED  BY <3>2
  <2> HIDE DEF r
  <2>3. Good(t) /\ t.repeat = r
    BY <2>2, AssignedGood
  <2>4. AddKey(s, key, pressed) =
          AddBuffer(IF key \in Extended THEN AddBuffer(t, E0) ELSE t, Code(key, pressed))
    BY <1>3 DEF AddKey, r
  <2> HIDE DEF t
  <2> QED  BY <1>3, <2>1, <2>3, <2>4, AddBufferGood DEF r
<1> QED  BY <1>2, <1>3

\* A tick of the repeat.  The key is down again, so it stays the same.
LEMMA TickGood ==
  ASSUME NEW s, Good(s), s.repeat.wait > 0, s.repeat.key \in Keys
  PROVE  /\ Good(TickHandler(s))
         /\ TickHandler(s).repeat.key = s.repeat.key
<1> DEFINE r == [s.repeat EXCEPT !.wait = s.repeat.wait - 1]
           t == [s EXCEPT !.repeat = r]
<1>1. s \in Structures
  BY DEF Good
<1>2. s.repeat \in Repeats
  BY <1>1 DEF Structures, Repeats
<1>3. r \in Repeats /\ r.key = s.repeat.key /\ r.wait = s.repeat.wait - 1
  BY <1>2 DEF Repeats
<1>4. Good(t) /\ t.repeat = r
  <2> HIDE DEF r
  <2> QED  BY <1>3, AssignedGood
<1>5. TickHandler(s) = IF t.repeat.wait = 0 THEN AddKey(t, t.repeat.key, TRUE) ELSE t
  BY <1>1 DEF TickHandler, Structures
<1>6. s.repeat.key # KBD_pause
  BY <1>2 DEF Repeats, Repeating, KBD_NONE, KBD_pause
<1> HIDE DEF t
<1>7. Pressed(r, r.key).key = r.key
  BY <1>3 DEF Pressed, Repeats
<1> HIDE DEF r
<1>8. CASE t.repeat.wait = 0
  <2>1. TickHandler(s) = AddKey(t, r.key, TRUE)
    BY <1>4, <1>5, <1>8
  <2>2. Good(AddKey(t, r.key, TRUE)) /\ AddKey(t, r.key, TRUE).repeat = Pressed(r, r.key)
    BY <1>3, <1>4, <1>6, AddKeyGood, ZenonT(40)
  <2> QED  BY <1>3, <1>7, <2>1, <2>2
<1>9. CASE t.repeat.wait # 0
  BY <1>3, <1>4, <1>5, <1>9
<1> QED  BY <1>8, <1>9

-----------------------------------------------------------------------------

\* The machine starts with an empty buffer and nothing scheduled.
LEMMA InitInv == Init => Inv
<1> SUFFICES ASSUME Init PROVE Inv
  OBVIOUS
<1> DEFINE r == [key |-> KBD_NONE, wait |-> 0, pause |-> 2, rate |-> 1]
           b == [i \in 0..KEYBUFSIZE - 1 |-> Zero]
<1>1. r \in Repeats /\ r.wait = 0
  BY DEF Repeats
<1>2. b \in [0..KEYBUFSIZE - 1 -> Codes] /\ Zero \in Codes
  BY DEF Codes
<1>3. CMD_NONE \in Commands
  BY DEF Commands
<1>4. keyb = [buffer |-> b, used |-> 0, pos |-> 0, repeat |-> r, command |-> CMD_NONE,
              p60data |-> Zero, p60changed |-> FALSE, scheduled |-> FALSE,
              transfers |-> 0, irq |-> FALSE]
  BY DEF Init
<1> HIDE DEF r, b
<1>5. 0 \in 0..KEYBUFSIZE /\ 0 \in 0..KEYBUFSIZE - 1 /\ 0 \in Nat
  OBVIOUS
<1>6. keyb \in Structures
  BY <1>1, <1>2, <1>3, <1>4, <1>5 DEF Structures, Repeats, Commands
<1>7. Sound(keyb)
  BY <1>4 DEF Sound
<1>8. a20 \in BOOLEAN /\ handler \in BOOLEAN /\ held \subseteq Keys
  BY DEF Init
<1>9. keyb.repeat.wait = 0
  BY <1>1, <1>4
<1> QED  BY <1>6, <1>7, <1>8, <1>9 DEF Inv, TypeOK, OnlyHeldKeysRepeat

\* Every action keeps the invariant.
LEMMA StepInv == Inv /\ [Next]_vars => Inv'
<1> SUFFICES ASSUME Inv, [Next]_vars PROVE Inv'
  OBVIOUS
<1>1. /\ Good(keyb) /\ a20 \in BOOLEAN /\ handler \in BOOLEAN /\ held \subseteq Keys
      /\ keyb.repeat.wait > 0 => keyb.repeat.key \in held
  BY DEF Inv, TypeOK, Good, OnlyHeldKeysRepeat
<1>2. keyb.repeat \in Repeats
  BY <1>1 DEF Good, Structures, Repeats
<1>3. ASSUME Good(keyb'), a20' \in BOOLEAN, handler' \in BOOLEAN, held' \subseteq Keys,
             keyb'.repeat.wait > 0 => keyb'.repeat.key \in held'
      PROVE  Inv'
  BY <1>3 DEF Inv, TypeOK, Good, OnlyHeldKeysRepeat, Sound
<1>4. ASSUME NEW key \in Keys, Press(key)
      PROVE  Inv'
  <2>1. /\ keyb' = AddKey(keyb, key, TRUE) /\ held' = held \cup {key}
        /\ a20' = a20 /\ handler' = handler
    BY <1>4 DEF Press
  <2>2. Good(keyb')
    BY <1>1, <2>1, AddKeyGood
  <2>3. CASE key = KBD_pause
    BY <1>1, <1>3, <2>1, <2>2, <2>3, AddKeyGood
  <2>4. CASE key # KBD_pause
    <3>1. keyb'.repeat = Pressed(keyb.repeat, key)
      BY <1>1, <2>1, <2>4, AddKeyGood
    <3>2. keyb'.repeat.key = key
      BY <1>2, <3>1 DEF Pressed, Repeats
    <3> QED  BY <1>1, <1>3, <2>1, <2>2, <3>2
  <2> QED  BY <2>3, <2>4
<1>5. ASSUME NEW key \in Keys, Release(key)
      PROVE  Inv'
  <2>1. /\ keyb' = AddKey(keyb, key, FALSE) /\ held' = held \ {key}
        /\ a20' = a20 /\ handler' = handler
    BY <1>5 DEF Release
  <2>2. Good(keyb')
    BY <1>1, <2>1, AddKeyGood
  <2>3. CASE key = KBD_pause
    <3>1. keyb'.repeat = keyb.repeat
      BY <1>1, <2>1, <2>3, AddKeyGood
    <3>2. keyb.repeat.key # KBD_pause
      BY <1>2 DEF Repeats, Repeating, KBD_NONE, KBD_pause
    <3> QED  BY <1>1, <1>3, <2>1, <2>2, <2>3, <3>1, <3>2
  <2>4. CASE key # KBD_pause
    <3>1. keyb'.repeat = Released(keyb.repeat)
      BY <1>1, <2>1, <2>4, AddKeyGood
    <3>2. keyb'.repeat.wait = 0
      BY <1>2, <3>1 DEF Released, Repeats
    <3>3. ~(keyb'.repeat.wait > 0)
      BY <3>2
    <3>4. held' \subseteq Keys /\ a20' \in BOOLEAN /\ handler' \in BOOLEAN
      BY <1>1, <2>1
    <3> QED  BY <1>3, <2>2, <3>3, <3>4
  <2> QED  BY <2>3, <2>4
<1>6. CASE Clear
  BY <1>1, <1>3, <1>6, ClrBufferGood DEF Clear
<1>7. CASE Tick
  <2>1. keyb.repeat.wait > 0 /\ keyb' = TickHandler(keyb) /\ UNCHANGED <<a20, handler, held>>
    BY <1>7 DEF Tick
  <2>2. keyb.repeat.key \in held /\ keyb.repeat.key \in Keys
    BY <1>1, <2>1
  <2>3. Good(keyb') /\ keyb'.repeat.key = keyb.repeat.key
    BY <1>1, <2>1, <2>2, TickGood
  <2> QED  BY <1>1, <1>3, <2>1, <2>2, <2>3
<1>8. CASE Transfer
  BY <1>1, <1>3, <1>8, TransferGood DEF Transfer
<1>9. CASE Interrupt
  <2>1. keyb' = [keyb EXCEPT !.irq = FALSE] /\ handler' = TRUE /\ UNCHANGED <<a20, held>>
    BY <1>9 DEF Interrupt
  <2>2. keyb \in Structures /\ Sound(keyb)
    BY <1>1 DEF Good
  <2>3. keyb' \in Structures
    BY <2>1, <2>2, FieldsTyped
  <2>4. Sound(keyb') /\ keyb'.repeat = keyb.repeat
    BY <2>1, <2>2 DEF Sound, Structures
  <2>5. Good(keyb')
    BY <2>3, <2>4 DEF Good
  <2> QED  BY <1>1, <1>3, <2>1, <2>4, <2>5
<1>10. CASE HandlerReads
  BY <1>1, <1>3, <1>10, ReadGood DEF HandlerReads
<1>11. CASE PollPort60
  BY <1>1, <1>3, <1>11, ReadGood DEF PollPort60
<1>12. ASSUME NEW val \in Written, WritePort60(val)
       PROVE  Inv'
  <2>1. keyb' = WriteP60(keyb, val) /\ UNCHANGED <<handler, held>>
    BY <1>12 DEF WritePort60
  <2>2. a20' \in BOOLEAN
    BY <1>1, <1>12 DEF WritePort60, Bit
  <2>3. /\ Good(keyb') /\ keyb'.repeat.key = keyb.repeat.key
        /\ keyb'.repeat.wait = keyb.repeat.wait
    BY <1>1, <2>1, WriteGood
  <2> QED  BY <1>1, <1>3, <2>1, <2>2, <2>3
<1>13. CASE WritePort64
  <2>1. UNCHANGED <<a20, handler, held>>
    BY <1>13 DEF WritePort64
  <2>2. Good(keyb') /\ keyb'.repeat = keyb.repeat
    <3>1. CASE keyb' = Activate(keyb)
      BY <1>1, <3>1, ActivateGood
    <3>2. CASE keyb' = SetPort60(keyb, Outport(a20))
      BY <1>1, <3>2, AnswerGood
    <3>3. CASE keyb' = [keyb EXCEPT !.command = CMD_SETOUTPORT]
      <4>1. CMD_SETOUTPORT \in Commands
        BY DEF Commands
      <4> QED  BY <1>1, <3>3, <4>1, AssignedGood
    <3> QED  BY <1>13, <3>1, <3>2, <3>3 DEF WritePort64
  <2> QED  BY <1>1, <1>3, <2>1, <2>2
<1>14. CASE UNCHANGED vars
  BY <1>1, <1>3, <1>14 DEF vars
<1> QED
  BY <1>4, <1>5, <1>6, <1>7, <1>8, <1>9, <1>10, <1>11, <1>12, <1>13, <1>14
     DEF Next, Typing, Programming

\* The ring's position and count stay within the ring, for a ring of any size.
THEOREM TypeCorrect == Spec => []TypeOK
<1>1. Inv => TypeOK
  BY DEF Inv
<1> QED  BY <1>1, InitInv, StepInv, PTL DEF Spec

\* One transfer event is in the timer's queue when `scheduled' is set, and none
\* when it is not, wherever the buffer is cleared (KEYBOARD_ClrBuffer).
THEOREM ScheduledTellsTheTruth == Spec => []ScheduledIsQueued
<1>1. Inv => ScheduledIsQueued
  BY DEF Inv, Sound, ScheduledIsQueued
<1> QED  BY <1>1, InitInv, StepInv, PTL DEF Spec

\* While sent wait, an event or a code in the port will bring the next one, for
\* rings of any size: AddBuffer, read_p60 and write_p64 schedule it in time.
THEOREM NeverDead == Spec => []NeverStuck
<1>1. Inv => NeverStuck
  BY DEF Inv, Sound, NeverStuck
<1> QED  BY <1>1, InitInv, StepInv, PTL DEF Spec

\* No transfer event is under way to replace a code that has not been read.
THEOREM UnreadCodesAreSafe == Spec => []UnreadIsSafe
<1>1. Inv => UnreadIsSafe
  BY DEF Inv, Sound, UnreadIsSafe
<1> QED  BY <1>1, InitInv, StepInv, PTL DEF Spec

\* KEYBOARD_TickHandler repeats keys that are down only, so it never calls
\* KEYBOARD_AddKey without a key.
THEOREM RepeatsAreHeld == Spec => []OnlyHeldKeysRepeat
<1>1. Inv => OnlyHeldKeysRepeat
  BY DEF Inv
<1> QED  BY <1>1, InitInv, StepInv, PTL DEF Spec

-----------------------------------------------------------------------------
(* Refinement: the ring as the sequence of its sent.                      *)

\* The sent in the ring of a structure, and a code put behind them.
RingOf(s) == [i \in 1..s.used |-> s.buffer[Wrap(s.pos + i - 1)]]

Put(r, d) == IF Len(r) < KEYBUFSIZE THEN Append(r, d) ELSE r

\* The ring holds as many sent as are used.
LEMMA RingTyped ==
  ASSUME NEW s \in Structures
  PROVE  RingOf(s) \in Seq(Codes) /\ Len(RingOf(s)) = s.used
<1>1. s.used \in Nat
  BY DEF Structures
<1>2. \A i \in 1..s.used : s.buffer[Wrap(s.pos + i - 1)] \in Codes
  <2> TAKE i \in 1..s.used
  <2>1. Wrap(s.pos + i - 1) \in 0..KEYBUFSIZE - 1
    BY DEF Structures, Wrap
  <2> QED  BY <2>1 DEF Structures
<1> QED  BY <1>1, <1>2 DEF RingOf

\* AddBuffer puts its code behind the others, if there is room.
LEMMA RingAfterAdd ==
  ASSUME NEW s, Good(s), NEW d \in Codes
  PROVE  /\ RingOf(AddBuffer(s, d)) = Put(RingOf(s), d)
         /\ AddBuffer(s, d).p60data = s.p60data
         /\ AddBuffer(s, d).p60changed = s.p60changed
<1> DEFINE start == Wrap(s.pos + s.used)
           t == [s EXCEPT !.buffer[start] = d, !.used = @ + 1]
           a == AddBuffer(s, d)
<1>1. s \in Structures /\ Len(RingOf(s)) = s.used
  BY RingTyped DEF Good
<1>2. CASE s.used >= KEYBUFSIZE
  BY <1>1, <1>2 DEF AddBuffer, Put, Structures
<1>3. CASE ~(s.used >= KEYBUFSIZE)
  <2>1. start \in 0..KEYBUFSIZE - 1 /\ s.used + 1 \in 0..KEYBUFSIZE
    BY <1>1, <1>3 DEF Structures, Wrap
  <2>2. t \in Structures
    BY <1>1, <2>1, ZenonT(40) DEF Structures
  <2>3. a = t \/ a = Schedule(t)
    BY <1>3 DEF AddBuffer
  <2>4. /\ a.buffer = [s.buffer EXCEPT ![start] = d] /\ a.used = s.used + 1 /\ a.pos = s.pos
        /\ a.p60data = s.p60data /\ a.p60changed = s.p60changed
    <3>1. /\ t.buffer = [s.buffer EXCEPT ![start] = d] /\ t.used = s.used + 1 /\ t.pos = s.pos
          /\ t.p60data = s.p60data /\ t.p60changed = s.p60changed
      BY <1>1 DEF Structures
    <3> HIDE DEF t
    <3> QED  BY <2>2, <2>3, <3>1, ZenonT(40) DEF Schedule, Structures
  <2> HIDE DEF a, t
  <2>5. \A i \in 1..s.used : a.buffer[Wrap(s.pos + i - 1)] = s.buffer[Wrap(s.pos + i - 1)]
    <3> TAKE i \in 1..s.used
    <3>1. Wrap(s.pos + i - 1) \in 0..KEYBUFSIZE - 1 /\ Wrap(s.pos + i - 1) # start
      BY <1>1, <1>3 DEF Structures, Wrap
    <3> HIDE DEF start
    <3> QED  BY <1>1, <2>4, <3>1 DEF Structures
  <2>6. a.buffer[Wrap(s.pos + (s.used + 1) - 1)] = d
    <3>1. s.pos + (s.used + 1) - 1 = s.pos + s.used
      BY <1>1 DEF Structures
    <3> QED  BY <1>1, <2>1, <2>4, <3>1 DEF Structures
  <2>7. RingOf(a) = Append(RingOf(s), d)
    <3>1. a \in Structures
      BY AddBufferGood DEF a, Good
    <3> DEFINE q == Append(RingOf(s), d)
               r == RingOf(a)
    <3>2. r \in Seq(Codes) /\ Len(r) = s.used + 1
      BY <2>4, <3>1, RingTyped
    <3>3. /\ q \in Seq(Codes) /\ Len(q) = s.used + 1
          /\ \A i \in 1..s.used + 1 : q[i] = IF i <= s.used THEN RingOf(s)[i] ELSE d
      BY <1>1, RingTyped DEF Structures
    <3>4. \A i \in 1..s.used + 1 : r[i] = a.buffer[Wrap(s.pos + i - 1)]
      BY <2>4 DEF RingOf
    <3>5. \A i \in 1..s.used : RingOf(s)[i] = s.buffer[Wrap(s.pos + i - 1)]
      BY DEF RingOf
    <3>6. \A i \in 1..s.used + 1 : r[i] = q[i]
      <4> TAKE i \in 1..s.used + 1
      <4>1. CASE i <= s.used
        BY <1>1, <2>5, <3>3, <3>4, <3>5, <4>1, SMTT(30) DEF Structures
      <4>2. CASE ~(i <= s.used)
        <5>1. i = s.used + 1
          BY <1>1, <4>2 DEF Structures
        <5> QED  BY <2>6, <3>3, <3>4, <4>2, <5>1
      <4> QED  BY <4>1, <4>2
    <3> HIDE DEF q, r
    <3>7. q = r
      BY <3>2, <3>3, <3>6
    <3> QED  BY <3>7 DEF q, r
  <2> QED  BY <1>1, <1>3, <2>4, <2>7 DEF Put, a, Structures
<1> QED  BY <1>2, <1>3

\* Codes put in one by one are the truncation of all of them.
LEMMA PutMore ==
  ASSUME NEW r \in Seq(Codes), NEW c \in Seq(Codes), NEW d \in Codes
  PROVE  Put(Stream!Truncated(r \o c), d) = Stream!Truncated(r \o Append(c, d))
<1> DEFINE rc == r \o c
<1>1. rc \in Seq(Codes) /\ r \o Append(c, d) = Append(rc, d)
  OBVIOUS
<1> HIDE DEF rc
<1>2. CASE Len(rc) < KEYBUFSIZE
  <2>1. SubSeq(rc, 1, Len(rc)) = rc /\ SubSeq(Append(rc, d), 1, Len(rc) + 1) = Append(rc, d)
    BY <1>1
  <2> QED  BY <1>1, <1>2, <2>1 DEF Put, Stream!Truncated, rc
<1>3. CASE ~(Len(rc) < KEYBUFSIZE)
  <2>1. /\ Len(SubSeq(rc, 1, KEYBUFSIZE)) = KEYBUFSIZE
        /\ SubSeq(Append(rc, d), 1, KEYBUFSIZE) = SubSeq(rc, 1, KEYBUFSIZE)
    BY <1>1, <1>3
  <2> QED  BY <1>1, <1>3, <2>1 DEF Put, Stream!Truncated, rc
<1> QED  BY <1>2, <1>3

\* Whatever leaves the ring, its position and its count alone leaves the stream.
LEMMA RingSame ==
  ASSUME NEW s, NEW t, t.buffer = s.buffer, t.pos = s.pos, t.used = s.used
  PROVE  RingOf(t) = RingOf(s)
BY DEF RingOf

\* The sequences that keys send are built code by code.
LEMMA AppendTuples ==
  ASSUME NEW c \in Codes, NEW d \in Codes, NEW e \in Codes
  PROVE  /\ <<c>> \in Seq(Codes) /\ Append(<<c>>, d) = <<c, d>>
         /\ <<c, d>> \in Seq(Codes) /\ Append(<<c, d>>, e) = <<c, d, e>>
<1>1. \A q, r \in Seq(Codes) :
        Len(q) = Len(r) /\ (\A i \in 1..Len(q) : q[i] = r[i]) => q = r
  OBVIOUS
<1>2. <<c>> \in Seq(Codes) /\ <<c, d>> \in Seq(Codes) /\ <<c, d, e>> \in Seq(Codes)
  OBVIOUS
<1>3. Append(<<c>>, d) = <<c, d>>
  <2> DEFINE q == Append(<<c>>, d)
  <2>1. q \in Seq(Codes) /\ Len(q) = 2 /\ q[1] = c /\ q[2] = d
    OBVIOUS
  <2>2. Len(<<c, d>>) = 2 /\ <<c, d>>[1] = c /\ <<c, d>>[2] = d
    OBVIOUS
  <2> HIDE DEF q
  <2>3. q = <<c, d>>
    BY <1>1, <1>2, <2>1, <2>2
  <2> QED  BY <2>3 DEF q
<1>4. Append(<<c, d>>, e) = <<c, d, e>>
  <2> DEFINE q == Append(<<c, d>>, e)
  <2>1. q \in Seq(Codes) /\ Len(q) = 3 /\ q[1] = c /\ q[2] = d /\ q[3] = e
    OBVIOUS
  <2>2. Len(<<c, d, e>>) = 3 /\ <<c, d, e>>[1] = c /\ <<c, d, e>>[2] = d /\ <<c, d, e>>[3] = e
    OBVIOUS
  <2> HIDE DEF q
  <2>3. q = <<c, d, e>>
    BY <1>1, <1>2, <2>1, <2>2
  <2> QED  BY <2>3 DEF q
<1> QED  BY <1>2, <1>3, <1>4

\* A key types its sent.
LEMMA RingAfterKey ==
  ASSUME NEW s, Good(s), NEW key \in Keys, NEW pressed \in BOOLEAN
  PROVE  LET a == AddKey(s, key, pressed)
         IN  /\ \E sent \in KeyStrokes : RingOf(a) = Stream!Truncated(RingOf(s) \o sent)
             /\ a.p60data = s.p60data /\ a.p60changed = s.p60changed
<1> DEFINE a == AddKey(s, key, pressed)
<1>1. s \in Structures /\ RingOf(s) \in Seq(Codes) /\ Len(RingOf(s)) <= KEYBUFSIZE
  BY RingTyped DEF Good, Structures
<1>2. RingOf(s) = Stream!Truncated(RingOf(s) \o <<>>)
  <2>1. RingOf(s) \o <<>> = RingOf(s) /\ SubSeq(RingOf(s), 1, Len(RingOf(s))) = RingOf(s)
    BY <1>1
  <2>2. Len(RingOf(s)) < KEYBUFSIZE \/ Len(RingOf(s)) = KEYBUFSIZE
    BY <1>1
  <2> QED  BY <2>1, <2>2 DEF Stream!Truncated
<1>3. ASSUME NEW c \in Codes
      PROVE  Put(RingOf(s), c) = Stream!Truncated(RingOf(s) \o <<c>>)
  <2>1. <<>> \in Seq(Codes) /\ Append(<<>>, c) = <<c>>
    OBVIOUS
  <2> QED  BY <1>1, <1>2, <2>1, PutMore, ZenonT(40)
<1>4. ASSUME NEW c \in Codes, NEW d \in Codes
      PROVE  Put(Put(RingOf(s), c), d) = Stream!Truncated(RingOf(s) \o <<c, d>>)
  <2>1. <<c>> \in Seq(Codes) /\ Append(<<c>>, d) = <<c, d>>
    BY AppendTuples
  <2>2. Put(Stream!Truncated(RingOf(s) \o <<c>>), d)
          = Stream!Truncated(RingOf(s) \o Append(<<c>>, d))
    BY <1>1, <2>1, PutMore
  <2> QED  BY <1>3, <2>1, <2>2
<1>5. ASSUME NEW c \in Codes, NEW d \in Codes, NEW e \in Codes
      PROVE  Put(Put(Put(RingOf(s), c), d), e) = Stream!Truncated(RingOf(s) \o <<c, d, e>>)
  <2>1. <<c, d>> \in Seq(Codes) /\ Append(<<c, d>>, e) = <<c, d, e>>
    BY AppendTuples
  <2>2. Put(Stream!Truncated(RingOf(s) \o <<c, d>>), e)
          = Stream!Truncated(RingOf(s) \o Append(<<c, d>>, e))
    BY <1>1, <2>1, PutMore
  <2> QED  BY <1>4, <2>1, <2>2
<1>6. CASE key = KBD_pause
  <2> DEFINE c1 == E1
             c2 == Code("29", pressed)
             c3 == Code("69", pressed)
             a1 == AddBuffer(s, c1)
             a2 == AddBuffer(a1, c2)
  <2>1. c1 \in Codes /\ c2 \in Codes /\ c3 \in Codes
    BY DEF Codes
  <2>2. PauseCodes(pressed) = <<c1, c2, c3>>
    BY DEF PauseCodes
  <2>3. a = AddBuffer(a2, c3)
    BY <1>6, <2>2 DEF AddKey
  <2>4. <<c1, c2, c3>> \in KeyStrokes
    BY <2>2 DEF KeyStrokes
  <2> HIDE DEF c1, c2, c3, a
  <2>5. Good(a1) /\ RingOf(a1) = Put(RingOf(s), c1)
        /\ a1.p60data = s.p60data /\ a1.p60changed = s.p60changed
    BY <2>1, AddBufferGood, RingAfterAdd
  <2> HIDE DEF a1
  <2>6. Good(a2) /\ RingOf(a2) = Put(RingOf(a1), c2)
        /\ a2.p60data = s.p60data /\ a2.p60changed = s.p60changed
    BY <2>1, <2>5, AddBufferGood, RingAfterAdd
  <2> HIDE DEF a2
  <2>7. RingOf(a) = Put(RingOf(a2), c3)
        /\ a.p60data = s.p60data /\ a.p60changed = s.p60changed
    BY <2>1, <2>3, <2>6, RingAfterAdd
  <2>8. RingOf(a) = Stream!Truncated(RingOf(s) \o <<c1, c2, c3>>)
    BY <1>5, <2>1, <2>5, <2>6, <2>7
  <2> QED  BY <2>4, <2>7, <2>8 DEF a
<1>7. CASE key # KBD_pause
  <2> DEFINE r == IF pressed THEN Pressed(s.repeat, key) ELSE Released(s.repeat)
             t == [s EXCEPT !.repeat = r]
             c == Code(key, pressed)
  <2>1. key \in Repeating /\ c \in Codes /\ E0 \in Codes
    BY <1>7 DEF Keys, Codes
  <2>2. Good(t) /\ RingOf(t) = RingOf(s) /\ t.p60data = s.p60data /\ t.p60changed = s.p60changed
    <3>1. r \in Repeats
      BY <1>1, <2>1, RepeatsTyped DEF Structures, Repeats
    <3> HIDE DEF r
    <3>2. Good(t)
      BY <3>1, AssignedGood
    <3>3. t.buffer = s.buffer /\ t.pos = s.pos /\ t.used = s.used
          /\ t.p60data = s.p60data /\ t.p60changed = s.p60changed
      BY <1>1 DEF Structures
    <3> QED  BY <3>2, <3>3, RingSame
  <2>3. a = AddBuffer(IF key \in Extended THEN AddBuffer(t, E0) ELSE t, c)
    BY <1>7 DEF AddKey
  <2> HIDE DEF t, a
  <2>4. CASE key \in Extended
    <3> DEFINE b == AddBuffer(t, E0)
    <3>1. Good(b) /\ RingOf(b) = Put(RingOf(s), E0)
          /\ b.p60data = s.p60data /\ b.p60changed = s.p60changed
      BY <2>1, <2>2, AddBufferGood, RingAfterAdd
    <3>2. a = AddBuffer(b, c)
      BY <2>3, <2>4
    <3> HIDE DEF b, c
    <3>3. RingOf(a) = Put(RingOf(b), c) /\ a.p60data = s.p60data /\ a.p60changed = s.p60changed
      BY <2>1, <3>1, <3>2, RingAfterAdd
    <3>4. RingOf(a) = Stream!Truncated(RingOf(s) \o <<E0, c>>)
      BY <1>4, <2>1, <3>1, <3>3
    <3>5. <<E0, c>> \in KeyStrokes
      BY <2>4 DEF KeyStrokes, c
    <3> QED  BY <3>3, <3>4, <3>5 DEF a
  <2>5. CASE key \notin Extended
    <3>1. a = AddBuffer(t, c)
      BY <2>3, <2>5
    <3>2. <<c>> \in KeyStrokes
      BY <2>1, <2>5 DEF KeyStrokes, Repeating
    <3> HIDE DEF c
    <3>3. RingOf(a) = Put(RingOf(s), c) /\ a.p60data = s.p60data /\ a.p60changed = s.p60changed
      BY <2>1, <2>2, <3>1, RingAfterAdd
    <3>4. RingOf(a) = Stream!Truncated(RingOf(s) \o <<c>>)
      BY <1>3, <2>1, <3>3
    <3> QED  BY <3>2, <3>3, <3>4 DEF a
  <2> QED  BY <2>4, <2>5
<1> QED  BY <1>6, <1>7

\* Clearing the buffer, with an acknowledgement or without.
LEMMA RingAfterClear ==
  ASSUME NEW s, Good(s)
  PROVE  /\ RingOf(ClrBuffer(s)) = <<>> /\ RingOf(Acknowledged(s)) = <<Ack>>
         /\ \A t \in {ClrBuffer(s), Acknowledged(s)} :
              t.p60data = s.p60data /\ t.p60changed = s.p60changed
<1> DEFINE t == ClrBuffer(s)
<1>1. Good(t) /\ t.used = 0 /\ t.p60data = s.p60data /\ t.p60changed = s.p60changed
  BY ClrBufferGood, ZenonT(40) DEF ClrBuffer, Good, Structures
<1>2. RingOf(t) = <<>>
  BY <1>1, RingTyped DEF Good
<1>3. Ack \in Codes
  BY DEF Codes
<1> HIDE DEF t
<1>4. RingOf(AddBuffer(t, Ack)) = Put(<<>>, Ack)
      /\ AddBuffer(t, Ack).p60data = s.p60data /\ AddBuffer(t, Ack).p60changed = s.p60changed
  BY <1>1, <1>2, <1>3, RingAfterAdd
<1>5. Put(<<>>, Ack) = <<Ack>>
  BY DEF Put
<1> QED  BY <1>1, <1>2, <1>4, <1>5 DEF Acknowledged, t

\* The event takes the first code of the ring to the port.
LEMMA RingAfterTransfer ==
  ASSUME NEW s, Good(s), s.transfers > 0
  PROVE  LET t == TransferBuffer(s)
         IN  \/ RingOf(t) = RingOf(s) /\ t.p60data = s.p60data /\ t.p60changed = s.p60changed
             \/ /\ RingOf(s) # <<>>
                /\ RingOf(t) = Tail(RingOf(s))
                /\ t.p60data = Head(RingOf(s)) /\ t.p60changed = TRUE
<1> DEFINE u == [s EXCEPT !.transfers = @ - 1, !.scheduled = FALSE]
           t == TransferBuffer(s)
           r == RingOf(s)
<1>1. s \in Structures /\ t \in Structures
  BY TransferGood DEF Good
<1>2. u.used = s.used /\ u.pos = s.pos /\ u.buffer = s.buffer
      /\ u.p60data = s.p60data /\ u.p60changed = s.p60changed
  BY <1>1 DEF Structures
<1>3. CASE s.used = 0
  <2>1. t = u
    BY <1>2, <1>3 DEF TransferBuffer
  <2> QED  BY <1>2, <2>1, RingSame, ZenonT(40)
<1>4. CASE s.used # 0
  <2>1. t = [SetPort60(u, u.buffer[u.pos]) EXCEPT !.pos = Wrap(@ + 1), !.used = @ - 1]
    BY <1>2, <1>4 DEF TransferBuffer
  <2>2. /\ t.buffer = s.buffer /\ t.pos = Wrap(s.pos + 1) /\ t.used = s.used - 1
        /\ t.p60data = s.buffer[s.pos] /\ t.p60changed = TRUE
    BY <1>1, <1>2, <2>1 DEF SetPort60, Structures
  <2>3. r \in Seq(Codes) /\ Len(r) = s.used
        /\ RingOf(t) \in Seq(Codes) /\ Len(RingOf(t)) = s.used - 1
    BY <1>1, <2>2, RingTyped
  <2>4. \A i \in 1..s.used : r[i] = s.buffer[Wrap(s.pos + i - 1)]
    BY DEF RingOf
  <2>5. \A i \in 1..s.used - 1 : RingOf(t)[i] = s.buffer[Wrap(Wrap(s.pos + 1) + i - 1)]
    BY <2>2 DEF RingOf
  <2>6. \A i \in 1..s.used - 1 : Wrap(Wrap(s.pos + 1) + i - 1) = Wrap(s.pos + (i + 1) - 1)
    <3>1. s.pos \in 0..KEYBUFSIZE - 1 /\ s.used \in 0..KEYBUFSIZE
      BY <1>1 DEF Structures
    <3> DEFINE n == s.used
               p == s.pos
    <3> HIDE DEF n, p
    <3>2. ASSUME NEW i \in 1..n - 1
          PROVE  Wrap(Wrap(p + 1) + i - 1) = Wrap(p + (i + 1) - 1)
      <4>1. p \in 0..KEYBUFSIZE - 1 /\ n \in 0..KEYBUFSIZE
        BY <3>1 DEF n, p
      <4>2. p + 1 + i - 1 = p + (i + 1) - 1 /\ i < KEYBUFSIZE /\ i \in Nat
        BY <4>1
      <4>3. CASE p + 1 >= KEYBUFSIZE
        <5>1. p + 1 = KEYBUFSIZE /\ Wrap(p + 1) = 0
          BY <4>1, <4>3 DEF Wrap
        <5> QED  BY <4>1, <4>2, <5>1 DEF Wrap
      <4>4. CASE ~(p + 1 >= KEYBUFSIZE)
        BY <4>1, <4>2, <4>4 DEF Wrap
      <4> QED  BY <4>3, <4>4
    <3> QED  BY <3>2 DEF n, p
  <2>7. s.used \in Nat \ {0} /\ Wrap(s.pos + 1 - 1) = s.pos
    BY <1>1, <1>4 DEF Structures, Wrap
  <2> HIDE DEF r, t
  <2>8. r # <<>> /\ Head(r) = s.buffer[s.pos]
    BY <2>3, <2>4, <2>7, SMTT(30)
  <2>9. RingOf(t) = Tail(r)
    <3>1. /\ Tail(r) \in Seq(Codes) /\ Len(Tail(r)) = s.used - 1
          /\ \A i \in 1..s.used - 1 : Tail(r)[i] = r[i + 1]
      BY <2>3, <2>7
    <3>2. \A i \in 1..s.used - 1 : RingOf(t)[i] = Tail(r)[i]
      <4> TAKE i \in 1..s.used - 1
      <4>1. i + 1 \in 1..s.used
        BY <2>7
      <4> QED  BY <2>4, <2>5, <2>6, <3>1, <4>1
    <3> QED  BY <2>3, <3>1, <3>2
  <2> QED  BY <2>2, <2>8, <2>9 DEF r, t
<1> QED  BY <1>3, <1>4


\* A new command, or a new repeat, leaves the stream.
LEMMA RingAfterAssignment ==
  ASSUME NEW s, Good(s)
  PROVE  /\ \A c : LET t == [s EXCEPT !.command = c]
                  IN  RingOf(t) = RingOf(s) /\ t.p60data = s.p60data
                        /\ t.p60changed = s.p60changed
         /\ \A r : LET t == [s EXCEPT !.repeat = r]
                  IN  RingOf(t) = RingOf(s) /\ t.p60data = s.p60data
                        /\ t.p60changed = s.p60changed
<1>1. s \in Structures
  BY DEF Good
<1>2. ASSUME NEW c
      PROVE  LET t == [s EXCEPT !.command = c]
             IN  t.buffer = s.buffer /\ t.pos = s.pos /\ t.used = s.used
                   /\ t.p60data = s.p60data /\ t.p60changed = s.p60changed
  BY <1>1 DEF Structures
<1>3. ASSUME NEW r
      PROVE  LET t == [s EXCEPT !.repeat = r]
             IN  t.buffer = s.buffer /\ t.pos = s.pos /\ t.used = s.used
                   /\ t.p60data = s.p60data /\ t.p60changed = s.p60changed
  BY <1>1 DEF Structures
<1> QED  BY <1>2, <1>3, RingSame, ZenonT(40)

\* A byte written to port 60h is taken in silence, or the buffer is cleared and
\* the byte acknowledged.
LEMMA RingAfterWrite ==
  ASSUME NEW s, Good(s), NEW val
  PROVE  LET w == WriteP60(s, val)
         IN  /\ RingOf(w) = RingOf(s) \/ RingOf(w) = <<Ack>>
             /\ w.p60data = s.p60data /\ w.p60changed = s.p60changed
<1> DEFINE w == WriteP60(s, val)
           Quiet(t) == t.p60data = s.p60data /\ t.p60changed = s.p60changed
<1>1. s \in Structures
  BY DEF Good
<1>2. CMD_NONE \in Commands
  BY DEF Commands
<1>3. CASE s.command = CMD_NONE
  <2> DEFINE c == CASE val = 237 -> CMD_SETLEDS
                    [] val = 243 -> CMD_SETTYPERATE
                    [] OTHER -> CMD_NONE
             t == Acknowledged(s)
  <2>1. w = [t EXCEPT !.command = c]
    BY <1>3 DEF WriteP60, CMD_NONE, CMD_SETLEDS, CMD_SETTYPERATE, CMD_SETOUTPORT
  <2>2. Good(t) /\ RingOf(t) = <<Ack>> /\ Quiet(t)
    BY AcknowledgedGood, RingAfterClear
  <2> HIDE DEF c, t, w
  <2> QED  BY <2>1, <2>2, RingAfterAssignment DEF w
<1>4. CASE s.command = CMD_SETOUTPORT
  <2>1. w = [s EXCEPT !.command = CMD_NONE]
    BY <1>4 DEF WriteP60, CMD_NONE, CMD_SETLEDS, CMD_SETTYPERATE, CMD_SETOUTPORT
  <2> HIDE DEF w
  <2> QED  BY <2>1, RingAfterAssignment DEF w
<1>5. CASE s.command = CMD_SETTYPERATE
  <2> DEFINE pause == IF Bit(val, 64) THEN 2 ELSE 1
             r == [s.repeat EXCEPT !.pause = pause, !.rate = 1]
             t == [s EXCEPT !.repeat = r]
             u == [t EXCEPT !.command = CMD_NONE]
  <2>1. r \in Repeats
    <3>1. s.repeat \in Repeats /\ pause \in 1..2
      BY <1>1 DEF Structures, Repeats
    <3> HIDE DEF pause
    <3> QED  BY <3>1 DEF Repeats
  <2>2. w = Acknowledged(u)
    <3>1. w = Acknowledged([WithRate(s, val) EXCEPT !.command = CMD_NONE])
      BY <1>5 DEF WriteP60, CMD_NONE, CMD_SETLEDS, CMD_SETTYPERATE, CMD_SETOUTPORT
    <3>2. WithRate(s, val) = t
      BY <1>1 DEF WithRate, Structures
    <3> QED  BY <3>1, <3>2
  <2> HIDE DEF r, w
  <2>3. Good(t) /\ Quiet(t)
    BY <2>1, AssignedGood, RingAfterAssignment
  <2> HIDE DEF t
  <2>4. Good(u) /\ Quiet(u)
    BY <1>2, <2>3, AssignedGood, RingAfterAssignment
  <2> HIDE DEF u
  <2> QED  BY <2>2, <2>4, RingAfterClear DEF w
<1>6. CASE s.command = CMD_SETLEDS
  <2> DEFINE u == [s EXCEPT !.command = CMD_NONE]
  <2>1. w = Acknowledged(u)
    BY <1>6 DEF WriteP60, CMD_NONE, CMD_SETLEDS, CMD_SETTYPERATE, CMD_SETOUTPORT
  <2>2. Good(u) /\ Quiet(u)
    BY <1>2, AssignedGood, RingAfterAssignment
  <2> HIDE DEF u, w
  <2> QED  BY <2>1, <2>2, RingAfterClear DEF w
<1> QED  BY <1>1, <1>3, <1>4, <1>5, <1>6 DEF Structures, Commands

\* Every step is a step of the stream, or leaves it alone.
LEMMA StreamStep == Inv /\ [Next]_vars => [Stream!StreamNext]_(Stream!streamVars)
<1> SUFFICES ASSUME Inv, [Next]_vars
             PROVE  Stream!StreamNext \/ UNCHANGED Stream!streamVars
  OBVIOUS
<1>1. Good(keyb) /\ keyb \in Structures /\ a20 \in BOOLEAN
  BY DEF Inv, TypeOK, Good
<1>2. Ring = RingOf(keyb) /\ Ring' = RingOf(keyb')
  BY DEF Ring, RingOf
<1>3. ASSUME RingOf(keyb') = RingOf(keyb), keyb'.p60data = keyb.p60data,
             keyb'.p60changed = keyb.p60changed
      PROVE  UNCHANGED Stream!streamVars
  BY <1>2, <1>3 DEF Stream!streamVars
<1>4. ASSUME NEW key \in Keys, NEW pressed \in BOOLEAN, keyb' = AddKey(keyb, key, pressed)
      PROVE  Stream!StreamNext
  <2>1. PICK sent \in KeyStrokes : RingOf(keyb') = Stream!Truncated(RingOf(keyb) \o sent)
    BY <1>1, <1>4, RingAfterKey
  <2>2. keyb'.p60data = keyb.p60data /\ keyb'.p60changed = keyb.p60changed
    BY <1>1, <1>4, RingAfterKey
  <2>3. Stream!Type(sent)
    BY <1>2, <2>1, <2>2 DEF Stream!Type
  <2> QED  BY <2>3 DEF Stream!StreamNext, KeyStrokes
<1>5. ASSUME RingOf(keyb') \in {<<>>, <<Ack>>}, keyb'.p60data = keyb.p60data,
             keyb'.p60changed = keyb.p60changed
      PROVE  Stream!StreamNext
  BY <1>2, <1>5 DEF Stream!StreamNext, Stream!Forget
<1>6. ASSUME NEW key \in Keys, Press(key) \/ Release(key)
      PROVE  Stream!StreamNext
  BY <1>4, <1>6 DEF Press, Release
<1>7. CASE Clear
  BY <1>1, <1>5, <1>7, RingAfterClear DEF Clear
<1>8. CASE Tick
  <2> DEFINE r == [keyb.repeat EXCEPT !.wait = keyb.repeat.wait - 1]
             t == [keyb EXCEPT !.repeat = r]
  <2>1. keyb.repeat.wait > 0 /\ keyb' = TickHandler(keyb)
    BY <1>8 DEF Tick
  <2>2. keyb.repeat \in Repeats /\ keyb.repeat.key \in Keys
    BY <1>1, <2>1 DEF Inv, TypeOK, OnlyHeldKeysRepeat, Structures, Repeats
  <2>3. keyb' = IF t.repeat.wait = 0 THEN AddKey(t, t.repeat.key, TRUE) ELSE t
    BY <1>1, <2>1 DEF TickHandler, Structures
  <2>4. r \in Repeats /\ r.key = keyb.repeat.key
    BY <2>1, <2>2 DEF Repeats
  <2>5. Good(t) /\ t.repeat = r
    <3> HIDE DEF r
    <3> QED  BY <1>1, <2>4, AssignedGood
  <2>6. RingOf(t) = RingOf(keyb) /\ t.p60data = keyb.p60data /\ t.p60changed = keyb.p60changed
    <3>1. t.buffer = keyb.buffer /\ t.pos = keyb.pos /\ t.used = keyb.used
          /\ t.p60data = keyb.p60data /\ t.p60changed = keyb.p60changed
      BY <1>1 DEF Structures
    <3> HIDE DEF t
    <3> QED  BY <3>1, RingSame
  <2> HIDE DEF r, t
  <2>7. CASE t.repeat.wait = 0
    <3>1. keyb' = AddKey(t, r.key, TRUE)
      BY <2>3, <2>5, <2>7
    <3>2. PICK sent \in KeyStrokes : RingOf(keyb') = Stream!Truncated(RingOf(t) \o sent)
      BY <2>2, <2>4, <2>5, <3>1, RingAfterKey
    <3>3. keyb'.p60data = keyb.p60data /\ keyb'.p60changed = keyb.p60changed
      BY <2>2, <2>4, <2>5, <2>6, <3>1, RingAfterKey, ZenonT(40)
    <3>4. Stream!Type(sent)
      BY <1>2, <2>6, <3>2, <3>3 DEF Stream!Type
    <3> QED  BY <3>4 DEF Stream!StreamNext, KeyStrokes
  <2>8. CASE t.repeat.wait # 0
    BY <1>3, <2>3, <2>6, <2>8
  <2> QED  BY <2>7, <2>8
<1>9. CASE Transfer
  <2>1. keyb.transfers > 0 /\ keyb' = TransferBuffer(keyb)
    BY <1>9 DEF Transfer
  <2>2. CASE RingOf(keyb') = RingOf(keyb) /\ keyb'.p60data = keyb.p60data
             /\ keyb'.p60changed = keyb.p60changed
    BY <1>3, <2>2
  <2>3. CASE /\ RingOf(keyb) # <<>> /\ RingOf(keyb') = Tail(RingOf(keyb))
             /\ keyb'.p60data = Head(RingOf(keyb)) /\ keyb'.p60changed = TRUE
    <3>1. keyb.p60changed => keyb.p60data \in {Outport(e) : e \in BOOLEAN}
      <4>1. keyb.scheduled
        BY <1>1, <2>1 DEF Inv, Sound, Structures
      <4> QED  BY <4>1 DEF Inv, Sound
    <3>2. Stream!Show
      BY <1>2, <2>3, <3>1 DEF Stream!Show
    <3> QED  BY <3>2 DEF Stream!StreamNext
  <2> QED  BY <1>1, <2>1, <2>2, <2>3, RingAfterTransfer
<1>10. CASE Interrupt
  <2>1. keyb' = [keyb EXCEPT !.irq = FALSE]
    BY <1>10 DEF Interrupt
  <2>2. keyb'.buffer = keyb.buffer /\ keyb'.pos = keyb.pos /\ keyb'.used = keyb.used
        /\ keyb'.p60data = keyb.p60data /\ keyb'.p60changed = keyb.p60changed
    BY <1>1, <2>1 DEF Structures
  <2> QED  BY <1>3, <2>2, RingSame
<1>11. CASE HandlerReads \/ PollPort60
  <2>1. keyb' = ReadP60(keyb)
    BY <1>11 DEF HandlerReads, PollPort60
  <2>2. keyb'.buffer = keyb.buffer /\ keyb'.pos = keyb.pos /\ keyb'.used = keyb.used
        /\ keyb'.p60data = keyb.p60data /\ keyb'.p60changed = FALSE
    BY <1>1, <2>1 DEF ReadP60, Schedule, Structures
  <2>3. RingOf(keyb') = RingOf(keyb)
    BY <2>2, RingSame
  <2>4. Stream!Read
    BY <1>2, <2>2, <2>3 DEF Stream!Read
  <2> QED  BY <2>4 DEF Stream!StreamNext
<1>12. ASSUME NEW val \in Written, WritePort60(val)
       PROVE  Stream!StreamNext \/ UNCHANGED Stream!streamVars
  <2>1. keyb' = WriteP60(keyb, val)
    BY <1>12 DEF WritePort60
  <2>2. /\ RingOf(keyb') = RingOf(keyb) \/ RingOf(keyb') = <<Ack>>
        /\ keyb'.p60data = keyb.p60data /\ keyb'.p60changed = keyb.p60changed
    BY <1>1, <2>1, RingAfterWrite
  <2> QED  BY <1>3, <1>5, <2>2
<1>13. CASE WritePort64
  <2>1. CASE keyb' = Activate(keyb)
    <3>1. keyb' = keyb
      BY <1>1, <2>1 DEF Activate, Inv, Sound
    <3> QED  BY <1>3, <3>1
  <2>2. CASE keyb' = SetPort60(keyb, Outport(a20))
    <3>1. keyb'.buffer = keyb.buffer /\ keyb'.pos = keyb.pos /\ keyb'.used = keyb.used
          /\ keyb'.p60data = Outport(a20) /\ keyb'.p60changed = TRUE
      BY <1>1, <2>2 DEF SetPort60, Structures
    <3>2. RingOf(keyb') = RingOf(keyb)
      BY <3>1, RingSame
    <3>3. Stream!Answer(Outport(a20))
      BY <1>2, <3>1, <3>2 DEF Stream!Answer
    <3> QED  BY <1>1, <3>3 DEF Stream!StreamNext
  <2>3. CASE keyb' = [keyb EXCEPT !.command = CMD_SETOUTPORT]
    <3>1. keyb'.buffer = keyb.buffer /\ keyb'.pos = keyb.pos /\ keyb'.used = keyb.used
          /\ keyb'.p60data = keyb.p60data /\ keyb'.p60changed = keyb.p60changed
      BY <1>1, <2>3 DEF Structures
    <3> QED  BY <1>3, <3>1, RingSame
  <2> QED  BY <1>13, <2>1, <2>2, <2>3 DEF WritePort64
<1>14. CASE UNCHANGED vars
  BY <1>3, <1>14 DEF vars
<1> QED
  BY <1>6, <1>7, <1>8, <1>9, <1>10, <1>11, <1>12, <1>13, <1>14
     DEF Next, Typing, Programming

\* The ring, its flags and the event implement the stream of KeyStream, for rings
\* of any size: order is kept, nothing comes twice, nothing is lost but by a full
\* or cleared buffer, and an unread code stays in the port.
THEOREM Implements == Spec => ImplementsStream
<1>1. Init => Stream!StreamInit(Zero)
  <2> SUFFICES ASSUME Init PROVE Stream!StreamInit(Zero)
    OBVIOUS
  <2>1. keyb.used = 0 /\ keyb.p60data = Zero /\ keyb.p60changed = FALSE
    BY DEF Init
  <2>2. keyb \in Structures
    BY InitInv DEF Inv, TypeOK
  <2>3. RingOf(keyb) = <<>>
    BY <2>1, <2>2, RingTyped
  <2> QED  BY <2>1, <2>3 DEF Stream!StreamInit, Ring, RingOf
<1> QED  BY <1>1, InitInv, StepInv, StreamStep, PTL DEF Spec, ImplementsStream

-----------------------------------------------------------------------------
(* KeyboardBios keeps FlagsFollowKeys and KeysInOrder for every set of     *)
(* keys, every size of the ring and every depth of pauses.                 *)
(*                                                                         *)
(* The flag bytes tell the keys when no code waits. While codes wait they  *)
(* tell the keys from before the last one went down or up, and the         *)
(* prefixes among the flags tell which of its codes are left: InFlight.    *)

HIDE KeyboardAssumption

Sent(key, pressed) == [code |-> key, down |-> pressed]

HeldAfter(D, key, pressed) == IF pressed THEN D \cup {key} ELSE D \ {key}

LocksAfter(T, key, pressed) ==
  IF pressed \/ key \notin Locks THEN T ELSE SymDiff(T, {key})

\* The flag bytes tell the keys of D and the locks of T.
Tell(D, T) ==
  /\ "lshift" \in flags1 <=> "lshift" \in D
  /\ "rshift" \in flags1 <=> "rshift" \in D
  /\ "lctrl" \in flags2 <=> "lctrl" \in D
  /\ "lalt" \in flags2 <=> "lalt" \in D
  /\ "rctrl" \in flags3 <=> "rctrl" \in D
  /\ "ralt" \in flags3 <=> "ralt" \in D
  /\ "ctrl" \in flags1 <=> "lctrl" \in D \/ "rctrl" \in D
  /\ "alt" \in flags1 <=> "lalt" \in D \/ "ralt" \in D
  /\ \A lock \in Locks : (lock \in flags2 <=> lock \in D) /\ (lock \in flags1 <=> lock \in T)

Settled ==
  /\ codes = <<>> /\ Tell(down, toggled)
  /\ "e0" \notin flags3 /\ "e1" \notin flags3

\* key went down or up, and not all of its codes have been handled.
InFlight(key, pressed, D, T) ==
  /\ down = HeldAfter(D, key, pressed) /\ toggled = LocksAfter(T, key, pressed)
  /\ Tell(D, T)
  /\ \/ /\ codes = CodesOf(key, pressed)
        /\ "e0" \notin flags3 /\ "e1" \notin flags3
     \/ /\ key \in DOMAIN Prefixed /\ codes = <<Sent(Prefixed[key], pressed)>>
        /\ "e0" \in flags3 /\ "e1" \notin flags3
     \/ /\ key = "pause" /\ codes = <<Sent("lctrl", pressed), Sent("num", pressed)>>
        /\ "e0" \notin flags3 /\ "e1" \in flags3
     \/ /\ key = "pause" /\ codes = <<Sent("num", pressed)>>
        /\ "e0" \notin flags3 /\ "e1" \in flags3

IInv ==
  /\ BiosTypeOK
  /\ \/ Settled
     \/ \E key \in KeyNames, pressed \in BOOLEAN :
          \E D \in SUBSET UserKeys, T \in SUBSET Locks : InFlight(key, pressed, D, T)

-----------------------------------------------------------------------------
(* The codes of a key, one at a time.                                      *)

LEMMA CodesAre ==
  ASSUME NEW key, NEW pressed \in BOOLEAN
  PROVE  CodesOf(key, pressed) =
           IF key \in DOMAIN Prefixed THEN <<ScanE0, Sent(Prefixed[key], pressed)>>
           ELSE IF key = "pause" THEN <<ScanE1, Sent("lctrl", pressed), Sent("num", pressed)>>
           ELSE <<Sent(key, pressed)>>
BY DEF CodesOf, Make, Break, Sent

\* Three codes are the most that a key sends.
LEMMA TailOfThree ==
  ASSUME NEW a, NEW b, NEW c
  PROVE  Tail(<<a, b, c>>) = <<b, c>>
OBVIOUS

\* Which code of which key comes next, and the prefix that is set then.
LEMMA NextCode ==
  ASSUME NEW key \in KeyNames, NEW pressed \in BOOLEAN, NEW D, NEW T,
         InFlight(key, pressed, D, T)
  PROVE  \/ /\ key \notin DOMAIN Prefixed /\ key # "pause"
            /\ Head(codes) = Sent(key, pressed) /\ Tail(codes) = <<>>
            /\ "e0" \notin flags3 /\ "e1" \notin flags3
         \/ /\ key \in DOMAIN Prefixed
            /\ Head(codes) = ScanE0 /\ Tail(codes) = <<Sent(Prefixed[key], pressed)>>
            /\ "e0" \notin flags3 /\ "e1" \notin flags3
         \/ /\ key \in DOMAIN Prefixed
            /\ Head(codes) = Sent(Prefixed[key], pressed) /\ Tail(codes) = <<>>
            /\ "e0" \in flags3 /\ "e1" \notin flags3
         \/ /\ key = "pause"
            /\ Head(codes) = ScanE1
            /\ Tail(codes) = <<Sent("lctrl", pressed), Sent("num", pressed)>>
            /\ "e0" \notin flags3 /\ "e1" \notin flags3
         \/ /\ key = "pause"
            /\ Head(codes) = Sent("lctrl", pressed)
            /\ Tail(codes) = <<Sent("num", pressed)>>
            /\ "e0" \notin flags3 /\ "e1" \in flags3
         \/ /\ key = "pause"
            /\ Head(codes) = Sent("num", pressed) /\ Tail(codes) = <<>>
            /\ "e0" \notin flags3 /\ "e1" \in flags3
<1>1. CASE codes = CodesOf(key, pressed) /\ "e0" \notin flags3 /\ "e1" \notin flags3
  <2>1. codes = IF key \in DOMAIN Prefixed THEN <<ScanE0, Sent(Prefixed[key], pressed)>>
           ELSE IF key = "pause" THEN <<ScanE1, Sent("lctrl", pressed), Sent("num", pressed)>>
           ELSE <<Sent(key, pressed)>>
    BY <1>1, CodesAre
  <2>2. CASE key \in DOMAIN Prefixed
    <3>1. codes = <<ScanE0, Sent(Prefixed[key], pressed)>>
      BY <2>1, <2>2
    <3> QED
      BY <1>1, <2>2, <3>1
  <2>3. CASE key = "pause"
    <3>1. key \notin DOMAIN Prefixed
      BY <2>3 DEF Prefixed
    <3>2. codes = <<ScanE1, Sent("lctrl", pressed), Sent("num", pressed)>>
      BY <2>1, <2>3, <3>1
    <3>3. Head(codes) = ScanE1
      BY <3>2
    <3>4. Tail(codes) = <<Sent("lctrl", pressed), Sent("num", pressed)>>
      BY <3>2, TailOfThree
    <3> QED
      BY <1>1, <2>3, <3>3, <3>4
  <2>4. CASE key \notin DOMAIN Prefixed /\ key # "pause"
    <3>1. codes = <<Sent(key, pressed)>>
      BY <2>1, <2>4
    <3> QED
      BY <1>1, <2>4, <3>1
  <2> QED
    BY <2>2, <2>3, <2>4
<1>2. CASE /\ key \in DOMAIN Prefixed /\ codes = <<Sent(Prefixed[key], pressed)>>
           /\ "e0" \in flags3 /\ "e1" \notin flags3
  BY <1>2
<1>3. CASE /\ key = "pause" /\ codes = <<Sent("lctrl", pressed), Sent("num", pressed)>>
           /\ "e0" \notin flags3 /\ "e1" \in flags3
  BY <1>3
<1>4. CASE /\ key = "pause" /\ codes = <<Sent("num", pressed)>>
           /\ "e0" \notin flags3 /\ "e1" \in flags3
  BY <1>4
<1> QED
  BY <1>1, <1>2, <1>3, <1>4 DEF InFlight

-----------------------------------------------------------------------------
(* The handler, one lemma for each of its cases: the next code of a key is *)
(* handled, and the key stays in flight or the flag bytes tell all keys.   *)

FlagTypes ==
  /\ flags1 \subseteq {"lshift", "rshift", "ctrl", "alt"} \cup Locks
  /\ flags2 \subseteq {"lctrl", "lalt", "pause"} \cup Locks
  /\ flags3 \subseteq {"rctrl", "ralt", "e0", "e1"}
  /\ token \in BOOLEAN
  /\ depth \in Nat
  /\ down \subseteq UserKeys /\ toggled \subseteq Locks

Goes(key, pressed, D, T) == InFlight(key, pressed, D, T) \/ Settled

LEMMA PrefixGoes ==
  ASSUME NEW key \in KeyNames, NEW pressed \in BOOLEAN, NEW D, NEW T,
         FlagTypes, InFlight(key, pressed, D, T), Prefix
  PROVE  Goes(key, pressed, D, T)' /\ FlagTypes'
<1>1. FlagTypes'
  BY DEF FlagTypes, Prefix, Handles, Scan, ScanE0, user
<1>2. Tell(D, T)' /\ down' = down /\ toggled' = toggled
  BY DEF Prefix, Handles, Scan, InFlight, Tell, Locks, ScanE0
<1>3. /\ codes' = Tail(codes)
      /\ flags3' = (IF Head(codes) = ScanE0 THEN flags3 ELSE flags3 \ {"e0"})
                      \cup {Head(codes).code}
      /\ Head(codes).code \in {"e0", "e1"}
  BY DEF Prefix, Handles, Scan
<1>4. down' = HeldAfter(D, key, pressed) /\ toggled' = LocksAfter(T, key, pressed)
  BY <1>2 DEF InFlight
<1>5. CASE key \in DOMAIN Prefixed
  <2>1. codes' = <<Sent(Prefixed[key], pressed)>> /\ Head(codes) = ScanE0
    BY <1>3, <1>5, NextCode DEF Sent, ScanE0, ScanE1, Prefixed
  <2>2. "e0" \in flags3' /\ "e1" \notin flags3'
    BY <1>3, <1>5, <2>1, NextCode DEF Sent, ScanE0, ScanE1, Prefixed
  <2> QED
    BY <1>1, <1>2, <1>4, <1>5, <2>1, <2>2 DEF InFlight, Goes
<1>6. CASE key = "pause"
  <2>1. codes' = <<Sent("lctrl", pressed), Sent("num", pressed)>> /\ Head(codes) = ScanE1
    BY <1>3, <1>6, NextCode DEF Sent, ScanE0, ScanE1, Prefixed
  <2>2. "e0" \notin flags3' /\ "e1" \in flags3'
    BY <1>3, <1>6, <2>1 DEF ScanE0, ScanE1
  <2> QED
    BY <1>1, <1>2, <1>4, <1>6, <2>1, <2>2 DEF InFlight, Goes
<1>7. CASE key \notin DOMAIN Prefixed /\ key # "pause"
  BY <1>3, <1>7, NextCode DEF Sent, KeyNames, Modifiers, Locks
<1> QED
  BY <1>1, <1>5, <1>6, <1>7

LEMMA ShiftGoes ==
  ASSUME NEW key \in KeyNames, NEW pressed \in BOOLEAN, NEW D, NEW T,
         FlagTypes, InFlight(key, pressed, D, T), Shift
  PROVE  Goes(key, pressed, D, T)' /\ FlagTypes'
<1>1. FlagTypes'
  BY DEF FlagTypes, Shift, Irq1End, Handles, Scan
<1>2. key \in {"lshift", "rshift"} /\ Head(codes) = Sent(key, pressed) /\ Tail(codes) = <<>>
      /\ "e0" \notin flags3 /\ "e1" \notin flags3
  BY NextCode DEF Shift, Handles, Scan, Sent, ScanE0, ScanE1, Prefixed
<1>3. Tell(down, toggled)'
  BY <1>2 DEF Shift, Handles, Irq1End, Scan, InFlight, Tell, HeldAfter, LocksAfter, Sent, Locks
<1> QED
  BY <1>1, <1>2, <1>3 DEF Goes, Settled, Shift, Irq1End, Handles
LEMMA CtrlGoes ==
  ASSUME NEW key \in KeyNames, NEW pressed \in BOOLEAN, NEW D, NEW T,
         FlagTypes, InFlight(key, pressed, D, T), Ctrl
  PROVE  Goes(key, pressed, D, T)' /\ FlagTypes'
<1>1. FlagTypes'
  BY DEF FlagTypes, Ctrl, ModifierDown, ModifierUp, AfterE0, Irq1End, Handles, Scan
<1>2. Head(codes).code = "lctrl" /\ codes' = Tail(codes) /\ UNCHANGED <<down, toggled>>
  BY DEF Ctrl, Handles, Scan
<1>3. CASE key = "pause"
  <2>1. /\ codes' = <<Sent("num", pressed)>>
        /\ "e0" \notin flags3 /\ "e1" \in flags3
    BY <1>2, <1>3, NextCode DEF Sent, ScanE1, Prefixed
  <2>2. UNCHANGED <<flags1, flags3>> /\ (flags2' = flags2 \/ flags2' = flags2 \ {"pause"})
    BY <2>1, FlagTypes DEF Ctrl, AfterE1, Irq1End, FlagTypes
  <2>3. Tell(D, T)'
    BY <2>2 DEF InFlight, Tell, Locks
  <2> QED
    BY <1>1, <1>2, <1>3, <2>1, <2>2, <2>3 DEF InFlight, Goes
<1>4. CASE key # "pause"
  <2>1. /\ codes' = <<>> /\ "e1" \notin flags3
        /\ Head(codes) = Sent("lctrl", pressed)
        /\ \/ key = "lctrl" /\ "e0" \notin flags3
           \/ key = "rctrl" /\ "e0" \in flags3
    BY <1>2, <1>4, NextCode DEF Sent, ScanE0, ScanE1, Prefixed
  <2>2. Tell(down, toggled)' /\ "e0" \notin flags3' /\ "e1" \notin flags3'
    BY <1>2, <2>1 DEF Ctrl, ModifierDown, ModifierUp, AfterE0, AfterE1, Handles, Irq1End, Scan,
                      InFlight, Tell, HeldAfter, LocksAfter, Sent, Locks
  <2> QED
    BY <1>1, <2>1, <2>2 DEF Goes, Settled
<1> QED
  BY <1>3, <1>4

LEMMA AltGoes ==
  ASSUME NEW key \in KeyNames, NEW pressed \in BOOLEAN, NEW D, NEW T,
         FlagTypes, InFlight(key, pressed, D, T), AltDown \/ AltUp
  PROVE  Goes(key, pressed, D, T)' /\ FlagTypes'
<1>1. FlagTypes'
  BY DEF FlagTypes, AltDown, AltUp, ModifierDown, ModifierUp, AfterE0, Irq1End, Handles, Scan
<1>2. Head(codes).code = "lalt" /\ codes' = Tail(codes) /\ UNCHANGED <<down, toggled>>
  BY DEF AltDown, AltUp, Handles, Scan
<1>3. /\ codes' = <<>> /\ "e1" \notin flags3
      /\ Head(codes) = Sent("lalt", pressed)
      /\ \/ key = "lalt" /\ "e0" \notin flags3
         \/ key = "ralt" /\ "e0" \in flags3
  BY <1>2, NextCode DEF Sent, ScanE0, ScanE1, Prefixed
<1>4. Tell(down, toggled)' /\ "e0" \notin flags3' /\ "e1" \notin flags3'
  <2>1. CASE AltDown
    <3>1. pressed
      BY <1>3, <2>1 DEF AltDown, Handles, Scan, Sent
    <3> QED
      BY <1>2, <1>3, <2>1, <3>1 DEF AltDown, ModifierDown, AfterE0, Irq1End, Scan, InFlight,
         Tell, HeldAfter, LocksAfter, Sent, Locks
  <2>2. CASE AltUp
    <3>1. ~pressed
      BY <1>3, <2>2 DEF AltUp, Handles, Scan, Sent
    <3>2. ModifierUp("lalt", "ralt", "alt")
      BY <2>2 DEF AltUp
    <3> QED
      BY <1>2, <1>3, <3>1, <3>2 DEF ModifierUp, AfterE0, Irq1End, Scan, InFlight,
         Tell, HeldAfter, LocksAfter, Sent, Locks
  <2> QED
    BY <2>1, <2>2
<1> QED
  BY <1>1, <1>3, <1>4 DEF Goes, Settled

LEMMA CapsGoes ==
  ASSUME NEW key \in KeyNames, NEW pressed \in BOOLEAN, NEW D, NEW T,
         FlagTypes, InFlight(key, pressed, D, T), Caps
  PROVE  Goes(key, pressed, D, T)' /\ FlagTypes'
<1>1. FlagTypes'
  BY DEF FlagTypes, Caps, Toggled, SymDiff, Irq1End, Handles, Scan, Locks
<1>2. key = "caps" /\ Head(codes) = Sent(key, pressed) /\ Tail(codes) = <<>>
      /\ "e0" \notin flags3 /\ "e1" \notin flags3
  BY NextCode DEF Caps, Handles, Scan, Sent, ScanE0, ScanE1, Prefixed
<1>3. Tell(down, toggled)'
  BY <1>2 DEF Caps, Handles, Toggled, SymDiff, Irq1End, Scan, InFlight, Tell, HeldAfter,
              LocksAfter, Sent, Locks
<1> QED
  BY <1>1, <1>2, <1>3 DEF Goes, Settled, Caps, Irq1End, Handles

LEMMA NumGoes ==
  ASSUME NEW key \in KeyNames, NEW pressed \in BOOLEAN, NEW D, NEW T,
         FlagTypes, InFlight(key, pressed, D, T), Num
  PROVE  Goes(key, pressed, D, T)' /\ FlagTypes'
<1>1. FlagTypes'
  BY DEF FlagTypes, Num, Toggled, SymDiff, Irq1End, Handles, Scan, Locks
<1>2. /\ Head(codes) = Sent("num", pressed) /\ Tail(codes) = <<>> /\ "e0" \notin flags3
      /\ \/ key = "num" /\ "e1" \notin flags3
         \/ key = "pause" /\ "e1" \in flags3
  BY NextCode DEF Num, Handles, Scan, Sent, ScanE0, ScanE1, Prefixed
<1>3. Tell(down, toggled)'
  BY <1>2 DEF Num, AfterE1, Handles, Toggled, SymDiff, Irq1End, Scan, InFlight, Tell, HeldAfter,
              LocksAfter, Sent, Locks
<1> QED
  BY <1>1, <1>2, <1>3 DEF Goes, Settled, Num, AfterE1, Irq1End, Handles

LEMMA PauseGoes ==
  ASSUME NEW key \in KeyNames, NEW pressed \in BOOLEAN, NEW D, NEW T,
         FlagTypes, InFlight(key, pressed, D, T), Pause
  PROVE  Goes(key, pressed, D, T)' /\ FlagTypes'
<1>1. FlagTypes'
  BY DEF FlagTypes, Pause, Handles, Scan
<1>2. /\ Head(codes) = Sent("num", pressed) /\ Tail(codes) = <<>> /\ "e0" \notin flags3
      /\ key = "pause"
  BY NextCode DEF Pause, AfterE1, Handles, Scan, Sent, ScanE0, ScanE1, Prefixed
<1>3. Tell(down, toggled)'
  BY <1>2 DEF Pause, Handles, InFlight, Tell, HeldAfter, LocksAfter, Locks
<1> QED
  BY <1>1, <1>2, <1>3 DEF Goes, Settled, Pause, Handles

LEMMA KeypadGoes ==
  ASSUME NEW key \in KeyNames, NEW pressed \in BOOLEAN, NEW D, NEW T,
         FlagTypes, InFlight(key, pressed, D, T), KeypadDown \/ KeypadUp
  PROVE  Goes(key, pressed, D, T)' /\ FlagTypes'
<1>1. FlagTypes'
  BY DEF FlagTypes, KeypadDown, KeypadUp, Toggled, SymDiff, AfterE0, Irq1End, Handles, Scan, Locks
<1>2. /\ Head(codes) = Sent("keypad", pressed) /\ Tail(codes) = <<>> /\ "e1" \notin flags3
      /\ \/ key = "keypad" /\ "e0" \notin flags3
         \/ key = "insert" /\ "e0" \in flags3
  BY NextCode DEF KeypadDown, KeypadUp, Handles, Scan, Sent, ScanE0, ScanE1, Prefixed
<1>3. Tell(down, toggled)'
  BY <1>2 DEF KeypadDown, KeypadUp, AfterE0, Handles, Toggled, SymDiff, Irq1End, Scan, InFlight,
              Tell, HeldAfter, LocksAfter, Sent, Locks
<1> QED
  BY <1>1, <1>2, <1>3 DEF Goes, Settled, KeypadDown, KeypadUp, AfterE0, Irq1End, Handles

LEMMA NormalGoes ==
  ASSUME NEW key \in KeyNames, NEW pressed \in BOOLEAN, NEW D, NEW T,
         FlagTypes, InFlight(key, pressed, D, T), Normal
  PROVE  Goes(key, pressed, D, T)' /\ FlagTypes'
<1>1. FlagTypes'
  BY DEF FlagTypes, Normal, Irq1End, Handles, Scan
<1>2. key \in {"letter", "f11"} /\ Head(codes) = Sent(key, pressed) /\ Tail(codes) = <<>>
      /\ "e0" \notin flags3 /\ "e1" \notin flags3
  BY NextCode DEF Normal, Handles, Scan, Sent, ScanE0, ScanE1, Prefixed
<1>3. Tell(down, toggled)'
  BY <1>2 DEF Normal, Handles, Irq1End, InFlight, Tell, HeldAfter, LocksAfter, Locks
<1> QED
  BY <1>1, <1>2, <1>3 DEF Goes, Settled, Normal, Irq1End, Handles

-----------------------------------------------------------------------------
(* The ring.                                                               *)

RingKeys == [name : Typed, enhanced : BOOLEAN]

RingTypes ==
  /\ buffer \in [0 .. Slots - 1 -> RingKeys]
  /\ head \in 0 .. Slots - 1 /\ tail \in 0 .. Slots - 1

LEMMA TypesAre == BiosTypeOK <=> FlagTypes /\ RingTypes
BY DEF BiosTypeOK, FlagTypes, RingTypes, RingKeys

\* What the remainder is of an index less than two rounds.
Turned(x) == x % Slots

LEMMA WrapBack ==
  ASSUME NEW x \in 0 .. 2 * Slots - 1
  PROVE  /\ Turned(x) \in 0 .. Slots - 1
         /\ Turned(x) = IF x < Slots THEN x ELSE x - Slots
<1>1. x < Slots => x % Slots = x
  BY BiosAssumption
<1>2. x >= Slots => x % Slots = x - Slots
  BY BiosAssumption
<1> QED
  BY <1>1, <1>2, BiosAssumption DEF Turned

LEMMA GetKeysTypes ==
  ASSUME RingTypes, NEW n \in 0 .. Slots - 1, GetKeys(n)
  PROVE  RingTypes'
<1>1. head + n \in 0 .. 2 * Slots - 1
  BY BiosAssumption DEF RingTypes
<1>2. head' \in 0 .. Slots - 1
  BY <1>1, WrapBack DEF GetKeys, Turned
<1>3. NoKey \in RingKeys
  BY DEF NoKey, Key, Typed, RingKeys
<1>4. buffer' \in [0 .. Slots - 1 -> RingKeys]
  BY <1>3 DEF GetKeys, RingTypes
<1> QED
  BY <1>2, <1>4 DEF GetKeys, RingTypes

\* How many keys wait in a ring from h to t, and where the i-th of them is.
Count(h, t) == (IF t < h THEN t + Slots ELSE t) - h
Place(h, i) == (h + i - 1) % Slots
RingSeq(h, t, b) == [i \in 1 .. Count(h, t) |-> b[Place(h, i)]]

LEMMA WaitingIs == Waiting = RingSeq(head, tail, buffer)
BY DEF Waiting, RingSeq, Count, Place

LEMMA PlaceIs ==
  ASSUME NEW h \in 0 .. Slots - 1, NEW i \in 1 .. Slots
  PROVE  /\ Place(h, i) \in 0 .. Slots - 1
         /\ Place(h, i) = IF h + i - 1 < Slots THEN h + i - 1 ELSE h + i - 1 - Slots
<1>1. h + i - 1 \in 0 .. 2 * Slots - 1
  BY BiosAssumption
<1> QED
  BY <1>1, WrapBack, BiosAssumption, SMTT(30) DEF Place, Turned

LEMMA RingSeqIs ==
  ASSUME NEW h \in 0 .. Slots - 1, NEW t \in 0 .. Slots - 1,
         NEW b \in [0 .. Slots - 1 -> RingKeys]
  PROVE  /\ Count(h, t) \in 0 .. Slots - 1
         /\ RingSeq(h, t, b) \in Seq(RingKeys)
         /\ Len(RingSeq(h, t, b)) = Count(h, t)
         /\ \A i \in 1 .. Count(h, t) :
              i \in 1 .. Slots /\ RingSeq(h, t, b)[i] = b[Place(h, i)]
<1>1. Count(h, t) \in 0 .. Slots - 1
  BY BiosAssumption DEF Count
<1>2. \A i \in 1 .. Count(h, t) : i \in 1 .. Slots
  BY <1>1, BiosAssumption
<1>3. \A i \in 1 .. Count(h, t) : b[Place(h, i)] \in RingKeys
  BY <1>2, PlaceIs
<1>4. RingSeq(h, t, b) = [i \in 1 .. Count(h, t) |-> b[Place(h, i)]]
  BY DEF RingSeq
<1>5. RingSeq(h, t, b) \in [1 .. Count(h, t) -> RingKeys]
  BY <1>3, <1>4
<1>6. Count(h, t) \in Nat
  BY <1>1, BiosAssumption
<1>7. RingSeq(h, t, b) \in Seq(RingKeys) /\ Len(RingSeq(h, t, b)) = Count(h, t)
  BY <1>5, <1>6
<1> QED
  BY <1>1, <1>2, <1>4, <1>7

\* A key joins behind the others while there is room.
LEMMA JoinsLast ==
  ASSUME NEW h \in 0 .. Slots - 1, NEW t \in 0 .. Slots - 1,
         NEW b \in [0 .. Slots - 1 -> RingKeys], NEW key \in RingKeys,
         After(t) # h
  PROVE  LET r == RingSeq(h, t, b)
             s == RingSeq(h, After(t), [b EXCEPT ![t] = key])
         IN /\ Len(r) < Slots - 1
            /\ Len(s) = Len(r) + 1
            /\ SubSeq(s, 1, Len(r)) = r
<1> DEFINE r == RingSeq(h, t, b)
           c == [b EXCEPT ![t] = key]
           u == After(t)
           s == RingSeq(h, u, c)
<1>1. u \in 0 .. Slots - 1 /\ c \in [0 .. Slots - 1 -> RingKeys]
  BY BiosAssumption DEF After
<1>2. /\ Count(h, t) \in 0 .. Slots - 1 /\ r \in Seq(RingKeys) /\ Len(r) = Count(h, t)
      /\ \A i \in 1 .. Count(h, t) : i \in 1 .. Slots /\ r[i] = b[Place(h, i)]
  BY RingSeqIs
<1>3. /\ Count(h, t) < Slots - 1 /\ Count(h, u) = Count(h, t) + 1
  BY BiosAssumption DEF Count, After
<1> HIDE DEF c, u
<1>4. /\ s \in Seq(RingKeys) /\ Len(s) = Count(h, u)
      /\ \A i \in 1 .. Count(h, u) : s[i] = c[Place(h, i)]
  BY <1>1, RingSeqIs
<1>5. ASSUME NEW i \in 1 .. Count(h, t)
      PROVE  s[i] = r[i]
  <2>1. i \in 1 .. Slots /\ i \in Nat /\ i <= Count(h, t)
    BY <1>2
  <2>2. /\ Place(h, i) \in 0 .. Slots - 1
        /\ Place(h, i) = IF h + i - 1 < Slots THEN h + i - 1 ELSE h + i - 1 - Slots
    BY <2>1, PlaceIs
  <2>3. Place(h, i) # t
    BY <2>1, <2>2, BiosAssumption DEF Count
  <2>4. c[Place(h, i)] = b[Place(h, i)]
    BY <2>2, <2>3 DEF c
  <2>5. i \in 1 .. Count(h, u)
    BY <1>2, <1>3
  <2> QED
    BY <1>2, <1>4, <2>4, <2>5
<1> HIDE DEF r, s
<1>6. Count(h, t) \in Int /\ Count(h, t) >= 0
  BY <1>2, BiosAssumption
<1>7. \A i \in 1 .. Count(h, t) : s[i] \in RingKeys
  BY <1>2, <1>5
<1>8. /\ SubSeq(s, 1, Count(h, t)) \in Seq(RingKeys)
      /\ Len(SubSeq(s, 1, Count(h, t))) = Count(h, t)
      /\ \A i \in 1 .. Count(h, t) : SubSeq(s, 1, Count(h, t))[i] = s[i]
  <2>1. /\ SubSeq(s, 1, Count(h, t)) \in Seq(RingKeys)
        /\ Len(SubSeq(s, 1, Count(h, t))) =
             IF 1 <= Count(h, t) THEN Count(h, t) - 1 + 1 ELSE 0
        /\ \A i \in 1 .. Count(h, t) - 1 + 1 : SubSeq(s, 1, Count(h, t))[i] = s[1 + i - 1]
    BY <1>6, <1>7, SubSeqProperties
  <2> QED
    BY <1>6, <2>1
<1>9. SubSeq(s, 1, Count(h, t)) = r
  BY <1>2, <1>5, <1>8, SeqEqual
<1>10. Len(r) < Slots - 1 /\ Len(s) = Len(r) + 1 /\ SubSeq(s, 1, Len(r)) = r
  BY <1>2, <1>3, <1>4, <1>9
<1> QED
  BY <1>10 DEF r, s, c, u

\* UserKeys leave at the front.
LEMMA LeaveFirst ==
  ASSUME NEW h \in 0 .. Slots - 1, NEW t \in 0 .. Slots - 1,
         NEW b \in [0 .. Slots - 1 -> RingKeys],
         NEW c \in [0 .. Slots - 1 -> RingKeys],
         NEW n \in 1 .. Count(h, t),
         \A i \in 0 .. Slots - 1 :
           i \notin {Turned(h + k) : k \in 0 .. n - 1} => c[i] = b[i]
  PROVE  RingSeq(Turned(h + n), t, c) = SubSeq(RingSeq(h, t, b), n + 1, Count(h, t))
<1> DEFINE r == RingSeq(h, t, b)
           g == Turned(h + n)
           s == RingSeq(g, t, c)
<1>1. /\ Count(h, t) \in 0 .. Slots - 1 /\ r \in Seq(RingKeys) /\ Len(r) = Count(h, t)
      /\ \A i \in 1 .. Count(h, t) : i \in 1 .. Slots /\ r[i] = b[Place(h, i)]
  BY RingSeqIs
<1>2. n \in Nat /\ n >= 1 /\ n <= Count(h, t) /\ Count(h, t) \in Nat /\ Count(h, t) < Slots
  BY <1>1, BiosAssumption
<1>3. /\ g \in 0 .. Slots - 1
      /\ g = IF h + n < Slots THEN h + n ELSE h + n - Slots
  <2>1. h + n \in 0 .. 2 * Slots - 1
    BY <1>2, BiosAssumption
  <2> QED
    BY <2>1, WrapBack, BiosAssumption
<1> HIDE DEF g
<1>4. Count(g, t) = Count(h, t) - n
  BY <1>2, <1>3, BiosAssumption DEF Count
<1>5. /\ s \in Seq(RingKeys) /\ Len(s) = Count(g, t)
      /\ \A i \in 1 .. Count(g, t) : s[i] = c[Place(g, i)]
  <2>1. g \in 0 .. Slots - 1
    BY <1>3
  <2> QED
    BY <2>1, RingSeqIs
<1>6. ASSUME NEW i \in 1 .. Count(g, t)
      PROVE  s[i] = r[n + i] /\ n + i \in 1 .. Count(h, t)
  <2>1. /\ i \in 1 .. Slots /\ n + i \in 1 .. Slots
        /\ i \in Nat /\ i >= 1 /\ n + i \in 1 .. Count(h, t)
    BY <1>2, <1>4, BiosAssumption
  <2>2. /\ Place(h, n + i) \in 0 .. Slots - 1
        /\ Place(h, n + i) =
             IF h + (n + i) - 1 < Slots THEN h + (n + i) - 1 ELSE h + (n + i) - 1 - Slots
    BY <2>1, PlaceIs
  <2>3. Place(g, i) = IF g + i - 1 < Slots THEN g + i - 1 ELSE g + i - 1 - Slots
    BY <1>3, <2>1, PlaceIs
  <2>4. Place(g, i) = Place(h, n + i)
    BY <1>2, <1>3, <2>1, <2>2, <2>3, BiosAssumption
  <2>5. ASSUME NEW k \in 0 .. n - 1
        PROVE  Turned(h + k) # Place(h, n + i)
    <3>1. h + k \in 0 .. 2 * Slots - 1
      BY <1>2, BiosAssumption
    <3>2. Turned(h + k) = IF h + k < Slots THEN h + k ELSE h + k - Slots
      BY <3>1, WrapBack, BiosAssumption
    <3> QED
      BY <1>2, <2>1, <2>2, <3>2, BiosAssumption
  <2>6. c[Place(h, n + i)] = b[Place(h, n + i)]
    BY <2>2, <2>5
  <2> QED
    BY <1>1, <1>5, <2>1, <2>4, <2>6
<1> HIDE DEF r, s
<1>7. /\ SubSeq(r, n + 1, Count(h, t)) \in Seq(RingKeys)
      /\ Len(SubSeq(r, n + 1, Count(h, t))) = Count(h, t) - n
      /\ \A i \in 1 .. Count(h, t) - n : SubSeq(r, n + 1, Count(h, t))[i] = r[n + i]
  <2>0. n + 1 \in Int /\ Count(h, t) \in Int
    BY <1>2
  <2>1. \A i \in n + 1 .. Count(h, t) : r[i] \in RingKeys
    BY <1>1, <1>2
  <2>2. /\ SubSeq(r, n + 1, Count(h, t)) \in Seq(RingKeys)
        /\ Len(SubSeq(r, n + 1, Count(h, t))) =
             IF n + 1 <= Count(h, t) THEN Count(h, t) - (n + 1) + 1 ELSE 0
        /\ \A i \in 1 .. Count(h, t) - (n + 1) + 1 :
             SubSeq(r, n + 1, Count(h, t))[i] = r[(n + 1) + i - 1]
    BY <2>0, <2>1, SubSeqProperties
  <2>3. \A i \in 1 .. Count(h, t) - n : (n + 1) + i - 1 = n + i
    BY <1>2
  <2>4. Count(h, t) - (n + 1) + 1 = Count(h, t) - n
    BY <1>2
  <2> QED
    BY <1>2, <2>2, <2>3, <2>4
<1>8. s = SubSeq(r, n + 1, Count(h, t))
  BY <1>4, <1>5, <1>6, <1>7, SeqEqual
<1> QED
  BY <1>8 DEF r, s, g

-----------------------------------------------------------------------------
(* The invariant.                                                          *)

LEMMA InitSettled == BiosInit => IInv
<1> SUFFICES ASSUME BiosInit PROVE IInv
  OBVIOUS
<1>1. RingTypes
  BY BiosAssumption DEF BiosInit, RingTypes, RingKeys, NoKey, Key, Typed
<1>2. FlagTypes /\ Settled
  BY DEF BiosInit, FlagTypes, Settled, Tell, Locks
<1> QED
  BY <1>1, <1>2, TypesAre DEF IInv, BiosTypeOK, FlagTypes, RingTypes

\* Every handler adds a key to the ring or leaves it alone.
LEMMA Irq1Ring ==
  ASSUME Irq1
  PROVE  UNCHANGED ring \/ \E key \in RingKeys : AddKeyToBuffer(key)
<1>1. CASE AltUp
  BY <1>1 DEF AltUp, Key, RingKeys, Typed
<1>2. CASE KeypadDown
  BY <1>2 DEF KeypadDown, Key, RingKeys, Typed
<1>3. CASE Normal
  BY <1>3 DEF Normal, Handles, Key, RingKeys, Typed
<1>4. CASE Prefix \/ Shift \/ Ctrl \/ AltDown \/ Caps \/ Num \/ Pause \/ KeypadUp
  BY <1>4 DEF Prefix, Shift, Ctrl, AltDown, Caps, Num, Pause, KeypadUp
<1> QED
  BY <1>1, <1>2, <1>3, <1>4 DEF Irq1

LEMMA AddKeyTyped ==
  ASSUME RingTypes, NEW key \in RingKeys, AddKeyToBuffer(key)
  PROVE  RingTypes'
BY BiosAssumption DEF RingTypes, RingKeys, AddKeyToBuffer, After, ring

LEMMA Irq1Keeps ==
  ASSUME IInv, Irq1
  PROVE  IInv'
<1>1. codes # <<>>
  BY DEF Irq1, Prefix, Shift, Ctrl, AltDown, AltUp, Caps, Num, Pause, KeypadDown, KeypadUp,
         Normal, Handles
<1>2. PICK key \in KeyNames, pressed \in BOOLEAN, D \in SUBSET UserKeys, T \in SUBSET Locks :
        InFlight(key, pressed, D, T)
  BY <1>1 DEF IInv, Settled
<1>3. FlagTypes /\ RingTypes
  BY TypesAre DEF IInv
<1>4. Goes(key, pressed, D, T)' /\ FlagTypes'
  BY <1>2, <1>3, PrefixGoes, ShiftGoes, CtrlGoes, AltGoes, CapsGoes, NumGoes, PauseGoes,
     KeypadGoes, NormalGoes DEF Irq1
<1>5. RingTypes'
  BY <1>3, Irq1Ring, AddKeyTyped DEF RingTypes, ring
<1>6. BiosTypeOK'
  BY <1>4, <1>5 DEF BiosTypeOK, FlagTypes, RingTypes, RingKeys
<1> QED
  BY <1>2, <1>4, <1>6 DEF IInv, Goes

LEMMA TypeKeeps ==
  ASSUME IInv, NEW key \in UserKeys, NEW pressed \in BOOLEAN, TypeKey(key, pressed)
  PROVE  IInv'
<1>1. Settled /\ key \in KeyNames /\ codes = <<>>
  <2>1. CodesOf(key, pressed) # <<>> /\ codes = <<>> /\ key \in KeyNames
    BY KeysAssumption, CodesAre DEF TypeKey
  <2>2. ASSUME NEW k \in KeyNames, NEW p \in BOOLEAN, NEW D, NEW T, InFlight(k, p, D, T)
        PROVE  codes # <<>>
    <3>1. CodesOf(k, p) # <<>>
      BY CodesAre
    <3> QED
      BY <2>2, <3>1 DEF InFlight
  <2> QED
    BY <2>1, <2>2 DEF IInv
<1>3. \E D \in SUBSET UserKeys, T \in SUBSET Locks : InFlight(key, pressed, D, T)'
  <2>1. PICK D \in SUBSET UserKeys, T \in SUBSET Locks : D = down /\ T = toggled
    BY DEF IInv, BiosTypeOK
  <2>2. /\ down' = HeldAfter(D, key, pressed)
        /\ toggled' = LocksAfter(T, key, pressed)
        /\ codes' = CodesOf(key, pressed) /\ UNCHANGED <<flags1, flags2, flags3>>
    BY <2>1 DEF TypeKey, HeldAfter, LocksAfter, flags
  <2>3. Tell(D, T) /\ "e0" \notin flags3 /\ "e1" \notin flags3
    BY <1>1, <2>1 DEF Settled
  <2>4. Tell(D, T)'
    BY <2>2, <2>3 DEF Tell
  <2>5. InFlight(key, pressed, D, T)'
    BY <2>2, <2>3, <2>4 DEF InFlight
  <2> QED
    BY <2>5
<1>4. BiosTypeOK'
  BY DEF IInv, BiosTypeOK, TypeKey, flags, ring, SymDiff, Locks
<1> QED
  BY <1>1, <1>3, <1>4 DEF IInv

LEMMA OthersKeep ==
  ASSUME IInv, RingTypes', UNCHANGED <<flags, user>>, depth' \in Nat
  PROVE  IInv'
<1>1. BiosTypeOK'
  BY DEF IInv, BiosTypeOK, RingTypes, RingKeys, flags, user
<1>2. Settled => Settled'
  BY DEF Settled, Tell, flags, user
<1>3. ASSUME NEW key, NEW pressed, NEW D, NEW T, InFlight(key, pressed, D, T)
      PROVE  InFlight(key, pressed, D, T)'
  BY <1>3 DEF InFlight, Tell, flags, user
<1> QED
  BY <1>1, <1>2, <1>3 DEF IInv

LEMMA KeysThatWait ==
  ASSUME RingTypes
  PROVE  Len(Waiting) = Count(head, tail) /\ Count(head, tail) \in 0 .. Slots - 1
BY WaitingIs, RingSeqIs DEF RingTypes, RingKeys

\* What the calls of interrupt 16h do to the ring.
LEMMA CallsTake ==
  ASSUME RingTypes, GetKeystroke \/ CheckKeystroke
  PROVE  \E n \in 1 .. Len(Waiting) :
           GetKeys(n) /\ (n > 1 => \A i \in 1 .. n : Waiting[i].enhanced)
<1>1. Len(Waiting) = Count(head, tail) /\ Count(head, tail) \in 0 .. Slots - 1
  BY KeysThatWait
<1>2. CASE GetKeystroke
  <2>1. 1 \in 1 .. Len(Waiting) /\ GetKeys(1)
    BY <1>1, <1>2, BiosAssumption DEF GetKeystroke, Count, RingTypes
  <2> QED
    BY <2>1
<1>3. CASE CheckKeystroke
  BY <1>3 DEF CheckKeystroke
<1> QED
  BY <1>2, <1>3

LEMMA TakenTypes ==
  ASSUME RingTypes, NEW n \in 1 .. Len(Waiting), GetKeys(n)
  PROVE  RingTypes'
<1>1. n \in 0 .. Slots - 1
  BY KeysThatWait, BiosAssumption
<1> QED
  BY <1>1, GetKeysTypes

LEMMA NextKeeps == IInv /\ [BiosNext]_biosVars => IInv'
<1> SUFFICES ASSUME IInv, [BiosNext]_biosVars
             PROVE  IInv'
  OBVIOUS
<1>0. RingTypes /\ depth \in Nat
  BY TypesAre DEF IInv, BiosTypeOK
<1>1. ASSUME NEW key \in UserKeys, NEW pressed \in BOOLEAN, TypeKey(key, pressed)
      PROVE  IInv'
  BY <1>1, TypeKeeps
<1>2. CASE Irq1
  BY <1>2, Irq1Keeps
<1>3. CASE LeavePause
  <2>1. RingTypes' /\ depth' \in Nat /\ UNCHANGED <<flags, user>>
    BY <1>0, <1>3 DEF LeavePause, RingTypes, ring
  <2> QED
    BY <2>1, OthersKeep
<1>4. CASE GetKeystroke \/ CheckKeystroke
  <2>1. RingTypes'
    BY <1>0, <1>4, CallsTake, TakenTypes
  <2>2. depth' \in Nat /\ UNCHANGED <<flags, user>>
    BY <1>0, <1>4 DEF GetKeystroke, CheckKeystroke
  <2> QED
    BY <2>1, <2>2, OthersKeep
<1>5. CASE StoreKeystroke
  <2>1. Key("letter", FALSE) \in RingKeys
    BY DEF Key, RingKeys, Typed
  <2>2. RingTypes'
    BY <1>0, <1>5, <2>1, AddKeyTyped DEF StoreKeystroke
  <2>3. depth' \in Nat /\ UNCHANGED <<flags, user>>
    BY <1>0, <1>5 DEF StoreKeystroke
  <2> QED
    BY <2>2, <2>3, OthersKeep
<1>6. CASE UNCHANGED biosVars
  <2>1. RingTypes' /\ depth' \in Nat /\ UNCHANGED <<flags, user>>
    BY <1>0, <1>6 DEF biosVars, RingTypes, ring
  <2> QED
    BY <2>1, OthersKeep
<1> QED
  BY <1>1, <1>2, <1>3, <1>4, <1>5, <1>6 DEF BiosNext

\* The flag bytes tell the keys, or one key is in flight.
THEOREM Invariant == BiosSpec => []IInv
BY InitSettled, NextKeeps, PTL DEF BiosSpec

-----------------------------------------------------------------------------
(* Theorems.                                                               *)

\* When no code waits, the flag bytes tell the keys that are held and the locks
\* that are on, whatever keys were pressed and released in whatever order.
THEOREM FlagsAreRight == BiosSpec => []FlagsFollowKeys
<1>1. IInv => FlagsFollowKeys
  <2> SUFFICES ASSUME IInv PROVE FlagsFollowKeys
    OBVIOUS
  <2>1. BiosTypeOK
    BY DEF IInv
  <2>2. ASSUME codes = <<>>
        PROVE  Settled
    <3>1. ASSUME NEW k \in KeyNames, NEW p \in BOOLEAN, NEW D, NEW T, InFlight(k, p, D, T)
          PROVE  FALSE
      <4>1. CodesOf(k, p) # <<>>
        BY CodesAre
      <4> QED
        BY <2>2, <3>1, <4>1 DEF InFlight
    <3> QED
      BY <3>1 DEF IInv
  <2>3. ASSUME Settled
        PROVE  /\ {"lshift", "rshift"} \cap flags1 = {"lshift", "rshift"} \cap down
               /\ {"lctrl", "lalt"} \cap flags2 = {"lctrl", "lalt"} \cap down
               /\ flags3 = {"rctrl", "ralt"} \cap down
               /\ "ctrl" \in flags1 <=> {"lctrl", "rctrl"} \cap down # {}
               /\ "alt" \in flags1 <=> {"lalt", "ralt"} \cap down # {}
               /\ Locks \cap flags2 = Locks \cap down
               /\ Locks \cap flags1 = toggled
    <3>1. /\ {"lshift", "rshift"} \cap flags1 = {"lshift", "rshift"} \cap down
          /\ {"lctrl", "lalt"} \cap flags2 = {"lctrl", "lalt"} \cap down
      BY <2>3 DEF Settled, Tell
    <3>2. flags3 = {"rctrl", "ralt"} \cap down
      BY <2>1, <2>3 DEF Settled, Tell, BiosTypeOK
    <3>3. /\ "ctrl" \in flags1 <=> {"lctrl", "rctrl"} \cap down # {}
          /\ "alt" \in flags1 <=> {"lalt", "ralt"} \cap down # {}
      BY <2>3 DEF Settled, Tell
    <3>4. Locks \cap flags2 = Locks \cap down /\ Locks \cap flags1 = toggled
      BY <2>1, <2>3 DEF Settled, Tell, BiosTypeOK
    <3> QED
      BY <3>1, <3>2, <3>3, <3>4
  <2> QED
    BY <2>1, <2>2, <2>3 DEF FlagsFollowKeys
<1> QED
  BY <1>1, Invariant, PTL

LEMMA AddKeyInOrder ==
  ASSUME RingTypes, NEW key \in RingKeys, AddKeyToBuffer(key)
  PROVE  \/ UNCHANGED ring
         \/ /\ "pause" \notin flags2 /\ Len(Waiting) < Slots - 1
            /\ Len(Waiting') = Len(Waiting) + 1
            /\ SubSeq(Waiting', 1, Len(Waiting)) = Waiting
<1> SUFFICES ASSUME ~UNCHANGED ring
             PROVE  /\ "pause" \notin flags2 /\ Len(Waiting) < Slots - 1
                    /\ Len(Waiting') = Len(Waiting) + 1
                    /\ SubSeq(Waiting', 1, Len(Waiting)) = Waiting
  OBVIOUS
<1>1. /\ "pause" \notin flags2 /\ After(tail) # head
      /\ buffer' = [buffer EXCEPT ![tail] = key]
      /\ tail' = After(tail) /\ head' = head
  BY DEF AddKeyToBuffer
<1>2. /\ Waiting = RingSeq(head, tail, buffer)
      /\ Waiting' = RingSeq(head, After(tail), [buffer EXCEPT ![tail] = key])
  BY <1>1, WaitingIs DEF Waiting, RingSeq, Count, Place
<1>3. /\ head \in 0 .. Slots - 1 /\ tail \in 0 .. Slots - 1
      /\ buffer \in [0 .. Slots - 1 -> RingKeys]
  BY DEF RingTypes, RingKeys
<1> QED
  BY <1>1, <1>2, <1>3, JoinsLast

LEMMA GetKeysInOrder ==
  ASSUME RingTypes, NEW n \in 1 .. Len(Waiting), GetKeys(n)
  PROVE  Waiting' = SubSeq(Waiting, n + 1, Len(Waiting))
<1>1. RingTypes'
  BY TakenTypes
<1>2. /\ head \in 0 .. Slots - 1 /\ tail \in 0 .. Slots - 1
      /\ buffer \in [0 .. Slots - 1 -> RingKeys]
      /\ buffer' \in [0 .. Slots - 1 -> RingKeys]
  BY <1>1 DEF RingTypes, RingKeys
<1>3. n \in 1 .. Count(head, tail) /\ Len(Waiting) = Count(head, tail)
  BY KeysThatWait
<1>4. \A i \in 0 .. Slots - 1 :
        i \notin {Turned(head + k) : k \in 0 .. n - 1} => buffer'[i] = buffer[i]
  BY DEF GetKeys, Turned
<1>5. RingSeq(Turned(head + n), tail, buffer')
        = SubSeq(RingSeq(head, tail, buffer), n + 1, Count(head, tail))
  BY <1>2, <1>3, <1>4, LeaveFirst
<1>6. head' = Turned(head + n) /\ tail' = tail
  BY DEF GetKeys, Turned
<1>7. Waiting = RingSeq(head, tail, buffer) /\ Waiting' = RingSeq(head', tail', buffer')
  BY DEF Waiting, RingSeq, Count, Place
<1> QED
  BY <1>3, <1>5, <1>6, <1>7

\* UserKeys join the ring at its end, never in a pause and only while there is room;
\* they leave at its front, one by one or with other enhanced ones.
THEOREM KeysAreInOrder == BiosSpec => KeysInOrder
<1> DEFINE Order ==
      \/ Waiting' = Waiting
      \/ /\ "pause" \notin flags2 /\ Len(Waiting) < Slots - 1
         /\ Len(Waiting') = Len(Waiting) + 1
         /\ SubSeq(Waiting', 1, Len(Waiting)) = Waiting
      \/ \E n \in 1 .. Len(Waiting) :
           /\ Waiting' = SubSeq(Waiting, n + 1, Len(Waiting))
           /\ n > 1 => \A i \in 1 .. n : Waiting[i].enhanced
<1>1. IInv /\ [BiosNext]_biosVars => [Order]_ring
  <2> SUFFICES ASSUME IInv, [BiosNext]_biosVars, ~UNCHANGED ring
               PROVE  Order
    OBVIOUS
  <2>1. RingTypes
    BY TypesAre DEF IInv
  <2>2. CASE \E key \in RingKeys : AddKeyToBuffer(key)
    BY <2>1, <2>2, AddKeyInOrder
  <2>3. CASE GetKeystroke \/ CheckKeystroke
    <3>1. PICK n \in 1 .. Len(Waiting) :
            GetKeys(n) /\ (n > 1 => \A i \in 1 .. n : Waiting[i].enhanced)
      BY <2>1, <2>3, CallsTake
    <3>2. Waiting' = SubSeq(Waiting, n + 1, Len(Waiting))
      BY <2>1, <3>1, GetKeysInOrder
    <3> QED
      BY <3>1, <3>2
  <2>4. CASE StoreKeystroke
    <3>1. Key("letter", FALSE) \in RingKeys
      BY DEF Key, RingKeys, Typed
    <3> QED
      BY <2>1, <2>4, <3>1, AddKeyInOrder DEF StoreKeystroke
  <2>5. CASE Irq1
    BY <2>2, <2>5, Irq1Ring
  <2> QED
    BY <2>3, <2>4, <2>5 DEF BiosNext, TypeKey, LeavePause, biosVars
<1> QED
  BY <1>1, Invariant, PTL DEF BiosSpec, KeysInOrder

=============================================================================

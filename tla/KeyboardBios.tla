---------------------------- MODULE KeyboardBios ----------------------------
(***************************************************************************)
(* The keyboard of the BIOS, ints/bios_keyboard.cpp: the handler of        *)
(* interrupt 9 turns the codes of keys into the flag bytes of the BIOS and *)
(* into keys in its ring, from where programs take them with interrupt     *)
(* 16h. The Pause key keeps the handler in a loop in which it is called    *)
(* again for the keys that follow.                                         *)
(*                                                                         *)
(* The codes come from the keyboard controller in order and none is lost   *)
(* (module Keyboard says when). A key in the ring is the key and whether   *)
(* IsEnhancedKey() holds of its code; the codes of characters are left     *)
(* out, and so are the lights and keyboard layouts.                        *)
(***************************************************************************)
EXTENDS Integers, Sequences, FiniteSets, FiniteSetsExt

CONSTANTS
  UserKeys,      \* keys of this user, see CodesOf
  Slots,     \* words of the ring, 16 in the code
  MaxHeld,   \* bound on the keys held at a time
  MaxDepth   \* bound on the pauses within which the user pauses again

ASSUME BiosAssumption ==
  /\ Slots \in Nat \ {0}
  /\ MaxHeld \in Nat /\ MaxDepth \in Nat

VARIABLES
  flags1, flags2, flags3,  \* the bits set in the flag bytes
  token,                   \* a code is being typed on the keypad with Alt
  buffer, head, tail,      \* the ring
  depth,                   \* handlers in the loop of the Pause key
  codes,                   \* the codes that wait
  down, toggled            \* history: keys held, locks released an odd number of times

flags == <<flags1, flags2, flags3, token>>
ring == <<buffer, head, tail>>
user == <<codes, down, toggled>>
biosVars == <<flags, ring, depth, user>>

Locks == {"caps", "num", "insert"}
Modifiers == {"lshift", "rshift", "lctrl", "rctrl", "lalt", "ralt"}

\* The kinds of keys that are told apart; one letter stands for all of them.
KeyNames == Modifiers \cup Locks \cup {"pause", "keypad", "letter", "f11"}

ASSUME KeysAssumption == UserKeys \subseteq KeyNames

\* The keys that send another key's code after a prefix.
Prefixed == [rctrl |-> "lctrl", ralt |-> "lalt", insert |-> "keypad"]

Make(key) == [code |-> key, down |-> TRUE]
Break(key) == [code |-> key, down |-> FALSE]
ScanE0 == [code |-> "e0", down |-> FALSE]
ScanE1 == [code |-> "e1", down |-> FALSE]

CodesOf(key, pressed) ==
  LET One(k) == IF pressed THEN Make(k) ELSE Break(k)
  IN IF key \in DOMAIN Prefixed THEN <<ScanE0, One(Prefixed[key])>>
     ELSE IF key = "pause" THEN <<ScanE1, One("lctrl"), One("num")>>
     ELSE <<One(key)>>

\* What a word of the ring holds; the token stands for a code typed with Alt.
Typed == {"none", "token", "keypad", "letter", "f11"}
Key(name, enhanced) == [name |-> name, enhanced |-> enhanced]
NoKey == Key("none", FALSE)

BiosInit ==
  /\ flags1 = {} /\ flags2 = {} /\ flags3 = {} /\ token = FALSE
  /\ buffer = [i \in 0 .. Slots - 1 |-> NoKey] /\ head = 0 /\ tail = 0
  /\ depth = 0
  /\ codes = <<>> /\ down = {} /\ toggled = {}

-----------------------------------------------------------------------------
(* The ring.                                                               *)

After(i) == IF i + 1 >= Slots THEN 0 ELSE i + 1

\* Mutant: the full ring takes one key more.
AddKeyToBuffer_full(key) ==
  IF "pause" \in flags2 THEN UNCHANGED ring
  ELSE /\ buffer' = [buffer EXCEPT ![tail] = key]
       /\ tail' = After(tail)
       /\ UNCHANGED head

\* BIOS_AddKeyToBuffer. Nothing is added in a pause or when the ring is full.
AddKeyToBuffer(key) ==
  IF "pause" \in flags2 \/ After(tail) = head THEN UNCHANGED ring
  ELSE /\ buffer' = [buffer EXCEPT ![tail] = key]
       /\ tail' = After(tail)
       /\ UNCHANGED head

\* The keys in the ring, first to last.
Waiting ==
  [i \in 1 .. (IF tail < head THEN tail + Slots ELSE tail) - head |->
     buffer[(head + i - 1) % Slots]]

\* get_key, n times. What stays in the words of the ring is never looked at.
GetKeys(n) ==
  /\ head' = (head + n) % Slots
  /\ buffer' = [i \in 0 .. Slots - 1 |->
                  IF i \in {(head + k) % Slots : k \in 0 .. n - 1} THEN NoKey ELSE buffer[i]]
  /\ UNCHANGED tail

-----------------------------------------------------------------------------
(* The user, through the mapper and the controller. The codes are handled  *)
(* in order whenever they come, so the next key waits for the codes of the *)
(* last one.                                                               *)

TypeKey(key, pressed) ==
  /\ pressed => key \notin down /\ Cardinality(down) < MaxHeld
  /\ key = "pause" => depth <= MaxDepth
  /\ codes = <<>> /\ codes' = CodesOf(key, pressed)
  /\ down' = IF pressed THEN down \cup {key} ELSE down \ {key}
  /\ toggled' = IF pressed \/ key \notin Locks THEN toggled
                ELSE SymDiff(toggled, {key})
  /\ UNCHANGED <<flags, ring, depth>>

-----------------------------------------------------------------------------
(* Interrupt 9. Set and Clear say what becomes of the three flag bytes; at *)
(* irq1_end the prefix E0 is forgotten, and every key that goes down ends  *)
(* the pause.                                                              *)

Scan == Head(codes)
AfterE0 == "e0" \in flags3
AfterE1 == "e1" \in flags3

Handles(names, isDown) ==
  /\ codes # <<>>
  /\ Scan.code \in names /\ Scan.down = isDown
  /\ codes' = Tail(codes)
  /\ UNCHANGED <<down, toggled>>

Irq1End(f1, f2, f3) ==
  /\ flags1' = f1
  /\ flags2' = IF Scan.down THEN f2 \ {"pause"} ELSE f2
  /\ flags3' = f3 \ {"e0"}
  /\ UNCHANGED depth

Prefix ==
  /\ Handles({"e0", "e1"}, FALSE)
  /\ flags3' = (IF Scan = ScanE0 THEN flags3 ELSE flags3 \ {"e0"}) \cup {Scan.code}
  /\ UNCHANGED <<flags1, flags2, token, ring, depth>>

Shift ==
  /\ Handles({"lshift", "rshift"}, Scan.down)
  /\ Irq1End(IF Scan.down THEN flags1 \cup {Scan.code} ELSE flags1 \ {Scan.code},
             flags2, flags3)
  /\ UNCHANGED <<token, ring>>

\* Ctrl or Alt goes down: the right one after the prefix E0.
ModifierDown(left, right, both) ==
  Irq1End(flags1 \cup {both},
          IF AfterE0 THEN flags2 ELSE flags2 \cup {left},
          IF AfterE0 THEN flags3 \cup {right} ELSE flags3)

\* Mutant: the common flag goes with the first of the two.
ModifierUp_first(left, right, both) ==
  Irq1End(flags1 \ {both},
          IF AfterE0 THEN flags2 ELSE flags2 \ {left},
          IF AfterE0 THEN flags3 \ {right} ELSE flags3)

\* ... and up: the common flag stays while the other one is held.
ModifierUp(left, right, both) ==
  LET f2 == IF AfterE0 THEN flags2 ELSE flags2 \ {left}
      f3 == IF AfterE0 THEN flags3 \ {right} ELSE flags3
  IN Irq1End(IF left \in f2 \/ right \in f3 THEN flags1 ELSE flags1 \ {both}, f2, f3)

\* After E1 it is a part of the Pause key.
Ctrl ==
  /\ Handles({"lctrl"}, Scan.down)
  /\ IF AfterE1 THEN Irq1End(flags1, flags2, flags3)
     ELSE IF Scan.down THEN ModifierDown("lctrl", "rctrl", "ctrl")
     ELSE ModifierUp("lctrl", "rctrl", "ctrl")
  /\ UNCHANGED <<token, ring>>

AltDown ==
  /\ Handles({"lalt"}, TRUE)
  /\ ModifierDown("lalt", "ralt", "alt")
  /\ UNCHANGED <<token, ring>>

\* When both are up, what was typed on the keypad is a key.
AltUp ==
  /\ Handles({"lalt"}, FALSE)
  /\ ModifierUp("lalt", "ralt", "alt")
  /\ IF token /\ "alt" \notin flags1'
     THEN AddKeyToBuffer(Key("token", FALSE)) /\ token' = FALSE
     ELSE UNCHANGED <<token, ring>>

Toggled(f, lock) == SymDiff(f, {lock})

Caps ==
  /\ Handles({"caps"}, Scan.down)
  /\ IF Scan.down THEN Irq1End(flags1, flags2 \cup {"caps"}, flags3)
     ELSE Irq1End(Toggled(flags1, "caps"), flags2 \ {"caps"}, flags3)
  /\ UNCHANGED <<token, ring>>

\* Num Lock, or the last code of the Pause key going down or up. With the left
\* Ctrl it would be a break, which is not handled.
Num ==
  /\ Handles({"num"}, Scan.down)
  /\ ~(Scan.down /\ AfterE1 /\ "lctrl" \notin flags2 /\ "pause" \notin flags2)
  /\ IF AfterE1 THEN Irq1End(flags1, flags2, flags3 \ {"e1"})
     ELSE IF Scan.down THEN Irq1End(flags1, flags2 \cup {"num"}, flags3)
     ELSE Irq1End(Toggled(flags1, "num"), flags2 \ {"num"}, flags3)
  /\ UNCHANGED <<token, ring>>

\* The Pause key: the handler stays in its loop.
Pause ==
  /\ Handles({"num"}, TRUE)
  /\ AfterE1 /\ "lctrl" \notin flags2 /\ "pause" \notin flags2
  /\ flags3' = flags3 \ {"e1"}
  /\ flags2' = flags2 \cup {"pause"}
  /\ depth' = depth + 1
  /\ UNCHANGED <<flags1, token, ring>>

\* Its loop finds the flag cleared. It writes no flags.
LeavePause ==
  /\ depth > 0 /\ "pause" \notin flags2
  /\ depth' = depth - 1
  /\ UNCHANGED <<flags, ring, user>>

\* Insert, after the prefix, or the key 0 of the keypad.
KeypadDown ==
  /\ Handles({"keypad"}, TRUE)
  /\ Irq1End(flags1, IF AfterE0 THEN flags2 \cup {"insert"} ELSE flags2, flags3)
  /\ IF ~AfterE0 /\ "alt" \in flags1
     THEN token' \in BOOLEAN /\ UNCHANGED ring
     ELSE AddKeyToBuffer(Key("keypad", {"alt", "ctrl"} \cap flags1 # {})) /\ UNCHANGED token

KeypadUp ==
  /\ Handles({"keypad"}, FALSE)
  /\ IF AfterE0 THEN Irq1End(Toggled(flags1, "insert"), flags2 \ {"insert"}, flags3)
     ELSE Irq1End(flags1, flags2, flags3)
  /\ UNCHANGED <<token, ring>>

\* Other keys. F11 and F12 have enhanced codes.
Normal ==
  /\ Handles({"letter", "f11"}, Scan.down)
  /\ Irq1End(flags1, flags2, flags3)
  /\ IF Scan.down THEN AddKeyToBuffer(Key(Scan.code, Scan.code = "f11"))
     ELSE UNCHANGED ring
  /\ UNCHANGED token

Irq1 ==
  \/ Prefix \/ Shift \/ Ctrl \/ AltDown \/ AltUp \/ Caps \/ Num \/ Pause
  \/ KeypadDown \/ KeypadUp \/ Normal

-----------------------------------------------------------------------------
(* Interrupt 16h, of the program, which does not run in a pause.           *)

\* Functions 00h and 10h. The first throws an enhanced key away, and waits on.
GetKeystroke ==
  /\ depth = 0 /\ head # tail
  /\ GetKeys(1)
  /\ UNCHANGED <<flags, depth, user>>

\* Function 01h throws away the enhanced keys before the first other one.
CheckKeystroke ==
  /\ depth = 0 /\ head # tail /\ Waiting[1].enhanced
  /\ \E n \in 1 .. Len(Waiting) :
       /\ \A i \in 1 .. n : Waiting[i].enhanced
       /\ n < Len(Waiting) => ~Waiting[n + 1].enhanced
       /\ GetKeys(n)
  /\ UNCHANGED <<flags, depth, user>>

\* Function 05h.
StoreKeystroke ==
  /\ depth = 0
  /\ AddKeyToBuffer(Key("letter", FALSE))
  /\ UNCHANGED <<flags, depth, user>>

BiosNext ==
  \/ \E key \in UserKeys, pressed \in BOOLEAN : TypeKey(key, pressed)
  \/ Irq1 \/ LeavePause \/ GetKeystroke \/ CheckKeystroke \/ StoreKeystroke

BiosSpec == BiosInit /\ [][BiosNext]_biosVars

-----------------------------------------------------------------------------
(* Properties.                                                             *)

BiosTypeOK ==
  /\ flags1 \subseteq {"lshift", "rshift", "ctrl", "alt"} \cup Locks
  /\ flags2 \subseteq {"lctrl", "lalt", "pause"} \cup Locks
  /\ flags3 \subseteq {"rctrl", "ralt", "e0", "e1"}
  /\ token \in BOOLEAN
  /\ buffer \in [0 .. Slots - 1 -> [name : Typed, enhanced : BOOLEAN]]
  /\ head \in 0 .. Slots - 1 /\ tail \in 0 .. Slots - 1
  /\ depth \in Nat
  /\ down \subseteq UserKeys /\ toggled \subseteq Locks

\* When all codes have been handled the flag bytes tell which keys are held and
\* which locks are on: with left and right ones, prefixes that make one code
\* mean two keys, and the Pause key, which sends the codes of Ctrl and Num Lock.
FlagsFollowKeys ==
  /\ BiosTypeOK
  /\ codes = <<>> =>
    /\ {"lshift", "rshift"} \cap flags1 = {"lshift", "rshift"} \cap down
    /\ {"lctrl", "lalt"} \cap flags2 = {"lctrl", "lalt"} \cap down
    /\ flags3 = {"rctrl", "ralt"} \cap down
    /\ "ctrl" \in flags1 <=> {"lctrl", "rctrl"} \cap down # {}
    /\ "alt" \in flags1 <=> {"lalt", "ralt"} \cap down # {}
    /\ Locks \cap flags2 = Locks \cap down
    /\ Locks \cap flags1 = toggled

\* A key joins the ring at its end, never in a pause and only while there is
\* room; it leaves at its front, alone or thrown away with other enhanced ones.
KeysInOrder ==
  [][ \/ Waiting' = Waiting
      \/ /\ "pause" \notin flags2 /\ Len(Waiting) < Slots - 1
         /\ Len(Waiting') = Len(Waiting) + 1
         /\ SubSeq(Waiting', 1, Len(Waiting)) = Waiting
      \/ \E n \in 1 .. Len(Waiting) :
           /\ Waiting' = SubSeq(Waiting, n + 1, Len(Waiting))
           /\ n > 1 => \A i \in 1 .. n : Waiting[i].enhanced ]_ring

=============================================================================

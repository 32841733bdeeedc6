----------------------------- MODULE KeyStream -----------------------------
(***************************************************************************)
(* What the keyboard promises a program: the codes of the keys come to     *)
(* port 60h one at a time and in the order they were typed; a code in the  *)
(* port is not replaced by the next one before it is read.  Codes are lost *)
(* in two ways only: those that find the buffer full, and all that wait    *)
(* when the buffer is cleared.  An answer of the controller replaces       *)
(* whatever the port shows.                                                *)
(***************************************************************************)
EXTENDS Integers, Sequences

CONSTANTS
  Strokes,   \* the sequences of codes that keys send
  Ack,       \* the code the keyboard answers a command with
  Answers,   \* what the controller itself puts in the port
  Capacity

VARIABLES
  waiting,   \* the codes in the buffer, first to last
  shown,     \* what a read of the port returns
  unread     \* it has not been read

streamVars == <<waiting, shown, unread>>

Truncated(s) == SubSeq(s, 1, IF Len(s) < Capacity THEN Len(s) ELSE Capacity)

StreamInit(zero) == waiting = <<>> /\ shown = zero /\ unread = FALSE

Type(codes) ==
  /\ waiting' = Truncated(waiting \o codes)
  /\ UNCHANGED <<shown, unread>>

Forget ==
  /\ waiting' \in {<<>>, <<Ack>>}
  /\ UNCHANGED <<shown, unread>>

Show ==
  /\ waiting # <<>>
  /\ unread => shown \in Answers
  /\ shown' = Head(waiting) /\ unread' = TRUE
  /\ waiting' = Tail(waiting)

Read == unread' = FALSE /\ UNCHANGED <<waiting, shown>>

Answer(a) == shown' = a /\ unread' = TRUE /\ UNCHANGED waiting

StreamNext ==
  \/ \E codes \in Strokes : Type(codes)
  \/ \E a \in Answers : Answer(a)
  \/ Forget \/ Show \/ Read

=============================================================================

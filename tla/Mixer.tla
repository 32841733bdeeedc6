---------------------------- MODULE Mixer ----------------------------
(***************************************************************************)
(* The ring buffer of hardware/mixer.cpp between two threads: the emulator *)
(* adds the samples of every channel to it, once in a tick and when a      *)
(* program touches a sound card, and the audio thread of SDL plays and     *)
(* clears them.                                                            *)
(*                                                                         *)
(* A sample is only counted: work tells how many samples of a channel are  *)
(* added up in a cell, and a cell is named by its place after mixer.pos.   *)
(* The rates (tick_add, tick_remain, freq_add) are left out: a tick asks   *)
(* for any number of samples up to PerTick, and the generator of a channel *)
(* gives what it was asked for, or up to Extra more.                       *)
(***************************************************************************)
EXTENDS Integers, FiniteSets

CONSTANTS
  Channels,
  MIXER_BUFSIZE,  \* 16384 in the code
  blocksize,      \* samples of a block of SDL
  min_needed,     \* samples to have in store, the setting "prebuffer"
  StretchPart,    \* a block is stretched by one part in this many, 128 in the code
  Repeats,        \* samples of a block that may be repeated, 3 in the code
  PerTick,
  Extra,
  Backlog         \* bound: no ticks beyond this many samples asked for

max_needed == blocksize * 2 + 2 * min_needed

\* The settings allow no longer prebuffer.
ASSUME MixerAssumption ==
  /\ MIXER_BUFSIZE \in Nat /\ blocksize \in Nat /\ min_needed \in Nat
  /\ StretchPart \in Nat \ {0} /\ Repeats \in Nat /\ PerTick \in Nat /\ Extra \in Nat /\ Backlog \in Nat
  /\ Repeats <= blocksize /\ 2 * min_needed <= MIXER_BUFSIZE

VARIABLES
  done, needed,  \* of mixer: the samples ready and asked for
  chan,          \* channel -> enabled, and the samples done
  enabling,      \* the channels that Enable() has yet to take the lock for
  work,          \* channel -> cell -> its samples in the cell
  since,         \* history: channel -> its samples are complete from here
  nosound

vars == <<done, needed, chan, enabling, work, since, nosound>>

Cell == 0 .. MIXER_BUFSIZE - 1

Larger(m, n) == IF m < n THEN n ELSE m
Less(m, n) == Larger(m - n, 0)

Init ==
  /\ done = 0 /\ needed = min_needed + 1
  /\ chan = [c \in Channels |-> [enabled |-> FALSE, done |-> 0]]
  /\ enabling = {}
  /\ work = [c \in Channels |-> [i \in Cell |-> 0]]
  /\ since = [c \in Channels |-> 0]
  /\ nosound \in BOOLEAN

-----------------------------------------------------------------------------
(* The emulator's thread. SDL_LockAudio makes each of these one step.      *)

\* AddSamples, AddStretched and AddSilence: the samples of c up to upto.
Added(c, upto) ==
  [i \in Cell |-> work[c][i] + Cardinality({k \in chan[c].done .. upto - 1 : k % MIXER_BUFSIZE = i})]

\* MixerChannel::Mix: the generator is asked until it has given enough, or has
\* disabled its own channel.
Mixed(c, upto) ==
  IF ~chan[c].enabled \/ upto <= chan[c].done THEN {chan[c]}
  ELSE [enabled : {TRUE}, done : upto .. upto + Extra]
         \cup [enabled : {FALSE}, done : chan[c].done .. upto + Extra]

\* What MIXER_MixData may leave in the channels.
MixedAll(upto) ==
  {new \in [Channels -> UNION {Mixed(c, upto) : c \in Channels}] :
     \A c \in Channels : new[c] \in Mixed(c, upto)}

\* MIXER_Mix, in every tick.
MIXER_Mix ==
  /\ ~nosound /\ enabling = {} /\ needed <= Backlog
  /\ \E new \in MixedAll(needed) :
       /\ chan' = new
       /\ work' = [c \in Channels |-> Added(c, new[c].done)]
  /\ done' = needed
  /\ \E samples \in 0 .. PerTick : needed' = needed + samples
  /\ UNCHANGED <<enabling, since, nosound>>

\* FillUp: the samples of a channel up to now, before its card changes.
FillUp(c) ==
  /\ enabling = {} /\ chan[c].enabled /\ chan[c].done >= done
  /\ \E upto \in 0 .. needed : \E new \in Mixed(c, upto) :
       /\ chan' = [chan EXCEPT ![c] = new]
       /\ work' = [work EXCEPT ![c] = Added(c, new.done)]
  /\ UNCHANGED <<done, needed, enabling, since, nosound>>

\* Enable(true), without the lock ...
Enable(c) ==
  /\ enabling = {} /\ ~chan[c].enabled
  /\ chan' = [chan EXCEPT ![c].enabled = TRUE]
  /\ enabling' = {c}
  /\ UNCHANGED <<done, needed, work, since, nosound>>

\* Mutant: the channel begins with the samples it had when it was switched off.
Enabled_behind(c) ==
  /\ c \in enabling
  /\ enabling' = {}
  /\ UNCHANGED <<done, needed, chan, work, since, nosound>>

\* ... and with it: the samples that the others have done are not this one's.
Enabled(c) ==
  /\ c \in enabling
  /\ chan' = [chan EXCEPT ![c].done = Larger(@, done)]
  /\ since' = [since EXCEPT ![c] = IF chan[c].done < done THEN done ELSE @]
  /\ enabling' = {}
  /\ UNCHANGED <<done, needed, work, nosound>>

\* Enable(false).
Disable(c) ==
  /\ enabling = {} /\ chan[c].enabled
  /\ chan' = [chan EXCEPT ![c].enabled = FALSE]
  /\ UNCHANGED <<done, needed, enabling, work, since, nosound>>

-----------------------------------------------------------------------------
(* Taking samples out.                                                     *)

\* Mutant: the cells that were played keep their samples.
Cleared_not(w, n) == [i \in Cell |-> w[(i + n) % MIXER_BUFSIZE]]

\* The first n cells cleared, and mixer.pos moved past them.
Cleared(w, n) ==
  [i \in Cell |-> LET cell == (i + n) % MIXER_BUFSIZE
                  IN IF cell < n THEN 0 ELSE w[cell]]

\* The channels' counts, n less. More samples than the ring holds fell into
\* cells that held others.
Reduced(chans, n) == [c \in Channels |-> [chans[c] EXCEPT !.done = Less(@, n)]]
Complete(chans, n) ==
  [c \in Channels |-> IF chans[c].done > MIXER_BUFSIZE THEN Less(chans[c].done, n)
                      ELSE Less(since[c], n)]

\* Without sound the tick clears what it has mixed.
MIXER_Mix_NoSound ==
  /\ nosound /\ enabling = {} /\ needed <= Backlog
  /\ \E new \in MixedAll(needed) :
       /\ chan' = Reduced(new, needed)
       /\ work' = [c \in Channels |-> Cleared(Added(c, new[c].done), needed)]
       /\ since' = Complete(new, needed)
  /\ needed' \in 0 .. PerTick
  /\ done' = 0
  /\ UNCHANGED <<enabling, nosound>>

\* Mutant: a whole block is taken also when there is less.
Taken_whole == {blocksize}

\* The samples that the audio thread may take for a block. During capture and
\* fast forward it repeats some when few are left; when far too many wait it
\* plays them all at once.
Taken ==
  LET left == done - blocksize IN
  IF left < 0 THEN {done}
  ELSE IF done >= max_needed THEN {done - 2 * min_needed}
  ELSE {blocksize} \cup
         {blocksize - n : n \in {m \in 1 .. Repeats : left < min_needed}}

\* MIXER_CallBack. It returns at once when more is missing than it may stretch.
MIXER_CallBack ==
  /\ ~nosound
  /\ blocksize - done <= blocksize \div StretchPart
  /\ \E reduce \in Taken :
       /\ chan' = Reduced(chan, reduce)
       /\ work' = [c \in Channels |-> Cleared(work[c], reduce)]
       /\ since' = Complete(chan, reduce)
       /\ done' = done - reduce /\ needed' = needed - reduce
  /\ UNCHANGED <<enabling, nosound>>

Next ==
  \/ MIXER_Mix \/ MIXER_Mix_NoSound \/ MIXER_CallBack
  \/ \E c \in Channels : FillUp(c) \/ Enable(c) \/ Enabled(c) \/ Disable(c)

Spec == Init /\ [][Next]_vars

-----------------------------------------------------------------------------
(* Properties.                                                             *)

\* The counts that the code keeps in unsigned words never go below zero, and
\* no more is ready than was asked for.
TypeOK ==
  /\ done \in Nat /\ needed \in Nat /\ done <= needed
  /\ chan \in [Channels -> [enabled : BOOLEAN, done : Nat]]
  /\ enabling \subseteq Channels
  /\ work \in [Channels -> [Cell -> Nat]]
  /\ since \in [Channels -> Nat]
  /\ nosound \in BOOLEAN

\* What is ready to be played has the samples of every channel that is on, also
\* when a block was taken while the channel was being switched on.
NotBehind ==
  \A c \in Channels :
    chan[c].enabled /\ c \notin enabling => done <= chan[c].done

\* While a channel has not run round the ring, it has no sample in the cells
\* past its own last one, one in each cell since it was switched on, and never
\* two in one cell: nothing old is played again and nothing is left out, also
\* after the ring has overflowed and was played to its end.
RingExact ==
  \A c \in Channels : chan[c].done <= MIXER_BUFSIZE =>
    \A k \in Cell :
      /\ work[c][k] \in {0, 1}
      /\ k >= chan[c].done => work[c][k] = 0
      /\ k \in since[c] .. chan[c].done - 1 => work[c][k] = 1

=============================================================================

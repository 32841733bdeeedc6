---------------------------- MODULE MixerProofs ----------------------------
(***************************************************************************)
(* What Mixer keeps for any set of channels and all settings: the counts   *)
(* that are unsigned words in the code are natural numbers, and no channel *)
(* that is on falls behind what the audio thread may take; and each sample *)
(* is in the ring once (Row, of the cells of one channel).                 *)
(***************************************************************************)
EXTENDS Mixer, FiniteSetTheorems, TLAPS

\* Enable() waits for the lock in the emulator's thread: no other channel can
\* be switched on meanwhile.
OneAtATime == \A c, d \in enabling : c = d

IInv == TypeOK /\ NotBehind /\ OneAtATime

Channel == [enabled : BOOLEAN, done : Nat]

-----------------------------------------------------------------------------
(* The ring keeps its type.                                                *)

LEMMA LessIsNat ==
  ASSUME NEW m \in Nat, NEW n \in Nat
  PROVE  Less(m, n) \in Nat /\ (n <= m => Less(m, n) = m - n)
BY DEF Less, Larger

\* Adding samples only raises the counts of the cells.
LEMMA AddedType ==
  ASSUME TypeOK, NEW c \in Channels, NEW upto \in Nat
  PROVE  Added(c, upto) \in [Cell -> Nat]
<1>1. SUFFICES ASSUME NEW i \in Cell
      PROVE work[c][i] + Cardinality({k \in chan[c].done .. upto - 1 : k % MIXER_BUFSIZE = i}) \in Nat
  BY DEF Added
<1> DEFINE all == chan[c].done .. upto - 1
           some == {k \in all : k % MIXER_BUFSIZE = i}
<1>2. chan[c].done \in Int /\ work[c][i] \in Nat
  BY DEF TypeOK
<1>3. IsFiniteSet(all)
  BY <1>2, FS_Interval
<1>4. some \subseteq all
  OBVIOUS
<1> HIDE DEF all, some
<1>5. Cardinality(some) \in Nat
  BY <1>3, <1>4, FS_Subset, FS_CardinalityType
<1> QED
  BY <1>2, <1>5 DEF some, all

LEMMA CellWraps ==
  ASSUME NEW i \in Cell, NEW n \in Nat
  PROVE  (i + n) % MIXER_BUFSIZE \in Cell
BY MixerAssumption DEF Cell

LEMMA ClearedType ==
  ASSUME NEW w \in [Cell -> Nat], NEW n \in Nat
  PROVE  Cleared(w, n) \in [Cell -> Nat]
BY CellWraps DEF Cleared

-----------------------------------------------------------------------------
(* What a channel and all of them may look like after a step.              *)

\* A channel that was asked for samples and is still on has given them.
LEMMA MixedSound ==
  ASSUME TypeOK, NEW c \in Channels, NEW upto \in Nat, NEW new \in Mixed(c, upto)
  PROVE  /\ new \in Channel
         /\ new.enabled => chan[c].enabled /\ upto <= new.done /\ chan[c].done <= new.done
<1>1. chan[c] \in Channel
  BY DEF TypeOK, Channel
<1>2. CASE ~chan[c].enabled \/ upto <= chan[c].done
  <2>1. new = chan[c]
    BY <1>2 DEF Mixed
  <2> QED
    BY <1>1, <1>2, <2>1 DEF Channel
<1>3. CASE ~(~chan[c].enabled \/ upto <= chan[c].done)
  <2>1. chan[c].done \in Nat /\ chan[c].enabled /\ chan[c].done < upto /\ Extra \in Nat
    BY <1>1, <1>3, MixerAssumption DEF Channel
  <2>2. \/ new \in [enabled : {TRUE}, done : upto .. upto + Extra]
        \/ new \in [enabled : {FALSE}, done : chan[c].done .. upto + Extra]
    BY <1>3 DEF Mixed
  <2>3. CASE new \in [enabled : {TRUE}, done : upto .. upto + Extra]
    <3>1. PICK d \in upto .. upto + Extra : new = [enabled |-> TRUE, done |-> d]
      BY <2>3, Zenon
    <3>2. d \in Nat /\ upto <= d /\ chan[c].done <= d
      BY <2>1
    <3>3. new \in Channel /\ new.done = d
      BY <3>1, <3>2, Zenon DEF Channel
    <3> QED
      BY <2>1, <3>2, <3>3
  <2>4. CASE new \in [enabled : {FALSE}, done : chan[c].done .. upto + Extra]
    <3>1. PICK d \in chan[c].done .. upto + Extra : new = [enabled |-> FALSE, done |-> d]
      BY <2>4, Zenon
    <3>2. d \in Nat
      BY <2>1
    <3>3. new \in Channel /\ ~new.enabled
      BY <3>1, <3>2, Zenon DEF Channel
    <3> QED
      BY <3>3
  <2> QED
    BY <2>2, <2>3, <2>4
<1> QED
  BY <1>2, <1>3

LEMMA MixedAllSound ==
  ASSUME TypeOK, NEW upto \in Nat, NEW new \in MixedAll(upto)
  PROVE  /\ new \in [Channels -> Channel]
         /\ \A c \in Channels : new[c].enabled => chan[c].enabled /\ upto <= new[c].done
<1>1. new \in [Channels -> UNION {Mixed(c, upto) : c \in Channels}]
      /\ \A c \in Channels : new[c] \in Mixed(c, upto)
  BY DEF MixedAll
<1>2. \A c \in Channels : new[c] \in Channel
                         /\ (new[c].enabled => chan[c].enabled /\ upto <= new[c].done)
  BY <1>1, MixedSound
<1> QED
  BY <1>1, <1>2

LEMMA ReducedSound ==
  ASSUME NEW chans \in [Channels -> Channel], NEW n \in Nat
  PROVE  /\ Reduced(chans, n) \in [Channels -> Channel]
         /\ \A c \in Channels :
              /\ Reduced(chans, n)[c].enabled = chans[c].enabled
              /\ Reduced(chans, n)[c].done = Less(chans[c].done, n)
<1>1. \A c \in Channels : chans[c] \in Channel /\ Less(chans[c].done, n) \in Nat
  BY LessIsNat DEF Channel
<1> QED
  BY <1>1 DEF Reduced, Channel

LEMMA CompleteType ==
  ASSUME TypeOK, NEW chans \in [Channels -> Channel], NEW n \in Nat
  PROVE  Complete(chans, n) \in [Channels -> Nat]
<1>1. \A c \in Channels : Less(chans[c].done, n) \in Nat /\ Less(since[c], n) \in Nat
  BY LessIsNat DEF Channel, TypeOK
<1> QED
  BY <1>1 DEF Complete

\* A callback takes what there is, or less.
LEMMA TakenIsThere ==
  ASSUME TypeOK, NEW reduce \in Taken
  PROVE  reduce \in Nat /\ reduce <= done
<1>1. done \in Nat /\ blocksize \in Nat /\ min_needed \in Nat /\ Repeats \in Nat
      /\ Repeats <= blocksize
  BY MixerAssumption DEF TypeOK
<1>2. CASE done - blocksize < 0
  BY <1>1, <1>2 DEF Taken
<1>3. CASE ~(done - blocksize < 0) /\ done >= max_needed
  BY <1>1, <1>3 DEF Taken, max_needed
<1>4. CASE ~(done - blocksize < 0) /\ ~(done >= max_needed)
  BY <1>1, <1>4 DEF Taken
<1> QED
  BY <1>2, <1>3, <1>4

-----------------------------------------------------------------------------
(* The steps.                                                              *)

LEMMA InitSound == Init => IInv
<1> SUFFICES ASSUME Init PROVE IInv
  OBVIOUS
<1>1. TypeOK
  BY MixerAssumption DEF Init, TypeOK
<1>2. NotBehind
  BY DEF Init, NotBehind
<1> QED
  BY <1>1, <1>2 DEF Init, OneAtATime, IInv

\* The conjuncts of TypeOK and NotBehind, with the channels as records.
Counts == done \in Nat /\ needed \in Nat /\ done <= needed

LEMMA IInvFrom ==
  /\ Counts' /\ chan' \in [Channels -> Channel] /\ enabling' \subseteq Channels
  /\ work' \in [Channels -> [Cell -> Nat]] /\ since' \in [Channels -> Nat]
  /\ nosound' \in BOOLEAN
  /\ \A c \in Channels : chan'[c].enabled /\ c \notin enabling' => done' <= chan'[c].done
  /\ OneAtATime'
  => IInv'
BY DEF IInv, TypeOK, NotBehind, Counts, Channel, Cell

LEMMA TickSound == IInv /\ MIXER_Mix => IInv'
<1> SUFFICES ASSUME IInv, MIXER_Mix PROVE IInv'
  OBVIOUS
<1>1. TypeOK /\ NotBehind /\ OneAtATime
  BY DEF IInv
<1>2. PICK new \in MixedAll(needed) :
        chan' = new /\ work' = [c \in Channels |-> Added(c, new[c].done)]
  BY DEF MIXER_Mix
<1>3. PICK samples \in 0 .. PerTick : needed' = needed + samples
  BY DEF MIXER_Mix
<1>4. done' = needed /\ enabling' = enabling /\ since' = since /\ nosound' = nosound
  BY DEF MIXER_Mix
<1>5. needed \in Nat /\ PerTick \in Nat
  BY <1>1, MixerAssumption DEF TypeOK
<1>6. Counts'
  BY <1>3, <1>4, <1>5 DEF Counts
<1>7. /\ new \in [Channels -> Channel]
      /\ \A c \in Channels : new[c].enabled => needed <= new[c].done
  BY <1>1, <1>5, MixedAllSound
<1>8. \A c \in Channels : Added(c, new[c].done) \in [Cell -> Nat]
  BY <1>1, <1>7, AddedType DEF Channel
<1>9. work' \in [Channels -> [Cell -> Nat]]
  BY <1>2, <1>8
<1> QED
  BY <1>1, <1>2, <1>4, <1>6, <1>7, <1>9, IInvFrom DEF OneAtATime, TypeOK

LEMMA FillUpSound == \A c \in Channels : IInv /\ FillUp(c) => IInv'
<1> SUFFICES ASSUME NEW c \in Channels, IInv, FillUp(c) PROVE IInv'
  OBVIOUS
<1>1. TypeOK /\ NotBehind /\ OneAtATime
  BY DEF IInv
<1>2. PICK upto \in 0 .. needed : \E new \in Mixed(c, upto) :
        /\ chan' = [chan EXCEPT ![c] = new]
        /\ work' = [work EXCEPT ![c] = Added(c, new.done)]
  BY DEF FillUp
<1>3. PICK new \in Mixed(c, upto) :
        /\ chan' = [chan EXCEPT ![c] = new]
        /\ work' = [work EXCEPT ![c] = Added(c, new.done)]
  BY <1>2
<1>4. /\ chan[c].done >= done /\ enabling = {}
      /\ done' = done /\ needed' = needed /\ enabling' = enabling /\ since' = since
      /\ nosound' = nosound
  BY DEF FillUp
<1>5. Counts /\ upto \in Nat /\ chan \in [Channels -> Channel]
  BY <1>1 DEF TypeOK, Counts, Channel
<1>6. new \in Channel /\ (new.enabled => chan[c].done <= new.done)
  BY <1>1, <1>5, MixedSound
<1>7. Added(c, new.done) \in [Cell -> Nat]
  BY <1>1, <1>6, AddedType DEF Channel
<1>8. work' \in [Channels -> [Cell -> Nat]] /\ chan' \in [Channels -> Channel]
  BY <1>1, <1>3, <1>5, <1>6, <1>7 DEF TypeOK
<1>9. ASSUME NEW d \in Channels, chan'[d].enabled, d \notin enabling'
      PROVE  done' <= chan'[d].done
  <2>1. CASE d = c
    <3>1. chan'[d] = new
      BY <1>3, <1>5, <2>1
    <3>2. chan[c].done \in Nat /\ new.done \in Nat /\ done \in Nat
      BY <1>5, <1>6 DEF Channel, Counts
    <3> QED
      BY <1>4, <1>6, <1>9, <3>1, <3>2
  <2>2. CASE d # c
    BY <1>1, <1>3, <1>4, <1>5, <1>9, <2>2 DEF NotBehind
  <2> QED
    BY <2>1, <2>2
<1> QED
  BY <1>1, <1>4, <1>5, <1>8, <1>9, IInvFrom DEF OneAtATime, TypeOK, Counts

LEMMA EnableSound == \A c \in Channels : IInv /\ Enable(c) => IInv'
<1> SUFFICES ASSUME NEW c \in Channels, IInv, Enable(c) PROVE IInv'
  OBVIOUS
<1>1. TypeOK /\ NotBehind /\ OneAtATime
  BY DEF IInv
<1>2. /\ chan' = [chan EXCEPT ![c].enabled = TRUE] /\ enabling' = {c} /\ enabling = {}
      /\ done' = done /\ needed' = needed /\ work' = work /\ since' = since
      /\ nosound' = nosound
  BY DEF Enable
<1>3. Counts /\ chan \in [Channels -> Channel]
  BY <1>1 DEF TypeOK, Counts, Channel
<1>4. [chan[c] EXCEPT !.enabled = TRUE] \in Channel
  BY <1>3 DEF Channel
<1>5. chan' \in [Channels -> Channel]
  BY <1>2, <1>3, <1>4
<1>6. ASSUME NEW d \in Channels, chan'[d].enabled, d \notin enabling'
      PROVE  done' <= chan'[d].done
  BY <1>1, <1>2, <1>3, <1>6 DEF NotBehind
<1> QED
  BY <1>1, <1>2, <1>3, <1>5, <1>6, IInvFrom DEF OneAtATime, TypeOK, Counts

LEMMA EnabledSound == \A c \in Channels : IInv /\ Enabled(c) => IInv'
<1> SUFFICES ASSUME NEW c \in Channels, IInv, Enabled(c) PROVE IInv'
  OBVIOUS
<1>1. TypeOK /\ NotBehind /\ OneAtATime
  BY DEF IInv
<1>2. /\ chan' = [chan EXCEPT ![c].done = Larger(chan[c].done, done)] /\ enabling' = {}
      /\ since' = [since EXCEPT ![c] = IF chan[c].done < done THEN done ELSE since[c]]
      /\ c \in enabling
      /\ done' = done /\ needed' = needed /\ work' = work /\ nosound' = nosound
  BY DEF Enabled
<1>3. Counts /\ chan \in [Channels -> Channel] /\ since \in [Channels -> Nat]
  BY <1>1 DEF TypeOK, Counts, Channel
<1>4. chan[c] \in Channel /\ chan[c].done \in Nat /\ done \in Nat
  BY <1>3 DEF Channel, Counts
<1>5. Larger(chan[c].done, done) \in Nat /\ done <= Larger(chan[c].done, done)
  BY <1>4 DEF Larger
<1>6. [chan[c] EXCEPT !.done = Larger(chan[c].done, done)] \in Channel
  BY <1>4, <1>5, Zenon DEF Channel
<1>7. chan' \in [Channels -> Channel] /\ since' \in [Channels -> Nat]
  BY <1>2, <1>3, <1>4, <1>6
<1>8. chan'[c].done = Larger(chan[c].done, done)
  BY <1>2, <1>3, <1>4 DEF Channel
<1>9. ASSUME NEW d \in Channels, chan'[d].enabled
      PROVE  done' <= chan'[d].done
  <2>1. CASE d = c
    BY <1>2, <1>5, <1>8, <2>1
  <2>2. CASE d # c
    <3>1. d \notin enabling
      BY <1>1, <1>2, <2>2 DEF OneAtATime
    <3>2. chan'[d] = chan[d]
      BY <1>2, <1>3, <2>2
    <3> QED
      BY <1>1, <1>2, <1>9, <3>1, <3>2 DEF NotBehind
  <2> QED
    BY <2>1, <2>2
<1> QED
  BY <1>1, <1>2, <1>3, <1>7, <1>9, IInvFrom DEF OneAtATime, TypeOK, Counts

LEMMA DisableSound == \A c \in Channels : IInv /\ Disable(c) => IInv'
<1> SUFFICES ASSUME NEW c \in Channels, IInv, Disable(c) PROVE IInv'
  OBVIOUS
<1>1. TypeOK /\ NotBehind /\ OneAtATime
  BY DEF IInv
<1>2. /\ chan' = [chan EXCEPT ![c].enabled = FALSE]
      /\ enabling' = enabling /\ done' = done /\ needed' = needed /\ work' = work
      /\ since' = since /\ nosound' = nosound
  BY DEF Disable
<1>3. Counts /\ chan \in [Channels -> Channel]
  BY <1>1 DEF TypeOK, Counts, Channel
<1>4. [chan[c] EXCEPT !.enabled = FALSE] \in Channel
  BY <1>3 DEF Channel
<1>5. chan' \in [Channels -> Channel]
  BY <1>2, <1>3, <1>4
<1>6. ~chan'[c].enabled /\ \A d \in Channels : d # c => chan'[d] = chan[d]
  BY <1>2, <1>3 DEF Channel
<1>7. ASSUME NEW d \in Channels, chan'[d].enabled, d \notin enabling'
      PROVE  done' <= chan'[d].done
  BY <1>1, <1>2, <1>6, <1>7 DEF NotBehind
<1> QED
  BY <1>1, <1>2, <1>3, <1>5, <1>7, IInvFrom DEF OneAtATime, TypeOK, Counts

LEMMA NoSoundSound == IInv /\ MIXER_Mix_NoSound => IInv'
<1> SUFFICES ASSUME IInv, MIXER_Mix_NoSound PROVE IInv'
  OBVIOUS
<1>1. TypeOK /\ OneAtATime
  BY DEF IInv
<1>2. PICK new \in MixedAll(needed) :
        /\ chan' = Reduced(new, needed)
        /\ work' = [c \in Channels |-> Cleared(Added(c, new[c].done), needed)]
        /\ since' = Complete(new, needed)
  BY DEF MIXER_Mix_NoSound
<1>3. /\ done' = 0 /\ needed' \in 0 .. PerTick /\ enabling' = enabling /\ nosound' = nosound
  BY DEF MIXER_Mix_NoSound
<1>4. needed \in Nat /\ PerTick \in Nat
  BY <1>1, MixerAssumption DEF TypeOK
<1>5. Counts'
  BY <1>3, <1>4 DEF Counts
<1>6. new \in [Channels -> Channel]
  BY <1>1, <1>4, MixedAllSound
<1>7. \A c \in Channels : Added(c, new[c].done) \in [Cell -> Nat]
  BY <1>1, <1>6, AddedType DEF Channel
<1>8. work' \in [Channels -> [Cell -> Nat]]
  BY <1>2, <1>4, <1>7, ClearedType
<1>9. chan' \in [Channels -> Channel] /\ since' \in [Channels -> Nat]
  BY <1>1, <1>2, <1>4, <1>6, ReducedSound, CompleteType
<1>10. \A c \in Channels : done' <= chan'[c].done
  BY <1>3, <1>9 DEF Channel
<1> QED
  BY <1>1, <1>3, <1>5, <1>8, <1>9, <1>10, IInvFrom DEF OneAtATime, TypeOK

\* What is taken from the ring is taken from every channel: the one that is
\* being switched on may come down to nothing, the others keep their lead.
LEMMA CallBackSound == IInv /\ MIXER_CallBack => IInv'
<1> SUFFICES ASSUME IInv, MIXER_CallBack PROVE IInv'
  OBVIOUS
<1>1. TypeOK /\ NotBehind /\ OneAtATime
  BY DEF IInv
<1>2. PICK reduce \in Taken :
        /\ chan' = Reduced(chan, reduce)
        /\ work' = [c \in Channels |-> Cleared(work[c], reduce)]
        /\ since' = Complete(chan, reduce)
        /\ done' = done - reduce /\ needed' = needed - reduce
  BY DEF MIXER_CallBack
<1>3. enabling' = enabling /\ nosound' = nosound
  BY DEF MIXER_CallBack
<1>4. reduce \in Nat /\ reduce <= done
  BY <1>1, TakenIsThere
<1>5. Counts /\ chan \in [Channels -> Channel] /\ \A c \in Channels : work[c] \in [Cell -> Nat]
  BY <1>1 DEF TypeOK, Counts, Channel
<1>6. Counts'
  BY <1>2, <1>4, <1>5 DEF Counts
<1>7. work' \in [Channels -> [Cell -> Nat]]
  BY <1>2, <1>4, <1>5, ClearedType
<1>8. chan' \in [Channels -> Channel] /\ since' \in [Channels -> Nat]
  BY <1>1, <1>2, <1>4, <1>5, ReducedSound, CompleteType
<1>9. ASSUME NEW c \in Channels, chan'[c].enabled, c \notin enabling'
      PROVE  done' <= chan'[c].done
  <2>1. chan[c].enabled /\ chan'[c].done = Less(chan[c].done, reduce)
    BY <1>2, <1>4, <1>5, <1>9, ReducedSound
  <2>2. done <= chan[c].done
    BY <1>1, <1>3, <1>9, <2>1 DEF NotBehind
  <2>3. chan[c].done \in Nat /\ done \in Nat
    BY <1>5 DEF Channel, Counts
  <2>4. Less(chan[c].done, reduce) = chan[c].done - reduce
    <3>1. reduce <= chan[c].done
      BY <1>4, <2>2, <2>3
    <3> QED
      BY <1>4, <2>3, <3>1, LessIsNat
  <2> QED
    BY <1>2, <1>4, <2>1, <2>2, <2>3, <2>4
<1> QED
  BY <1>1, <1>3, <1>6, <1>7, <1>8, <1>9, IInvFrom DEF OneAtATime, TypeOK

LEMMA NextSound == IInv /\ [Next]_vars => IInv'
<1> SUFFICES ASSUME IInv, [Next]_vars PROVE IInv'
  OBVIOUS
<1>1. CASE MIXER_Mix
  BY <1>1, TickSound
<1>2. CASE MIXER_Mix_NoSound
  BY <1>2, NoSoundSound
<1>3. CASE MIXER_CallBack
  BY <1>3, CallBackSound
<1>4. CASE \E c \in Channels : FillUp(c)
  BY <1>4, FillUpSound
<1>5. CASE \E c \in Channels : Enable(c)
  BY <1>5, EnableSound
<1>6. CASE \E c \in Channels : Enabled(c)
  BY <1>6, EnabledSound
<1>7. CASE \E c \in Channels : Disable(c)
  BY <1>7, DisableSound
<1>8. CASE UNCHANGED vars
  BY <1>8 DEF vars, IInv, TypeOK, NotBehind, OneAtATime
<1> QED
  BY <1>1, <1>2, <1>3, <1>4, <1>5, <1>6, <1>7, <1>8 DEF Next

LEMMA Invariant == Spec => []IInv
BY InitSound, NextSound, PTL DEF Spec

\* The unsigned counts of the mixer never go below zero, and never more is
\* ready than was asked for, for any set of channels and all settings.
THEOREM TypeCorrect == Spec => []TypeOK
<1>1. IInv => TypeOK
  BY DEF IInv
<1> QED
  BY <1>1, Invariant, PTL

\* Whatever block the audio thread takes, every channel that is on has given
\* its samples for all that is ready, also when the thread ran while Enable()
\* waited for the lock.
THEOREM ChannelsKeepUp == Spec => []NotBehind
<1>1. IInv => NotBehind
  BY DEF IInv
<1> QED
  BY <1>1, Invariant, PTL

-----------------------------------------------------------------------------
(* The cells of one channel, with d samples done and complete from s: empty *)
(* past the last sample, at most one sample in a cell that the channel has  *)
(* not come to a second time, and one in each cell from s while it has not  *)
(* run round the ring.                                                      *)

Row(w, d, s) ==
  \A k \in Cell :
    /\ k >= d => w[k] = 0
    /\ k + MIXER_BUFSIZE >= d => w[k] <= 1
    /\ d <= MIXER_BUFSIZE /\ k >= s /\ k < d => w[k] = 1

Rows == \A c \in Channels : Row(work[c], chan[c].done, since[c])

Wrapped(j) == j % MIXER_BUFSIZE

LEMMA WrapsOnce ==
  ASSUME NEW j \in Nat, j < 2 * MIXER_BUFSIZE
  PROVE  Wrapped(j) = IF j < MIXER_BUFSIZE THEN j ELSE j - MIXER_BUFSIZE
<1>1. j < MIXER_BUFSIZE => j % MIXER_BUFSIZE = j
  BY MixerAssumption
<1>2. j >= MIXER_BUFSIZE => j % MIXER_BUFSIZE = j - MIXER_BUFSIZE
  BY MixerAssumption
<1> QED
  BY <1>1, <1>2, MixerAssumption DEF Wrapped

\* The samples from d up to u that fall into cell k.
Falling(d, u, k) == {j \in d .. u - 1 : Wrapped(j) = k}

LEMMA FallOnce ==
  ASSUME NEW d \in Nat, NEW u \in Nat, NEW k \in Cell, u <= k + MIXER_BUFSIZE
  PROVE  Cardinality(Falling(d, u, k)) = IF k >= d /\ k < u THEN 1 ELSE 0
<1>1. k \in Nat /\ k < MIXER_BUFSIZE /\ MIXER_BUFSIZE \in Nat
  BY MixerAssumption DEF Cell
<1>2. ASSUME NEW j \in d .. u - 1
      PROVE  Wrapped(j) = k <=> j = k
  <2>1. j \in Nat /\ j < 2 * MIXER_BUFSIZE
    BY <1>1
  <2>2. Wrapped(j) = IF j < MIXER_BUFSIZE THEN j ELSE j - MIXER_BUFSIZE
    BY <2>1, WrapsOnce
  <2> QED
    BY <1>1, <2>1, <2>2
<1>3. CASE k >= d /\ k < u
  <2>1. Falling(d, u, k) = {k}
    BY <1>1, <1>2, <1>3 DEF Falling
  <2> QED
    BY <1>3, <2>1, FS_Singleton
<1>4. CASE ~(k >= d /\ k < u)
  <2>1. Falling(d, u, k) = {}
    BY <1>1, <1>2, <1>4 DEF Falling
  <2> QED
    BY <1>4, <2>1, FS_EmptySet
<1> QED
  BY <1>3, <1>4

LEMMA AddedRow ==
  ASSUME TypeOK, NEW c \in Channels, NEW u \in Nat, chan[c].done <= u, NEW s \in Nat,
         Row(work[c], chan[c].done, s)
  PROVE  Row(Added(c, u), u, s)
<1> DEFINE d == chan[c].done
           w == work[c]
<1>1. d \in Nat /\ w \in [Cell -> Nat] /\ MIXER_BUFSIZE \in Nat
  BY MixerAssumption DEF TypeOK
<1>2. SUFFICES ASSUME NEW k \in Cell
      PROVE  /\ k >= u => Added(c, u)[k] = 0
             /\ k + MIXER_BUFSIZE >= u => Added(c, u)[k] <= 1
             /\ u <= MIXER_BUFSIZE /\ k >= s /\ k < u => Added(c, u)[k] = 1
  BY DEF Row
<1>3. Added(c, u)[k] = w[k] + Cardinality(Falling(d, u, k))
  BY DEF Added, Falling, Wrapped
<1>4. /\ k >= d => w[k] = 0
      /\ k + MIXER_BUFSIZE >= d => w[k] <= 1
      /\ d <= MIXER_BUFSIZE /\ k >= s /\ k < d => w[k] = 1
  BY DEF Row
<1>5. w[k] \in Nat /\ k \in Nat /\ k < MIXER_BUFSIZE /\ d <= u
  BY <1>1 DEF Cell
<1> HIDE DEF d, w
<1>6. k + MIXER_BUFSIZE >= u
      => Cardinality(Falling(d, u, k)) = IF k >= d /\ k < u THEN 1 ELSE 0
  BY <1>1, <1>5, FallOnce
<1>7. k + MIXER_BUFSIZE >= u => Added(c, u)[k] = w[k] + IF k >= d /\ k < u THEN 1 ELSE 0
  BY <1>3, <1>6
<1> QED
  BY <1>1, <1>4, <1>5, <1>7

LEMMA ClearedRow ==
  ASSUME NEW w \in [Cell -> Nat], NEW d \in Nat, NEW s \in Nat, NEW n \in Nat, Row(w, d, s)
  PROVE  Row(Cleared(w, n), Less(d, n),
             IF d > MIXER_BUFSIZE THEN Less(d, n) ELSE Less(s, n))
<1> DEFINE e == Less(d, n)
           t == IF d > MIXER_BUFSIZE THEN Less(d, n) ELSE Less(s, n)
<1>0. MIXER_BUFSIZE \in Nat
  BY MixerAssumption
<1>1. e = (IF n <= d THEN d - n ELSE 0) /\ e \in Nat
  BY DEF Less, Larger
<1>2. t = (IF d > MIXER_BUFSIZE THEN e ELSE IF n <= s THEN s - n ELSE 0) /\ t \in Nat
  BY <1>1 DEF Less, Larger
<1> HIDE DEF e, t
<1>3. ASSUME NEW k \in Cell
      PROVE  /\ k >= e => Cleared(w, n)[k] = 0
             /\ k + MIXER_BUFSIZE >= e => Cleared(w, n)[k] <= 1
             /\ e <= MIXER_BUFSIZE /\ k >= t /\ k < e => Cleared(w, n)[k] = 1
  <2>1. k \in Nat /\ k < MIXER_BUFSIZE
    BY <1>0 DEF Cell
  <2>2. Cleared(w, n)[k] = IF Wrapped(k + n) < n THEN 0 ELSE w[Wrapped(k + n)]
    BY DEF Cleared, Wrapped
  <2>3. Wrapped(k + n) \in 0 .. MIXER_BUFSIZE - 1
    BY CellWraps DEF Cell, Wrapped
  <2>4. CASE k + n < MIXER_BUFSIZE
    <3>1. Wrapped(k + n) = k + n /\ k + n \in Nat
      BY <1>0, <2>1, <2>4, WrapsOnce
    <3>2. Cleared(w, n)[k] = w[k + n] /\ k + n \in Cell
      BY <1>0, <2>1, <2>2, <2>4, <3>1 DEF Cell
    <3>3. /\ k + n >= d => w[k + n] = 0
          /\ (k + n) + MIXER_BUFSIZE >= d => w[k + n] <= 1
          /\ d <= MIXER_BUFSIZE /\ k + n >= s /\ k + n < d => w[k + n] = 1
      BY <3>2 DEF Row
    <3> QED
      BY <1>0, <1>1, <1>2, <2>1, <2>4, <3>2, <3>3
  <2>5. CASE k + n >= MIXER_BUFSIZE
    <3>1. Wrapped(k + n) < n
      <4>1. CASE n < MIXER_BUFSIZE
        <5>1. k + n < 2 * MIXER_BUFSIZE /\ k + n \in Nat
          BY <1>0, <2>1, <4>1
        <5>2. Wrapped(k + n) = k + n - MIXER_BUFSIZE
          BY <1>0, <2>1, <2>5, <5>1, WrapsOnce
        <5> QED
          BY <1>0, <2>1, <5>2
      <4>2. CASE n >= MIXER_BUFSIZE
        BY <1>0, <2>3, <4>2
      <4> QED
        BY <1>0, <4>1, <4>2
    <3>2. Cleared(w, n)[k] = 0
      BY <2>2, <3>1
    <3>3. e <= MIXER_BUFSIZE /\ k < e => ~(k >= t)
      BY <1>0, <1>1, <1>2, <2>1, <2>5
    <3> QED
      BY <3>2, <3>3
  <2> QED
    BY <1>0, <2>1, <2>4, <2>5
<1>4. Row(Cleared(w, n), e, t)
  BY <1>3 DEF Row
<1> QED
  BY <1>4 DEF e, t

LEMMA MixedGrows ==
  ASSUME TypeOK, NEW c \in Channels, NEW upto \in Nat, NEW new \in Mixed(c, upto)
  PROVE  new.done \in Nat /\ chan[c].done <= new.done
<1>1. chan[c].done \in Nat /\ Extra \in Nat
  BY MixerAssumption DEF TypeOK
<1>2. CASE ~chan[c].enabled \/ upto <= chan[c].done
  <2>1. new = chan[c]
    BY <1>2 DEF Mixed
  <2> QED
    BY <1>1, <2>1
<1>3. CASE ~(~chan[c].enabled \/ upto <= chan[c].done)
  <2>1. \/ new \in [enabled : {TRUE}, done : upto .. upto + Extra]
        \/ new \in [enabled : {FALSE}, done : chan[c].done .. upto + Extra]
    BY <1>3 DEF Mixed
  <2>2. chan[c].done < upto
    BY <1>1, <1>3
  <2>3. new.done \in chan[c].done .. upto + Extra
    <3>1. upto .. upto + Extra \subseteq chan[c].done .. upto + Extra
      BY <1>1, <2>2
    <3> QED
      BY <2>1, <3>1
  <2> QED
    BY <1>1, <2>3
<1> QED
  BY <1>2, <1>3

LEMMA RowsInit == Init => Rows
BY MixerAssumption DEF Init, Rows, Row, Cell

\* All channels at once, as a tick mixes them.
LEMMA MixedRows ==
  ASSUME TypeOK, Rows, NEW upto \in Nat, NEW new \in MixedAll(upto), NEW c \in Channels
  PROVE  Row(Added(c, new[c].done), new[c].done, since[c]) /\ new[c].done \in Nat
<1>1. new[c] \in Mixed(c, upto)
  BY DEF MixedAll
<1>2. new[c].done \in Nat /\ chan[c].done <= new[c].done
  BY <1>1, MixedGrows
<1>3. Row(work[c], chan[c].done, since[c]) /\ since[c] \in Nat
  BY DEF Rows, TypeOK
<1> QED
  BY <1>2, <1>3, AddedRow

LEMMA RowsTick ==
  ASSUME TypeOK, Rows, MIXER_Mix
  PROVE  Rows'
<1>1. PICK new \in MixedAll(needed) :
        chan' = new /\ work' = [c \in Channels |-> Added(c, new[c].done)]
  BY DEF MIXER_Mix
<1>2. since' = since /\ needed \in Nat
  BY DEF MIXER_Mix, TypeOK
<1>3. ASSUME NEW c \in Channels
      PROVE  Row(work'[c], chan'[c].done, since'[c])
  <2>1. Row(Added(c, new[c].done), new[c].done, since[c])
    BY <1>2, MixedRows
  <2>2. work'[c] = Added(c, new[c].done) /\ chan'[c] = new[c] /\ since'[c] = since[c]
    BY <1>1, <1>2
  <2> QED
    BY <2>1, <2>2
<1> QED
  BY <1>3 DEF Rows, Row, Cell

LEMMA RowsFillUp ==
  ASSUME TypeOK, Rows, NEW c \in Channels, FillUp(c)
  PROVE  Rows'
<1>1. PICK upto \in 0 .. needed : \E new \in Mixed(c, upto) :
        /\ chan' = [chan EXCEPT ![c] = new]
        /\ work' = [work EXCEPT ![c] = Added(c, new.done)]
  BY DEF FillUp
<1>2. PICK new \in Mixed(c, upto) :
        /\ chan' = [chan EXCEPT ![c] = new]
        /\ work' = [work EXCEPT ![c] = Added(c, new.done)]
  BY <1>1
<1>3. since' = since /\ upto \in Nat
  BY DEF FillUp, TypeOK
<1>4. new.done \in Nat /\ chan[c].done <= new.done
  BY <1>3, MixedGrows
<1>5. ASSUME NEW e \in Channels
      PROVE  Row(work'[e], chan'[e].done, since'[e])
  <2>0. Row(work[e], chan[e].done, since[e]) /\ since[e] \in Nat
    BY DEF Rows, TypeOK
  <2>1. CASE e = c
    <3>1. Row(Added(c, new.done), new.done, since[c])
      BY <1>4, <2>0, <2>1, AddedRow
    <3>2. work'[c] = Added(c, new.done) /\ chan'[c] = new
      BY <1>2 DEF TypeOK
    <3> QED
      BY <1>3, <2>1, <3>1, <3>2
  <2>2. CASE e # c
    <3>1. work'[e] = work[e] /\ chan'[e] = chan[e]
      BY <1>2, <2>2 DEF TypeOK
    <3> QED
      BY <1>3, <2>0, <3>1
  <2> QED
    BY <2>1, <2>2
<1> QED
  BY <1>5 DEF Rows, Row, Cell

\* Switching a channel on or off adds no sample; one that is switched on
\* counts as done what the others have done.
LEMMA RowsSwitch ==
  ASSUME TypeOK, Rows, NEW c \in Channels, Enable(c) \/ Enabled(c) \/ Disable(c)
  PROVE  Rows'
<1>1. work' = work /\ done \in Nat
  BY DEF Enable, Enabled, Disable, TypeOK
<1>2. ASSUME NEW e \in Channels
      PROVE  Row(work'[e], chan'[e].done, since'[e])
  <2>1. Row(work[e], chan[e].done, since[e]) /\ since[e] \in Nat /\ chan[e].done \in Nat
    BY DEF Rows, TypeOK
  <2>2. \/ chan'[e].done = chan[e].done /\ since'[e] = since[e]
        \/ chan[e].done <= chan'[e].done /\ since'[e] = chan'[e].done /\ chan'[e].done \in Nat
    <3>1. CASE Enable(c) \/ Disable(c)
      <4>1. PICK on \in BOOLEAN : chan' = [chan EXCEPT ![c].enabled = on]
        BY <3>1 DEF Enable, Disable
      <4>2. chan'[e].done = chan[e].done
        BY <4>1 DEF TypeOK
      <4> QED
        BY <3>1, <4>2 DEF Enable, Disable
    <3>2. CASE Enabled(c)
      <4>1. CASE e = c
        <5>1. chan'[c].done = Larger(chan[c].done, done)
              /\ since'[c] = IF chan[c].done < done THEN done ELSE since[c]
          BY <3>2 DEF Enabled, TypeOK
        <5> QED
          BY <1>1, <2>1, <4>1, <5>1 DEF Larger
      <4>2. CASE e # c
        BY <3>2, <4>2 DEF Enabled, TypeOK
      <4> QED
        BY <4>1, <4>2
    <3> QED
      BY <3>1, <3>2
  <2>3. CASE chan'[e].done = chan[e].done /\ since'[e] = since[e]
    BY <1>1, <2>1, <2>3
  <2>4. CASE /\ chan[e].done <= chan'[e].done /\ since'[e] = chan'[e].done
             /\ chan'[e].done \in Nat
    <3>1. Row(work[e], chan'[e].done, since'[e])
      BY <2>1, <2>4, MixerAssumption DEF Row, Cell
    <3> QED
      BY <1>1, <3>1
  <2> QED
    BY <2>2, <2>3, <2>4
<1> QED
  BY <1>2 DEF Rows, Row, Cell

LEMMA RowsTaken ==
  ASSUME TypeOK, NEW chans \in [Channels -> Channel], NEW n \in Nat, NEW c \in Channels,
         NEW w \in [Cell -> Nat], Row(w, chans[c].done, since[c])
  PROVE  Row(Cleared(w, n), Reduced(chans, n)[c].done, Complete(chans, n)[c])
<1>1. chans[c].done \in Nat /\ since[c] \in Nat
  BY DEF TypeOK, Channel
<1>2. Reduced(chans, n)[c].done = Less(chans[c].done, n)
  BY ReducedSound
<1>3. Complete(chans, n)[c] = IF chans[c].done > MIXER_BUFSIZE THEN Less(chans[c].done, n)
                              ELSE Less(since[c], n)
  BY DEF Complete
<1> QED
  BY <1>1, <1>2, <1>3, ClearedRow

LEMMA RowsNoSound ==
  ASSUME TypeOK, Rows, MIXER_Mix_NoSound
  PROVE  Rows'
<1>1. PICK new \in MixedAll(needed) :
        /\ chan' = Reduced(new, needed)
        /\ work' = [c \in Channels |-> Cleared(Added(c, new[c].done), needed)]
        /\ since' = Complete(new, needed)
  BY DEF MIXER_Mix_NoSound
<1>2. needed \in Nat
  BY DEF TypeOK
<1>3. new \in [Channels -> Channel]
  BY <1>2, MixedAllSound
<1>4. ASSUME NEW c \in Channels
      PROVE  Row(work'[c], chan'[c].done, since'[c])
  <2>1. Row(Added(c, new[c].done), new[c].done, since[c]) /\ new[c].done \in Nat
    BY <1>2, MixedRows
  <2>2. Added(c, new[c].done) \in [Cell -> Nat]
    BY <2>1, AddedType
  <2>3. Row(Cleared(Added(c, new[c].done), needed), Reduced(new, needed)[c].done,
            Complete(new, needed)[c])
    BY <1>2, <1>3, <2>1, <2>2, RowsTaken
  <2>4. work'[c] = Cleared(Added(c, new[c].done), needed)
    BY <1>1
  <2> QED
    BY <1>1, <2>3, <2>4
<1> QED
  BY <1>4 DEF Rows, Row, Cell

LEMMA RowsCallBack ==
  ASSUME TypeOK, Rows, MIXER_CallBack
  PROVE  Rows'
<1>1. PICK reduce \in Taken :
        /\ chan' = Reduced(chan, reduce)
        /\ work' = [c \in Channels |-> Cleared(work[c], reduce)]
        /\ since' = Complete(chan, reduce)
  BY DEF MIXER_CallBack
<1>2. reduce \in Nat /\ chan \in [Channels -> Channel]
  BY TakenIsThere DEF TypeOK, Channel
<1>3. ASSUME NEW c \in Channels
      PROVE  Row(work'[c], chan'[c].done, since'[c])
  <2>1. Row(work[c], chan[c].done, since[c]) /\ work[c] \in [Cell -> Nat]
    BY DEF Rows, TypeOK
  <2>2. Row(Cleared(work[c], reduce), Reduced(chan, reduce)[c].done,
            Complete(chan, reduce)[c])
    BY <1>2, <2>1, RowsTaken
  <2>3. work'[c] = Cleared(work[c], reduce)
    BY <1>1
  <2> QED
    BY <1>1, <2>2, <2>3
<1> QED
  BY <1>3 DEF Rows, Row, Cell

LEMMA RowsKept == TypeOK /\ Rows /\ [Next]_vars => Rows'
<1> SUFFICES ASSUME TypeOK, Rows, [Next]_vars
             PROVE  Rows'
  OBVIOUS
<1>1. CASE UNCHANGED vars
  BY <1>1 DEF vars, Rows, Row, Cell
<1>2. CASE \E c \in Channels : FillUp(c) \/ Enable(c) \/ Enabled(c) \/ Disable(c)
  BY <1>2, RowsFillUp, RowsSwitch
<1> QED
  BY <1>1, <1>2, RowsTick, RowsNoSound, RowsCallBack DEF Next

\* Nothing old is played again and nothing is left out, while a channel has not
\* run round the ring or after what ran round has been played: whatever the
\* channels give, the audio thread takes and the settings are.
THEOREM RingIsExact == Spec => []RingExact
<1>1. TypeOK /\ Rows => RingExact
  <2> SUFFICES ASSUME TypeOK, Rows, NEW c \in Channels, chan[c].done <= MIXER_BUFSIZE,
                      NEW k \in Cell
               PROVE  /\ work[c][k] \in {0, 1}
                      /\ k >= chan[c].done => work[c][k] = 0
                      /\ k \in since[c] .. chan[c].done - 1 => work[c][k] = 1
    BY DEF RingExact
  <2>1. /\ k >= chan[c].done => work[c][k] = 0
        /\ k + MIXER_BUFSIZE >= chan[c].done => work[c][k] <= 1
        /\ chan[c].done <= MIXER_BUFSIZE /\ k >= since[c] /\ k < chan[c].done
             => work[c][k] = 1
    BY DEF Rows, Row
  <2>2. work[c][k] \in Nat /\ chan[c].done \in Nat /\ since[c] \in Nat /\ k \in Nat
    <3>1. work[c] \in [Cell -> Nat]
      BY DEF TypeOK
    <3>2. work[c][k] \in Nat
      BY <3>1
    <3>3. k \in Nat
      BY DEF Cell
    <3> QED
      BY <3>2, <3>3 DEF TypeOK
  <2> QED
    BY <2>1, <2>2, MixerAssumption
<1>2. Spec => []TypeOK
  BY TypeCorrect
<1> QED
  BY <1>1, <1>2, RowsInit, RowsKept, PTL DEF Spec

=============================================================================

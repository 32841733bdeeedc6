---------------------------- MODULE FatDrive ----------------------------
(***************************************************************************)
(* A mounted FAT image: the allocation table, the sectors, the root        *)
(* directory and the files open on it (drive_fat.cpp). A handle keeps its  *)
(* own copy of the length, of the first cluster and of one sector.         *)
(*                                                                         *)
(* A cluster is one sector. A call for n bytes leaves what some n or fewer *)
(* calls for one byte leave, so reads and writes move one byte, or none.   *)
(* What the bytes are is left out, and subdirectories, times and           *)
(* attributes.                                                             *)
(***************************************************************************)
EXTENDS Integers, Sequences, FiniteSets, FiniteSetsExt

CONSTANTS
  CountOfClusters,  \* clusters of the data area
  SectorSize,       \* bytes of a sector, 512 in the code
  RootEntries,      \* entries of the root directory
  Names,            \* names files can have
  Handles,          \* places for open files
  Modes,            \* whether programs open files to write, TRUE, or only to read
  MaxLength,        \* bound on the length of a file
  Image             \* the files on the image at first, name -> length

\* What FAT12 and FAT16 can have at most; the marks of ends are higher.
MaxClusters == 65524

\* The first byte of an entry in use is neither mark of the directory. The
\* image has one file at most, and room for it.
ASSUME FatAssumption ==
  /\ CountOfClusters \in 1 .. MaxClusters /\ SectorSize \in Nat \ {0}
  /\ RootEntries \in Nat \ {0} /\ MaxLength \in Nat
  /\ Modes \subseteq BOOLEAN
  /\ Names \cap {"erased", "end", "closed"} = {}
  /\ DOMAIN Image \subseteq Names /\ \A m, n \in DOMAIN Image : m = n
  /\ \A n \in DOMAIN Image :
       Image[n] \in 0 .. MaxLength /\ Image[n] <= CountOfClusters * SectorSize

VARIABLES
  fat,      \* cluster -> the next one, Eof, or 0 when it is free
  root,     \* the root directory
  handles,  \* the open files
  tame,     \* history: the files that a single handle at a time was used on,
            \* with a sector for the byte after the last
  astray    \* history: a search has taken the bytes of a file for an entry of
            \* the directory, or a write has gone behind the buffer of a handle

vars == <<fat, root, handles, tame, astray>>

Eof == 65535
NoSector == -1

Cluster == 2 .. CountOfClusters + 1

\* Cluster 0 is none, but it has an entry in the table, the media byte, and
\* getClustFirstSect gives it a sector: one of the root directory.
Sector == {0} \cup Cluster

DirEntry == [name : Names \cup {"erased", "end"}, first : Sector, size : 0 .. MaxLength]
NoEntry == [name |-> "end", first |-> 0, size |-> 0]

Closed == [name |-> "closed"]

\* What is kept in a fatFile, and the name it was opened by.
OpenFile == [name : Names, writes : BOOLEAN, firstCluster : Sector,
             seekpos : 0 .. MaxLength, filelength : 0 .. MaxLength,
             currentSector : Sector \cup {NoSector}, curSectOff : 0 .. SectorSize,
             loadedSector : BOOLEAN, dirIndex : 1 .. RootEntries]

-----------------------------------------------------------------------------
(* The allocation table.                                                   *)

\* The loops over a chain: the cluster n steps after c, or the last before that.
Walk(f, c, n) ==
  LET at[k \in 0 .. n] ==
        IF k = 0 THEN c ELSE IF f[at[k - 1]] = Eof THEN at[k - 1] ELSE f[at[k - 1]]
  IN at[n]

\* getAbsoluteSectFromChain: the sector n clusters further.
Further(f, c, n) ==
  IF n > 0 /\ f[Walk(f, c, n - 1)] = Eof THEN NoSector ELSE Walk(f, c, n)

SectorAt(f, first, pos) == Further(f, first, pos \div SectorSize)

\* A chain has no more than all clusters.
LastOf(f, c) == Walk(f, c, CountOfClusters)
Chain(f, c) == {Walk(f, c, k) : k \in 0 .. CountOfClusters}

\* getFirstFreeClust.
FirstFree(f) == IF \E c \in Cluster : f[c] = 0 THEN Min({c \in Cluster : f[c] = 0}) ELSE 0

\* Mutant: the cluster before points to the new one, which is never marked used.
Allocated_unmarked(f, c, prev) ==
  IF c = 0 \/ prev = 0 THEN f ELSE [f EXCEPT ![prev] = c]

\* allocateCluster: c becomes the end of a chain, after prev unless that is 0.
Allocated(f, c, prev) ==
  IF c = 0 THEN f
  ELSE [f EXCEPT ![c] = Eof, ![prev] = IF prev = 0 THEN @ ELSE c]

\* deleteClustChain. A cluster that is empty stops it; Walk goes to 0 from there.
Deleted(f, c) == [d \in Sector |-> IF d # 0 /\ d \in Chain(f, c) THEN 0 ELSE f[d]]

-----------------------------------------------------------------------------
(* The root directory.                                                     *)

\* A search comes as far as the first entry that was never used.
Reached(i) == \A j \in 1 .. i : root[j].name # "end"

Places(name) == {i \in 1 .. RootEntries : Reached(i) /\ root[i].name = name}

\* getFileDirEntry finds the file.
Exists(name) == Places(name) # {}
Place(name) == Min(Places(name))

\* The search of FindNextInternal is stopped by an unused entry, not by the end
\* of the directory: it goes on in the sectors of the data area.
Unended == Reached(RootEntries)

\* Nothing looks at what else an erased entry holds.
Erased == [NoEntry EXCEPT !.name = "erased"]

\* addDirectoryEntry: the first erased or unused entry.
Spare == {i \in 1 .. RootEntries : root[i].name \in {"erased", "end"}}

\* The handles open on a file.
Users(name) == {h \in Handles : handles[h] # Closed /\ handles[h].name = name}

-----------------------------------------------------------------------------
(* Handles: operators on a record that holds a handle r and the table f.   *)

\* Read_AbsoluteSector into the buffer.
Load(s, off) == [s EXCEPT !.r.curSectOff = off, !.r.loadedSector = TRUE]

\* currentSector for the position.
Find(s) ==
  [s EXCEPT !.r.currentSector = SectorAt(s.f, s.r.firstCluster, s.r.seekpos)]

\* appendCluster: a free cluster after the last.
Append1(s) ==
  [s EXCEPT !.f = Allocated(s.f, FirstFree(s.f), LastOf(s.f, s.r.firstCluster))]

\* The sector of the position, of a longer chain if there is none yet.
FindOrAppend(s) ==
  LET found == Find(s)
  IN IF found.r.currentSector # NoSector THEN found ELSE Find(Append1(s))

\* The first byte of an empty file takes a cluster.
Begin(s) ==
  LET first == FirstFree(s.f)
  IN Load(Find([s EXCEPT !.f = Allocated(s.f, first, 0), !.r.firstCluster = first]),
          s.r.curSectOff)

\* Write, before the byte: the file grows if the byte is past its end.
Grow(s) ==
  LET longer == [(IF s.r.filelength = 0 THEN Begin(s) ELSE s)
                   EXCEPT !.r.filelength = s.r.seekpos + 1]
      found == FindOrAppend(longer)
  IN IF s.r.seekpos < s.r.filelength THEN s
     ELSE IF longer.r.loadedSector THEN longer
     ELSE IF found.r.currentSector = NoSector THEN found
     ELSE Load(found, 0)

\* Write, the byte, and the next sector after the last byte of one.
Put(s) ==
  LET put == [s EXCEPT !.r.curSectOff = @ + 1, !.r.seekpos = @ + 1]
      next == FindOrAppend(put)
  IN IF put.r.curSectOff < SectorSize THEN put
     ELSE IF next.r.currentSector = NoSector
          THEN [next EXCEPT !.r.loadedSector = FALSE]
     ELSE Load(next, 0)

\* There may be no room to grow.
Written(s) ==
  LET grown == Grow(s)
  IN IF s.r.seekpos >= s.r.filelength /\ ~grown.r.loadedSector THEN grown
     ELSE Put(grown)

\* Mutant: the offset in the sector stays.
Sought_noOffset(s, pos) ==
  LET found == Find([s EXCEPT !.r.seekpos = Min({pos, s.r.filelength})])
  IN IF found.r.currentSector = NoSector
     THEN [found EXCEPT !.r.loadedSector = FALSE]
     ELSE found

\* Seek sets the sector and its offset, but not loadedSector.
Sought(s, pos) ==
  LET found == Find([s EXCEPT !.r.seekpos = Min({pos, s.r.filelength})])
  IN IF found.r.currentSector = NoSector
     THEN [found EXCEPT !.r.loadedSector = FALSE]
     ELSE [found EXCEPT !.r.curSectOff = found.r.seekpos % SectorSize]

\* Read, before the byte.
Ready(s) ==
  IF s.r.loadedSector THEN s
  ELSE IF Find(s).r.currentSector = NoSector THEN Find(s)
  ELSE Load(Find(s), 0)

\* Read, one byte.
AfterRead(s) ==
  LET read == [Ready(s) EXCEPT !.r.curSectOff = @ + 1, !.r.seekpos = @ + 1]
  IN IF s.r.seekpos >= s.r.filelength THEN s
     ELSE IF ~Ready(s).r.loadedSector THEN Ready(s)
     ELSE IF read.r.curSectOff < SectorSize THEN read
     ELSE IF Find(read).r.currentSector = NoSector
          THEN [Find(read) EXCEPT !.r.loadedSector = FALSE]
     ELSE Load(Find(read), 0)

\* The constructor of fatFile.
NewFile(name, place, writes, length) ==
  LET s == [r |-> [name |-> name, writes |-> writes,
                   firstCluster |-> root[place].first, seekpos |-> 0,
                   filelength |-> length, currentSector |-> 0, curSectOff |-> 0,
                   loadedSector |-> FALSE, dirIndex |-> place],
            f |-> fat]
  IN IF length = 0 THEN s.r ELSE Load(Find(s), 0).r

Of(h) == [r |-> handles[h], f |-> fat]

-----------------------------------------------------------------------------
(* The calls.                                                              *)

Init ==
  \E names \in {DOMAIN Image} :
  \E length \in {IF names = {} THEN 0 ELSE Image[CHOOSE n \in names : TRUE]} :
  \E clusters \in {(length + SectorSize - 1) \div SectorSize} :
    /\ fat = [c \in Sector |->
                IF c = 0 \/ c = clusters + 1 THEN Eof
                ELSE IF c <= clusters THEN c + 1 ELSE 0]
    /\ root = [i \in 1 .. RootEntries |->
                 IF i = 1 /\ names # {}
                 THEN [name |-> CHOOSE n \in names : TRUE,
                       first |-> IF length = 0 THEN 0 ELSE 2, size |-> length]
                 ELSE NoEntry]
    /\ handles = [h \in Handles |-> Closed]
    /\ tame = IF length > 0 /\ length % SectorSize = 0 THEN Names \ names ELSE Names
    /\ astray = FALSE

\* A call that names a file finds it behind the end of the directory, in what
\* programs have written to their files. (When it finds nothing there, the
\* call goes on as for a name that does not exist.) The first cluster and the
\* length of such an entry can be anything, and Unlink frees the chain from
\* that cluster on: what becomes of the disk is not modelled any further.
FindInData(name) ==
  /\ ~astray /\ Unended /\ ~Exists(name)
  /\ astray' = TRUE
  /\ UNCHANGED <<fat, root, handles, tame>>

\* FileOpen.
Open(h, name, writes) ==
  /\ ~astray /\ handles[h] = Closed /\ Exists(name)
  /\ handles' = [handles EXCEPT ![h] =
                   NewFile(name, Place(name), writes, root[Place(name)].size)]
  /\ tame' = IF Users(name) = {} THEN tame ELSE tame \ {name}
  /\ UNCHANGED <<fat, root, astray>>

\* Mutant: the clusters of the file are freed, whoever has it open.
Truncate_frees(h, name) ==
  /\ ~astray /\ handles[h] = Closed /\ Exists(name)
  /\ root' = [root EXCEPT ![Place(name)].size = 0, ![Place(name)].first = 0]
  /\ handles' = [handles EXCEPT ![h] = [NewFile(name, Place(name), TRUE, 0) EXCEPT !.firstCluster = 0]]
  /\ tame' = IF Users(name) = {} THEN tame \cup {name} ELSE tame \ {name}
  /\ fat' = IF root[Place(name)].first = 0 THEN fat
            ELSE Deleted(fat, root[Place(name)].first)
  /\ UNCHANGED astray

\* FileCreate of a file that exists: its length becomes 0.
Truncate(h, name) ==
  /\ ~astray /\ handles[h] = Closed /\ Exists(name)
  /\ root' = [root EXCEPT ![Place(name)].size = 0]
  /\ handles' = [handles EXCEPT ![h] = NewFile(name, Place(name), TRUE, 0)]
  /\ tame' = IF Users(name) = {} THEN tame \cup {name} ELSE tame \ {name}
  /\ UNCHANGED <<fat, astray>>

\* FileCreate of a new file.
Create(h, name) ==
  /\ ~astray /\ handles[h] = Closed /\ ~Exists(name) /\ Spare # {}
  /\ \E place \in {Min(Spare)} :
       /\ root' = [root EXCEPT ![place] = [NoEntry EXCEPT !.name = name]]
       /\ handles' = [handles EXCEPT ![h] =
                        [NewFile(name, place, TRUE, 0) EXCEPT !.firstCluster = 0]]
  /\ tame' = tame \cup {name}
  /\ UNCHANGED <<fat, astray>>

\* The directory entry after a write. It may be short of room: the file has
\* no cluster then, or the next byte no sector.
Finalize(s) ==
  /\ fat' = s.f
  /\ root' = [root EXCEPT ![s.r.dirIndex].size = s.r.filelength,
                          ![s.r.dirIndex].first = s.r.firstCluster]
  /\ tame' = IF s.r.currentSector \in {0, NoSector} THEN tame \ {s.r.name} ELSE tame
  /\ UNCHANGED astray

\* When a sector could not be had, the offset is left at the end of the buffer
\* and the length is one more than was written: the next byte goes behind it.
BehindBuffer(h) ==
  handles[h].seekpos < handles[h].filelength /\ handles[h].curSectOff >= SectorSize

\* Write of a byte over dirCluster, which follows the buffer: from then on the
\* handle writes its entry to another directory, which is not modelled.
WriteBehindBuffer(h) ==
  /\ ~astray /\ handles[h] # Closed /\ handles[h].writes /\ BehindBuffer(h)
  /\ astray' = TRUE
  /\ UNCHANGED <<fat, root, handles, tame>>

\* Write of a byte.
Write(h) ==
  /\ ~astray /\ handles[h] # Closed /\ handles[h].writes /\ ~BehindBuffer(h)
  /\ handles[h].seekpos < MaxLength
  /\ \E s \in {Written(Of(h))} :
       handles' = [handles EXCEPT ![h] = s.r] /\ Finalize(s)

\* Write of nothing.
WriteNone(h) ==
  /\ ~astray /\ handles[h] # Closed /\ handles[h].writes
  /\ Finalize(Of(h))
  /\ UNCHANGED handles

Read(h) ==
  /\ ~astray /\ handles[h] # Closed
  /\ handles' = [handles EXCEPT ![h] = AfterRead(Of(h)).r]
  /\ UNCHANGED <<fat, root, tame, astray>>

Seek(h, pos) ==
  /\ ~astray /\ handles[h] # Closed
  /\ handles' = [handles EXCEPT ![h] = Sought(Of(h), pos).r]
  /\ UNCHANGED <<fat, root, tame, astray>>

\* Close writes the sector back, whatever the file was opened for.
Close(h) ==
  /\ ~astray /\ handles[h] # Closed
  /\ handles' = [handles EXCEPT ![h] = Closed]
  /\ UNCHANGED <<fat, root, tame, astray>>

\* FileUnlink. Nothing stops a program that deletes an open file; these do not.
Unlink(name) ==
  /\ ~astray /\ Exists(name) /\ Users(name) = {}
  /\ root' = [root EXCEPT ![Place(name)] = Erased]
  /\ fat' = IF root[Place(name)].first = 0 THEN fat
            ELSE Deleted(fat, root[Place(name)].first)
  /\ tame' = tame \cup {name}
  /\ UNCHANGED <<handles, astray>>

\* Rename adds the new entry before it erases the old one.
Rename(old, new) ==
  /\ ~astray /\ Exists(old) /\ Users(old) = {} /\ ~Exists(new) /\ Spare # {}
  /\ root' = [root EXCEPT ![Min(Spare)] = [root[Place(old)] EXCEPT !.name = new],
                          ![Place(old)] = Erased]
  /\ tame' = (IF old \in tame THEN tame ELSE tame \ {new}) \cup {old}
  /\ UNCHANGED <<fat, handles, astray>>

Next ==
  \/ \E h \in Handles, name \in Names :
       \/ Truncate(h, name) \/ Create(h, name)
       \/ \E writes \in Modes : Open(h, name, writes)
  \/ \E h \in Handles :
       \/ Read(h) \/ Close(h) \/ Write(h) \/ WriteNone(h) \/ WriteBehindBuffer(h)
       \/ \E pos \in 0 .. MaxLength : Seek(h, pos)
  \/ \E name \in Names :
       \/ Unlink(name) \/ FindInData(name)
       \/ \E new \in Names : Rename(name, new)

Spec == Init /\ [][Next]_vars

-----------------------------------------------------------------------------
(* Properties.                                                             *)

TypeOK ==
  /\ fat \in [Sector -> Sector \cup {Eof}] /\ fat[0] = Eof
  /\ root \in [1 .. RootEntries -> DirEntry]
  /\ handles \in [Handles -> OpenFile \cup {Closed}]
  /\ tame \subseteq Names /\ astray \in BOOLEAN

Files == {n \in Names : Exists(n)}
Opened == {h \in Handles : handles[h] # Closed}

FirstOf(n) == root[Place(n)].first

\* Until a call goes astray, every chain in the directory ends, runs into no free
\* cluster and shares none with another, with handles that truncate under each
\* other and a disk that runs full.
ChainsSound ==
  /\ TypeOK
  /\ ~astray => \A n \in Files : FirstOf(n) # 0 =>
    /\ fat[LastOf(fat, FirstOf(n))] = Eof
    /\ \A c \in Chain(fat, FirstOf(n)) : c # 0 /\ fat[c] # 0
    /\ \A m \in Files \ {n} : FirstOf(m) # 0 =>
         Chain(fat, FirstOf(n)) \cap Chain(fat, FirstOf(m)) = {}

\* Until then, the sector a handle will write back is in the chain that
\* the handle has, and in no other file, even when the handle's own file was
\* truncated or has lost its clusters.
OwnSectors ==
  ~astray => \A h \in Opened : handles[h].loadedSector =>
    /\ handles[h].currentSector \in Chain(fat, handles[h].firstCluster)
    /\ \A n \in Files \ {handles[h].name} :
         FirstOf(n) # 0 => handles[h].currentSector \notin Chain(fat, FirstOf(n))

\* Until then, the buffer of a handle is the sector of its position, at its
\* offset: what it reads next, and where what it writes next will be.
Positioned ==
  ~astray => \A h \in Opened : handles[h].name \in tame =>
    LET r == handles[h]
    IN /\ r.filelength = root[r.dirIndex].size
       /\ r.filelength > 0 =>
            /\ r.loadedSector /\ r.curSectOff = r.seekpos % SectorSize
            /\ r.currentSector = SectorAt(fat, root[r.dirIndex].first, r.seekpos)

=============================================================================

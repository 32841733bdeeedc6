---------------------------- MODULE DosFiles ----------------------------
(***************************************************************************)
(* Open files and the processes that hold them: the table Files of         *)
(* dos_files.cpp, the handle table of every PSP (dos_classes.cpp), and the *)
(* calls of INT 21h that open, duplicate, inherit and close.               *)
(*                                                                         *)
(* What a file holds is left out: reads, writes and seeks change neither   *)
(* table. A call that fails changes nothing and is no step; neither is one *)
(* that opens a file only to close it again, such as 5Bh on a file that    *)
(* exists already.                                                         *)
(***************************************************************************)
EXTENDS Integers, FiniteSets, Functions

CONSTANTS
  DOS_FILES,  \* open files of the whole machine, 127 in the code
  PSP_FILES,  \* handles of a process, 20 in the code
  Psps,       \* segments where a PSP can be
  Shell,      \* the PSP of the first shell, its own parent
  MaxLost     \* bound: references that no handle goes with

ASSUME FilesAssumption ==
  /\ DOS_FILES \in 1 .. 255
  /\ PSP_FILES \in 1 .. 255
  /\ Shell \in Psps
  /\ IsFiniteSet(Psps)
  /\ MaxLost \in Nat

VARIABLES
  Files,      \* open file -> its count of references and flags
  files,      \* PSP -> its handle table, of max_files = PSP_FILES entries
  parent,     \* PSP -> psp_parent
  live,       \* the PSPs that processes have, resident ones too
  psp,        \* dos.psp()
  lost        \* history: file -> the references made to it without a handle

vars == <<Files, files, parent, live, psp, lost>>

None == 255  \* 0xff, an entry without a file

Slot == 0 .. DOS_FILES - 1
Entry == 0 .. PSP_FILES - 1
Table == [Entry -> Slot \cup {None}]
Unused == [e \in Entry |-> None]
File == [refCtr : Nat \ {0}, open : BOOLEAN, inherit : BOOLEAN]

TypeOK ==
  /\ DOMAIN Files \subseteq Slot /\ Files \in [DOMAIN Files -> File]
  /\ files \in [Psps -> Table]
  /\ parent \in [Psps -> Psps]
  /\ live \subseteq Psps /\ psp \in live
  /\ lost \in [Slot -> Nat]

Init ==
  /\ Files = [s \in {} |-> 0]
  /\ files = [p \in Psps |-> Unused]
  /\ parent = [p \in Psps |-> Shell]
  /\ live = {Shell} /\ psp = Shell
  /\ lost = [s \in Slot |-> 0]

-----------------------------------------------------------------------------
(* The tables.                                                             *)

First(s) == CHOOSE i \in s : \A j \in s : i <= j

\* GetFileHandle.
RealHandle(e) == files[psp][e]

FreeSlots == Slot \ DOMAIN Files
FreeEntries(p) == {e \in Entry : files[p][e] = None}

IsOpen(s) == s \in DOMAIN Files /\ Files[s].open

\* The entries of a process that name a file.
Naming(p, s) == {e \in Entry : files[p][e] = s}

\* The file table with n references to s more.
Referenced(f, s, n) == [f EXCEPT ![s].refCtr = @ + n]

\* Mutant: the first handle that is closed deletes the file.
Released_deletes(f, s, n) == Restrict(f, DOMAIN f \ {s})

\* ... and with n fewer. Close() of a file on a host or CD-ROM drive closes it
\* when its last reference goes; without references the file is deleted.
Released(f, s, n) ==
  IF f[s].refCtr <= n THEN Restrict(f, DOMAIN f \ {s})
  ELSE [f EXCEPT ![s].refCtr = @ - n]

SetFileHandle(t, e, s) == [t EXCEPT ![psp][e] = s]

\* References without a handle, to all files together.
References(l) == FoldFunction(+, 0, l)

-----------------------------------------------------------------------------
(* Opening, duplicating and closing.                                       *)

\* DOS_OpenFile, DOS_CreateFile: the first free file and the first free entry.
Open(inherit) ==
  /\ FreeSlots # {} /\ FreeEntries(psp) # {}
  /\ \E s \in {First(FreeSlots)}, e \in {First(FreeEntries(psp))} :
       /\ Files' = [t \in DOMAIN Files \cup {s} |->
                      IF t = s THEN [refCtr |-> 1, open |-> TRUE, inherit |-> inherit]
                      ELSE Files[t]]
       /\ files' = SetFileHandle(files, e, s)
  /\ UNCHANGED <<parent, live, psp, lost>>

\* DOS_CloseFile.
Close(e) ==
  /\ RealHandle(e) \in DOMAIN Files
  /\ Files' = Released(Files, RealHandle(e), 1)
  /\ files' = SetFileHandle(files, e, None)
  /\ UNCHANGED <<parent, live, psp, lost>>

\* DOS_DuplicateEntry.
Duplicate(e) ==
  /\ IsOpen(RealHandle(e)) /\ FreeEntries(psp) # {}
  /\ Files' = Referenced(Files, RealHandle(e), 1)
  /\ files' = SetFileHandle(files, First(FreeEntries(psp)), RealHandle(e))
  /\ UNCHANGED <<parent, live, psp, lost>>

\* Mutant: the new entry keeps its reference to what it named.
ForceDuplicate_keeps(e, new) ==
  /\ e # new /\ IsOpen(RealHandle(e))
  /\ Files' = Referenced(Files, RealHandle(e), 1)
  /\ files' = SetFileHandle(files, new, RealHandle(e))
  /\ UNCHANGED <<parent, live, psp, lost>>

\* DOS_ForceDuplicateEntry closes what the new entry names, first.
ForceDuplicate(e, new) ==
  /\ e # new /\ IsOpen(RealHandle(e))
  /\ Files' = Referenced(IF RealHandle(new) \in DOMAIN Files
                         THEN Released(Files, RealHandle(new), 1) ELSE Files,
                         RealHandle(e), 1)
  /\ files' = SetFileHandle(files, new, RealHandle(e))
  /\ UNCHANGED <<parent, live, psp, lost>>

\* INT 21/46h hands on any number as the new handle. For one behind the table
\* GetFileHandle says that it names nothing and SetFileHandle does nothing, but
\* the reference is made, and nobody is left to release it.
ForceDuplicateBehind(e) ==
  /\ IsOpen(RealHandle(e)) /\ References(lost) < MaxLost
  /\ Files' = Referenced(Files, RealHandle(e), 1)
  /\ lost' = [lost EXCEPT ![RealHandle(e)] = @ + 1]
  /\ UNCHANGED <<files, parent, live, psp>>

-----------------------------------------------------------------------------
(* Processes.                                                              *)

\* The handles CopyFileTable gives a child.
Inherits(e) == RealHandle(e) \in DOMAIN Files /\ Files[RealHandle(e)].inherit

\* MakeNew and CopyFileTable for a child of psp, and the switch to it.
ChildPSP(child) ==
  /\ child \notin live
  /\ Files' = [s \in DOMAIN Files |->
                 IF Files[s].inherit
                 THEN [Files[s] EXCEPT !.refCtr = @ + Cardinality(Naming(psp, s))]
                 ELSE Files[s]]
  /\ files' = [files EXCEPT ![child] =
                 [e \in Entry |-> IF Inherits(e) THEN RealHandle(e) ELSE None]]
  /\ parent' = [parent EXCEPT ![child] = psp]
  /\ live' = live \cup {child}
  /\ psp' = child
  /\ UNCHANGED lost

\* DOS_Execute: it opens the program with a handle of the caller and closes it
\* before the child is set up.
Execute(child) ==
  /\ FreeSlots # {} /\ FreeEntries(psp) # {}
  /\ ChildPSP(child)

\* DOS_Terminate: the handles that CloseFiles finds are closed one by one.
Terminate(tsr) ==
  /\ parent[psp] # psp
  /\ IF tsr THEN UNCHANGED <<Files, files, live>>
     ELSE /\ Files' = [s \in {t \in DOMAIN Files :
                               Naming(psp, t) # {} =>
                                 Files[t].refCtr > Cardinality(Naming(psp, t))} |->
                         [Files[s] EXCEPT !.refCtr = @ - Cardinality(Naming(psp, s))]]
          /\ files' = [files EXCEPT ![psp] = Unused]
          /\ live' = live \ {psp}
  /\ psp' = parent[psp]
  /\ UNCHANGED <<parent, lost>>

Next ==
  \/ \E inherit \in BOOLEAN : Open(inherit)
  \/ \E e \in Entry : Close(e) \/ Duplicate(e) \/ ForceDuplicateBehind(e)
  \/ \E e, new \in Entry : ForceDuplicate(e, new)
  \/ \E p \in Psps : ChildPSP(p) \/ Execute(p)
  \/ \E tsr \in BOOLEAN : Terminate(tsr)

Spec == Init /\ [][Next]_vars

-----------------------------------------------------------------------------
(* Properties.                                                             *)

Handles == Psps \X Entry

\* The handles of all processes that name a file.
NamedBy(s) == {h \in Handles : files[h[1]][h[2]] = s}

\* The count of a file is the number of handles that name it and of references
\* that were made without one, whatever was duplicated, inherited or left
\* resident: no handle outlives the file, and it is deleted with its last handle
\* unless such a reference was made.
CountsExact ==
  \A s \in Slot :
    Cardinality(NamedBy(s)) + lost[s] =
      IF s \in DOMAIN Files THEN Files[s].refCtr ELSE 0

\* The two tables agree: counts are exact, and a place without a process has
\* no handles that the next process there would find.
TablesAgree ==
  /\ TypeOK
  /\ CountsExact
  /\ \A p \in Psps \ live : files[p] = Unused

\* An entry that no table has.
NoHandle == <<Shell, None>>

HeldBy(s) == NamedBy(s) \cup (IF lost[s] > 0 THEN {NoHandle} ELSE {})

\* The two tables implement sets of handles that share a file: it is closed with
\* the last of them, whatever process that is in, and stays open for ever when
\* it was duplicated to a handle behind the table.
Sharing == INSTANCE OpenFiles WITH
  Holders <- Psps, Numbers <- Entry, Nobody <- NoHandle,
  opened <- {HeldBy(s) : s \in DOMAIN Files}

ImplementsOpenFiles == Sharing!Spec

=============================================================================

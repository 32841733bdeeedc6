\* Three files, tables of two handles, the shell and two programs: a file has
\* up to six handles and one reference without; its place is used again.
SPECIFICATION Spec
CONSTANTS
  DOS_FILES = 3
  PSP_FILES = 2
  MaxLost = 1
  Shell = shell
  Psps = {shell, first, second}
\* Resident programs may hold every file and the shell none: nothing is left
\* to call.
CHECK_DEADLOCK FALSE
SYMMETRY Programs
INVARIANTS
  TablesAgree
PROPERTIES
  ImplementsOpenFiles

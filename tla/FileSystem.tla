------------------------------ MODULE FileSystem ------------------------------
(***************************************************************************)
(* The file systems behind iotc_internals.fs_functions: the read-only one  *)
(* in memory, which holds the certificates of the build                    *)
(* (io/fs/memory/iotc_fs_memory.c), and that of the platform               *)
(* (io/fs/posix/iotc_fs_posix.c over iotc_bsp_io_fs_posix.c).              *)
(*                                                                         *)
(* One file, read in units of iotc_bsp_io_fs_buffer_size bytes.  Each      *)
(* function is the set of results it may return; what it does to the open  *)
(* files is said next to it.                                               *)
(***************************************************************************)
EXTENDS Integers, Sequences, FiniteSets

CONSTANTS
  FileSystems,  \* the file systems to consider: "memory", "posix"
  FileSizes,    \* the sizes the file may have
  FileErrors    \* what may fail on an open file: "read" (it was cut), "close"

VARIABLES
  file_system,  \* the one the program is built with
  file_size,    \* the size of the file when it is looked up
  open_files    \* open_counter, or the length of the list of open files

fileVars == <<file_system, file_size, open_files>>

INVALID_HANDLE == -1
FileHandle == 0

\* In memory the size is that of an array of the build, which is not empty.
FileInit ==
  /\ file_system \in FileSystems
  /\ file_size \in FileSizes
  /\ file_system = "memory" => file_size > 0
  /\ open_files = 0

-----------------------------------------------------------------------------
(* Errors of the platform.                                                 *)

\* What stat and open may set errno to, one value for each result it has.
Errnos == {"ENOENT", "EOVERFLOW", "ENAMETOOLONG", "ENOMEM"}

\* iotc_bsp_io_fs_posix_errno_2_iotc_bsp_io_fs_state
BspState(errno) ==
  CASE errno = "ENOENT" -> "RESOURCE_NOT_AVAILABLE"
    [] errno = "ENAMETOOLONG" -> "INVALID_PARAMETER"
    [] errno = "ENOMEM" -> "OUT_OF_MEMORY"
    [] OTHER -> "ERROR"

\* iotc_fs_bsp_io_fs_2_iotc_state
FsState(bsp_state) ==
  CASE bsp_state = "ERROR" -> "FS_ERROR"
    [] bsp_state = "RESOURCE_NOT_AVAILABLE" -> "FS_RESOURCE_NOT_AVAILABLE"
    [] OTHER -> bsp_state

PlatformErrors == {FsState(BspState(e)) : e \in Errnos}

-----------------------------------------------------------------------------
(* The functions.                                                          *)

IsOpen == open_files > 0

\* iotc_fs_stat: the certificate is always there in memory.
StatResults == IF file_system = "memory" THEN {"OK"} ELSE {"OK"} \cup PlatformErrors

\* iotc_fs_open; open_files grows by one when it succeeds.
OpenResults == StatResults

\* iotc_fs_read in memory: all that is left is returned at once.
MemoryReads(offset) ==
  IF IsOpen
    THEN {[state |-> "OK", size |-> IF offset < file_size THEN file_size - offset ELSE 0]}
    ELSE {[state |-> "FS_ERROR", size |-> 0]}

\* iotc_bsp_io_fs_read: a unit at most, and an error at the end of the file.
PosixReads(offset) ==
  LET errors == {[state |-> FsState(BspState(e)), size |-> 0] : e \in {"ENOENT", "EOVERFLOW"}}
  IN IF ~IsOpen
       THEN {[state |-> "FS_RESOURCE_NOT_AVAILABLE", size |-> 0]}
     ELSE IF offset >= file_size \/ "read" \in FileErrors
       THEN errors
       ELSE {[state |-> "OK", size |-> 1]}

ReadResults(offset) ==
  IF file_system = "memory" THEN MemoryReads(offset) ELSE PosixReads(offset)

\* iotc_fs_close; open_files shrinks by one when the file was open, even if the
\* platform fails to close it.
CloseResults ==
  CASE file_system = "memory" -> {IF IsOpen THEN "OK" ELSE "FS_ERROR"}
    [] ~IsOpen -> {"FS_RESOURCE_NOT_AVAILABLE"}
    [] OTHER -> {"OK"} \cup (IF "close" \in FileErrors THEN {"FS_ERROR"} ELSE {})

OpenFilesAfterClose == IF IsOpen THEN open_files - 1 ELSE 0
=============================================================================

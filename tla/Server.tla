------------------------------ MODULE Server ------------------------------
(***************************************************************************)
(* boa's process from exec into select_loop and on: Startup builds the   *)
(* descriptor table and drops privileges, then request handlers open     *)
(* temporary files (TempFile) in the same table.  The two components    *)
(* share the variables fd and fault; a temporary file is made only once  *)
(* the server is in select_loop, and start-up never runs again.          *)
(***************************************************************************)
EXTENDS Naturals, Integers

CONSTANTS
  MaxFd, StdOpen, Faults, Options, StartUids, ServerUids,   \* Startup
  MaxCalls                                                   \* TempFile

VARIABLES
  fd, fault,                                                      \* shared
  pc, exit_code, devnullfd, server_s, cgi_log_fd, uid, gid, groups,
  server_uid, server_gid, do_fork, chrooted, config,              \* Startup
  disk, calls, args, ret                                          \* TempFile

startOnly == <<pc, exit_code, devnullfd, server_s, cgi_log_fd, uid, gid, groups,
               server_uid, server_gid, do_fork, chrooted, config>>
tempOnly == <<disk, calls, args, ret>>
vars == <<fd, fault, startOnly, tempOnly>>

S == INSTANCE Startup

T == INSTANCE TempFile

Init ==
  /\ S!Init
  /\ disk = {} /\ calls = 0 /\ args = T!NoArgs /\ ret = -1

(* A step of main up to select_loop. *)
StartupStep ==
  /\ S!Next
  /\ UNCHANGED tempOnly

(* A request handler calls create_temporary_file. *)
TempFileStep ==
  /\ S!InSelectLoop
  /\ T!CreateTemporaryFile
  /\ UNCHANGED startOnly

Next == StartupStep \/ TempFileStep

(* Start-up runs on its own until it exits or reaches select_loop (as in *)
(* Startup); requests, and so temporary files, may never come.           *)
Spec == Init /\ [][Next]_vars /\ WF_vars(StartupStep)

-----------------------------------------------------------------------------
(* Properties *)

TypeOK == S!TypeOK /\ T!TypeOK

(* Start-up either reaches select_loop with the documented descriptor    *)
(* layout, or exits non-zero; and temporary files, opened and given up   *)
(* later, never disturb that layout.                                      *)
StartupOutcome == S!StartupOutcome

(* No path through drop_privs reaches select_loop as root. *)
DropsPrivileges == S!DropsPrivileges

(* Without a failing call, a start-up that can succeed reaches           *)
(* select_loop.                                                            *)
StartsUnlessFault == S!Startable ~> S!InSelectLoop

(* Every create_temporary_file call in the running server leaves the     *)
(* table as it found it on failure, and adds exactly the new file on     *)
(* success.                                                                *)
TempFileContract == T!TempFileContract

=============================================================================

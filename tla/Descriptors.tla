---------------------------- MODULE Descriptors ----------------------------
(***************************************************************************)
(* The process descriptor table, as POSIX defines the calls boa makes on  *)
(* it: a table maps each descriptor number to the file it refers to.      *)
(* open, socket, mkstemp and open_gen_fd take the lowest free number,    *)
(* dup2(o, n) makes n refer to o's file, and close frees a number.  This  *)
(* is the C library's contract, shared by Startup and TempFile.           *)
(***************************************************************************)
EXTENDS Naturals, Integers, FiniteSets, FiniteSetsExt

CONSTANT MaxFd    \* the highest descriptor number (RLIMIT_NOFILE - 1)

Fds == 0 .. MaxFd

Closed == "closed"

(* The temporary files create_temporary_file may make, one per call. *)
TmpName == <<"tmp1", "tmp2", "tmp3">>

TmpFiles == {TmpName[k] : k \in DOMAIN TmpName}

(* What a descriptor refers to: the stream inherited at exec, /dev/null,  *)
(* the three logs, the listening socket, a temporary file.               *)
Files == {"inherited", "null", "errlog", "acclog", "cgilog", "sock"}
           \cup TmpFiles

LowestFree(f) ==
  IF \E i \in Fds : f[i] = Closed THEN Min({i \in Fds : f[i] = Closed}) ELSE -1

Valid(f, i) == i \in Fds /\ f[i] # Closed

(* open(2) of file x: [n |-> descriptor or -1, f |-> new table]; with no *)
(* free number it fails with EMFILE.                                       *)
OpenAs(f, x, fails) ==
  LET n == LowestFree(f) IN
  IF fails \/ n = -1 THEN [n |-> -1, f |-> f] ELSE [n |-> n, f |-> [f EXCEPT ![n] = x]]

(* dup2 and close of a descriptor that is not open fail with EBADF and   *)
(* change nothing.                                                        *)
Dup2(f, o, n) == IF ~Valid(f, o) \/ o = n THEN f ELSE [f EXCEPT ![n] = f[o]]

CloseFd(f, i) == IF Valid(f, i) THEN [f EXCEPT ![i] = Closed] ELSE f

=============================================================================

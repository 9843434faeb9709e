------------------------------ MODULE TempFile ------------------------------
(***************************************************************************)
(* boa's temporary files (src/src/util.c create_temporary_file): mkstemp  *)
(* in tempdir, the name copied to the caller's storage, and the file      *)
(* unlinked when the caller asks or when the name does not fit.  It      *)
(* returns the descriptor, or 0 for a failure.                            *)
(*                                                                         *)
(* The callers (request handlers outside src/) pick want_unlink and the  *)
(* storage; the storage is "fits" (NULL, or at least strlen + 1 bytes)    *)
(* or "short".  mkstemp fails when fault is "mkstemp" (any error: a      *)
(* tempdir too long for the template, a full disk), or with EMFILE when  *)
(* the table is full; unlink may fail when fault is "unlink".  Each call *)
(* creates the next name of TmpName.                                       *)
(***************************************************************************)
EXTENDS Naturals, Integers, Sequences, Descriptors

CONSTANTS
  Faults,    \* as in Startup: the failure this run may meet, or "none"
  MaxCalls   \* the calls made, at most Len(TmpName)

ASSUME MaxCalls \in 0 .. Len(TmpName)

VARIABLES
  fd,      \* the process descriptor table, shared with Startup
  fault,
  disk,    \* the temporary files present in tempdir
  calls,   \* the calls made so far
  args,    \* the arguments of the last call
  ret      \* its return value; -1 before the first call

vars == <<fd, fault, disk, calls, args, ret>>

Storage == {"fits", "short"}

NoArgs == [want_unlink |-> FALSE, storage |-> "fits"]

MayFail(call) == IF fault = call THEN BOOLEAN ELSE {FALSE}

(* A process with 0, 1 and 2 open; Server starts from start-up instead. *)
Init ==
  /\ fd = [i \in Fds |-> IF i <= 2 THEN "inherited" ELSE Closed]
  /\ fault \in Faults
  /\ disk = {}
  /\ calls = 0
  /\ args = NoArgs
  /\ ret = -1

(* Mutant: a name that does not fit sets fd = 0 without closing it. *)
CopyNameNoClose(r, storage) ==
  IF storage = "short" THEN [r EXCEPT !.fd = 0, !.unlink = TRUE] ELSE r

(* r is the call's state after mkstemp: the local fd, the table f and    *)
(* want_unlink.  Lines 458-470: the name copied to storage, or, when it  *)
(* does not fit, close(fd); fd = 0; want_unlink = 1.                      *)
CopyName(r, storage) ==
  IF storage = "short" THEN [fd |-> 0, f |-> CloseFd(r.f, r.fd), unlink |-> TRUE] ELSE r

(* Lines 472-479: on a failed unlink, close(fd); fd = 0 - whatever fd     *)
(* holds by then.                                                         *)
UnlinkTemp(r, fails) ==
  IF r.unlink /\ fails THEN [r EXCEPT !.fd = 0, !.f = CloseFd(r.f, r.fd)] ELSE r

(* Lines 443-482. *)
CreateTemporaryFile ==
  /\ calls < MaxCalls
  /\ \E want_unlink \in BOOLEAN, storage \in Storage,
        mfail \in MayFail("mkstemp"), ufail \in MayFail("unlink") :
     LET name == TmpName[calls + 1] IN
     \E o \in {OpenAs(fd, name, mfail)} :
       /\ calls' = calls + 1
       /\ args' = [want_unlink |-> want_unlink, storage |-> storage]
       /\ IF o.n = -1
          THEN ret' = 0 /\ UNCHANGED <<fd, disk>>
          ELSE \E r \in {UnlinkTemp(CopyName([fd |-> o.n, f |-> o.f, unlink |-> want_unlink],
                                             storage), ufail)} :
                 /\ ret' = r.fd
                 /\ fd' = r.f
                 /\ disk' = IF r.unlink /\ ~ufail THEN disk ELSE disk \cup {name}
  /\ UNCHANGED fault

Next == CreateTemporaryFile

Spec == Init /\ [][Next]_vars

-----------------------------------------------------------------------------
(* Properties *)

TypeOK ==
  /\ fd \in [Fds -> Files \cup {Closed}]
  /\ disk \subseteq TmpFiles
  /\ calls \in 0 .. MaxCalls
  /\ args \in [want_unlink : BOOLEAN, storage : Storage]
  /\ ret \in {-1} \cup Fds

(* What one call promises its caller, which takes 0 for a failure: on    *)
(* failure the descriptor table is as it was (nothing leaked, nothing of *)
(* the caller's closed); on success the result is a descriptor that was  *)
(* free, now open on the new file, everything else untouched, and the    *)
(* file is left in tempdir exactly when the caller did not ask for it to *)
(* be unlinked.                                                            *)
CallContract ==
  LET name == TmpName[calls'] IN
  IF ret' = 0
  THEN fd' = fd
  ELSE /\ fd[ret'] = Closed
       /\ fd' = [fd EXCEPT ![ret'] = name]
       /\ disk' = IF args'.want_unlink THEN disk ELSE disk \cup {name}

(* Every call of create_temporary_file keeps that promise, across calls, *)
(* failed mkstemps and a full descriptor table.                          *)
TempFileContract == [][calls' = calls + 1 => CallContract]_vars

=============================================================================

---------------------------- MODULE MC_Server -----------------------------
EXTENDS Server

(* Seven descriptors: the three standard ones, /dev/null, two logs and   *)
(* the socket fit even when every standard descriptor is open.           *)
MC_MaxFd == 6

(* Started from a shell or an init script: 0, 1 and 2 open. *)
MC_StdOpen == {{0, 1, 2}}

(* Started by a parent that closed some of them first. *)
MC_StdOpen_Any == SUBSET {0, 1, 2}

(* The faults of Startup and TempFile: the failing open, create, bind and *)
(* setuid calls.  dup2, initgroups and setgid failures are not separate   *)
(* faults; they end in the same exit(errno) as the modelled ones.         *)
MC_Faults ==
  {"none", "devnull", "chroot_dir", "server_root", "errlog", "acclog",
   "cgilog", "cgi_fcntl", "socket", "socket_setup", "bind", "setuid",
   "setuid_lies"}

(* And the two whose status is 0: a failed fork, and getpwuid failing    *)
(* with errno left at 0.                                                  *)
MC_Faults_All == MC_Faults \cup {"fork", "getpwuid"}
(* A running server whose mkstemp may fail, and one whose unlink may.    *)
MC_Faults_Serve == MC_Faults \cup {"mkstemp"}
MC_Faults_Unlink == {"unlink"}

MC_Options == {{}, {"r"}, {"d"}}

(* root, and an ordinary user; the User directive names www or root. *)
MC_StartUids == {0, 1000}
MC_ServerUids == {33, 0}
(* Two calls: with the cgi log open, the second finds the table full.   *)
MC_MaxCalls == 2

=============================================================================

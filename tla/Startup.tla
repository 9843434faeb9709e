------------------------------ MODULE Startup ------------------------------
(***************************************************************************)
(* boa's start-up (src/src/boa.c main, fixup_server_root,                 *)
(* create_server_socket, drop_privs, and src/src/log.c open_logs): the    *)
(* process descriptor table, the credentials and the exit status, from    *)
(* exec to the select loop.                                                *)
(*                                                                         *)
(* The descriptor table is that of Descriptors; which of 0, 1 and 2 are  *)
(* open at exec is the caller's choice.  Each system                      *)
(* call the code checks may fail; a run meets at most one such failure,   *)
(* the variable fault, chosen with the configuration at exec.             *)
(*                                                                         *)
(* read_config_files, init_signals, create_common_env and                 *)
(* build_needs_escape change neither descriptors nor credentials; the     *)
(* configuration they read is the constant part of the initial state.    *)
(***************************************************************************)
EXTENDS Naturals, Integers, Sequences, FiniteSets, FiniteSetsExt, Descriptors

CONSTANTS
  StdOpen,     \* the sets of descriptors among 0, 1, 2 open at exec
  Faults,      \* the failures a run may meet, "none" included
  Options,     \* the sets of command-line options: "r" (chroot), "d"
  StartUids,   \* the uids boa may be started as; 0 is root
  ServerUids   \* the uids the User directive may name

(* Mutant: the privileges dropped before the socket is bound. *)
CallsPrivsFirst == <<"prologue", "options", "fixup_server_root", "open_logs",
                     "drop_privs", "create_server_socket", "background">>

(* boa.c main, the calls that change descriptors or credentials, in order.*)
Calls == <<"prologue", "options", "fixup_server_root", "open_logs",
           "create_server_socket", "drop_privs", "background">>

Serving == Len(Calls) + 1

Running == -1

(* exit(errno) after a failed call: errno is set, so the status is not 0. *)
Errno == 1

VARIABLES
  fd,            \* [Fds -> Files \cup {Closed}]
  pc,            \* index into Calls; Serving once select_loop is entered
  exit_code,     \* Running, or the status passed to exit
  devnullfd,
  server_s,
  cgi_log_fd,    \* a global int: 0 until open_logs sets it
  uid, gid, groups,
  server_uid, server_gid,
  do_fork, chrooted,
  fault,         \* the one call that fails in this run, or "none"
  config         \* [opts, errlog, acclog, cgilog, privport]: argv and boa.conf

vars == <<fd, pc, exit_code, devnullfd, server_s, cgi_log_fd, uid, gid, groups,
          server_uid, server_gid, do_fork, chrooted, fault, config>>

-----------------------------------------------------------------------------

Init ==
  /\ \E open \in StdOpen : fd = [i \in Fds |-> IF i \in open THEN "inherited" ELSE Closed]
  /\ pc = 1
  /\ exit_code = Running
  /\ devnullfd = -1
  /\ server_s = -1
  /\ cgi_log_fd = 0
  /\ uid \in StartUids
  /\ gid = uid
  /\ groups = "caller"
  /\ server_uid \in ServerUids
  /\ server_gid = server_uid
  /\ do_fork = TRUE
  /\ chrooted = FALSE
  /\ fault \in Faults
  /\ config \in [opts : Options, errlog : BOOLEAN, acclog : BOOLEAN,
                 cgilog : BOOLEAN, privport : BOOLEAN]

At(call) == exit_code = Running /\ pc <= Len(Calls) /\ Calls[pc] = call

Exit(code) == /\ exit_code' = code

Next1 == pc' = pc + 1

(* Lines 58-81: /dev/null on stdin and stdout. *)
Prologue ==
  /\ At("prologue")
  /\ LET o == OpenAs(fd, "null", fault = "devnull") IN
       IF o.n = -1 THEN Exit(Errno) /\ UNCHANGED <<fd, devnullfd, pc>>
       ELSE /\ devnullfd' = o.n
            /\ fd' = Dup2(Dup2(o.f, o.n, 0), o.n, 1)
            /\ Next1 /\ UNCHANGED exit_code
  /\ UNCHANGED <<server_s, cgi_log_fd, uid, gid, groups, server_uid, server_gid,
                 do_fork, chrooted, fault, config>>

(* Lines 83-112: -r chdir, chroot (root only), chdir("/"); -d. *)
GetOptions ==
  /\ At("options")
  /\ LET r == "r" \in config.opts IN
       IF r /\ (fault = "chroot_dir" \/ uid # 0)
       THEN Exit(1) /\ UNCHANGED <<pc, chrooted, do_fork>>
       ELSE /\ chrooted' = r
            /\ do_fork' = ("d" \notin config.opts)
            /\ Next1 /\ UNCHANGED exit_code
  /\ UNCHANGED <<fd, devnullfd, server_s, cgi_log_fd, uid, gid, groups,
                 server_uid, server_gid, fault, config>>

(* Lines 232-257: chdir(server_root) or exit(1). *)
FixupServerRoot ==
  /\ At("fixup_server_root")
  /\ IF fault = "server_root" THEN Exit(1) /\ UNCHANGED pc
     ELSE Next1 /\ UNCHANGED exit_code
  /\ UNCHANGED <<fd, devnullfd, server_s, cgi_log_fd, uid, gid, groups,
                 server_uid, server_gid, do_fork, chrooted, fault, config>>

(* Mutant: the error log's own descriptor left open after the dup2. *)
ErrorLogNoClose(f, cfg, flt) ==
  IF ~cfg.errlog THEN [die |-> FALSE, f |-> f]
  ELSE LET e == OpenAs(f, "errlog", flt = "errlog") IN
       [die |-> e.n = 0 \/ ~Valid(e.f, e.n), f |-> Dup2(e.f, e.n, 2)]

(* log.c open_logs, lines 53-113.  The error log test is                  *)
(* !(error_log = open_gen_fd(...)): a failed open (-1) passes it and the  *)
(* dup2 of -1 fails instead.  A cgi log that cannot be opened or marked   *)
(* close-on-exec is given up: cgi_log_name = NULL, cgi_log_fd = 0.        *)
(* Lines 60-73: open the error log, dup2 it onto 2, close the original.  *)
ErrorLog(f, cfg, flt) ==
  IF ~cfg.errlog THEN [die |-> FALSE, f |-> f]
  ELSE LET e == OpenAs(f, "errlog", flt = "errlog") IN
       [die |-> e.n = 0 \/ ~Valid(e.f, e.n),
        f   |-> CloseFd(Dup2(e.f, e.n, 2), e.n)]

(* Lines 75-87: the access log, or /dev/null, onto 1. *)
AccessLog(f, cfg, flt) ==
  LET a == IF cfg.acclog THEN OpenAs(f, "acclog", flt = "acclog")
           ELSE OpenAs(f, "null", FALSE)
  IN [die |-> a.n < 0, f |-> CloseFd(Dup2(a.f, a.n, 1), a.n)]

(* Mutant: a failed open of the cgi log leaves cgi_log_fd at -1. *)
CgiLogKeepFd(f, cfg, flt) ==
  LET c  == OpenAs(f, "cgilog", flt = "cgilog")
      ok == c.n # -1 /\ flt # "cgi_fcntl"
  IN IF ~cfg.cgilog THEN [ok |-> FALSE, n |-> 0, f |-> f]
     ELSE [ok |-> ok,
           n  |-> IF c.n = -1 THEN -1 ELSE IF ok THEN c.n ELSE 0,
           f  |-> IF c.n = -1 THEN f ELSE IF ok THEN c.f ELSE CloseFd(c.f, c.n)]

(* Lines 89-105: the cgi log, kept open above 2 with close-on-exec set;  *)
(* on failure a warning and no cgi log.                                   *)
CgiLog(f, cfg, flt) ==
  LET c  == OpenAs(f, "cgilog", flt = "cgilog")
      ok == c.n # -1 /\ flt # "cgi_fcntl"
  IN IF ~cfg.cgilog THEN [ok |-> FALSE, n |-> 0, f |-> f]
     ELSE [ok |-> ok,
           n  |-> IF ok THEN c.n ELSE 0,
           f  |-> IF c.n = -1 THEN f ELSE IF ok THEN c.f ELSE CloseFd(c.f, c.n)]

OpenLogs ==
  /\ At("open_logs")
  /\ \E err \in {ErrorLog(fd, config, fault)} :
     \E acc \in {AccessLog(err.f, config, fault)} :
     \E cgi \in {CgiLog(acc.f, config, fault)} :
       IF err.die \/ acc.die
       THEN Exit(1) /\ UNCHANGED <<fd, pc, cgi_log_fd, config>>
       ELSE /\ fd' = cgi.f
            /\ cgi_log_fd' = IF config.cgilog THEN cgi.n ELSE cgi_log_fd
            /\ config' = [config EXCEPT !.cgilog = cgi.ok]
            /\ Next1 /\ UNCHANGED exit_code
  /\ UNCHANGED <<devnullfd, server_s, uid, gid, groups, server_uid, server_gid,
                 do_fork, chrooted, fault>>

(* boa.c create_server_socket, lines 143-182: socket, then nonblocking,  *)
(* close-on-exec, SO_REUSEADDR, bind and listen, each failure exit(errno).*)
(* Binding a port below 1024 needs root.                                  *)
CreateServerSocket ==
  /\ At("create_server_socket")
  /\ LET s == OpenAs(fd, "sock", fault = "socket") IN
       /\ fd' = s.f
       /\ server_s' = s.n
       /\ IF \/ s.n = -1
             \/ fault \in {"socket_setup", "bind"}
             \/ config.privport /\ uid # 0
          THEN Exit(Errno) /\ UNCHANGED pc
          ELSE Next1 /\ UNCHANGED exit_code
  /\ UNCHANGED <<devnullfd, cgi_log_fd, uid, gid, groups, server_uid, server_gid,
                 do_fork, chrooted, fault, config>>

(* Mutant: no setuid(0) test after setuid. *)
DropPrivsNoRecheck ==
  /\ At("drop_privs")
  /\ IF uid = 0
     THEN IF fault = "getpwuid"
          THEN /\ \E code \in {0, Errno} : Exit(code)
               /\ UNCHANGED <<pc, uid, gid, groups, server_uid, server_gid>>
          ELSE /\ groups' = "server"
               /\ gid' = server_gid
               /\ IF fault = "setuid"
                  THEN Exit(Errno) /\ UNCHANGED <<pc, uid>>
                  ELSE /\ uid' = IF fault = "setuid_lies" THEN 0 ELSE server_uid
                       /\ Next1 /\ UNCHANGED exit_code
               /\ UNCHANGED <<server_uid, server_gid>>
     ELSE /\ server_gid' = gid
          /\ server_uid' = uid
          /\ Next1 /\ UNCHANGED <<exit_code, uid, gid, groups>>
  /\ UNCHANGED <<fd, devnullfd, server_s, cgi_log_fd, do_fork, chrooted, fault, config>>

(* boa.c drop_privs, lines 184-223.  As root: getpwuid (on failure        *)
(* exit(errno), and errno may still be 0), initgroups, setgid, setuid,    *)
(* then setuid(0) must fail.  A kernel with the setuid bug the comment    *)
(* cites returns success without changing the uid.  Not as root: adopt    *)
(* the current ids.                                                       *)
DropPrivs ==
  /\ At("drop_privs")
  /\ IF uid = 0
     THEN IF fault = "getpwuid"
          THEN /\ \E code \in {0, Errno} : Exit(code)
               /\ UNCHANGED <<pc, uid, gid, groups, server_uid, server_gid>>
          ELSE /\ groups' = "server"
               /\ gid' = server_gid
               /\ IF fault = "setuid"
                  THEN Exit(Errno) /\ UNCHANGED <<pc, uid>>
                  ELSE LET u == IF fault = "setuid_lies" THEN 0 ELSE server_uid IN
                       /\ uid' = u
                       /\ IF u = 0 THEN Exit(1) /\ UNCHANGED pc
                          ELSE Next1 /\ UNCHANGED exit_code
               /\ UNCHANGED <<server_uid, server_gid>>
     ELSE /\ server_gid' = gid
          /\ server_uid' = uid
          /\ Next1 /\ UNCHANGED <<exit_code, uid, gid, groups>>
  /\ UNCHANGED <<fd, devnullfd, server_s, cgi_log_fd, do_fork, chrooted, fault, config>>

(* boa.c lines 124-139: if (fork()) exit(0).  A failed fork returns -1,   *)
(* which is true: the parent exits 0 and there is no child.  Otherwise    *)
(* the child goes on to select_loop.                                      *)
Background ==
  /\ At("background")
  /\ IF do_fork /\ fault = "fork" THEN Exit(0) /\ UNCHANGED pc
     ELSE Next1 /\ UNCHANGED exit_code
  /\ UNCHANGED <<fd, devnullfd, server_s, cgi_log_fd, uid, gid, groups,
                 server_uid, server_gid, do_fork, chrooted, fault, config>>

Next ==
  \/ Prologue
  \/ GetOptions
  \/ FixupServerRoot
  \/ OpenLogs
  \/ CreateServerSocket
  \/ DropPrivs
  \/ Background

(* One process that runs until it exits or reaches select_loop. *)
Spec == Init /\ [][Next]_vars /\ WF_vars(Next)

-----------------------------------------------------------------------------
(* Properties *)

TypeOK ==
  /\ fd \in [Fds -> Files \cup {Closed}]
  /\ pc \in 1 .. Serving
  /\ exit_code \in {Running, 0, 1}
  /\ devnullfd \in {-1} \cup Fds
  /\ server_s \in {-1} \cup Fds
  /\ cgi_log_fd \in Fds
  /\ uid \in StartUids \cup ServerUids
  /\ groups \in {"caller", "server"}

InSelectLoop == pc = Serving /\ exit_code = Running

(* The descriptor layout the comments of main and open_logs describe,     *)
(* once the server is in select_loop: stdin on /dev/null; stdout on the   *)
(* access log, or /dev/null; stderr on the error log, or left alone (the  *)
(* inherited stream or /dev/null); the server socket and the cgi log    *)
(* above the standard descriptors; and no descriptor open above 2 but    *)
(* those two, devnullfd and the temporary files requests open later.     *)
Layout ==
  /\ fd[0] = "null"
  /\ fd[1] = IF config.acclog THEN "acclog" ELSE "null"
  /\ fd[2] \in IF config.errlog THEN {"errlog"} ELSE {"inherited", "null"}
  /\ server_s > 2 /\ fd[server_s] = "sock"
  /\ config.cgilog => cgi_log_fd > 2 /\ fd[cgi_log_fd] = "cgilog"
  /\ \A i \in Fds : i > 2 /\ fd[i] \notin {Closed} \cup TmpFiles =>
                      i \in {devnullfd, server_s, cgi_log_fd}

(* Start-up either reaches select_loop with that layout, or exits with a  *)
(* non-zero status, so that whoever started boa can tell it failed.      *)
StartupOutcome ==
  /\ exit_code # Running => exit_code # 0
  /\ InSelectLoop => Layout

(* drop_privs: a server started as root never reaches select_loop as     *)
(* root, even on a kernel whose setuid reports success without acting;   *)
(* it then runs with the configured uid, gid and the user's groups.  One *)
(* not started as root keeps its own ids and records them.               *)
DropsPrivileges ==
  InSelectLoop =>
    /\ uid # 0
    /\ uid = server_uid
    /\ gid = server_gid

(* The configurations under which start-up can succeed: a chroot or a    *)
(* port below 1024 only as root, and as root a User other than root.      *)
Startable ==
  /\ fault = "none"
  /\ uid # 0 => "r" \notin config.opts /\ ~config.privport
  /\ uid = 0 => server_uid # 0

(* Without a failing call, a start-up that can succeed does: the order   *)
(* of main's calls binds the socket before the privileges are dropped.   *)
StartsUnlessFault == Startable ~> InSelectLoop

=============================================================================

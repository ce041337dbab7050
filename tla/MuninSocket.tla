----------------------------- MODULE MuninSocket -----------------------------
(***************************************************************************)
(* The life of a Munin daemon process around its socket path: Daemon::run  *)
(* and SocketServer::serve, or ShmDaemon::run and ShmSocketServer::serve,  *)
(* which differ in the governor lock only.                                 *)
(*                                                                         *)
(* Every element of Daemons is one process.  Several may overlap (a        *)
(* redeploy, an operator's mistake), and one may be killed at any point:   *)
(* the kernel then closes its descriptors and drops its flock, and the     *)
(* socket file stays.  The file is the process that bound it.  A connect   *)
(* succeeds iff that process still has its listening descriptor open.      *)
(***************************************************************************)
EXTENDS Naturals

CONSTANTS
    Daemons,
    None,
    Locked      \* TRUE: Daemon (GovernorLock), FALSE: ShmDaemon (no lock)

ASSUME SocketAssumption == None \notin Daemons /\ Locked \in BOOLEAN

VARIABLES
    dpc,        \* where each process is
    path,       \* the process that bound the socket file, None: no file
    lock        \* who holds the governor flock

socketVars == <<dpc, path, lock>>

(* The listening descriptor is open in these; the last one has closed it.  *)
Open == {"listening", "stopping", "swept", "joined"}
Bound == Open \cup {"bound", "closed"}
Alive == Bound \cup {"locked", "unlink", "bind", "refused", "exit"}
DaemonPhases == Alive \cup {"off", "exited", "crashed"}

SocketTypeOK ==
    /\ dpc \in [Daemons -> DaemonPhases]
    /\ path \in Daemons \cup {None}
    /\ lock \in Daemons \cup {None}

SocketInit ==
    /\ dpc = [d \in Daemons |-> "off"]
    /\ path = None
    /\ lock = None

DaemonAt(d, p) == dpc' = [dpc EXCEPT ![d] = p]
Connectable == path # None /\ dpc[path] \in Open
Unlocked(d) == IF lock = d THEN None ELSE lock
-----------------------------------------------------------------------------
(* GovernorLock::tryAcquire, and the lock-less start of ShmDaemon. *)
Start(d) ==
    /\ dpc[d] = "off"
    /\ IF Locked THEN lock = None /\ lock' = d ELSE UNCHANGED lock
    /\ DaemonAt(d, "locked")
    /\ UNCHANGED path

(* Held by another process, or the lock file cannot be opened. *)
LockFails(d) ==
    /\ dpc[d] = "off"
    /\ Locked
    /\ DaemonAt(d, "exited")
    /\ UNCHANGED <<path, lock>>

(* L0, the model store, the directory or the signal wiring fails. *)
StartFails(d) ==
    /\ dpc[d] = "locked"
    /\ DaemonAt(d, "exit")
    /\ UNCHANGED <<path, lock>>

(* Mutant of Probe: a file nobody answers on is taken for a live listener. *)
ProbeNeverStale(d) ==
    /\ dpc[d] = "locked"
    /\ DaemonAt(d, "bind")
    /\ UNCHANGED <<path, lock>>

(* isStaleSocket: a socket file nobody answers on is unlinked, in a second *)
(* step.                                                                   *)
Probe(d) ==
    /\ dpc[d] = "locked"
    /\ DaemonAt(d, IF path # None /\ ~Connectable THEN "unlink" ELSE "bind")
    /\ UNCHANGED <<path, lock>>

(* unlink removes what is there by now, and fails when nothing is. *)
UnlinkStale(d) ==
    /\ dpc[d] = "unlink"
    /\ path' = None
    /\ DaemonAt(d, IF path = None THEN "exit" ELSE "bind")
    /\ UNCHANGED lock

Bind(d) ==
    /\ dpc[d] = "bind"
    /\ path = None
    /\ path' = d
    /\ DaemonAt(d, "bound")
    /\ UNCHANGED lock

(* EADDRINUSE: serve throws. *)
BindFails(d) ==
    /\ dpc[d] = "bind"
    /\ path # None
    /\ DaemonAt(d, "refused")
    /\ UNCHANGED <<path, lock>>

Listen(d) ==
    /\ dpc[d] = "bound"
    /\ DaemonAt(d, "listening")
    /\ UNCHANGED <<path, lock>>

ListenFails(d) ==
    /\ dpc[d] = "bound"
    /\ path' = None
    /\ DaemonAt(d, "exit")
    /\ UNCHANGED lock

(* The shutdown event (or stop, or a failing poll) ends the accept loop. *)
Shutdown(d) ==
    /\ dpc[d] = "listening"
    /\ DaemonAt(d, "stopping")
    /\ UNCHANGED <<path, lock>>

(* Whoever owns the file by now. *)
UnlinkOwn(d) ==
    /\ dpc[d] = "closed"
    /\ path' = None
    /\ DaemonAt(d, "exit")
    /\ UNCHANGED lock

(* run returns: the lock is released with it. *)
Exit(d) ==
    /\ dpc[d] \in {"exit", "refused"}
    /\ DaemonAt(d, "exited")
    /\ lock' = Unlocked(d)
    /\ UNCHANGED path

(* The process is killed. *)
Killed(d) ==
    /\ dpc[d] \in Alive
    /\ DaemonAt(d, "crashed")
    /\ lock' = Unlocked(d)
    /\ UNCHANGED path
-----------------------------------------------------------------------------
(* A daemon that serves can be reached: the socket path leads to it.       *)
(* (isStaleSocket: "live listener -- do NOT touch".)                       *)
ListenerReachable == \A d \in Daemons : dpc[d] = "listening" => path = d

(* What a killed daemon leaves behind never keeps the next one from        *)
(* binding the path.                                                       *)
NeverLockedOut == \A d \in Daemons : dpc[d] # "refused"
=============================================================================

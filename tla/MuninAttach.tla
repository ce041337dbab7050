----------------------------- MODULE MuninAttach -----------------------------
(***************************************************************************)
(* The attach protocol between workers (MuninClient) and the daemons of    *)
(* MuninSocket: SocketServer's accept loop and shutdown, AttachSession on  *)
(* the daemon's side, framing by UnixSocketFrame.                          *)
(*                                                                         *)
(* A client makes one call, attach or healthz, on one connection; a retry  *)
(* is another client.  A frame travels as a length prefix, which carries   *)
(* the SCM_RIGHTS descriptor, and a payload, in two writes; the frames     *)
(* without a descriptor are one item.  What was written before the         *)
(* connection is cut is still read, then comes end of file.                *)
(*                                                                         *)
(* SocketServer never reaps a session: its slot, thread and descriptor     *)
(* stay until the daemon stops, so a session that is over does not cut its *)
(* connection.  A read or a write of the session may also fail while the   *)
(* connection is up (an oversized frame, no memory, too many descriptors   *)
(* in flight): the session then ends without a word to the client.         *)
(***************************************************************************)
EXTENDS MuninSocket, SequencesExt

CONSTANTS
    Clients,
    Asks,        \* the requests each client may send
    NChunks      \* chunks of the model, as its manifest lists them

Requests == {"attach", "unknown", "healthz"}

ASSUME AttachAssumption ==
    Asks \in [Clients -> SUBSET Requests] /\ NChunks \in Nat \ {0}

VARIABLES
    cpc,      \* where each client is
    conn,     \* the daemon its connection goes to
    ask,      \* the request it sent
    box,      \* what the session wrote and the client has not read
    mapped,   \* the chunks it has mapped, in order
    left,     \* clients whose end is closed
    cut,      \* clients whose connection the daemon's side has ended
    spc,      \* where the session of each client's connection is
    sent      \* handle frames it has sent in full

clientVars == <<cpc, ask, mapped>>
sessionVars == <<spc, sent>>
wireVars == <<box, left, cut>>
vars == <<socketVars, clientVars, sessionVars, wireVars, conn>>

Waiting == {"send", "recv", "chunks"}
ClientPhases == Waiting \cup {"off", "attached", "done", "failed"}
SessionPhases == {"none", "backlog", "request", "prefix", "payload",
                  "attached", "over"}
Frames == {"error", "health", "manifest", "prefix", "payload"}

TypeOK ==
    /\ SocketTypeOK
    /\ cpc \in [Clients -> ClientPhases]
    /\ conn \in [Clients -> Daemons \cup {None}]
    /\ ask \in [Clients -> Requests \cup {None}]
    /\ box \in [Clients -> Seq(Frames)]
    /\ mapped \in [Clients -> Seq(Nat)]
    /\ left \in SUBSET Clients /\ cut \in SUBSET Clients
    /\ spc \in [Clients -> SessionPhases]
    /\ sent \in [Clients -> Nat]

Init ==
    /\ SocketInit
    /\ cpc = [c \in Clients |-> "off"]
    /\ conn = [c \in Clients |-> None]
    /\ ask = [c \in Clients |-> None]
    /\ box = [c \in Clients |-> <<>>]
    /\ mapped = [c \in Clients |-> <<>>]
    /\ left = {} /\ cut = {}
    /\ spc = [c \in Clients |-> "none"]
    /\ sent = [c \in Clients |-> 0]

ClientAt(c, p) == cpc' = [cpc EXCEPT ![c] = p]
SessionAt(c, p) == spc' = [spc EXCEPT ![c] = p]
Down(c) == c \in left \cup cut
-----------------------------------------------------------------------------
(* connectUnix *)
Connect(c) ==
    /\ cpc[c] = "off"
    /\ Connectable
    /\ conn' = [conn EXCEPT ![c] = path]
    /\ SessionAt(c, "backlog")
    /\ ClientAt(c, "send")
    /\ UNCHANGED <<socketVars, ask, mapped, sent, wireVars>>

ConnectFails(c) ==
    /\ cpc[c] = "off"
    /\ ~Connectable
    /\ ClientAt(c, "failed")
    /\ UNCHANGED <<socketVars, ask, mapped, sessionVars, wireVars, conn>>

SendRequest(c, r) ==
    /\ cpc[c] = "send"
    /\ c \notin cut
    /\ ask' = [ask EXCEPT ![c] = r]
    /\ ClientAt(c, "recv")
    /\ UNCHANGED <<socketVars, mapped, sessionVars, wireVars, conn>>

(* Mutant of GiveUp: no rollback. *)
GiveUpKeepingMaps(c) ==
    /\ ClientAt(c, "failed")
    /\ left' = left \cup {c}
    /\ UNCHANGED mapped

(* The call fails: what was mapped is rolled back, the socket is closed. *)
GiveUp(c) ==
    /\ ClientAt(c, "failed")
    /\ mapped' = [mapped EXCEPT ![c] = <<>>]
    /\ left' = left \cup {c}

(* EPIPE for the request, or end of file before or inside a frame. *)
PeerGone(c) ==
    /\ cpc[c] \in Waiting
    /\ c \in cut
    /\ box[c] \in {<<>>, <<"prefix">>}
    /\ GiveUp(c)
    /\ UNCHANGED <<socketVars, ask, box, cut, sessionVars, conn>>

(* recv: blocks until the whole frame f is there. *)
Read(c, f) ==
    /\ IsPrefix(f, box[c])
    /\ box' = [box EXCEPT ![c] = SubSeq(@, Len(f) + 1, Len(@))]
    /\ UNCHANGED <<socketVars, ask, cut, sessionVars, conn>>

RecvManifest(c) ==
    /\ cpc[c] = "recv"
    /\ Read(c, <<"manifest">>)
    /\ ClientAt(c, "chunks")
    /\ UNCHANGED <<mapped, left>>

RecvError(c) ==
    /\ cpc[c] = "recv"
    /\ Read(c, <<"error">>)
    /\ GiveUp(c)

(* healthz closes its socket and returns. *)
RecvHealth(c) ==
    /\ cpc[c] = "recv"
    /\ Read(c, <<"health">>)
    /\ ClientAt(c, "done")
    /\ left' = left \cup {c}
    /\ UNCHANGED mapped

(* Mutant of RecvHandle: the loop over the manifest ends one chunk early. *)
RecvHandleOneShort(c) ==
    /\ cpc[c] = "chunks"
    /\ Read(c, <<"prefix", "payload">>)
    /\ mapped' = [mapped EXCEPT ![c] = Append(@, Len(@) + 1)]
    /\ ClientAt(c, IF Len(mapped[c]) + 2 >= NChunks THEN "attached" ELSE "chunks")
    /\ UNCHANGED left

(* The chunk is imported; after the last one the client keeps the socket. *)
RecvHandle(c) ==
    /\ cpc[c] = "chunks"
    /\ Read(c, <<"prefix", "payload">>)
    /\ mapped' = [mapped EXCEPT ![c] = Append(@, Len(@) + 1)]
    /\ ClientAt(c, IF Len(mapped[c]) + 1 = NChunks THEN "attached" ELSE "chunks")
    /\ UNCHANGED left

(* importChunk fails. *)
ImportFails(c) ==
    /\ cpc[c] = "chunks"
    /\ Read(c, <<"prefix", "payload">>)
    /\ GiveUp(c)

(* detach closes the socket; the mappings are the importer's. *)
Detach(c) ==
    /\ cpc[c] = "attached"
    /\ ClientAt(c, "done")
    /\ left' = left \cup {c}
    /\ UNCHANGED <<socketVars, ask, mapped, sessionVars, box, cut, conn>>

(* The worker's process ends, or its own read or write fails. *)
WorkerDies(c) ==
    /\ cpc[c] \in Waiting \cup {"attached"}
    /\ GiveUp(c)
    /\ UNCHANGED <<socketVars, ask, sessionVars, box, cut, conn>>
-----------------------------------------------------------------------------
(* The accept loop of the daemon the connection goes to. *)
Accept(c) ==
    /\ spc[c] = "backlog"
    /\ dpc[conn[c]] = "listening"
    /\ SessionAt(c, "request")
    /\ UNCHANGED <<socketVars, clientVars, wireVars, conn, sent>>

(* The session's thread runs while the process does. *)
Running(c) == spc[c] # "none" /\ dpc[conn[c]] \in Open

(* send: f reaches the wire, or, at any time, it does not. *)
Write(c, f, ok) ==
    /\ ok => ~Down(c)
    /\ box' = IF ok THEN [box EXCEPT ![c] = Append(@, f)] ELSE box

(* run: no request will come, or recv fails on what has come. *)
RecvRequestFails(c) ==
    /\ spc[c] = "request" /\ Running(c)
    /\ SessionAt(c, "over")
    /\ UNCHANGED <<socketVars, clientVars, wireVars, conn, sent>>

(* run: healthz, or an error for what the daemon does not serve; whether   *)
(* it was sent is not looked at.                                           *)
Answer(c) ==
    /\ spc[c] = "request" /\ Running(c)
    /\ ask[c] \in {"healthz", "unknown"}
    /\ \E ok \in BOOLEAN : Write(c, IF ask[c] = "healthz" THEN "health" ELSE "error", ok)
    /\ SessionAt(c, "over")
    /\ UNCHANGED <<socketVars, clientVars, left, cut, conn, sent>>

(* handleAttach: a chunk cannot be exported, an error frame and no more. *)
ExportFails(c) ==
    /\ spc[c] = "request" /\ Running(c)
    /\ ask[c] = "attach"
    /\ \E ok \in BOOLEAN : Write(c, "error", ok)
    /\ SessionAt(c, "over")
    /\ UNCHANGED <<socketVars, clientVars, left, cut, conn, sent>>

(* The manifest and then each handle frame; a failing write ends it, with  *)
(* no error frame.                                                         *)
SendManifest(c) ==
    /\ spc[c] = "request" /\ Running(c)
    /\ ask[c] = "attach"
    /\ \E ok \in BOOLEAN : /\ Write(c, "manifest", ok)
                           /\ SessionAt(c, IF ok THEN "prefix" ELSE "over")
    /\ UNCHANGED <<socketVars, clientVars, left, cut, conn, sent>>

SendPrefix(c) ==
    /\ spc[c] = "prefix" /\ Running(c)
    /\ \E ok \in BOOLEAN : /\ Write(c, "prefix", ok)
                           /\ SessionAt(c, IF ok THEN "payload" ELSE "over")
    /\ UNCHANGED <<socketVars, clientVars, left, cut, conn, sent>>

SendPayload(c) ==
    /\ spc[c] = "payload" /\ Running(c)
    /\ \E ok \in BOOLEAN :
          /\ Write(c, "payload", ok)
          /\ IF ok
             THEN /\ sent' = [sent EXCEPT ![c] = @ + 1]
                  /\ SessionAt(c, IF sent[c] + 1 = NChunks THEN "attached" ELSE "prefix")
             ELSE SessionAt(c, "over") /\ UNCHANGED sent
    /\ UNCHANGED <<socketVars, clientVars, left, cut, conn>>

(* waitForPeerClose *)
PeerClosed(c) ==
    /\ spc[c] = "attached" /\ Running(c)
    /\ Down(c)
    /\ SessionAt(c, "over")
    /\ UNCHANGED <<socketVars, clientVars, wireVars, conn, sent>>
-----------------------------------------------------------------------------
Sessions(d) == {c \in Clients : conn[c] = d /\ spc[c] \notin {"none", "backlog"}}

(* Mutant of Sweep: the sessions' sockets are not shut down. *)
SweepFlagOnly(d) ==
    /\ dpc[d] = "stopping"
    /\ DaemonAt(d, "swept")
    /\ UNCHANGED <<path, lock, clientVars, sessionVars, wireVars, conn>>

(* Every session is told to stop and its socket shut down. *)
Sweep(d) ==
    /\ dpc[d] = "stopping"
    /\ cut' = cut \cup Sessions(d)
    /\ DaemonAt(d, "swept")
    /\ UNCHANGED <<path, lock, clientVars, sessionVars, box, left, conn>>

Join(d) ==
    /\ dpc[d] = "swept"
    /\ \A c \in Sessions(d) : spc[c] = "over"
    /\ DaemonAt(d, "joined")
    /\ UNCHANGED <<path, lock, clientVars, sessionVars, wireVars, conn>>

(* Mutant of CloseListen: the lock is released before the unlink. *)
CloseListenUnlocking(d) ==
    /\ dpc[d] = "joined"
    /\ DaemonAt(d, "closed")
    /\ lock' = Unlocked(d)
    /\ cut' = cut \cup {c \in Clients : conn[c] = d}
    /\ UNCHANGED <<path, clientVars, sessionVars, box, left, conn>>

(* Mutant of CloseListen: connections never accepted are not reset. *)
CloseListenKeepingBacklog(d) ==
    /\ dpc[d] = "joined"
    /\ DaemonAt(d, "closed")
    /\ cut' = cut \cup Sessions(d)
    /\ UNCHANGED <<path, lock, clientVars, sessionVars, box, left, conn>>

(* Connections never accepted are reset. *)
CloseListen(d) ==
    /\ dpc[d] = "joined"
    /\ DaemonAt(d, "closed")
    /\ cut' = cut \cup {c \in Clients : conn[c] = d}
    /\ UNCHANGED <<path, lock, clientVars, sessionVars, box, left, conn>>

Crash(d) ==
    /\ Killed(d)
    /\ cut' = cut \cup {c \in Clients : conn[c] = d}
    /\ UNCHANGED <<clientVars, sessionVars, box, left, conn>>

SocketStep(d) ==
    /\ \/ Start(d) \/ LockFails(d) \/ StartFails(d) \/ Probe(d) \/ UnlinkStale(d)
       \/ Bind(d) \/ BindFails(d) \/ Listen(d) \/ ListenFails(d) \/ Shutdown(d)
       \/ UnlinkOwn(d) \/ Exit(d)
    /\ UNCHANGED <<clientVars, sessionVars, wireVars, conn>>

(* What the shutdown goes through once it has begun. *)
Stopping(d) ==
    \/ Sweep(d) \/ Join(d) \/ CloseListen(d)
    \/ dpc[d] \in {"closed", "exit"} /\ SocketStep(d)

ClientStep(c) ==
    \/ \E r \in Asks[c] : SendRequest(c, r)
    \/ PeerGone(c) \/ RecvManifest(c) \/ RecvError(c) \/ RecvHealth(c)
    \/ RecvHandle(c) \/ ImportFails(c)

SessionStep(c) ==
    \/ Accept(c) \/ RecvRequestFails(c) \/ Answer(c)
    \/ ExportFails(c) \/ SendManifest(c) \/ SendPrefix(c) \/ SendPayload(c)
    \/ PeerClosed(c)

Next ==
    \/ \E d \in Daemons : SocketStep(d) \/ Sweep(d) \/ Join(d) \/ CloseListen(d) \/ Crash(d)
    \/ \E c \in Clients : \/ Connect(c) \/ ConnectFails(c) \/ Detach(c) \/ WorkerDies(c)
                          \/ ClientStep(c) \/ SessionStep(c)

Spec == Init /\ [][Next]_vars

(* A session waits in recv while nothing comes. *)
Woken(c) == spc[c] = "request" => ask[c] # None \/ Down(c)

(* Threads run.  Nothing is assumed of starts, signals, crashes, of when a *)
(* worker connects, detaches or dies, or of whether a write fails.         *)
FairSpec ==
    /\ Spec
    /\ \A c \in Clients : WF_vars(ClientStep(c)) /\ WF_vars(SessionStep(c) /\ Woken(c))
    /\ \A d \in Daemons : WF_vars(Stopping(d))
-----------------------------------------------------------------------------
(* An attach that succeeds has mapped every chunk of the manifest, in      *)
(* order, and has read the answer to its end (attachOnConnectedFd).        *)
AttachedWhole ==
    \A c \in Clients : cpc[c] = "attached" =>
       mapped[c] = [i \in 1..NChunks |-> i] /\ box[c] = <<>>

(* An attach that fails in the middle leaves no mapping behind (rollback). *)
FailedHoldsNothing == \A c \in Clients : cpc[c] = "failed" => mapped[c] = <<>>

(* A client that has connected gets an answer or an error: it is never     *)
(* left in recv.  AttachSession.cpp:127 says of a session that has         *)
(* returned: "destructor closes the fd"; but nothing destroys a session    *)
(* while its daemon serves, and one that has failed to read or to write    *)
(* leaves its client waiting.                                              *)
ClientReturns ==
    \A c \in Clients :
       cpc[c] \in Waiting ~> cpc[c] \in ClientPhases \ Waiting

(* A daemon that stops or is killed takes its clients along: whether a     *)
(* connection was accepted, is being answered or its session has gone      *)
(* silent, the client's recv returns.                                      *)
StopReleasesClients ==
    \A c \in Clients :
       cpc[c] \in Waiting /\ dpc[conn[c]] # "listening"
          ~> cpc[c] \in ClientPhases \ Waiting

(* A shutdown ends: no session's thread keeps serve from joining.          *)
ShutdownReturns ==
    \A d \in Daemons : dpc[d] = "stopping" ~> dpc[d] \in {"exited", "crashed"}
=============================================================================

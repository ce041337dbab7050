-------------------------- MODULE MuninAttachProofs --------------------------
(***************************************************************************)
(* Proofs about MuninAttach, for any number of daemons, workers and        *)
(* chunks.                                                                 *)
(***************************************************************************)
EXTENDS MuninAttach, TLAPS

(***************************************************************************)
(* Part 1: the socket path, under the governor lock.                       *)
(***************************************************************************)

(* Whoever is past the lock holds it, and the file is its own from bind on. *)
PathInv ==
    /\ SocketTypeOK
    /\ \A d \in Daemons :
          /\ dpc[d] \in Alive => lock = d
          /\ dpc[d] \in Bound => path = d
          /\ dpc[d] = "bind" => path = None
          /\ dpc[d] = "unlink" => path # None
          /\ dpc[d] # "refused"

(* Before any daemon starts nothing is bound and nobody holds the lock.    *)
LEMMA PathInit == Init => PathInv
BY SocketAssumption DEF Init, SocketInit, PathInv, SocketTypeOK, Alive, Bound, Open, DaemonPhases

(* Every step of a socket's life keeps PathInv.                            *)
LEMMA PathSocketStep ==
    ASSUME Locked, PathInv, NEW d \in Daemons, SocketStep(d)
    PROVE  PathInv'
<1> USE SocketAssumption DEF PathInv, SocketTypeOK, DaemonAt
<1>1. CASE Start(d)
      BY <1>1 DEF Start, Alive, Bound, Open, DaemonPhases
<1>2. CASE LockFails(d)
      BY <1>2 DEF LockFails, Alive, Bound, Open, DaemonPhases
<1>3. CASE StartFails(d)
      BY <1>3 DEF StartFails, Alive, Bound, Open, DaemonPhases
<1>4. CASE Probe(d)
  <2>1. path # None => dpc[path] \notin Open \/ path = d
        BY <1>4 DEF Probe, Alive, Bound, Open, DaemonPhases
  <2>2. Connectable => FALSE
        BY <1>4, <2>1 DEF Connectable, Probe, Open
  <2> QED  BY <1>4, <2>2 DEF Probe, Alive, Bound, Open, DaemonPhases
<1>5. CASE UnlinkStale(d)
      BY <1>5 DEF UnlinkStale, Alive, Bound, Open, DaemonPhases
<1>6. CASE Bind(d)
      BY <1>6 DEF Bind, Alive, Bound, Open, DaemonPhases
<1>7. CASE BindFails(d)
      BY <1>7 DEF BindFails
<1>8. CASE Listen(d)
      BY <1>8 DEF Listen, Alive, Bound, Open, DaemonPhases
<1>9. CASE ListenFails(d)
      BY <1>9 DEF ListenFails, Alive, Bound, Open, DaemonPhases
<1>10. CASE Shutdown(d)
      BY <1>10 DEF Shutdown, Alive, Bound, Open, DaemonPhases
<1>11. CASE UnlinkOwn(d)
      BY <1>11 DEF UnlinkOwn, Alive, Bound, Open, DaemonPhases
<1>12. CASE Exit(d)
      BY <1>12 DEF Exit, Unlocked, Alive, Bound, Open, DaemonPhases
<1> QED  BY <1>1, <1>2, <1>3, <1>4, <1>5, <1>6, <1>7, <1>8, <1>9, <1>10, <1>11, <1>12
         DEF SocketStep

(* The shutdown (sweep, join, close of the listening socket) and a kill    *)
(* keep PathInv.                                                           *)
LEMMA PathDaemonStep ==
    ASSUME Locked, PathInv, NEW d \in Daemons,
           Sweep(d) \/ Join(d) \/ CloseListen(d) \/ Crash(d)
    PROVE  PathInv'
<1> USE SocketAssumption DEF PathInv, SocketTypeOK, DaemonAt
<1>1. CASE Sweep(d)
      BY <1>1 DEF Sweep, Alive, Bound, Open, DaemonPhases
<1>2. CASE Join(d)
      BY <1>2 DEF Join, Alive, Bound, Open, DaemonPhases
<1>3. CASE CloseListen(d)
      BY <1>3 DEF CloseListen, Alive, Bound, Open, DaemonPhases
<1>4. CASE Crash(d)
      BY <1>4 DEF Crash, Killed, Unlocked, Alive, Bound, Open, DaemonPhases
<1> QED  BY <1>1, <1>2, <1>3, <1>4

(* Workers and sessions never touch the path or the lock. *)
LEMMA PathClientStep ==
    ASSUME NEW c \in Clients,
           \/ Connect(c) \/ ConnectFails(c) \/ Detach(c) \/ WorkerDies(c)
           \/ ClientStep(c) \/ SessionStep(c)
    PROVE  UNCHANGED socketVars
BY DEF Connect, ConnectFails, Detach, WorkerDies, ClientStep, SendRequest, PeerGone,
       RecvManifest, RecvError, RecvHealth, RecvHandle, ImportFails, Read, SessionStep,
       Accept, RecvRequestFails, Answer, ExportFails, SendManifest, SendPrefix,
       SendPayload, PeerClosed

(* Steps of clients and sessions do not touch the path, the lock or the    *)
(* sockets.                                                                *)
LEMMA PathUnchanged == PathInv /\ UNCHANGED socketVars => PathInv'
BY DEF PathInv, SocketTypeOK, socketVars

(* PathInv is inductive: one case per disjunct of Next.                    *)
LEMMA PathInductive == ASSUME Locked PROVE Spec => []PathInv
<1>1. ASSUME PathInv, [Next]_vars PROVE PathInv'
  <2>1. CASE Next
        BY <1>1, <2>1, PathSocketStep, PathDaemonStep, PathClientStep, PathUnchanged DEF Next
  <2>2. CASE UNCHANGED vars
        BY <1>1, <2>2, PathUnchanged DEF vars
  <2> QED  BY <1>1, <2>1, <2>2
<1> QED  BY <1>1, PathInit, PTL DEF Spec

(* Under the governor lock a daemon that serves is the one the socket path *)
(* leads to, however daemons overlap, stop and are killed                  *)
(* (SocketServer::serve, isStaleSocket).                                   *)
THEOREM ListenerReachableHolds == ASSUME Locked PROVE Spec => []ListenerReachable
<1>1. PathInv => ListenerReachable
      BY DEF PathInv, ListenerReachable, Bound, Open
<1> QED  BY <1>1, PathInductive, PTL

(* Under the governor lock bind never finds the path taken, whatever a     *)
(* killed daemon left behind (SocketServer::serve).                        *)
THEOREM NeverLockedOutHolds == ASSUME Locked PROVE Spec => []NeverLockedOut
<1>1. PathInv => NeverLockedOut
      BY DEF PathInv, NeverLockedOut
<1> QED  BY <1>1, PathInductive, PTL

(***************************************************************************)
(* Part 2: what an attach has mapped.  How much of the answer a client has *)
(* read and still has in its box is bounded by what its session has        *)
(* written, so nothing is left to read when the last chunk is mapped.      *)
(***************************************************************************)
Consumed(c) == 2 * Len(mapped[c]) + IF cpc[c] \in {"chunks", "attached"} THEN 1 ELSE 0

Numbered(s) == \A i \in 1..Len(s) : s[i] = i

TypeInv ==
    /\ cpc \in [Clients -> ClientPhases]
    /\ box \in [Clients -> Seq(Frames)]
    /\ mapped \in [Clients -> Seq(Nat)]
    /\ spc \in [Clients -> SessionPhases]
    /\ sent \in [Clients -> Nat]

MapInv(c) ==
    /\ Numbered(mapped[c])
    /\ cpc[c] \in {"off", "send", "recv", "failed"} => mapped[c] = <<>>
    /\ cpc[c] = "chunks" => Len(mapped[c]) < NChunks
    /\ cpc[c] = "attached" => Len(mapped[c]) = NChunks

WireInv(c) ==
    /\ spc[c] \in {"none", "backlog", "request"} =>
          Len(box[c]) = 0 /\ sent[c] = 0 /\ cpc[c] \in {"off", "send", "recv", "failed"}
    /\ cpc[c] = "off" => spc[c] = "none"
    /\ spc[c] = "prefix" => sent[c] < NChunks /\ Len(box[c]) + Consumed(c) <= 1 + 2 * sent[c]
    /\ spc[c] = "payload" => sent[c] < NChunks /\ Len(box[c]) + Consumed(c) <= 2 + 2 * sent[c]
    /\ Len(box[c]) + Consumed(c) <= 1 + 2 * NChunks

AnswerInv == TypeInv /\ \A c \in Clients : MapInv(c) /\ WireInv(c)

(* Nothing of client c changes. *)
Still(c) ==
    /\ cpc'[c] = cpc[c] /\ box'[c] = box[c] /\ mapped'[c] = mapped[c]
    /\ spc'[c] = spc[c] /\ sent'[c] = sent[c]

(* A connection that no step touches keeps its part of AnswerInv.          *)
LEMMA StillInv ==
    ASSUME NEW c \in Clients, MapInv(c), WireInv(c), Still(c)
    PROVE  (MapInv(c) /\ WireInv(c))'
BY DEF MapInv, WireInv, Consumed, Still, Numbered

(* No client has connected yet.                                            *)
LEMMA AnswerInit == Init => AnswerInv
BY AttachAssumption
   DEF Init, AnswerInv, TypeInv, MapInv, WireInv, Consumed, Numbered, ClientPhases, Waiting,
       SessionPhases

(* Reading the frame f takes Len(f) items off the box. *)
LEMMA ReadTakes ==
    ASSUME TypeInv, NEW c \in Clients, NEW f \in Seq(Frames), Read(c, f)
    PROVE  /\ box' \in [Clients -> Seq(Frames)]
           /\ Len(box'[c]) = Len(box[c]) - Len(f)
           /\ Len(f) <= Len(box[c])
           /\ \A x \in Clients \ {c} : box'[x] = box[x]
           /\ spc' = spc /\ sent' = sent
<1>1. Len(f) <= Len(box[c])
      BY DEF Read, IsPrefix, TypeInv
<1>2. /\ SubSeq(box[c], Len(f) + 1, Len(box[c])) \in Seq(Frames)
      /\ Len(SubSeq(box[c], Len(f) + 1, Len(box[c]))) = Len(box[c]) - Len(f)
      BY <1>1 DEF TypeInv
<1> QED  BY <1>1, <1>2 DEF Read, TypeInv, sessionVars

(* A client that gives up, at whatever point, holds nothing. *)
LEMMA GiveUpInv ==
    ASSUME AnswerInv, NEW c \in Clients, GiveUp(c), cpc[c] # "off",
           box' \in [Clients -> Seq(Frames)], Len(box'[c]) <= Len(box[c]),
           \A x \in Clients \ {c} : box'[x] = box[x],
           spc' = spc, sent' = sent
    PROVE  AnswerInv'
<1> USE DEF GiveUp, ClientAt, AnswerInv, TypeInv
<1>0. <<>> \in Seq(Nat) /\ Len(<<>>) = 0
      OBVIOUS
<1>1. TypeInv'
      BY <1>0 DEF ClientPhases, Waiting
<1>2. ASSUME NEW x \in Clients, x # c PROVE (MapInv(x) /\ WireInv(x))'
      BY <1>2, StillInv DEF Still
<1>3. MapInv(c)'
      BY <1>0 DEF MapInv, Numbered
<1>4. Len(box'[c]) \in Nat /\ Len(box[c]) \in Nat /\ Len(mapped[c]) \in Nat
      OBVIOUS
<1>5. Consumed(c)' = 0 /\ Consumed(c) >= 0
      BY <1>0, <1>4 DEF Consumed
<1>6. Consumed(c) \in Nat
      BY <1>4 DEF Consumed
<1>7. WireInv(c)'
      BY <1>4, <1>5, <1>6, AttachAssumption DEF WireInv
<1> QED  BY <1>1, <1>2, <1>3, <1>7

(* The answers a session writes are frames of the protocol.                *)
LEMMA FrameTypes ==
    /\ <<"manifest">> \in Seq(Frames) /\ Len(<<"manifest">>) = 1
    /\ <<"error">> \in Seq(Frames) /\ Len(<<"error">>) = 1
    /\ <<"health">> \in Seq(Frames) /\ Len(<<"health">>) = 1
    /\ <<"prefix", "payload">> \in Seq(Frames) /\ Len(<<"prefix", "payload">>) = 2
BY DEF Frames

(* What the steps below have in common: only client c changes. *)
LEMMA OnlyClient ==
    ASSUME AnswerInv, TypeInv', NEW c \in Clients,
           \A x \in Clients \ {c} : Still(x),
           MapInv(c)', WireInv(c)'
    PROVE  AnswerInv'
<1>1. ASSUME NEW x \in Clients, x # c PROVE (MapInv(x) /\ WireInv(x))'
      BY <1>1, StillInv DEF AnswerInv
<1> QED  BY <1>1 DEF AnswerInv

(* The counters AnswerInv compares are natural numbers.                    *)
LEMMA Lengths ==
    ASSUME TypeInv, NEW c \in Clients
    PROVE  Len(box[c]) \in Nat /\ Len(mapped[c]) \in Nat /\ Consumed(c) \in Nat /\ sent[c] \in Nat
BY DEF TypeInv, Consumed

(* Connecting, failing to connect and sending the request keep AnswerInv.  *)
LEMMA ConnectInv ==
    ASSUME AnswerInv, NEW c \in Clients,
           Connect(c) \/ ConnectFails(c) \/ (\E r \in Asks[c] : SendRequest(c, r))
    PROVE  AnswerInv'
<1> USE AttachAssumption DEF ClientAt, SessionAt, clientVars, sessionVars, wireVars
<1>1. TypeInv'
      BY DEF AnswerInv, TypeInv, Connect, ConnectFails, SendRequest, ClientPhases, Waiting,
             SessionPhases
<1>2. \A x \in Clients \ {c} : Still(x)
      BY DEF AnswerInv, TypeInv, Connect, ConnectFails, SendRequest, Still
<1>3. MapInv(c)'
      BY DEF AnswerInv, TypeInv, Connect, ConnectFails, SendRequest, MapInv, Numbered
<1>4. WireInv(c)'
      BY DEF AnswerInv, TypeInv, Connect, ConnectFails, SendRequest, WireInv, Consumed
<1> QED  BY <1>1, <1>2, <1>3, <1>4, OnlyClient

(* A client that gives up, whatever the reason, drops the mappings it had. *)
LEMMA GiveUpSteps ==
    ASSUME AnswerInv, NEW c \in Clients,
           PeerGone(c) \/ RecvError(c) \/ ImportFails(c) \/ WorkerDies(c)
    PROVE  AnswerInv'
<1>0. TypeInv /\ Len(box[c]) \in Nat
      BY Lengths DEF AnswerInv
<1>1. CASE PeerGone(c)
  <2>1. /\ GiveUp(c) /\ cpc[c] # "off" /\ box' = box /\ spc' = spc /\ sent' = sent
        /\ box' \in [Clients -> Seq(Frames)] /\ Len(box'[c]) <= Len(box[c])
        BY <1>0, <1>1 DEF PeerGone, Waiting, TypeInv, sessionVars
  <2> QED  BY <2>1, GiveUpInv
<1>2. CASE RecvError(c)
  <2>1. GiveUp(c) /\ cpc[c] # "off" /\ Read(c, <<"error">>)
        BY <1>2 DEF RecvError
  <2>2. /\ box' \in [Clients -> Seq(Frames)] /\ Len(box'[c]) <= Len(box[c])
        /\ \A x \in Clients \ {c} : box'[x] = box[x]
        /\ spc' = spc /\ sent' = sent
    <3>1. Len(box'[c]) = Len(box[c]) - Len(<<"error">>)
          BY <1>0, <2>1, ReadTakes, FrameTypes
    <3>2. Len(box'[c]) <= Len(box[c])
          BY <1>0, <3>1, FrameTypes
    <3> QED  BY <1>0, <2>1, <3>2, ReadTakes, FrameTypes
  <2> QED  BY <2>1, <2>2, GiveUpInv
<1>3. CASE ImportFails(c)
  <2>1. GiveUp(c) /\ cpc[c] # "off" /\ Read(c, <<"prefix", "payload">>)
        BY <1>3 DEF ImportFails
  <2>2. /\ box' \in [Clients -> Seq(Frames)] /\ Len(box'[c]) <= Len(box[c])
        /\ \A x \in Clients \ {c} : box'[x] = box[x]
        /\ spc' = spc /\ sent' = sent
    <3>1. Len(box'[c]) = Len(box[c]) - Len(<<"prefix", "payload">>)
          BY <1>0, <2>1, ReadTakes, FrameTypes
    <3>2. Len(box'[c]) <= Len(box[c])
          BY <1>0, <3>1, FrameTypes
    <3> QED  BY <1>0, <2>1, <3>2, ReadTakes, FrameTypes
  <2> QED  BY <2>1, <2>2, GiveUpInv
<1>4. CASE WorkerDies(c)
  <2>1. /\ GiveUp(c) /\ cpc[c] # "off" /\ box' = box /\ spc' = spc /\ sent' = sent
        /\ box' \in [Clients -> Seq(Frames)] /\ Len(box'[c]) <= Len(box[c])
        BY <1>0, <1>4 DEF WorkerDies, Waiting, TypeInv, sessionVars
  <2> QED  BY <2>1, GiveUpInv
<1> QED  BY <1>1, <1>2, <1>3, <1>4

(* The manifest announces the frames that follow it.                       *)
LEMMA RecvManifestInv ==
    ASSUME AnswerInv, NEW c \in Clients, RecvManifest(c)
    PROVE  AnswerInv'
<1> USE AttachAssumption DEF ClientAt, RecvManifest, AnswerInv
<1>0. /\ box' \in [Clients -> Seq(Frames)]
      /\ Len(box'[c]) = Len(box[c]) - 1 /\ 1 <= Len(box[c])
      /\ \A x \in Clients \ {c} : box'[x] = box[x]
      /\ spc' = spc /\ sent' = sent
      BY ReadTakes, FrameTypes
<1>1. TypeInv'
      BY <1>0 DEF TypeInv, ClientPhases, Waiting
<1>2. \A x \in Clients \ {c} : Still(x)
      BY <1>0 DEF TypeInv, Still
<1>3. mapped[c] = <<>> /\ Len(mapped[c]) = 0
      BY DEF MapInv
<1>4. MapInv(c)'
      BY <1>3 DEF MapInv, Numbered, TypeInv
<1>5. Consumed(c)' = 1 /\ Consumed(c) = 0
      BY <1>3 DEF Consumed, TypeInv
<1>6. WireInv(c)'
      BY <1>0, <1>5, Lengths DEF WireInv, TypeInv
<1> QED  BY <1>1, <1>2, <1>4, <1>6, OnlyClient

(* Reading a health answer and detaching keep AnswerInv.                   *)
LEMMA RecvHealthInv ==
    ASSUME AnswerInv, NEW c \in Clients, RecvHealth(c) \/ Detach(c)
    PROVE  AnswerInv'
<1> USE AttachAssumption DEF ClientAt, AnswerInv
<1>0. /\ box' \in [Clients -> Seq(Frames)]
      /\ Len(box'[c]) <= Len(box[c])
      /\ spc[c] \in {"none", "backlog", "request"} => FALSE
      /\ \A x \in Clients \ {c} : box'[x] = box[x]
      /\ spc' = spc /\ sent' = sent
  <2>0. TypeInv /\ Len(box[c]) \in Nat /\ WireInv(c)
        BY Lengths
  <2>1. CASE RecvHealth(c)
    <3>1. Read(c, <<"health">>) /\ cpc[c] = "recv"
          BY <2>1 DEF RecvHealth
    <3>2. /\ box' \in [Clients -> Seq(Frames)]
          /\ Len(box'[c]) = Len(box[c]) - 1 /\ 1 <= Len(box[c])
          /\ \A x \in Clients \ {c} : box'[x] = box[x]
          /\ spc' = spc /\ sent' = sent
          BY <2>0, <3>1, ReadTakes, FrameTypes
    <3> QED  BY <2>0, <3>2 DEF WireInv
  <2>2. CASE Detach(c)
        BY <2>0, <2>2 DEF Detach, TypeInv, sessionVars, WireInv
  <2> QED  BY <2>1, <2>2
<1>a. mapped' = mapped /\ cpc' = [cpc EXCEPT ![c] = "done"]
      BY DEF RecvHealth, Detach
<1>1. TypeInv'
      BY <1>0, <1>a DEF TypeInv, ClientPhases
<1>2. \A x \in Clients \ {c} : Still(x)
      BY <1>0, <1>a DEF TypeInv, Still
<1>4. MapInv(c)'
      BY <1>a DEF MapInv, Numbered, TypeInv
<1>5. Consumed(c)' <= Consumed(c) /\ Consumed(c)' \in Nat /\ Len(box'[c]) \in Nat
      BY <1>0, <1>a, Lengths DEF Consumed, TypeInv
<1>6. WireInv(c)'
      BY <1>0, <1>a, <1>5, Lengths DEF WireInv, TypeInv
<1> QED  BY <1>1, <1>2, <1>4, <1>6, OnlyClient

(* Each handle read maps the next chunk, in order.                         *)
LEMMA RecvHandleInv ==
    ASSUME AnswerInv, NEW c \in Clients, RecvHandle(c)
    PROVE  AnswerInv'
<1> USE AttachAssumption DEF ClientAt, RecvHandle, AnswerInv
<1>0. /\ box' \in [Clients -> Seq(Frames)]
      /\ Len(box'[c]) = Len(box[c]) - 2 /\ 2 <= Len(box[c])
      /\ \A x \in Clients \ {c} : box'[x] = box[x]
      /\ spc' = spc /\ sent' = sent
      BY ReadTakes, FrameTypes
<1>3. /\ Append(mapped[c], Len(mapped[c]) + 1) \in Seq(Nat)
      /\ Len(mapped'[c]) = Len(mapped[c]) + 1
      /\ mapped'[c] = Append(mapped[c], Len(mapped[c]) + 1)
      BY Lengths DEF TypeInv
<1>1. TypeInv'
      BY <1>0, <1>3 DEF TypeInv, ClientPhases, Waiting
<1>2. \A x \in Clients \ {c} : Still(x)
      BY <1>0 DEF TypeInv, Still
<1>4. Numbered(mapped'[c])
      BY <1>3, Lengths DEF MapInv, Numbered, TypeInv
<1>5. MapInv(c)'
      BY <1>3, <1>4, Lengths DEF MapInv, Numbered, TypeInv
<1>6. Consumed(c)' = Consumed(c) + 2
      BY <1>3, Lengths DEF Consumed, TypeInv
<1>8. /\ cpc[c] = "chunks" /\ cpc'[c] \in {"chunks", "attached"}
      /\ spc[c] \notin {"none", "backlog", "request"}
      BY DEF WireInv, TypeInv
<1>9. /\ Len(box[c]) \in Nat /\ Consumed(c) \in Nat
      /\ Len(box'[c]) + Consumed(c)' = Len(box[c]) + Consumed(c)
      BY <1>0, <1>6, Lengths
<1>7. WireInv(c)'
      BY <1>0, <1>8, <1>9 DEF WireInv
<1> QED  BY <1>1, <1>2, <1>5, <1>7, OnlyClient

(* Writing adds one item, or nothing when it fails. *)
LEMMA WriteAdds ==
    ASSUME TypeInv, NEW c \in Clients, NEW f \in Frames, NEW ok \in BOOLEAN,
           Write(c, f, ok)
    PROVE  /\ box' \in [Clients -> Seq(Frames)]
           /\ Len(box'[c]) <= Len(box[c]) + 1
           /\ ~ok => box' = box
           /\ \A x \in Clients \ {c} : box'[x] = box[x]
<1>1. /\ Append(box[c], f) \in Seq(Frames)
      /\ Len(Append(box[c], f)) = Len(box[c]) + 1
      /\ Len(box[c]) \in Nat
      BY DEF TypeInv
<1> QED  BY <1>1 DEF Write, TypeInv

(* The steps of a session that send nothing. *)
LEMMA QuietSessionInv ==
    ASSUME AnswerInv, NEW c \in Clients,
           Accept(c) \/ RecvRequestFails(c) \/ PeerClosed(c)
    PROVE  AnswerInv'
<1> USE DEF SessionAt, clientVars, wireVars, AnswerInv
<1>1. TypeInv'
      BY DEF TypeInv, Accept, RecvRequestFails, PeerClosed, SessionPhases
<1>2. \A x \in Clients \ {c} : Still(x)
      BY DEF TypeInv, Accept, RecvRequestFails, PeerClosed, Still
<1>3. MapInv(c)'
      BY DEF Accept, RecvRequestFails, PeerClosed, MapInv, Numbered
<1>4. WireInv(c)'
      BY DEF Accept, RecvRequestFails, PeerClosed, WireInv, Consumed, TypeInv
<1> QED  BY <1>1, <1>2, <1>3, <1>4, OnlyClient

(* The first frame of an answer, from a session that has sent nothing. *)
LEMMA FirstFrameInv ==
    ASSUME AnswerInv, NEW c \in Clients,
           Answer(c) \/ ExportFails(c) \/ SendManifest(c)
    PROVE  AnswerInv'
<1> USE AttachAssumption DEF SessionAt, clientVars
<1>0. TypeInv /\ MapInv(c) /\ WireInv(c)
      BY DEF AnswerInv
<1>a. /\ spc[c] = "request"
      /\ \E f \in Frames, ok \in BOOLEAN : Write(c, f, ok)
      /\ \/ spc' = [spc EXCEPT ![c] = "over"]
         \/ spc' = [spc EXCEPT ![c] = "prefix"]
      /\ cpc' = cpc /\ mapped' = mapped /\ sent' = sent
      BY DEF Answer, ExportFails, SendManifest, Frames
<1>b. /\ box' \in [Clients -> Seq(Frames)]
      /\ Len(box'[c]) <= Len(box[c]) + 1
      /\ \A x \in Clients \ {c} : box'[x] = box[x]
      BY <1>0, <1>a, WriteAdds
<1>1. TypeInv'
      BY <1>0, <1>a, <1>b DEF TypeInv, SessionPhases
<1>2. \A x \in Clients \ {c} : Still(x)
      BY <1>0, <1>a, <1>b DEF TypeInv, Still
<1>3. MapInv(c)'
      BY <1>0, <1>a DEF MapInv, Numbered
<1>4. /\ Len(box[c]) = 0 /\ sent[c] = 0 /\ cpc[c] \in {"off", "send", "recv", "failed"}
      /\ Len(mapped[c]) = 0
      BY <1>0, <1>a DEF WireInv, MapInv
<1>5. Consumed(c)' = 0 /\ Len(box'[c]) \in Nat /\ Len(box'[c]) <= 1
      BY <1>a, <1>b, <1>4 DEF Consumed
<1>6. cpc[c] # "off"
      BY <1>0, <1>a DEF WireInv
<1>7. WireInv(c)'
      BY <1>0, <1>a, <1>4, <1>5, <1>6 DEF WireInv, TypeInv
<1> QED  BY <1>1, <1>2, <1>3, <1>7, OnlyClient

(* The prefix of a frame, with its descriptors, goes out before the        *)
(* payload.                                                                *)
LEMMA SendPrefixInv ==
    ASSUME AnswerInv, NEW c \in Clients, SendPrefix(c)
    PROVE  AnswerInv'
<1> USE AttachAssumption DEF SessionAt, clientVars
<1>0. TypeInv /\ MapInv(c) /\ WireInv(c)
      BY DEF AnswerInv
<1>a. PICK ok \in BOOLEAN :
         /\ spc[c] = "prefix"
         /\ Write(c, "prefix", ok) /\ "prefix" \in Frames
         /\ \/ spc' = [spc EXCEPT ![c] = "over"] /\ ~ok
            \/ spc' = [spc EXCEPT ![c] = "payload"]
         /\ cpc' = cpc /\ mapped' = mapped /\ sent' = sent
      BY DEF SendPrefix, Frames
<1>b. /\ box' \in [Clients -> Seq(Frames)]
      /\ Len(box'[c]) <= Len(box[c]) + 1
      /\ ~ok => box' = box
      /\ \A x \in Clients \ {c} : box'[x] = box[x]
      BY <1>0, <1>a, WriteAdds
<1>1. TypeInv'
      BY <1>0, <1>a, <1>b DEF TypeInv, SessionPhases
<1>2. \A x \in Clients \ {c} : Still(x)
      BY <1>0, <1>a, <1>b DEF TypeInv, Still
<1>3. MapInv(c)'
      BY <1>0, <1>a DEF MapInv, Numbered
<1>4. Consumed(c)' = Consumed(c)
      BY <1>a DEF Consumed
<1>5. /\ Consumed(c) \in Nat /\ sent[c] \in Nat
      /\ Len(box'[c]) \in Nat /\ Len(box[c]) \in Nat
      BY <1>0, <1>b, Lengths
<1>6. cpc[c] # "off"
      BY <1>0, <1>a DEF WireInv
<1>7. WireInv(c)'
      BY <1>0, <1>a, <1>b, <1>4, <1>5, <1>6 DEF WireInv, TypeInv
<1> QED  BY <1>1, <1>2, <1>3, <1>7, OnlyClient

(* The payload completes the frame the session is sending.                 *)
LEMMA SendPayloadInv ==
    ASSUME AnswerInv, NEW c \in Clients, SendPayload(c)
    PROVE  AnswerInv'
<1> USE AttachAssumption DEF SessionAt, clientVars
<1>0. TypeInv /\ MapInv(c) /\ WireInv(c)
      BY DEF AnswerInv
<1>a. PICK ok \in BOOLEAN :
         /\ spc[c] = "payload"
         /\ Write(c, "payload", ok) /\ "payload" \in Frames
         /\ \/ spc' = [spc EXCEPT ![c] = "over"] /\ ~ok /\ sent' = sent
            \/ /\ spc' = [spc EXCEPT ![c] = IF sent[c] + 1 = NChunks THEN "attached" ELSE "prefix"]
               /\ sent' = [sent EXCEPT ![c] = @ + 1]
         /\ cpc' = cpc /\ mapped' = mapped
      BY DEF SendPayload, Frames
<1>b. /\ box' \in [Clients -> Seq(Frames)]
      /\ Len(box'[c]) <= Len(box[c]) + 1
      /\ ~ok => box' = box
      /\ \A x \in Clients \ {c} : box'[x] = box[x]
      BY <1>0, <1>a, WriteAdds
<1>1. TypeInv'
  <2>1. spc' \in [Clients -> SessionPhases]
        BY <1>0, <1>a DEF TypeInv, SessionPhases
  <2>2. sent' \in [Clients -> Nat]
    <3>1. sent \in [Clients -> Nat] /\ sent[c] + 1 \in Nat
          BY <1>0 DEF TypeInv
    <3>2. sent' = sent \/ sent' = [sent EXCEPT ![c] = @ + 1]
          BY <1>a
    <3> QED  BY <3>1, <3>2
  <2> QED  BY <1>0, <1>a, <1>b, <2>1, <2>2 DEF TypeInv
<1>2. \A x \in Clients \ {c} : Still(x)
      BY <1>0, <1>a, <1>b DEF TypeInv, Still
<1>3. MapInv(c)'
      BY <1>0, <1>a DEF MapInv, Numbered
<1>4. Consumed(c)' = Consumed(c)
      BY <1>a DEF Consumed
<1>5. /\ Consumed(c) \in Nat /\ sent[c] \in Nat
      /\ Len(box'[c]) \in Nat /\ Len(box[c]) \in Nat
      BY <1>0, <1>b, Lengths
<1>6. cpc[c] # "off"
      BY <1>0, <1>a DEF WireInv
<1>7. WireInv(c)'
  <2>0. /\ c \in Clients /\ sent[c] < NChunks /\ NChunks \in Nat
        /\ Len(box[c]) + Consumed(c) <= 2 + 2 * sent[c]
        /\ Len(box[c]) + Consumed(c) <= 1 + 2 * NChunks
        BY <1>0, <1>a DEF WireInv
  <2>1. CASE spc' = [spc EXCEPT ![c] = "over"] /\ ~ok /\ sent' = sent
    <3>1. spc'[c] = "over" /\ box'[c] = box[c] /\ cpc'[c] = cpc[c]
          BY <1>0, <1>a, <1>b, <2>1 DEF TypeInv
    <3> QED  BY <1>4, <1>5, <1>6, <2>0, <2>1, <3>1 DEF WireInv
  <2>2. CASE /\ spc' = [spc EXCEPT ![c] = IF sent[c] + 1 = NChunks THEN "attached" ELSE "prefix"]
             /\ sent' = [sent EXCEPT ![c] = @ + 1]
    <3>1. /\ spc'[c] = IF sent[c] + 1 = NChunks THEN "attached" ELSE "prefix"
          /\ sent'[c] = sent[c] + 1 /\ cpc'[c] = cpc[c]
          BY <1>0, <1>a, <2>2 DEF TypeInv
    <3>2. Len(box'[c]) + Consumed(c) <= 1 + 2 * (sent[c] + 1)
          BY <1>b, <1>5, <2>0, SMTT(30)
    <3>3. Len(box'[c]) + Consumed(c) <= 1 + 2 * NChunks
          BY <1>5, <2>0, <3>2, SMTT(30)
    <3>4. spc'[c] \in {"attached", "prefix"}
          BY <3>1
    <3>5. spc'[c] = "prefix" => sent'[c] < NChunks
          BY <1>5, <2>0, <3>1
    <3>6. /\ Len(box'[c]) + Consumed(c)' <= 1 + 2 * sent'[c]
          /\ Len(box'[c]) + Consumed(c)' <= 1 + 2 * NChunks
          BY <1>4, <3>1, <3>2, <3>3
    <3>7. cpc'[c] # "off"
          BY <1>6, <3>1
    <3> QED  BY <3>4, <3>5, <3>6, <3>7 DEF WireInv
  <2> QED  BY <1>a, <2>1, <2>2
<1> QED  BY <1>1, <1>2, <1>3, <1>7, OnlyClient

(* Steps that leave connections, clients and sessions alone keep           *)
(* AnswerInv.                                                              *)
LEMMA AnswerUnchanged ==
    ASSUME AnswerInv, UNCHANGED <<clientVars, sessionVars, box>>
    PROVE  AnswerInv'
<1>1. TypeInv'
      BY DEF AnswerInv, TypeInv, clientVars, sessionVars
<1>2. ASSUME NEW x \in Clients PROVE (MapInv(x) /\ WireInv(x))'
      BY <1>2, StillInv DEF AnswerInv, Still, clientVars, sessionVars
<1> QED  BY <1>1, <1>2 DEF AnswerInv

(* AnswerInv is inductive: one case per disjunct of Next.                  *)
LEMMA AnswerInductive == Spec => []AnswerInv
<1>1. ASSUME AnswerInv, [Next]_vars PROVE AnswerInv'
  <2>1. ASSUME NEW d \in Daemons,
               SocketStep(d) \/ Sweep(d) \/ Join(d) \/ CloseListen(d) \/ Crash(d)
        PROVE  AnswerInv'
        BY <1>1, <2>1, AnswerUnchanged
        DEF SocketStep, Sweep, Join, CloseListen, Crash, wireVars
  <2>2. ASSUME NEW c \in Clients,
               Connect(c) \/ ConnectFails(c) \/ Detach(c) \/ WorkerDies(c) \/ ClientStep(c)
        PROVE  AnswerInv'
        BY <1>1, <2>2, ConnectInv, GiveUpSteps, RecvManifestInv, RecvHealthInv, RecvHandleInv
        DEF ClientStep
  <2>3. ASSUME NEW c \in Clients, SessionStep(c)
        PROVE  AnswerInv'
        BY <1>1, <2>3, QuietSessionInv, FirstFrameInv, SendPrefixInv, SendPayloadInv
        DEF SessionStep
  <2>4. CASE UNCHANGED vars
        BY <1>1, <2>4, AnswerUnchanged DEF vars, wireVars
  <2> QED  BY <1>1, <2>1, <2>2, <2>3, <2>4 DEF Next
<1> QED  BY <1>1, AnswerInit, PTL DEF Spec

(* An attach that succeeds has mapped the manifest's chunks, all of them   *)
(* and in order, and has left nothing of the answer unread, whatever the   *)
(* daemons do (attachOnConnectedFd, handleAttach).                         *)
THEOREM AttachedWholeHolds == Spec => []AttachedWhole
<1>1. ASSUME AnswerInv, NEW c \in Clients, cpc[c] = "attached"
      PROVE  mapped[c] = [i \in 1..NChunks |-> i] /\ box[c] = <<>>
  <2>1. Len(mapped[c]) = NChunks /\ Numbered(mapped[c]) /\ mapped[c] \in Seq(Nat)
        BY <1>1 DEF AnswerInv, MapInv, TypeInv
  <2>2. Consumed(c) = 2 * NChunks + 1
        BY <1>1, <2>1, AttachAssumption DEF Consumed
  <2>3. Len(box[c]) = 0 /\ box[c] \in Seq(Frames)
        BY <1>1, <2>2, AttachAssumption DEF AnswerInv, WireInv, TypeInv
  <2>4. mapped[c] = [i \in 1..NChunks |-> i]
        BY <2>1, SMTT(30) DEF Numbered
  <2> QED  BY <2>3, <2>4
<1>2. AnswerInv => AttachedWhole
      BY <1>1 DEF AttachedWhole
<1> QED  BY <1>2, AnswerInductive, PTL

(* An attach that fails, at whatever point, holds no mapping               *)
(* (attachOnConnectedFd's rollback).                                       *)
THEOREM FailedHoldsNothingHolds == Spec => []FailedHoldsNothing
<1>1. AnswerInv => FailedHoldsNothing
      BY DEF AnswerInv, MapInv, FailedHoldsNothing
<1> QED  BY <1>1, AnswerInductive, PTL
=============================================================================

---------------------------- MODULE BaseService ----------------------------
(***************************************************************************)
(* base.Service: the state and goroutines that the rover and controller    *)
(* processes share (base/service.go).  A process that is started again is  *)
(* another element of Rover or Controller, with fresh channels and a fresh *)
(* connection, as a new Service value is in the code.                      *)
(***************************************************************************)
EXTENDS Naturals, Sequences, FiniteSets

CONSTANTS
  Rover, Controller,  \* the incarnations of the two programs
  Earlier,            \* pairs of incarnations: the first one is started before the second
  GstreamerCli,       \* the processes with Conf.GstreamerCli: which webrtc function Run starts
  SocketCap,          \* bound: messages a TCP direction holds before Write blocks
  MayExit,            \* bound: processes that may lose the server or panic
  SignInFirst,        \* schedule: SignIn writes before Send writes anything
  SleepSuffices,      \* schedule: time.Sleep(1s) outlasts the end of a session that can end
  None

ASSUME BaseAssumption ==
  /\ Rover \cap Controller = {}
  /\ None \notin Rover \cup Controller
  /\ GstreamerCli \subseteq Rover \cup Controller
  /\ {SignInFirst, SleepSuffices} \subseteq BOOLEAN
  /\ Earlier \subseteq (Rover \cup Controller) \X (Rover \cup Controller)
  /\ SocketCap \in Nat \ {0}
  /\ MayExit \subseteq Rover \cup Controller

Client == Rover \cup Controller

(* conf/rover.ini has id = 1 and remoteId = 2, conf/controller.ini 2 and 1. *)
Id(c) == IF c \in Rover THEN 1 ELSE 2
RemoteId(c) == IF c \in Rover THEN 2 ELSE 1
User == {1, 2}

VARIABLES
  proc,      \* "off" (not started), "up" or "down" (exited)
  signedIn,  \* the SignIn goroutine has written its message
  chans,     \* the four channels of the Service struct
  outbox,    \* what is in ServerConn, towards the server
  inbox,     \* what is in ServerConn, from the server
  run,       \* where Run is, and the SDP it holds
  sess       \* the webrtc goroutines, in the order Run started them

baseVars == <<proc, signedIn, chans, outbox, inbox, run, sess>>

-----------------------------------------------------------------------------
(* Session descriptions.  Only their origin matters: the session that made *)
(* one, and for an answer the session whose offer it answers.              *)

Session == Client \X (Nat \ {0})

SDP == [type : {"offer", "answer"}, from : Session, re : Session \cup {None}]

ASSUME SDPAssumption == None \notin SDP

Offer(c, s) == [type |-> "offer", from |-> <<c, s>>, re |-> None]

Answer(c, s, offer) == [type |-> "answer", from |-> <<c, s>>, re |-> offer.from]

(* Messages, by the MessageID of tcpx.  messageType tells what messages 5  *)
(* and 6 carry; a request's own text is never read (Send puts the last SDP *)
(* it saw there), so it carries None.                                      *)

ToServer ==
  [id : {1, 3}]
  \cup [id : {5}, to_user : User, messageType : {"SDPReq"}, message : {None}]
  \cup [id : {5}, to_user : User, messageType : {"SDPExchange"}, message : SDP]

FromServer ==
  [id : {200}]
  \cup [id : {6}, from_user : User, messageType : {"SDPReq"}, message : {None}]
  \cup [id : {6}, from_user : User, messageType : {"SDPExchange"}, message : SDP]

SendMsg(c, type, message) ==
  [id |-> 5, to_user |-> RemoteId(c), messageType |-> type, message |-> message]

-----------------------------------------------------------------------------
(* Go channels: all four are made with capacity 1.  A send on a full one   *)
(* and a receive from an empty one block.                                  *)

ChanCap == 1

NoChans ==
  [SendCh |-> <<>>, SDPReqCh |-> <<>>, RemoteSDPCh |-> <<>>, WebrtcEndSignal |-> <<>>]

(* Mutant: a send never blocks. *)
ChanSendUnbounded(c, ch, x) ==
  chans' = [chans EXCEPT ![c][ch] = Append(@, x)]

ChanSend(c, ch, x) ==
  /\ Len(chans[c][ch]) < ChanCap
  /\ chans' = [chans EXCEPT ![c][ch] = Append(@, x)]

ChanRecv(c, ch) ==
  /\ chans[c][ch] # <<>>
  /\ chans' = [chans EXCEPT ![c][ch] = Tail(@)]

(* ServerConn.Write *)
Write(c, m) ==
  /\ Len(outbox[c]) < SocketCap
  /\ outbox' = [outbox EXCEPT ![c] = Append(@, m)]

-----------------------------------------------------------------------------
(* Sessions. *)

NoRun == [pc |-> "off", sdp |-> None]

NewSession(stage) == [stage |-> stage, sdp |-> None, track |-> FALSE]

(* The sessions that have yet to read an end signal, and those that have   *)
(* yet to exit: a session is "closing" between the two.                    *)
LiveSessions(c) ==
  {s \in DOMAIN sess[c] : sess[c][s].stage \notin {"closing", "closed"}}

UnclosedSessions(c) == {s \in DOMAIN sess[c] : sess[c][s].stage # "closed"}

StageIs(c, s, stage) == s \in DOMAIN sess[c] /\ sess[c][s].stage = stage

GoTo(c, s, stage) == sess' = [sess EXCEPT ![c][s].stage = stage]

(* A session goes on with an SDP it has received. *)
GoToWith(c, s, stage, sdp) ==
  sess' = [sess EXCEPT ![c][s] = [@ EXCEPT !.stage = stage, !.sdp = sdp]]

-----------------------------------------------------------------------------
(* Goroutine SignIn: one write. *)
SignIn(c) ==
  /\ proc[c] = "up"
  /\ ~signedIn[c]
  /\ Write(c, [id |-> 1])
  /\ signedIn' = [signedIn EXCEPT ![c] = TRUE]
  /\ UNCHANGED <<proc, chans, inbox, run, sess>>

(* Goroutine Send: a select over two channels, then one write.  Nothing    *)
(* else reads what it holds between the two, so they are one step.  A      *)
(* write that fails is only logged; the connection is gone then, and the   *)
(* process exits (see Exit).                                               *)
SendSDP(c) ==
  /\ proc[c] = "up"
  /\ SignInFirst => signedIn[c]
  /\ ChanRecv(c, "SendCh")
  /\ Write(c, SendMsg(c, "SDPExchange", Head(chans[c].SendCh)))
  /\ UNCHANGED <<proc, signedIn, inbox, run, sess>>

(* Mutant: the request stays in the channel when it is sent on. *)
SendSDPReqKeeps(c) ==
  /\ proc[c] = "up"
  /\ SignInFirst => signedIn[c]
  /\ chans[c].SDPReqCh # <<>>
  /\ Write(c, SendMsg(c, "SDPReq", None))
  /\ UNCHANGED <<proc, signedIn, chans, inbox, run, sess>>

SendSDPReq(c) ==
  /\ proc[c] = "up"
  /\ SignInFirst => signedIn[c]
  /\ ChanRecv(c, "SDPReqCh")
  /\ Write(c, SendMsg(c, "SDPReq", None))
  /\ UNCHANGED <<proc, signedIn, inbox, run, sess>>

(* Goroutine ServerRecv: a message is taken off the connection when its    *)
(* channel has room; until then the goroutine is blocked with it in hand   *)
(* and reads nothing further.                                              *)
Receive(c) ==
  /\ proc[c] = "up"
  /\ inbox[c] # <<>>
  /\ inbox' = [inbox EXCEPT ![c] = Tail(@)]
  /\ UNCHANGED <<proc, signedIn, outbox, run, sess>>

RecvNotice(c) ==
  /\ Receive(c)
  /\ Head(inbox[c]).id = 200
  /\ UNCHANGED chans

RecvSDP(c) ==
  /\ Receive(c)
  /\ Head(inbox[c]).id = 6
  /\ Head(inbox[c]).messageType = "SDPExchange"
  /\ ChanSend(c, "RemoteSDPCh", Head(inbox[c]).message)

RecvSDPReq(c) ==
  /\ Receive(c)
  /\ Head(inbox[c]).id = 6
  /\ Head(inbox[c]).messageType = "SDPReq"
  /\ ChanSend(c, "SDPReqCh", TRUE)

ServerRecv(c) == RecvNotice(c) \/ RecvSDP(c) \/ RecvSDPReq(c)

-----------------------------------------------------------------------------
(* The end of a process takes its goroutines, channels and peer            *)
(* connections with it.  What it wrote may still reach the server, up to   *)
(* any point.                                                              *)
Die(c) ==
  /\ proc' = [proc EXCEPT ![c] = "down"]
  /\ chans' = [chans EXCEPT ![c] = NoChans]
  /\ run' = [run EXCEPT ![c] = NoRun]
  /\ sess' = [sess EXCEPT ![c] = <<>>]
  /\ inbox' = [inbox EXCEPT ![c] = <<>>]
  /\ \E n \in 0..Len(outbox[c]) :
        outbox' = [outbox EXCEPT ![c] = SubSeq(@, 1, n)]
  /\ UNCHANGED signedIn

(* os.Exit(0) when the server connection fails, or any panic(err). *)
Exit(c) ==
  /\ proc[c] = "up"
  /\ c \in MayExit
  /\ Die(c)

(* NewService and InitConn.  One machine each: a program is started again  *)
(* only after the last one has ended.  (Earlier names the incarnations in  *)
(* the order they are started, so that no run differs in names only.)      *)
Boot(c, ch) ==
  /\ proc[c] = "off"
  /\ \A d \in Client : Id(d) = Id(c) => proc[d] # "up"
  /\ \A d \in Client : <<d, c>> \in Earlier => proc[d] = "down"
  /\ proc' = [proc EXCEPT ![c] = "up"]
  /\ chans' = [chans EXCEPT ![c] = ch]
  /\ run' = [run EXCEPT ![c].pc = "spawn"]
  /\ UNCHANGED <<signedIn, outbox, inbox, sess>>

BaseInit ==
  /\ proc = [c \in Client |-> "off"]
  /\ signedIn = [c \in Client |-> FALSE]
  /\ chans = [c \in Client |-> NoChans]
  /\ outbox = [c \in Client |-> <<>>]
  /\ inbox = [c \in Client |-> <<>>]
  /\ run = [c \in Client |-> NoRun]
  /\ sess = [c \in Client |-> <<>>]

-----------------------------------------------------------------------------
RunPc == {"off", "spawn", "select", "mainloop", "signal", "putback"}

Stage ==
  {"starting", "listening", "offering", "waiting", "streaming",
   "answering", "serving", "done", "closing", "closed"}

SessionState ==
  [stage : Stage, sdp : SDP \cup {None}, track : BOOLEAN]

Chan(S) == {q \in Seq(S) : Len(q) <= ChanCap}

Chans ==
  [SendCh : Chan(SDP), SDPReqCh : Chan({TRUE}),
   RemoteSDPCh : Chan(SDP), WebrtcEndSignal : Chan({TRUE})]

BaseTypeOK ==
  /\ proc \in [Client -> {"off", "up", "down"}]
  /\ signedIn \in [Client -> BOOLEAN]
  /\ chans \in [Client -> Chans]
  /\ outbox \in [Client -> Seq(ToServer)]
  /\ inbox \in [Client -> Seq(FromServer)]
  /\ run \in [Client -> [pc : RunPc, sdp : SDP \cup {None}]]
  /\ sess \in [Client -> Seq(SessionState)]

(* Where SessionSupervisor sees the Run loop of process c.  The put-back   *)
(* of an offer belongs to the wait before the next session, and a Run that *)
(* is stuck in the main loop of GLib waits like one in its select.         *)
SupervisorPhase(c) ==
  CASE run[c].pc = "off" -> "off"
    [] run[c].pc \in {"putback", "spawn"} -> "spawn"
    [] run[c].pc \in {"select", "mainloop"} -> "idle"
    [] run[c].pc = "signal" -> "signal"

(* The accounting that SessionSupervisor promises, for process c: a        *)
(* session that has not been ended for every unread end signal, and one    *)
(* more except while Run is between posting a signal and starting its      *)
(* session.                                                                *)
RunIsSpawning(c) == run[c].pc \in {"off", "putback", "spawn"}

Balanced(c) ==
  Cardinality(LiveSessions(c)) =
    Len(chans[c].WebrtcEndSignal) + (IF RunIsSpawning(c) THEN 0 ELSE 1)

=============================================================================

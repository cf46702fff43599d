--------------------------- MODULE ProgramsProofs ---------------------------
(***************************************************************************)
(* What holds of a program's start and of its forwarding, for any file it  *)
(* is given: it starts quietly only with the settings of its file, and a   *)
(* refused Write kills nobody unless another goroutine stores into the     *)
(* same err or another call fails.                                         *)
(***************************************************************************)
EXTENDS Programs, SequenceTheorems, TLAPS

ForwardTypes ==
  /\ session \in {"setup", "serve", "close", "store", "gone"}
  /\ at \in [Kind -> {"off", "read", "store", "test", "check"}]
  /\ err \in [type : {"nil", "OpError", "foreign"}, data : Answer]
  /\ own \in [Writer -> Answer]
  /\ stored \in SUBSET Writer
  /\ faults \in SUBSET Answer
  /\ refusal \in [Kind -> BOOLEAN]

(* Who has stored an answer *)
StoresAccounted ==
  /\ \A k \in Kind : at[k] \in {"store", "test", "check"} => k \in stored
  /\ session = "store" => "session" \in stored

(* While no call has failed otherwise, there are nils and refusals only,   *)
(* and the refusals come from refused Writes.                              *)
RefusalsAccounted ==
  ~FailedOtherwise =>
    /\ \A w \in Writer : own[w] \in {"nil", "refused"} \cap (faults \cup {"nil"})
    /\ err.type = "nil" \/ (err.type = "OpError" /\ "refused" \in faults)
    /\ err.data \in {"nil", "refused"}
    /\ \A k \in Kind : at[k] = "check" => "refused" \in faults

(* As long as nobody else has stored an answer, err is what the track      *)
(* itself stored, with both its words.                                     *)
SoleWriter ==
  ~FailedOtherwise =>
    \A k \in Kind : stored \subseteq {k} =>
      /\ at[k] = "store" => err.type = TypeWord(own[k])
      /\ at[k] = "test" => err.type = TypeWord(err.data)
      /\ at[k] = "check" => Forgiven

ForwardInv ==
  /\ ForwardTypes
  /\ StoresAccounted
  /\ RefusalsAccounted
  /\ SoleWriter
  /\ reason = "forward" => pc = "dead"
  /\ LoneRefusalForgiven

-----------------------------------------------------------------------------
LEMMA ForwardInitially == Init => ForwardInv
  BY DEF Init, StartInit, ForwardInit, ForwardInv, ForwardTypes, StoresAccounted,
         RefusalsAccounted, SoleWriter, LoneRefusalForgiven, Answer, Writer

(* What leaves the handlers and the session alone, and is no panic of      *)
(* theirs, keeps the invariant.                                            *)
LEMMA ApartKeeps ==
  ASSUME ForwardInv, UNCHANGED <<session, at, errVars, refusal>>, pc # "dead",
         reason' \in {reason, "missing", "selection", "stick", "dial", "session", "read", "gst"}
  PROVE  ForwardInv'
<1>1. reason' # "forward"
  BY DEF ForwardInv
<1>. QED
  BY <1>1 DEF ForwardInv, ForwardTypes, StoresAccounted, RefusalsAccounted, SoleWriter,
              LoneRefusalForgiven, FailedOtherwise, Forgiven, errVars

LEMMA StartupKeeps ==
  ASSUME ForwardInv, StartNext, UNCHANGED forwardVars
  PROVE  ForwardInv'
<1>1. pc # "dead" /\ reason' \in {reason, "missing", "selection", "stick", "dial"}
  <2>1. CASE LoadFile \/ ReadKey \/ BadValue \/ ReaderDone \/ SignIn
    BY <2>1 DEF LoadFile, ReadKey, BadValue, ReaderDone, SignIn
  <2>2. CASE RequiredMissing \/ JoystickInit
    BY <2>2 DEF RequiredMissing, JoystickInit, Die
  <2>3. CASE JoystickRun
    BY <2>3 DEF JoystickRun, Die
  <2>4. ASSUME NEW ok \in BOOLEAN, Connect(ok)
        PROVE  pc = "connect" /\ (reason' = reason \/ reason' = "dial")
    BY <2>4 DEF Connect, Die
  <2>. QED
    BY <2>1, <2>2, <2>3, <2>4 DEF StartNext
<1>. QED
  BY <1>1, ApartKeeps DEF forwardVars

(* The session's goroutine stores an answer only once its connection is    *)
(* closed, and then it is one of those that have.                          *)
LEMMA SessionKeeps ==
  ASSUME ForwardInv, pc = "serve",
         \/ SessionSetUp \/ SessionSetUpFails \/ SessionCloses
         \/ CloseReturns \/ SessionExits
  PROVE  ForwardInv'
<1>1. CASE SessionSetUp \/ SessionCloses
  BY <1>1 DEF SessionSetUp, SessionCloses, errVars, startVars, ForwardInv, ForwardTypes,
              StoresAccounted, RefusalsAccounted, SoleWriter, LoneRefusalForgiven,
              FailedOtherwise, Forgiven
<1>2. CASE SessionSetUpFails
  BY <1>2, ApartKeeps DEF SessionSetUpFails, Panics, Die, forwardVars
<1>3. CASE CloseReturns
  <2>1. PICK a \in {"nil", "failed"} : Returns("session", a)
    BY <1>3 DEF CloseReturns
  <2>2. /\ session' = "store" /\ stored' = stored \cup {"session"}
        /\ UNCHANGED <<at, refusal, pc, reason>>
        /\ own' = [own EXCEPT !["session"] = a] /\ err' = [err EXCEPT !.type = TypeWord(a)]
        /\ faults' = faults \cup ({a} \ {"nil"})
    BY <1>3, <2>1 DEF CloseReturns, Returns, startVars
  <2>3. ForwardTypes' /\ StoresAccounted'
    BY <2>2 DEF ForwardInv, ForwardTypes, StoresAccounted, Answer, Writer, TypeWord
  <2>4. RefusalsAccounted'
    <3>1. CASE a = "failed"
      BY <2>2, <3>1 DEF RefusalsAccounted, FailedOtherwise
    <3>2. CASE a = "nil"
      BY <2>2, <3>2 DEF ForwardInv, ForwardTypes, RefusalsAccounted, FailedOtherwise,
                        TypeWord, Writer
    <3>. QED
      BY <3>1, <3>2
  <2>5. SoleWriter'
    BY <2>2 DEF SoleWriter, Kind
  <2>. QED
    BY <2>2, <2>3, <2>4, <2>5 DEF ForwardInv, LoneRefusalForgiven
<1>4. CASE SessionExits
  <2>1. /\ session = "store" /\ session' = "gone" /\ UNCHANGED <<at, refusal, pc, reason>>
        /\ UNCHANGED <<stored, faults>> /\ err' = [err EXCEPT !.data = own["session"]]
        /\ own' = [own EXCEPT !["session"] = "nil"]
    BY <1>4 DEF SessionExits, Stores, startVars
  <2>2. ForwardTypes' /\ StoresAccounted' /\ RefusalsAccounted'
    BY <2>1 DEF ForwardInv, ForwardTypes, StoresAccounted, RefusalsAccounted,
                FailedOtherwise, Answer, Writer
  <2>3. SoleWriter'
    BY <2>1 DEF ForwardInv, StoresAccounted, SoleWriter, Kind
  <2>. QED
    BY <2>1, <2>2, <2>3 DEF ForwardInv, LoneRefusalForgiven
<1>. QED
  BY <1>1, <1>2, <1>3, <1>4

LEMMA TrackStartsKeeps ==
  ASSUME ForwardInv, NEW k \in Kind, TrackStarts(k)
  PROVE  ForwardInv'
  BY DEF TrackStarts, ForwardInv, ForwardTypes, StoresAccounted, RefusalsAccounted,
         SoleWriter, LoneRefusalForgiven, FailedOtherwise, Forgiven, startVars, errVars

LEMMA ReadFailsKeeps ==
  ASSUME ForwardInv, pc = "serve", NEW k \in Kind, ReadFails(k)
  PROVE  ForwardInv'
  BY ApartKeeps DEF ReadFails, Panics, Die, forwardVars

LEMMA WritePacketKeeps ==
  ASSUME ForwardInv, pc = "serve", NEW k \in Kind, WritePacket(k)
  PROVE  ForwardInv'
<1>1. PICK a \in {"nil", "refused", "other"} : Returns(k, a)
  BY DEF WritePacket
<1>2. /\ stored' = stored \cup {k} /\ faults' = faults \cup ({a} \ {"nil"})
      /\ own' = [own EXCEPT ![k] = a] /\ err' = [err EXCEPT !.type = TypeWord(a)]
      /\ at' = [at EXCEPT ![k] = "store"] /\ UNCHANGED <<session, pc, reason>>
      /\ refusal' \in [Kind -> BOOLEAN] /\ k \in Writer
  BY <1>1 DEF WritePacket, Returns, startVars, ForwardInv, ForwardTypes, Writer
<1>3. ForwardTypes' /\ StoresAccounted'
  BY <1>2 DEF ForwardInv, ForwardTypes, StoresAccounted, Answer, TypeWord
<1>4. RefusalsAccounted'
  <2>1. CASE a = "other"
    BY <1>2, <2>1 DEF RefusalsAccounted, FailedOtherwise
  <2>2. CASE a \in {"nil", "refused"}
    BY <1>2, <2>2 DEF ForwardInv, ForwardTypes, RefusalsAccounted, FailedOtherwise, TypeWord
  <2>. QED
    BY <2>1, <2>2
<1>5. SoleWriter'
  <2>. SUFFICES ASSUME NEW i \in Kind, stored' \subseteq {i}
                PROVE  /\ at'[i] = "store" => err'.type = TypeWord(own'[i])
                       /\ at'[i] \notin {"test", "check"}
    BY DEF SoleWriter
  <2>1. i = k
    BY <1>2
  <2>. QED
    BY <1>2, <2>1 DEF ForwardInv, ForwardTypes
<1>. QED
  BY <1>2, <1>3, <1>4, <1>5 DEF ForwardInv, LoneRefusalForgiven

LEMMA StoreErrKeeps ==
  ASSUME ForwardInv, pc = "serve", NEW k \in Kind, StoreErr(k)
  PROVE  ForwardInv'
<1>1. /\ at[k] = "store" /\ at' = [at EXCEPT ![k] = "test"]
      /\ UNCHANGED <<session, stored, faults, refusal, pc, reason>>
      /\ err' = [err EXCEPT !.data = own[k]] /\ own' = [own EXCEPT ![k] = "nil"] /\ k \in Writer
  BY DEF StoreErr, Stores, startVars, Writer
<1>2. ForwardTypes' /\ StoresAccounted' /\ RefusalsAccounted'
  BY <1>1 DEF ForwardInv, ForwardTypes, StoresAccounted, RefusalsAccounted,
              FailedOtherwise, Answer
<1>3. SoleWriter'
  <2>. SUFFICES ASSUME ~FailedOtherwise, NEW i \in Kind, stored \subseteq {i}
                PROVE  /\ at'[i] = "test" => err'.type = TypeWord(err'.data)
                       /\ at'[i] \notin {"store", "check"}
    BY <1>1 DEF SoleWriter, FailedOtherwise
  <2>1. i = k
    BY <1>1 DEF ForwardInv, StoresAccounted
  <2>. QED
    BY <1>1, <2>1 DEF ForwardInv, ForwardTypes, SoleWriter
<1>. QED
  BY <1>1, <1>2, <1>3 DEF ForwardInv, LoneRefusalForgiven

LEMMA TestErrKeeps ==
  ASSUME ForwardInv, pc = "serve", NEW k \in Kind, TestErr(k)
  PROVE  ForwardInv'
<1>1. /\ at[k] = "test" /\ at' = [at EXCEPT ![k] = IF err.type = "nil" THEN "read" ELSE "check"]
      /\ UNCHANGED <<session, err, own, stored, faults, refusal, pc, reason>>
  BY DEF TestErr, errVars, startVars
<1>2. ForwardTypes' /\ StoresAccounted' /\ RefusalsAccounted'
  BY <1>1 DEF ForwardInv, ForwardTypes, StoresAccounted, RefusalsAccounted, FailedOtherwise
<1>3. SoleWriter'
  <2>. SUFFICES ASSUME ~FailedOtherwise, NEW i \in Kind, stored \subseteq {i}
                PROVE  /\ at'[i] = "check" => Forgiven
                       /\ at'[i] \notin {"store", "test"}
    BY <1>1 DEF SoleWriter, FailedOtherwise, Forgiven
  <2>1. i = k
    BY <1>1 DEF ForwardInv, StoresAccounted
  <2>2. err.type = TypeWord(err.data)
    BY <1>1, <2>1 DEF ForwardInv, SoleWriter
  <2>3. err.type # "nil" => Forgiven
    BY <2>2 DEF ForwardInv, ForwardTypes, RefusalsAccounted, TypeWord, Forgiven
  <2>. QED
    BY <1>1, <2>1, <2>3 DEF ForwardInv, ForwardTypes
<1>. QED
  BY <1>1, <1>2, <1>3 DEF ForwardInv, LoneRefusalForgiven

(* The one place to die of forwarding: unless some call has failed in      *)
(* another way, a Write was refused and somebody else has stored an answer.*)
LEMMA CheckErrKeeps ==
  ASSUME ForwardInv, pc = "serve", NEW k \in Kind, CheckErr(k)
  PROVE  ForwardInv'
<1>1. CASE Forgiven
  <2>1. at' = [at EXCEPT ![k] = "read"] /\ UNCHANGED <<startVars, session, errVars, refusal>>
    BY <1>1 DEF CheckErr
  <2>. QED
    BY <2>1 DEF ForwardInv, ForwardTypes, StoresAccounted, RefusalsAccounted, SoleWriter,
                LoneRefusalForgiven, FailedOtherwise, Forgiven, startVars, errVars
<1>2. CASE ~Forgiven
  <2>1. UNCHANGED forwardVars /\ pc' = "dead" /\ reason' = "forward" /\ at[k] = "check"
    BY <1>2 DEF CheckErr, Panics, Die
  <2>2. UNCHANGED <<session, at, err, own, stored, faults, refusal>>
    BY <2>1 DEF forwardVars, errVars
  <2>3. ForwardTypes' /\ StoresAccounted' /\ RefusalsAccounted' /\ SoleWriter'
    BY <2>2 DEF ForwardInv, ForwardTypes, StoresAccounted, RefusalsAccounted, SoleWriter,
                FailedOtherwise, Forgiven
  <2>4. ASSUME ~FailedOtherwise
        PROVE  "refused" \in faults /\ \E v, w \in stored : v # w
    <3>1. "refused" \in faults /\ k \in stored
      BY <2>1, <2>4 DEF ForwardInv, RefusalsAccounted, StoresAccounted
    <3>2. ~(stored \subseteq {k})
      BY <1>2, <2>1, <2>4 DEF ForwardInv, SoleWriter
    <3>. QED
      BY <3>1, <3>2
  <2>5. LoneRefusalForgiven'
    BY <2>2, <2>4 DEF LoneRefusalForgiven, FailedOtherwise
  <2>. QED
    BY <2>1, <2>3, <2>5 DEF ForwardInv
<1>. QED
  BY <1>1, <1>2

LEMMA ViewersKeep ==
  ASSUME ForwardInv, pc = "serve", GstStarts \/ GstEnds \/ GstFails \/ AudioViewer
  PROVE  ForwardInv'
<1>1. UNCHANGED <<session, at, errVars, refusal>> /\ reason' \in {reason, "gst"}
  BY DEF GstStarts, GstEnds, GstFails, AudioViewer, Panics, Die, startVars, forwardVars
<1>. QED
  BY <1>1, ApartKeeps

-----------------------------------------------------------------------------
LEMMA ForwardInvKept == ForwardInv /\ [Next]_vars => ForwardInv'
<1>. SUFFICES ASSUME ForwardInv, [Next]_vars PROVE ForwardInv'
  OBVIOUS
<1>1. CASE StartNext /\ UNCHANGED forwardVars
  BY <1>1, StartupKeeps
<1>2. CASE ForwardNext
  <2>. pc = "serve"
    BY <1>2 DEF ForwardNext, Forwards
  <2>1. CASE SessionSetUp \/ SessionSetUpFails \/ SessionCloses \/ CloseReturns \/ SessionExits
    BY <2>1, SessionKeeps
  <2>2. ASSUME NEW k \in Kind, TrackStarts(k) PROVE ForwardInv'
    BY <2>2, TrackStartsKeeps
  <2>3. ASSUME NEW k \in Kind, ReadFails(k) PROVE ForwardInv'
    BY <2>3, ReadFailsKeeps
  <2>4. ASSUME NEW k \in Kind, WritePacket(k) PROVE ForwardInv'
    BY <2>4, WritePacketKeeps
  <2>5. ASSUME NEW k \in Kind, StoreErr(k) PROVE ForwardInv'
    BY <2>5, StoreErrKeeps
  <2>6. ASSUME NEW k \in Kind, TestErr(k) PROVE ForwardInv'
    BY <2>6, TestErrKeeps
  <2>7. ASSUME NEW k \in Kind, CheckErr(k) PROVE ForwardInv'
    BY <2>7, CheckErrKeeps
  <2>8. CASE GstStarts \/ GstEnds \/ GstFails \/ AudioViewer
    BY <2>8, ViewersKeep
  <2>. QED
    BY <1>2, <2>1, <2>2, <2>3, <2>4, <2>5, <2>6, <2>7, <2>8 DEF ForwardNext
<1>3. CASE UNCHANGED vars
  BY <1>3 DEF vars, startVars, forwardVars, errVars, ForwardInv, ForwardTypes,
              StoresAccounted, RefusalsAccounted, SoleWriter, LoneRefusalForgiven,
              FailedOtherwise, Forgiven
<1>. QED
  BY <1>1, <1>2, <1>3 DEF Next

(* Who is killed in a handler (controller/service.go:266) without any call *)
(* failing in another way has had a Write refused, and a second goroutine, *)
(* a track's or the session's, has stored an answer into the same err.     *)
THEOREM LoneRefusalForgivenHolds == Spec => []LoneRefusalForgiven
<1>1. ForwardInv => LoneRefusalForgiven
  BY DEF ForwardInv
<1>. QED
  BY <1>1, ForwardInitially, ForwardInvKept, PTL DEF Spec

(***************************************************************************)
(* Startup.  The readers of a program, and the keys of a reader, are       *)
(* worked off from the front: what is left is a tail of the whole.         *)
(***************************************************************************)
IsTail(s, r) ==
  /\ Len(s) <= Len(r)
  /\ \A i \in 1..Len(s) : s[i] = r[Len(r) - Len(s) + i]

LEMMA TailOfTail ==
  ASSUME NEW S, NEW s \in Seq(S), NEW r \in Seq(S), IsTail(s, r), s # <<>>
  PROVE  /\ Tail(s) \in Seq(S) /\ IsTail(Tail(s), r)
         /\ Len(Tail(s)) = Len(s) - 1 /\ Len(s) \in 1..Len(r)
         /\ Head(s) = r[Len(r) - Len(s) + 1]
<1> DEFINE t == Tail(s)
           m == Len(s)
           n == Len(r)
<1>1. /\ m \in Nat \ {0} /\ n \in Nat /\ m <= n /\ Len(t) = m - 1 /\ Head(s) = s[1]
      /\ \A i \in 1..(m - 1) : t[i] = s[i + 1]
      /\ \A i \in 1..m : s[i] = r[n - m + i]
      /\ t \in Seq(S)
  BY DEF IsTail
<1> HIDE DEF t, m, n
<1>2. \A i \in 1..(m - 1) : t[i] = r[n - (m - 1) + i]
  <2> SUFFICES ASSUME NEW i \in 1..(m - 1) PROVE t[i] = r[n - (m - 1) + i]
    OBVIOUS
  <2>1. i + 1 \in 1..m /\ n - m + (i + 1) = n - (m - 1) + i
    BY <1>1
  <2> QED
    BY <1>1, <2>1
<1>3. IsTail(t, r)
  BY <1>1, <1>2 DEF IsTail, n
<1> QED
  BY <1>1, <1>3 DEF t, m, n

(* The readers: their keys are keys, each in one place only. *)
Injective(keys) == \A i, j \in 1..Len(keys) : keys[i] = keys[j] => i = j

LEMMA KeyLists ==
  /\ CommonKeys \in Seq(Key) /\ Injective(CommonKeys)
  /\ ControllerKeys \in Seq(Key) /\ Injective(ControllerKeys)
  /\ RoverKeys \in Seq(Key) /\ Injective(RoverKeys)
  /\ ServerKeys \in Seq(Key) /\ Injective(ServerKeys)
<1>1. Key = {"serverIp", "serverPort", "stunPort", "localPort", "id", "remoteId", "groupId",
             "gstreamerCli", "joystickFreq", "cmd", "video", "audio", "cmdServicePort",
             "servicePort", "packageLen", "forwardPort"}
  BY DEF Key, Default
<1>2. CommonKeys \in Seq(Key)
  BY <1>1 DEF CommonKeys
<1>3. ControllerKeys \in Seq(Key) /\ RoverKeys \in Seq(Key) /\ ServerKeys \in Seq(Key)
  BY <1>1 DEF ControllerKeys, RoverKeys, ServerKeys
<1>4. Injective(CommonKeys)
  BY DEF CommonKeys, Injective
<1>5. Injective(ControllerKeys) /\ Injective(RoverKeys) /\ Injective(ServerKeys)
  BY DEF ControllerKeys, RoverKeys, ServerKeys, Injective
<1> QED
  BY <1>2, <1>3, <1>4, <1>5

LEMMA KeysApart ==
  /\ \A i \in 1..Len(CommonKeys), j \in 1..Len(ControllerKeys) : CommonKeys[i] # ControllerKeys[j]
  /\ \A i \in 1..Len(CommonKeys), j \in 1..Len(RoverKeys) : CommonKeys[i] # RoverKeys[j]
BY DEF CommonKeys, ControllerKeys, RoverKeys

LEMMA ReaderFacts ==
  ASSUME program \in Program
  PROVE  /\ Readers[program] \in Seq(Seq(Key))
         /\ Len(Readers[program]) \in Nat \ {0}
         /\ \A i \in 1..Len(Readers[program]) : Injective(Readers[program][i])
         /\ \A i, j \in 1..Len(Readers[program]) : i # j =>
              \A m \in 1..Len(Readers[program][i]), n \in 1..Len(Readers[program][j]) :
                Readers[program][i][m] # Readers[program][j][n]
         /\ program = "controller" =>
              Readers[program][Len(Readers[program])] = ControllerKeys
<1>1. CASE program = "rover"
  <2>1. Readers[program] = <<CommonKeys, RoverKeys>>
    BY <1>1 DEF Readers
  <2> QED
    BY <1>1, <2>1, KeyLists, KeysApart
<1>2. CASE program = "controller"
  <2>1. Readers[program] = <<CommonKeys, ControllerKeys>>
    BY <1>2 DEF Readers
  <2> QED
    BY <1>2, <2>1, KeyLists, KeysApart
<1>3. CASE program = "server"
  <2>1. Readers[program] = <<ServerKeys>>
    BY <1>3 DEF Readers
  <2> QED
    BY <1>3, <2>1, KeyLists
<1> QED
  BY <1>1, <1>2, <1>3 DEF Program

(***************************************************************************)
(* The invariant of a start: the readers that are done have settled their  *)
(* keys, the one at work has done so up to the key it looks at, and the    *)
(* keys of the others have their defaults.                                 *)
(***************************************************************************)
UpTo(keys, n) ==
  \A i \in 1..Len(keys) :
    conf[keys[i]] = IF i <= n THEN Wanted(keys[i]) ELSE Default[keys[i]]

Settled(keys) ==
  /\ KeptInOrder(keys)
  /\ ~logged => \A i \in 1..Len(keys) : conf[keys[i]] = Wanted(keys[i])

DoneReaders == Len(Readers[program]) - Len(readers)

ReadTypes ==
  /\ program \in Program
  /\ file \in Files
  /\ pc \in {"load", "read", "stick", "connect", "serve", "dead"}
  /\ conf = [k \in Key |-> conf[k]]
  /\ logged \in BOOLEAN
  /\ readers \in Seq(Seq(Key)) /\ IsTail(readers, Readers[program])
  /\ todo \in Seq(Key)

ReadInv ==
  /\ pc \in {"load", "read"} => readers # <<>>
  /\ pc \in {"stick", "connect", "serve"} => readers = <<>>
  /\ pc # "dead" =>
       /\ \A i \in 1..Len(Readers[program]) :
            i <= DoneReaders => Settled(Readers[program][i])
       /\ \A i \in 1..Len(Readers[program]) :
            i > DoneReaders + (IF pc = "read" THEN 1 ELSE 0) => UpTo(Readers[program][i], 0)
  /\ pc = "read" =>
       /\ IsTail(todo, Head(readers))
       /\ UpTo(Head(readers), Len(Head(readers)) - Len(todo))

RestInv ==
  /\ program = "controller" /\ ~logged /\ pc \in {"stick", "connect", "serve"} => trans = Modes(conf)
  /\ program = "controller" /\ ~logged /\ pc \in {"connect", "serve"} => device
  /\ signedIn \in {None, conf.id}
  /\ signedIn # None => pc \in {"serve", "dead"}

StartInv == ReadTypes /\ ReadInv /\ RestInv

LEMMA StartInitially == ASSUME Init PROVE StartInv
<1>1. /\ program \in Program /\ file \in Files /\ pc = "load" /\ readers = Readers[program]
      /\ todo = <<>> /\ conf = Default /\ logged = FALSE /\ signedIn = None
  BY DEF Init, StartInit
<1>2. Default = [k \in Key |-> Default[k]]
  BY DEF Key, Default
<1>3. ReadTypes
  <2>1. /\ readers \in Seq(Seq(Key)) /\ Len(Readers[program]) \in Nat /\ todo \in Seq(Key)
    BY <1>1, ReaderFacts
  <2>2. \A i \in 1..Len(Readers[program]) : Len(Readers[program]) - Len(Readers[program]) + i = i
    BY <2>1
  <2>3. IsTail(readers, Readers[program])
    BY <1>1, <2>1, <2>2 DEF IsTail
  <2> QED
    BY <1>1, <1>2, <2>1, <2>3 DEF ReadTypes
<1>4. readers # <<>> /\ DoneReaders = 0
  BY <1>1, ReaderFacts DEF DoneReaders
<1>5. ASSUME NEW i \in 1..Len(Readers[program]) PROVE UpTo(Readers[program][i], 0)
  BY <1>1 DEF UpTo
<1>6. ReadInv
  BY <1>1, <1>4, <1>5 DEF ReadInv
<1> QED
  BY <1>1, <1>3, <1>6 DEF StartInv, RestInv

(* A reader that is done with n of its keys leaves them in order. *)
LEMMA UpToKept ==
  ASSUME NEW keys, NEW n \in 0..Len(keys), UpTo(keys, n)
  PROVE  KeptInOrder(keys)
BY DEF UpTo, KeptInOrder

(* Where a reader is. *)
LEMMA AtReader ==
  ASSUME StartInv, pc \in {"load", "read"}
  PROVE  /\ readers # <<>> /\ DoneReaders + 1 \in 1..Len(Readers[program])
         /\ DoneReaders \in Nat
         /\ Head(readers) = Readers[program][DoneReaders + 1] /\ Head(readers) \in Seq(Key)
         /\ Tail(readers) \in Seq(Seq(Key)) /\ IsTail(Tail(readers), Readers[program])
         /\ Len(Tail(readers)) = Len(readers) - 1
         /\ Len(readers) > 1 <=> Tail(readers) # <<>>
<1>1. /\ readers \in Seq(Seq(Key)) /\ readers # <<>> /\ IsTail(readers, Readers[program])
      /\ Readers[program] \in Seq(Seq(Key))
  BY ReaderFacts DEF StartInv, ReadTypes, ReadInv
<1>2. /\ Tail(readers) \in Seq(Seq(Key)) /\ IsTail(Tail(readers), Readers[program])
      /\ Len(Tail(readers)) = Len(readers) - 1 /\ Len(readers) \in 1..Len(Readers[program])
      /\ Head(readers) = Readers[program][Len(Readers[program]) - Len(readers) + 1]
  BY <1>1, TailOfTail
<1>3. Len(Readers[program]) \in Nat /\ Len(readers) \in Nat \ {0} /\ Head(readers) \in Seq(Key)
  BY <1>1
<1>4. DoneReaders + 1 \in 1..Len(Readers[program]) /\ DoneReaders \in Nat
  BY <1>2, <1>3 DEF DoneReaders
<1>5. Len(readers) > 1 <=> Tail(readers) # <<>>
  <2> DEFINE rest == Tail(readers)
  <2>1. rest \in Seq(Seq(Key)) /\ Len(rest) = Len(readers) - 1
    BY <1>2
  <2> HIDE DEF rest
  <2>2. rest = <<>> <=> Len(rest) = 0
    BY <2>1, EmptySeq
  <2>3. Len(readers) > 1 <=> Len(rest) # 0
    <3> DEFINE m == Len(readers)
    <3>1. m \in Nat \ {0} /\ Len(rest) = m - 1
      BY <1>3, <2>1
    <3> HIDE DEF m
    <3>2. m > 1 <=> Len(rest) # 0
      BY <3>1
    <3> QED
      BY <3>2 DEF m
  <2> QED
    BY <2>2, <2>3 DEF rest
<1> QED
  BY <1>1, <1>2, <1>3, <1>4, <1>5 DEF DoneReaders

(* Writing the keys of one reader leaves those of the others alone. *)
LEMMA OthersKept ==
  ASSUME StartInv, UNCHANGED file, logged => logged',
         NEW all, all = Readers[program],
         NEW i \in 1..Len(all), NEW j \in 1..Len(all), i # j,
         \A k \in Key : (\A n \in 1..Len(all[i]) : k # all[i][n]) => conf'[k] = conf[k]
  PROVE  /\ UpTo(all[j], 0) => UpTo(all[j], 0)'
         /\ Settled(all[j]) => Settled(all[j])'
<1>1. \A n \in 1..Len(all[j]) : conf'[all[j][n]] = conf[all[j][n]]
  <2>1. /\ all \in Seq(Seq(Key))
        /\ \A m \in 1..Len(all[i]), n \in 1..Len(all[j]) : all[i][m] # all[j][n]
    BY ReaderFacts DEF StartInv, ReadTypes
  <2>2. all[j] \in Seq(Key)
    BY <2>1
  <2>3. \A n \in 1..Len(all[j]) : all[j][n] \in Key
    BY <2>2
  <2> QED
    BY <2>1, <2>3
<1>2. UpTo(all[j], 0) => UpTo(all[j], 0)'
  BY <1>1 DEF UpTo, Wanted
<1>3. KeptInOrder(all[j]) => KeptInOrder(all[j])'
  <2>1. ASSUME NEW n \in 0..Len(all[j]), UpTo(all[j], n)
        PROVE  UpTo(all[j], n)'
    BY <1>1, <2>1 DEF UpTo, Wanted
  <2>2. ASSUME NEW n \in 0..Len(all[j]), UpTo(all[j], n)
        PROVE  KeptInOrder(all[j])'
    BY <2>1, <2>2 DEF UpTo, KeptInOrder
  <2>3. ASSUME \A n \in 1..Len(all[j]) : conf[all[j][n]] = Zero(all[j][n])
        PROVE  KeptInOrder(all[j])'
    BY <1>1, <2>3 DEF KeptInOrder
  <2> QED
    BY <2>2, <2>3 DEF KeptInOrder, UpTo
<1> QED
  BY <1>1, <1>2, <1>3 DEF Settled, Wanted

(* A step to the next reader, once the current one has settled its keys. *)
LEMMA NextReaderKeeps ==
  ASSUME StartInv, pc \in {"load", "read"}, NextReader, UNCHANGED <<program, file>>,
         logged => logged', logged' \in BOOLEAN, conf' = [k \in Key |-> conf'[k]],
         NEW keys, keys = Head(readers),
         \A k \in Key : (\A n \in 1..Len(keys) : k # keys[n]) => conf'[k] = conf[k],
         Settled(keys)'
  PROVE  ReadTypes' /\ ReadInv'
<1> SUFFICES ASSUME NEW f, f = DoneReaders, NEW all, all = Readers[program]
             PROVE  ReadTypes' /\ ReadInv'
  OBVIOUS
<1>1. /\ f + 1 \in 1..Len(all) /\ f \in Nat /\ keys = all[f + 1]
      /\ Tail(readers) \in Seq(Seq(Key)) /\ IsTail(Tail(readers), all)
      /\ Len(Tail(readers)) = Len(readers) - 1
      /\ Len(readers) > 1 <=> Tail(readers) # <<>>
      /\ readers \in Seq(Seq(Key)) /\ Len(all) \in Nat
  BY AtReader, ReaderFacts DEF StartInv, ReadTypes
<1>2. /\ readers' = Tail(readers) /\ todo' = <<>> /\ pc' \in {"load", "stick", "connect"}
      /\ pc' = "load" <=> Len(readers) > 1
      /\ all = Readers[program']
  BY DEF NextReader
<1>3. ReadTypes'
  BY <1>1, <1>2 DEF StartInv, ReadTypes
<1>4. DoneReaders' = f + 1
  <2>1. Len(readers) \in Nat /\ f = Len(all) - Len(readers)
    BY <1>1 DEF DoneReaders
  <2>2. DoneReaders' = Len(all) - (Len(readers) - 1)
    BY <1>1, <1>2 DEF DoneReaders
  <2> QED
    BY <1>1, <2>1, <2>2
<1>6. ASSUME NEW j \in 1..Len(all), j # f + 1
      PROVE  /\ UpTo(all[j], 0) => UpTo(all[j], 0)'
             /\ Settled(all[j]) => Settled(all[j])'
  <2> DEFINE i == f + 1
  <2>1. /\ i \in 1..Len(all) /\ i # j
        /\ \A k \in Key : (\A n \in 1..Len(all[i]) : k # all[i][n]) => conf'[k] = conf[k]
    BY <1>1, <1>6
  <2> HIDE DEF i
  <2> QED
    BY <2>1, OthersKept
<1>7. ASSUME NEW j \in 1..Len(all), j <= f + 1
      PROVE  Settled(all[j])'
  <2>1. CASE j = f + 1
    <3>1. all[j] = keys
      BY <1>1, <2>1
    <3> QED
      BY <3>1
  <2>2. CASE j # f + 1
    <3>1. j <= f
      BY <1>1, <1>7, <2>2
    <3>2. Settled(all[j])
      BY <3>1 DEF StartInv, ReadInv
    <3> QED
      BY <1>6, <2>2, <3>2
  <2> QED
    BY <2>1, <2>2
<1>8. ASSUME NEW j \in 1..Len(all), j > f + 1
      PROVE  UpTo(all[j], 0)'
  <2>1. j # f + 1 /\ j > f + 1 /\ j > f + 0
    BY <1>1, <1>8
  <2>2. UpTo(all[j], 0)
    BY <2>1 DEF StartInv, ReadInv
  <2> QED
    BY <1>6, <2>1, <2>2
<1>9. ReadInv'
  <2>1. \A j \in 1..Len(all) : j <= DoneReaders' => Settled(all[j])'
    BY <1>4, <1>7
  <2>2. \A j \in 1..Len(all) : j > DoneReaders' + 0 => UpTo(all[j], 0)'
    BY <1>1, <1>4, <1>8
  <2>3. pc' # "read" /\ pc' # "dead"
    BY <1>2
  <2>4. pc' \in {"load", "read"} => readers' # <<>>
    BY <1>1, <1>2
  <2>5. pc' \in {"stick", "connect", "serve"} => readers' = <<>>
    BY <1>1, <1>2
  <2> QED
    BY <1>2, <2>1, <2>2, <2>3, <2>4, <2>5 DEF ReadInv
<1> QED
  BY <1>3, <1>9

(* Reading does not disturb what is settled, and goes on in order. *)
LEMMA ReadingKeeps ==
  ASSUME StartInv, LoadFile \/ ReadKey \/ BadValue \/ ReaderDone
  PROVE  ReadTypes' /\ ReadInv'
<1> SUFFICES ASSUME NEW f, f = DoneReaders, NEW all, all = Readers[program],
                    NEW keys, keys = Head(readers)
             PROVE  ReadTypes' /\ ReadInv'
  OBVIOUS
<1>0. /\ UNCHANGED <<program, file>> /\ ReadTypes /\ ReadInv
      /\ pc \in {"load", "read"}
      /\ readers \in Seq(Seq(Key)) /\ todo \in Seq(Key)
      /\ all = Readers[program']
  BY DEF StartInv, ReadTypes, LoadFile, ReadKey, BadValue, ReaderDone
<1>1. /\ readers # <<>> /\ f + 1 \in 1..Len(all) /\ f \in Nat
      /\ keys = all[f + 1] /\ keys \in Seq(Key)
  BY <1>0, AtReader
<1>2. /\ Injective(keys) /\ Len(keys) \in Nat /\ DOMAIN keys = 1..Len(keys)
      /\ \A n \in 1..Len(keys) : keys[n] \in Key
  BY <1>0, <1>1, ReaderFacts DEF ReadTypes
<1>3. ASSUME pc = "read"
      PROVE  /\ IsTail(todo, keys) /\ UpTo(keys, Len(keys) - Len(todo))
             /\ Len(todo) \in 0..Len(keys)
  <2>1. IsTail(todo, Head(readers)) /\ UpTo(Head(readers), Len(Head(readers)) - Len(todo))
    BY <1>0, <1>3 DEF ReadInv
  <2>2. IsTail(todo, keys) /\ UpTo(keys, Len(keys) - Len(todo))
    BY <2>1
  <2>3. Len(todo) \in Nat
    BY <1>0
  <2>4. Len(todo) <= Len(keys)
    BY <2>2 DEF IsTail
  <2> QED
    BY <1>2, <2>2, <2>3, <2>4
<1>4. ASSUME pc = "load", todo' = keys, pc' = "read", UNCHANGED <<readers, conf, logged>>
      PROVE  ReadTypes' /\ ReadInv'
  <2>1. ReadTypes'
    BY <1>0, <1>1, <1>4 DEF ReadTypes
  <2>2. DoneReaders' = f
    BY <1>0, <1>4 DEF DoneReaders
  <2>3. UpTo(keys, 0)
    <3>1. f + 1 > f + 0
      BY <1>1
    <3> QED
      BY <1>0, <1>1, <1>4, <3>1 DEF ReadInv
  <2>4. /\ \A i \in 1..Len(all) : i <= f => Settled(all[i])
        /\ \A i \in 1..Len(all) : i > f + 0 => UpTo(all[i], 0)
    BY <1>0, <1>4 DEF ReadInv
  <2>5. \A i \in 1..Len(all) : i > f + 1 => i > f + 0
    BY <1>1
  <2>6. /\ \A i \in 1..Len(all) : Settled(all[i]) => Settled(all[i])'
        /\ \A i \in 1..Len(all) : UpTo(all[i], 0) => UpTo(all[i], 0)'
        /\ UpTo(keys, 0) => UpTo(keys, 0)'
    BY <1>0, <1>4 DEF Settled, KeptInOrder, UpTo, Wanted
  <2>7. IsTail(todo', keys) /\ Len(keys) - Len(todo') = 0
    <3>1. \A i \in 1..Len(keys) : Len(keys) - Len(keys) + i = i
      BY <1>2
    <3> QED
      BY <1>2, <1>4, <3>1 DEF IsTail
  <2>8. Head(readers') = keys /\ readers' # <<>>
    BY <1>1, <1>4
  <2> QED
    BY <1>0, <1>4, <2>1, <2>2, <2>3, <2>4, <2>5, <2>6, <2>7, <2>8 DEF ReadInv
<1>5. CASE LoadFile /\ pc' # "read"
  <2>1. /\ conf' = [k \in Key |-> IF k \in Range(keys) THEN Zero(k) ELSE conf[k]]
        /\ logged' = TRUE /\ NextReader
    BY <1>5 DEF LoadFile
  <2>2. /\ \A n \in 1..Len(keys) : keys[n] \in Range(keys)
        /\ \A k \in Range(keys) : \E n \in 1..Len(keys) : k = keys[n]
    BY <1>2 DEF Range
  <2>3. \A n \in 1..Len(keys) : conf'[keys[n]] = Zero(keys[n])
    BY <1>2, <2>1, <2>2
  <2>4. Settled(keys)'
    BY <2>1, <2>3 DEF Settled, KeptInOrder
  <2>5. \A k \in Key : (\A n \in 1..Len(keys) : k # keys[n]) => conf'[k] = conf[k]
    BY <2>1, <2>2
  <2>6. conf' = [k \in Key |-> conf'[k]]
    BY <2>1
  <2> QED
    BY <1>0, <2>1, <2>4, <2>5, <2>6, NextReaderKeeps
<1>6. CASE LoadFile /\ pc' = "read"
  <2>1. pc = "load" /\ todo' = keys /\ UNCHANGED <<readers, conf, logged>>
    BY <1>6 DEF LoadFile, NextReader
  <2> QED
    BY <1>4, <1>6, <2>1
<1>7. CASE BadValue
  <2>1. pc = "read" /\ conf' = conf /\ logged' = TRUE /\ NextReader
    BY <1>7 DEF BadValue
  <2>2. PICK n \in 0..Len(keys) : UpTo(keys, n)
    BY <1>2, <1>3, <2>1
  <2>3. UpTo(keys, n)'
    BY <1>0, <2>1, <2>2 DEF UpTo, Wanted
  <2>4. Settled(keys)'
    BY <2>1, <2>3 DEF Settled, KeptInOrder, UpTo
  <2>5. conf' = [k \in Key |-> conf'[k]]
    BY <1>0, <2>1 DEF ReadTypes
  <2> QED
    BY <1>0, <2>1, <2>4, <2>5, NextReaderKeeps
<1>8. CASE ReaderDone
  <2>1. pc = "read" /\ todo = <<>> /\ conf' = conf /\ logged' = logged /\ NextReader
    BY <1>8 DEF ReaderDone
  <2>2. UpTo(keys, Len(keys))
    <3>1. Len(todo) = 0
      BY <2>1
    <3>2. Len(keys) - 0 = Len(keys)
      BY <1>2
    <3> QED
      BY <1>3, <2>1, <3>1, <3>2
  <2>3. UpTo(keys, Len(keys))' /\ Len(keys) \in 0..Len(keys)
    BY <1>0, <1>2, <2>1, <2>2 DEF UpTo, Wanted
  <2>4. KeptInOrder(keys)'
    BY <2>3 DEF KeptInOrder, UpTo
  <2>5. \A i \in 1..Len(keys) : conf'[keys[i]] = Wanted(keys[i])'
    BY <1>2, <2>3 DEF UpTo
  <2>6. conf' = [k \in Key |-> conf'[k]] /\ logged' \in BOOLEAN
    BY <1>0, <2>1 DEF ReadTypes
  <2> QED
    BY <1>0, <2>1, <2>4, <2>5, <2>6, NextReaderKeeps DEF Settled
<1>9. CASE ReadKey
  <2> SUFFICES ASSUME NEW n, n = Len(keys) - Len(todo), NEW k, k = Head(todo)
               PROVE  ReadTypes' /\ ReadInv'
    OBVIOUS
  <2>1. /\ pc = "read" /\ todo # <<>> /\ todo' = Tail(todo) /\ file[k] # Bad
        /\ conf' = IF file[k] = Missing THEN conf ELSE [conf EXCEPT ![k] = file[k]]
        /\ UNCHANGED <<pc, readers, logged>>
    BY <1>9 DEF ReadKey
  <2>2. /\ Tail(todo) \in Seq(Key) /\ IsTail(Tail(todo), keys)
        /\ Len(Tail(todo)) = Len(todo) - 1 /\ Len(todo) \in 1..Len(keys)
        /\ k = keys[n + 1]
    BY <1>0, <1>1, <1>3, <2>1, TailOfTail
  <2>3. n \in Nat /\ n + 1 \in 1..Len(keys) /\ Len(keys) - Len(todo') = n + 1
    <3> DEFINE a == Len(keys)
               b == Len(todo)
               d == Len(Tail(todo))
    <3>1. a \in Nat /\ b \in 1..a /\ d = b - 1 /\ n = a - b
      BY <1>2, <2>2
    <3> HIDE DEF a, b, d
    <3>2. n \in Nat /\ n + 1 \in 1..a /\ a - d = n + 1
      BY <3>1
    <3> QED
      BY <2>1, <3>2 DEF a, d
  <2>4. /\ k \in Key /\ conf'[k] = Wanted(k)
        /\ conf' = [x \in Key |-> conf'[x]] /\ \A x \in Key \ {k} : conf'[x] = conf[x]
    <3>1. conf = [x \in Key |-> conf[x]] /\ k \in Key
      BY <1>0, <1>2, <2>2, <2>3 DEF ReadTypes
    <3>2. conf[k] = Default[k]
      <4>1. UpTo(keys, n) /\ ~(n + 1 <= n)
        BY <1>3, <2>1, <2>3
      <4> QED
        BY <2>2, <2>3, <4>1 DEF UpTo
    <3> QED
      BY <2>1, <3>1, <3>2 DEF Wanted
  <2>5. UpTo(keys, n + 1)'
    <3> SUFFICES ASSUME NEW i \in 1..Len(keys)
                 PROVE  conf'[keys[i]] = IF i <= n + 1 THEN Wanted(keys[i]) ELSE Default[keys[i]]
      BY <1>0 DEF UpTo, Wanted
    <3>1. CASE i = n + 1
      BY <2>2, <2>3, <2>4, <3>1
    <3>2. CASE i # n + 1
      <4>1. keys[i] # k /\ keys[i] \in Key
        BY <1>2, <2>2, <2>3, <3>2 DEF Injective
      <4>2. conf[keys[i]] = IF i <= n THEN Wanted(keys[i]) ELSE Default[keys[i]]
        BY <1>3, <2>1 DEF UpTo
      <4>3. i <= n + 1 <=> i <= n
        BY <2>3, <3>2
      <4> QED
        BY <2>4, <4>1, <4>2, <4>3
    <3> QED
      BY <3>1, <3>2
  <2>6. ASSUME NEW j \in 1..Len(all), j # f + 1
        PROVE  /\ UpTo(all[j], 0) => UpTo(all[j], 0)'
               /\ Settled(all[j]) => Settled(all[j])'
    <3> DEFINE i == f + 1
    <3>1. /\ i \in 1..Len(all) /\ i # j
          /\ \A x \in Key : (\A m \in 1..Len(all[i]) : x # all[i][m]) => conf'[x] = conf[x]
      BY <1>1, <2>2, <2>3, <2>4, <2>6
    <3>2. file' = file /\ (logged => logged')
      BY <1>0, <2>1
    <3> HIDE DEF i
    <3> QED
      BY <3>1, <3>2, OthersKept
  <2>7. DoneReaders' = f
    BY <1>0, <2>1 DEF DoneReaders
  <2>8. /\ \A i \in 1..Len(all) : i <= f => Settled(all[i])'
        /\ \A i \in 1..Len(all) : i > f + 1 => UpTo(all[i], 0)'
    <3>1. /\ \A i \in 1..Len(all) : i <= f => Settled(all[i])
          /\ \A i \in 1..Len(all) : i > f + 1 => UpTo(all[i], 0)
      BY <1>0, <2>1 DEF ReadInv
    <3>2. \A i \in 1..Len(all) : i <= f \/ i > f + 1 => i # f + 1
      BY <1>1
    <3> QED
      BY <2>6, <3>1, <3>2
  <2>9. ReadTypes'
    BY <1>0, <2>1, <2>2, <2>4 DEF ReadTypes
  <2>10. Head(readers') = keys /\ readers' # <<>>
    BY <1>1, <2>1
  <2> QED
    BY <1>0, <2>1, <2>2, <2>3, <2>5, <2>7, <2>8, <2>9, <2>10 DEF ReadInv
<1> QED
  BY <1>5, <1>6, <1>7, <1>8, <1>9

(* A controller's last reader is the one that sets Trans. *)
LEMMA ReadingRests ==
  ASSUME StartInv, LoadFile \/ ReadKey \/ BadValue \/ ReaderDone
  PROVE  RestInv'
<1>1. /\ pc \in {"load", "read"} /\ signedIn = None /\ signedIn' = signedIn
      /\ program' = program
  BY DEF StartInv, RestInv, LoadFile, ReadKey, BadValue, ReaderDone
<1>2. /\ program = "controller" => pc' \in {"load", "read", "stick"}
      /\ pc' # "serve"
  BY <1>1 DEF LoadFile, ReadKey, BadValue, ReaderDone, NextReader
<1>3. ASSUME program = "controller", ~logged', pc' = "stick"
      PROVE  trans' = Modes(conf')
  <2>1. ReaderDone /\ conf' = conf /\ ~(Len(readers) > 1)
    BY <1>1, <1>3 DEF LoadFile, ReadKey, BadValue, ReaderDone, NextReader
  <2> SUFFICES ASSUME NEW all, all = Readers[program] PROVE trans' = Modes(conf')
    OBVIOUS
  <2>2. /\ readers # <<>> /\ readers \in Seq(Seq(Key)) /\ DoneReaders = Len(all) - Len(readers)
        /\ Head(readers) = all[DoneReaders + 1]
    BY <1>1, AtReader DEF StartInv, ReadTypes, DoneReaders
  <2>3. Len(all) \in Nat /\ all[Len(all)] = ControllerKeys
    BY <1>3, ReaderFacts DEF StartInv, ReadTypes
  <2>4. Len(readers) = 1
    <3> DEFINE m == Len(readers)
    <3>1. m \in Nat \ {0} /\ ~(m > 1)
      BY <2>1, <2>2
    <3> HIDE DEF m
    <3>2. m = 1
      BY <3>1
    <3> QED
      BY <3>2 DEF m
  <2>5. DoneReaders + 1 = Len(all)
    BY <2>2, <2>3, <2>4
  <2>6. Head(readers) = ControllerKeys
    BY <2>2, <2>3, <2>5
  <2> QED
    BY <2>1, <2>6 DEF ReaderDone
<1> QED
  BY <1>1, <1>2, <1>3 DEF RestInv

(* What comes after the readers leaves the settings alone. *)
LEMMA SettingsKept ==
  ASSUME StartInv, UNCHANGED <<program, file, readVars>>, logged => logged', logged' \in BOOLEAN,
         \/ pc' = pc
         \/ pc' = "dead"
         \/ pc = "stick" /\ pc' = "connect"
         \/ pc = "connect" /\ pc' = "serve"
  PROVE  ReadTypes' /\ ReadInv'
<1> SUFFICES ASSUME NEW all, all = Readers[program] PROVE ReadTypes' /\ ReadInv'
  OBVIOUS
<1>1. UNCHANGED <<program, file, readers, todo, conf, trans>> /\ all = Readers[program']
  BY DEF readVars
<1>2. ReadTypes'
  BY <1>1 DEF StartInv, ReadTypes
<1>3. \A keys, n : UpTo(keys, n) => UpTo(keys, n)'
  BY <1>1 DEF UpTo, Wanted
<1>4. \A keys : Settled(keys) => Settled(keys)'
  BY <1>1 DEF Settled, KeptInOrder, Wanted
<1>5. DoneReaders' = DoneReaders /\ Head(readers') = Head(readers)
  BY <1>1 DEF DoneReaders
<1>6. CASE pc' = "dead"
  BY <1>2, <1>6 DEF ReadInv
<1>7. CASE pc' # "dead"
  <2>1. /\ pc # "dead" /\ pc' = "read" <=> pc = "read"
        /\ pc' \in {"load", "read"} => pc \in {"load", "read"}
        /\ pc' \in {"stick", "connect", "serve"} => pc \in {"stick", "connect", "serve"}
    BY <1>7
  <2>2. /\ \A i \in 1..Len(all) : i <= DoneReaders' => Settled(all[i])'
        /\ \A i \in 1..Len(all) :
             i > DoneReaders' + (IF pc' = "read" THEN 1 ELSE 0) => UpTo(all[i], 0)'
    BY <1>3, <1>4, <1>5, <1>7, <2>1 DEF StartInv, ReadInv
  <2> SUFFICES ASSUME NEW keys, keys = Head(readers), NEW n, n = Len(keys) - Len(todo)
               PROVE  ReadInv'
    BY <1>2
  <2>3. pc' = "read" => IsTail(todo', keys) /\ UpTo(keys, n)'
    <3>1. pc = "read" => IsTail(todo, keys) /\ UpTo(keys, n)
      BY DEF StartInv, ReadInv
    <3>2. UpTo(keys, n) => UpTo(keys, n)'
      BY <1>1 DEF UpTo, Wanted
    <3> QED
      BY <1>1, <2>1, <3>1, <3>2
  <2>4. Head(readers') = keys /\ readers' = readers /\ Len(keys) - Len(todo') = n
    BY <1>1
  <2>5. /\ pc' \in {"load", "read"} => readers' # <<>>
        /\ pc' \in {"stick", "connect", "serve"} => readers' = <<>>
    BY <2>1, <2>4 DEF StartInv, ReadInv
  <2> QED
    BY <1>1, <2>2, <2>3, <2>4, <2>5 DEF ReadInv
<1> QED
  BY <1>2, <1>6, <1>7

LEMMA StartInvKept == StartInv /\ [Next]_vars => StartInv'
<1> SUFFICES ASSUME StartInv, [Next]_vars PROVE StartInv'
  OBVIOUS
<1>1. CASE LoadFile \/ ReadKey \/ BadValue \/ ReaderDone
  BY <1>1, ReadingKeeps, ReadingRests DEF StartInv
<1>2. CASE RequiredMissing
  <2>1. pc' = "dead" /\ UNCHANGED <<program, file, readVars, logged, signedIn>> /\ logged' \in BOOLEAN
    BY <1>2 DEF RequiredMissing, Die, StartInv, ReadTypes
  <2>2. RestInv'
    BY <2>1 DEF StartInv, RestInv, readVars
  <2> QED
    BY <2>1, <2>2, SettingsKept DEF StartInv
<1>3. CASE JoystickInit
  <2>1. /\ UNCHANGED <<program, file, readVars, signedIn>> /\ pc = "stick"
        /\ logged' \in BOOLEAN /\ (logged => logged')
        /\ pc' = "dead" \/ (pc' = "connect" /\ (~logged' => device' = TRUE))
    BY <1>3 DEF JoystickInit, Die, StartInv, ReadTypes
  <2>2. RestInv'
    BY <2>1 DEF StartInv, RestInv, readVars
  <2> QED
    BY <2>1, <2>2, SettingsKept DEF StartInv
<1>4. CASE JoystickRun
  <2>1. /\ UNCHANGED <<program, file, readVars, logged, device, signedIn>> /\ logged' \in BOOLEAN
        /\ pc' = pc \/ pc' = "dead"
    BY <1>4 DEF JoystickRun, Die, StartInv, ReadTypes
  <2>2. RestInv'
    BY <2>1 DEF StartInv, RestInv, readVars
  <2> QED
    BY <2>1, <2>2, SettingsKept DEF StartInv
<1>5. ASSUME NEW ok \in BOOLEAN, Connect(ok)
      PROVE  StartInv'
  <2>1. /\ UNCHANGED <<program, file, readVars, stickVars, signedIn>> /\ pc = "connect"
        /\ logged' \in BOOLEAN /\ (logged => logged') /\ pc' \in {"serve", "dead"}
    <3>1. logged' = logged \/ logged' = (logged \/ ~ok)
      BY <1>5 DEF Connect
    <3>2. logged \in BOOLEAN
      BY DEF StartInv, ReadTypes
    <3>3. CASE logged' = logged
      BY <1>5, <3>2, <3>3 DEF Connect, Die
    <3>4. CASE logged' = (logged \/ ~ok)
      <4>1. logged = TRUE \/ logged = FALSE
        BY <3>2
      <4>2. ok = TRUE \/ ok = FALSE
        OBVIOUS
      <4>3. logged' = TRUE \/ (logged' = FALSE /\ logged = FALSE)
        BY <3>4, <4>1, <4>2
      <4> QED
        BY <1>5, <4>3 DEF Connect, Die
    <3> QED
      BY <3>1, <3>3, <3>4
  <2>2. RestInv'
    BY <2>1 DEF StartInv, RestInv, readVars, stickVars
  <2> QED
    BY <2>1, <2>2, SettingsKept DEF StartInv
<1>6. CASE SignIn
  <2>1. /\ UNCHANGED <<program, file, pc, readVars, logged, stickVars>> /\ pc = "serve"
        /\ signedIn' = conf.id /\ logged' \in BOOLEAN
    BY <1>6 DEF SignIn, StartInv, ReadTypes
  <2>2. RestInv'
    BY <2>1 DEF StartInv, RestInv, readVars, stickVars
  <2> QED
    BY <2>1, <2>2, SettingsKept DEF StartInv
<1>7. CASE ForwardNext
  <2>1. /\ UNCHANGED <<program, file, readVars, logged, stickVars, signedIn>> /\ pc = "serve"
        /\ pc' = pc \/ pc' = "dead"
    <3>1. CASE GstStarts \/ GstEnds \/ GstFails \/ AudioViewer
      BY <1>7, <3>1 DEF ForwardNext, Forwards, GstStarts, GstEnds, GstFails, AudioViewer,
                        Panics, Die, startVars
    <3>2. CASE \/ SessionSetUp \/ SessionSetUpFails \/ SessionCloses
               \/ CloseReturns \/ SessionExits
      BY <1>7, <3>2 DEF ForwardNext, Forwards, SessionSetUp, SessionSetUpFails, SessionCloses,
                        CloseReturns, SessionExits, Panics, Die, startVars
    <3>3. ASSUME NEW k \in Kind,
                 \/ TrackStarts(k) \/ ReadFails(k) \/ WritePacket(k)
                 \/ StoreErr(k) \/ TestErr(k) \/ CheckErr(k)
          PROVE  UNCHANGED <<program, file, readVars, logged, stickVars, signedIn>>
                 /\ (pc' = pc \/ pc' = "dead")
      BY <3>3 DEF TrackStarts, ReadFails, WritePacket, StoreErr, TestErr, CheckErr,
                  Panics, Die, startVars
    <3> QED
      BY <1>7, <3>1, <3>2, <3>3 DEF ForwardNext, Forwards
  <2>2. logged' \in BOOLEAN
    BY <2>1 DEF StartInv, ReadTypes
  <2>3. RestInv'
    BY <2>1 DEF StartInv, RestInv, readVars, stickVars
  <2> QED
    BY <2>1, <2>2, <2>3, SettingsKept DEF StartInv
<1>8. CASE UNCHANGED vars
  <2>1. /\ UNCHANGED <<program, file, pc, readVars, logged, stickVars, signedIn>>
        /\ logged' \in BOOLEAN
    BY <1>8 DEF vars, startVars, StartInv, ReadTypes
  <2>2. RestInv'
    BY <2>1 DEF StartInv, RestInv, readVars, stickVars
  <2> QED
    BY <2>1, <2>2, SettingsKept DEF StartInv
<1> QED
  BY <1>1, <1>2, <1>3, <1>4, <1>5, <1>6, <1>7, <1>8 DEF Next, StartNext

(* A program that serves and has reported nothing goes by its file and the *)
(* defaults, in every key, and has the device and the name it needs; and   *)
(* whatever was reported, a reader's keys are kept in their order          *)
(* (models/config, main).                                                  *)
THEOREM QuietStartHolds == Spec => []QuietStart
<1>1. ASSUME StartInv, pc = "serve"
      PROVE  \A i \in 1..Len(Readers[program]) : Settled(Readers[program][i])
  <2>1. Len(readers) = 0 /\ Len(Readers[program]) \in Nat
    BY <1>1, ReaderFacts DEF StartInv, ReadInv, ReadTypes
  <2>2. DoneReaders = Len(Readers[program])
    BY <2>1 DEF DoneReaders
  <2>3. \A i \in 1..Len(Readers[program]) : i <= DoneReaders
    BY <2>1, <2>2
  <2> QED
    BY <1>1, <2>3 DEF StartInv, ReadInv
<1>2. ASSUME StartInv, pc = "serve", ~logged, NEW i \in 1..Len(Readers[program]),
             NEW k \in Range(Readers[program][i])
      PROVE  conf[k] = Wanted(k)
  <2>1. Readers[program][i] \in Seq(Key)
    BY <1>2, ReaderFacts DEF StartInv, ReadTypes
  <2>2. PICK n \in 1..Len(Readers[program][i]) : k = Readers[program][i][n]
    BY <2>1 DEF Range
  <2>3. \A m \in 1..Len(Readers[program][i]) :
          conf[Readers[program][i][m]] = Wanted(Readers[program][i][m])
    BY <1>1, <1>2 DEF Settled
  <2> QED
    BY <2>2, <2>3
<1>3. StartInv => QuietStart
  <2> SUFFICES ASSUME StartInv, pc = "serve"
               PROVE  /\ \A i \in 1..Len(Readers[program]) : KeptInOrder(Readers[program][i])
                      /\ ~logged =>
                           /\ program = "controller" => trans = Modes(conf) /\ device
                           /\ signedIn \in {None, conf.id}
    BY <1>2 DEF QuietStart
  <2>1. \A i \in 1..Len(Readers[program]) : KeptInOrder(Readers[program][i])
    BY <1>1 DEF Settled
  <2> QED
    BY <2>1 DEF StartInv, RestInv
<1> QED
  BY <1>3, StartInitially, StartInvKept, PTL DEF Spec

=============================================================================

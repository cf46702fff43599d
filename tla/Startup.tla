------------------------------ MODULE Startup ------------------------------
(***************************************************************************)
(* The start of a program: the readers of its ini file (models/config),    *)
(* main, and what Run does once (main/, InitConn, SignIn).  The readers    *)
(* stop at the first value they cannot parse, panic over some keys that    *)
(* are missing, and main goes on whatever error it has logged.             *)
(*                                                                         *)
(* In the controller the joystick's goroutine starts before the            *)
(* connection, and can end the process at any point of what follows.       *)
(***************************************************************************)
EXTENDS Integers, Sequences, Functions

CONSTANTS
  Files,     \* what may stand in an ini file: key -> value, Missing or Bad
  Missing,   \* the key is not there
  Bad,       \* strconv.Atoi or ParseBool fails
  None

VARIABLES
  program,   \* "rover", "controller" or "server"
  file,      \* the file it reads
  pc,        \* "load", "read", "stick", "connect", "serve" or "dead"
  readers,   \* the readers that have not finished
  todo,      \* the keys the current reader has not looked at
  conf,      \* what the process goes by
  trans,     \* ControllerConfig.Trans
  logged,    \* main has logged an error
  stick,     \* the joystick's goroutine: "off", "run", "reading" or "mute"
  device,    \* js.device is not nil
  signedIn,  \* the name sent to the relay, or None
  reason     \* what ended the process

readVars == <<readers, todo, conf, trans>>
stickVars == <<stick, device>>
startVars == <<program, file, pc, readVars, logged, stickVars, signedIn, reason>>

Program == {"rover", "controller", "server"}

-----------------------------------------------------------------------------
(* Configuration *)

CommonKeys == <<"serverIp", "serverPort", "stunPort", "localPort", "id",
                "remoteId", "groupId", "gstreamerCli">>

ControllerKeys == <<"joystickFreq", "cmd", "video", "audio">>

RoverKeys == <<"cmdServicePort">>

ServerKeys == <<"servicePort", "packageLen", "forwardPort">>

Required == {"id", "remoteId", "groupId"}

Readers ==
  [rover      |-> <<CommonKeys, RoverKeys>>,
   controller |-> <<CommonKeys, ControllerKeys>>,
   server     |-> <<ServerKeys>>]

(* GetDefault...Config; what they leave out is zero. *)
Default ==
  [serverIp |-> "140.143.99.31", serverPort |-> 10006, stunPort |-> 43478,
   localPort |-> 18000, id |-> 0, remoteId |-> 0, groupId |-> 0,
   gstreamerCli |-> FALSE, joystickFreq |-> 50, cmd |-> FALSE, video |-> FALSE,
   audio |-> FALSE, cmdServicePort |-> 10008, servicePort |-> 10006,
   packageLen |-> 548, forwardPort |-> 10007]

Key == DOMAIN Default

(* CommonConfig{} and the like *)
Zero(k) ==
  CASE k = "serverIp" -> ""
    [] k \in {"gstreamerCli", "cmd", "video", "audio"} -> FALSE
    [] OTHER -> 0

NoTrans == [cmd |-> FALSE, video |-> FALSE, audio |-> FALSE]

Modes(c) == [cmd |-> c.cmd, video |-> c.video, audio |-> c.audio]

ASSUME StartupAssumption == \A f \in Files : DOMAIN f = Key

-----------------------------------------------------------------------------
StartInit ==
  /\ program \in Program
  /\ file \in Files
  /\ pc = "load"
  /\ readers = Readers[program]
  /\ todo = <<>>
  /\ conf = Default
  /\ trans = NoTrans
  /\ logged = FALSE
  /\ stick = "off"
  /\ device = FALSE
  /\ signedIn = None
  /\ reason = "none"

(* A panic, in any goroutine, ends the process. *)
Die(why) ==
  /\ pc' = "dead"
  /\ reason' = why

(* Where main goes from a reader that is done. *)
NextReader ==
  /\ readers' = Tail(readers)
  /\ todo' = <<>>
  /\ pc' = IF Len(readers) > 1 THEN "load"
           ELSE IF program = "controller" THEN "stick" ELSE "connect"

(* ini.LoadFile.  Without a file the result is not the defaults but zero. *)
LoadFile ==
  /\ pc = "load"
  /\ \/ /\ todo' = Head(readers)
        /\ pc' = "read"
        /\ UNCHANGED <<readers, conf, logged>>
     \/ /\ conf' = [k \in Key |-> IF k \in Range(Head(readers)) THEN Zero(k) ELSE conf[k]]
        /\ logged' = TRUE
        /\ NextReader
  /\ UNCHANGED <<program, file, trans, stickVars, signedIn, reason>>

(* The next key of the file, if it can be used or done without. *)
ReadKey ==
  /\ pc = "read" /\ todo # <<>>
  /\ LET k == Head(todo) IN
       /\ file[k] # Bad
       /\ ~(file[k] = Missing /\ k \in Required)
       /\ conf' = IF file[k] = Missing THEN conf ELSE [conf EXCEPT ![k] = file[k]]
  /\ todo' = Tail(todo)
  /\ UNCHANGED <<program, file, pc, readers, trans, logged, stickVars, signedIn, reason>>

(* panic("'id' variable missing from 'common' section") *)
RequiredMissing ==
  /\ pc = "read" /\ todo # <<>>
  /\ file[Head(todo)] = Missing /\ Head(todo) \in Required
  /\ Die("missing")
  /\ UNCHANGED <<program, file, readVars, logged, stickVars, signedIn>>

(* Mutant: main does not look at the error. *)
BadValueUnseen ==
  /\ pc = "read" /\ todo # <<>>
  /\ file[Head(todo)] = Bad
  /\ NextReader
  /\ UNCHANGED <<program, file, conf, trans, logged, stickVars, signedIn, reason>>

(* The reader returns what it has, with the error; main logs that. *)
BadValue ==
  /\ pc = "read" /\ todo # <<>>
  /\ file[Head(todo)] = Bad
  /\ logged' = TRUE
  /\ NextReader
  /\ UNCHANGED <<program, file, conf, trans, stickVars, signedIn, reason>>

(* The last key is done.  Only now does ControllerConfig get its Trans. *)
ReaderDone ==
  /\ pc = "read" /\ todo = <<>>
  /\ trans' = IF Head(readers) = ControllerKeys THEN Modes(conf) ELSE trans
  /\ NextReader
  /\ UNCHANGED <<program, file, conf, logged, stickVars, signedIn, reason>>

-----------------------------------------------------------------------------
(* The joystick *)

(* js.Init, and go js.Run().  Whoever is asked to select a device and      *)
(* enters a number that is not in the list gets a panic.                   *)
JoystickInit ==
  /\ pc = "stick"
  /\ \/ /\ device' \in BOOLEAN
        /\ logged' = (logged \/ ~device')
        /\ stick' = "run"
        /\ pc' = "connect"
        /\ UNCHANGED reason
     \/ /\ Die("selection")
        /\ UNCHANGED <<logged, stickVars>>
  /\ UNCHANGED <<program, file, readVars, signedIn>>

(* 1000000000 / freq nanoseconds is a period that time.Tick accepts. *)
Ticks(freq) == freq > 0 /\ freq <= 1000000000

(* Mutant: Run returns when there is no device. *)
JoystickRunGivesUp ==
  /\ pc # "dead"
  /\ stick = "run"
  /\ stick' = IF device /\ Ticks(conf.joystickFreq) THEN "reading" ELSE "mute"
  /\ UNCHANGED <<program, file, pc, readVars, logged, device, signedIn, reason>>

(* js.Run up to its first reading: a division by zero, a loop over a nil   *)
(* channel, or a tick, at which ReadOnce needs a device.                   *)
JoystickRun ==
  /\ pc # "dead"
  /\ stick = "run"
  /\ IF conf.joystickFreq = 0 \/ (Ticks(conf.joystickFreq) /\ ~device)
     THEN Die("stick") /\ UNCHANGED stick
     ELSE /\ stick' = IF Ticks(conf.joystickFreq) THEN "reading" ELSE "mute"
          /\ UNCHANGED <<pc, reason>>
  /\ UNCHANGED <<program, file, readVars, logged, device, signedIn>>

-----------------------------------------------------------------------------
(* Run *)

Port == 1..65535

(* InitConn panics when it cannot dial.  The server's main goroutine goes  *)
(* on without a listener, with an error logged.                            *)
Connect(ok) ==
  /\ pc = "connect"
  /\ ok => program = "server" \/ conf.serverPort \in Port
  /\ \/ /\ ok \/ program = "server"
        /\ pc' = "serve"
        /\ logged' = (logged \/ ~ok)
        /\ UNCHANGED reason
     \/ /\ ~ok /\ program # "server"
        /\ Die("dial")
        /\ UNCHANGED logged
  /\ UNCHANGED <<program, file, readVars, stickVars, signedIn>>

(* go s.SignIn() *)
SignIn ==
  /\ pc = "serve" /\ program # "server"
  /\ signedIn = None
  /\ signedIn' = conf.id
  /\ UNCHANGED <<program, file, pc, readVars, logged, stickVars, reason>>

StartNext ==
  \/ LoadFile
  \/ ReadKey
  \/ RequiredMissing
  \/ BadValue
  \/ ReaderDone
  \/ JoystickInit
  \/ JoystickRun
  \/ \E ok \in BOOLEAN : Connect(ok)
  \/ SignIn

=============================================================================

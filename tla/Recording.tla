------------------------------- MODULE Recording -------------------------------
(***************************************************************************)
(* The recording branch of the streamer's pipeline: RecordingManager, the  *)
(* threads that call it (one for each client of the ControlServer, and the *)
(* main thread through Streamer.stop) and what GStreamer does with it.     *)
(*                                                                         *)
(* A branch is a queue, a parser, a muxer and a filesink, and the pad of   *)
(* the tee that was requested for it is called like the branch.            *)
(***************************************************************************)
EXTENDS Naturals, FiniteSets

CONSTANTS
  Client,     \* threads of the control server
  Main,       \* the thread of the main loop
  Branch,     \* branches there can be at a time
  MaxIdle,    \* bound: a start waits until fewer teardowns are pending
  GoOn,       \* bound: whether clients ask for anything once they are disturbed
  DiskFails,  \* whether the directory may be impossible to make
  None

ASSUME RecordingAssumption ==
  /\ Main \notin Client
  /\ None \notin Branch
  /\ MaxIdle \in Nat
  /\ GoOn \in BOOLEAN /\ DiskFails \in BOOLEAN

Caller == Client \cup {Main}

VARIABLES
  isRecording, elements, teePad,  \* of the RecordingManager
  stopComplete,   \* its event: "none", "made" or "set"
  place,          \* where each caller is
  mine,           \* the branch that a start has made
  awaits,         \* what a stop waits for: the event, or an old one, "lost" or "set"
  halting,        \* callers that are in Streamer.stop
  bin,            \* branches in the pipeline
  fed,            \* those that have been linked to the tee
  eos,            \* those that have been sent the end of the stream
  eosProbes,      \* how many probes wait for it at each filesink
  ended,          \* branches whose filesink has seen it
  pads,           \* pads of the tee that have not been released
  linked,         \* those that feed their branch
  probes,         \* how many blocking probes each has
  blocked,        \* the pad whose probes the streaming thread is calling
  midway,         \* whether it is within one
  serving,        \* the control server: "not yet", "yes", "no"
  listening,      \* client threads in recv when it stopped
  playing,        \* whether the pipeline is
  idle,           \* teardowns waiting for the main loop
  looping, quit,  \* the main loop runs, and has been told to quit
  over,           \* the process has ended
  disturbed       \* history: a stop has timed out, or calls have overlapped

manager == <<isRecording, elements, teePad, stopComplete>>
calls == <<place, mine, awaits, halting>>
branches == <<bin, fed, eos, eosProbes, ended>>
tee == <<pads, linked, probes>>
stream == <<blocked, midway>>
server == <<serving, listening>>
loop == <<looping, quit, over>>
vars == <<manager, calls, branches, tee, stream, server, playing, idle, loop, disturbed>>

Quiet == {"idle", "ready", "served", "loop"}
Starting == {"start", "make", "request", "attach"}
Stopping == {"stop", "clear", "probe", "wait"}
Halting == {"halt", "close", "null", "quit"}

TypeOK ==
  /\ isRecording \in BOOLEAN
  /\ elements \in Branch \cup {None} /\ teePad \in Branch \cup {None}
  /\ stopComplete \in {"none", "made", "set"}
  /\ place \in [Caller -> Quiet \cup Starting \cup Stopping \cup Halting]
  /\ mine \in [Caller -> Branch \cup {None}]
  /\ awaits \in [Caller -> {"nothing", "event", "lost", "set"}]
  /\ halting \subseteq Caller
  /\ bin \subseteq Branch /\ fed \subseteq bin /\ eos \subseteq Branch /\ ended \subseteq bin
  /\ eosProbes \in [Branch -> Nat] /\ probes \in [Branch -> Nat]
  /\ pads \subseteq Branch /\ linked \subseteq pads
  /\ blocked \in Branch \cup {None} /\ midway \in BOOLEAN
  /\ serving \in {"not yet", "yes", "no"} /\ listening \subseteq Client
  /\ idle \in Nat
  /\ {playing, looping, quit, over, disturbed} \subseteq BOOLEAN

(* Streamer.start has built the pipeline and set it to PLAYING; with the   *)
(* setting "recording" it records from the beginning.                      *)
Init ==
  /\ isRecording = FALSE /\ elements = None /\ teePad = None /\ stopComplete = "none"
  /\ \E p \in {"start", "ready"} : place = [c \in Caller |-> IF c = Main THEN p ELSE "idle"]
  /\ mine = [c \in Caller |-> None]
  /\ awaits = [c \in Caller |-> "nothing"]
  /\ halting = {}
  /\ bin = {} /\ fed = {} /\ eos = {} /\ ended = {}
  /\ eosProbes = [b \in Branch |-> 0] /\ probes = [b \in Branch |-> 0]
  /\ pads = {} /\ linked = {} /\ blocked = None /\ midway = FALSE
  /\ serving = "not yet" /\ listening = Client
  /\ playing = TRUE /\ idle = 0
  /\ looping = FALSE /\ quit = FALSE /\ over = FALSE
  /\ disturbed = FALSE

Goto(c, p) == place' = [place EXCEPT ![c] = p]
Busy == {c \in Caller : place[c] \notin Quiet}

(* Callers that have passed the check at the beginning of start or stop. *)
Within == {c \in Caller : place[c] \in (Starting \ {"start"}) \cup (Stopping \ {"stop"})}

-----------------------------------------------------------------------------
(* Requests.  _handle_client looks at running only before it receives.     *)

Received(c) ==
  /\ place[c] = "idle"
  /\ serving # "not yet" /\ (serving = "no" => c \in listening)
  /\ disturbed => GoOn
  /\ listening' = IF serving = "no" THEN listening \ {c} ELSE listening
  /\ UNCHANGED <<manager, mine, awaits, branches, tee, stream, serving, playing, idle, loop,
                 disturbed>>

AskStart(c) ==
  /\ idle < MaxIdle
  /\ Received(c)
  /\ Goto(c, "start")
  /\ UNCHANGED halting

AskStop(c) ==
  /\ Received(c)
  /\ Goto(c, "stop")
  /\ UNCHANGED halting

(* Streamer.stop: by a client, by a message of the bus on the main loop,   *)
(* or when the loop has ended.                                             *)
Halt(c) ==
  /\ halting' = halting \cup {c}
  /\ Goto(c, "halt")

AskHalt(c) == Received(c) /\ Halt(c)

HaltMain ==
  /\ Halt(Main)
  /\ UNCHANGED <<manager, mine, awaits, branches, tee, stream, server, playing, idle, disturbed>>

(* The end of the stream, or an error. *)
OnMessage ==
  /\ place[Main] = "loop" /\ ~quit
  /\ HaltMain
  /\ UNCHANGED loop

OnSigterm ==
  /\ looping
  /\ quit' = TRUE
  /\ UNCHANGED <<manager, calls, branches, tee, stream, server, playing, idle, looping, over,
                 disturbed>>

LoopEnds ==
  /\ place[Main] = "loop" /\ quit
  /\ looping' = FALSE
  /\ HaltMain
  /\ UNCHANGED <<quit, over>>

-----------------------------------------------------------------------------
(* RecordingManager.start *)

StartEnds(c) ==
  /\ Goto(c, IF c = Main THEN "ready" ELSE "idle")
  /\ mine' = [mine EXCEPT ![c] = None]

StartCheck(c) ==
  /\ place[c] = "start"
  /\ \/ isRecording /\ StartEnds(c)
     \/ ~isRecording /\ Goto(c, "make") /\ UNCHANGED mine
  /\ disturbed' = (disturbed \/ (~isRecording /\ (Within # {} \/ halting # {} \/ serving = "no")))
  /\ UNCHANGED <<manager, awaits, halting, branches, tee, stream, server, playing, idle, loop>>

Unused == Branch \ (bin \cup pads \cup eos \cup {elements, teePad, blocked}
                    \cup {mine[c] : c \in Caller})
NewBranch == CHOOSE b \in Unused : TRUE

(* An element may be missing.  Making the directory may raise, after the   *)
(* flag is set, which the main thread does not survive.                    *)
StartMake(c) ==
  /\ place[c] = "make"
  /\ \/ /\ Unused # {}
        /\ isRecording' = TRUE
        /\ elements' = NewBranch
        /\ mine' = [mine EXCEPT ![c] = NewBranch]
        /\ bin' = bin \cup {NewBranch}
        /\ Goto(c, "request")
        /\ UNCHANGED over
     \/ /\ \/ isRecording' = FALSE /\ UNCHANGED over
           \/ DiskFails /\ isRecording' = TRUE /\ over' = (c = Main)
        /\ StartEnds(c)
        /\ UNCHANGED <<elements, bin>>
  /\ UNCHANGED <<teePad, stopComplete, awaits, halting, fed, eos, eosProbes, ended, tee, stream,
                 server, playing, idle, looping, quit, disturbed>>

RemoveElements ==
  /\ elements' = None
  /\ bin' = bin \ {elements} /\ fed' = fed \ {elements}
  /\ eos' = eos \ {elements} /\ ended' = ended \ {elements}
  /\ eosProbes' = [b \in Branch |-> IF b = elements THEN 0 ELSE eosProbes[b]]

ReleasePad ==
  /\ teePad' = None
  /\ pads' = pads \ {teePad} /\ linked' = linked \ {teePad}
  /\ probes' = [p \in Branch |-> IF p = teePad /\ p # blocked THEN 0 ELSE probes[p]]

Cleanup_KeepFlag ==
  /\ ReleasePad
  /\ RemoveElements
  /\ UNCHANGED isRecording

Cleanup ==
  /\ isRecording' = FALSE
  /\ ReleasePad
  /\ RemoveElements

(* A link within the branch or the request of the pad may fail. *)
StartRequest(c) ==
  /\ place[c] = "request"
  /\ \/ /\ pads' = pads \cup {mine[c]} /\ teePad' = mine[c]
        /\ Goto(c, "attach")
        /\ UNCHANGED <<isRecording, elements, mine, branches, linked, probes>>
     \/ Cleanup /\ StartEnds(c)
  /\ UNCHANGED <<stopComplete, awaits, halting, stream, server, playing, idle, loop, disturbed>>

(* So may the link to the tee. *)
StartAttach(c) ==
  /\ place[c] = "attach"
  /\ \/ /\ mine[c] \in pads \cap bin
        /\ linked' = linked \cup {mine[c]} /\ fed' = fed \cup {mine[c]}
        /\ UNCHANGED <<isRecording, elements, teePad, bin, eos, eosProbes, ended, pads, probes>>
     \/ Cleanup
  /\ StartEnds(c)
  /\ UNCHANGED <<stopComplete, awaits, halting, stream, server, playing, idle, loop, disturbed>>

Start(c) ==
  StartCheck(c) \/ StartMake(c) \/ StartRequest(c) \/ StartAttach(c)

-----------------------------------------------------------------------------
(* RecordingManager.stop *)

StopEnds(c) ==
  /\ Goto(c, IF c \in halting THEN "close" ELSE "idle")
  /\ awaits' = [awaits EXCEPT ![c] = "nothing"]

StopCheck(c) ==
  /\ place[c] = "stop"
  /\ \/ isRecording /\ teePad # None /\ Goto(c, "clear") /\ UNCHANGED awaits
     \/ ~(isRecording /\ teePad # None) /\ StopEnds(c)
  /\ disturbed' = (disturbed \/ \E d \in Within : place[d] \in Stopping)
  /\ UNCHANGED <<manager, mine, halting, branches, tee, stream, server, playing, idle, loop>>

(* A new event takes the place of one that others may be waiting for. *)
StopClear(c) ==
  /\ place[c] = "clear"
  /\ isRecording' = FALSE
  /\ stopComplete' = "made"
  /\ awaits' = [d \in Caller |-> IF awaits[d] # "event" THEN awaits[d]
                                 ELSE IF stopComplete = "set" THEN "set" ELSE "lost"]
  /\ Goto(c, "probe")
  /\ UNCHANGED <<elements, teePad, mine, halting, branches, tee, stream, server, playing, idle,
                 loop, disturbed>>

(* Without a pad this raises and ends the request, and Streamer.stop with  *)
(* it: the loop then goes on, and after the loop the process ends.         *)
StopProbe(c) ==
  /\ place[c] = "probe"
  /\ \/ /\ teePad # None
        /\ probes' = [probes EXCEPT ![teePad] = @ + 1]
        /\ awaits' = [awaits EXCEPT ![c] = "event"]
        /\ Goto(c, "wait")
        /\ UNCHANGED <<halting, over>>
     \/ /\ teePad = None
        /\ Goto(c, IF c = Main THEN "loop" ELSE "idle")
        /\ halting' = halting \ {c}
        /\ over' = (c = Main /\ ~looping)
        /\ UNCHANGED <<probes, awaits>>
  /\ UNCHANGED <<manager, mine, branches, pads, linked, stream, server, playing, idle, looping,
                 quit, disturbed>>

Woken(c) == awaits[c] = "set" \/ (awaits[c] = "event" /\ stopComplete = "set")

StopWait_Forever(c) ==
  /\ place[c] = "wait"
  /\ Woken(c) /\ StopEnds(c)
  /\ UNCHANGED <<manager, mine, halting, branches, tee, stream, server, playing, idle, loop,
                 disturbed>>

(* For STOP_TIMEOUT at most; then the branch is torn down by force.        *)
StopWait(c) ==
  /\ place[c] = "wait"
  /\ \/ Woken(c) /\ UNCHANGED <<elements, teePad, branches, tee, disturbed>>
     \/ ~Woken(c) /\ ReleasePad /\ RemoveElements /\ disturbed' = TRUE
  /\ StopEnds(c)
  /\ UNCHANGED <<isRecording, stopComplete, mine, halting, stream, server, playing, idle, loop>>

Stop(c) == StopCheck(c) \/ StopClear(c) \/ StopProbe(c) \/ StopWait(c)

-----------------------------------------------------------------------------
(* The rest of Streamer.stop *)

HaltRecording(c) ==
  /\ place[c] = "halt"
  /\ Goto(c, IF isRecording THEN "stop" ELSE "close")
  /\ disturbed' = (disturbed \/ Within # {})
  /\ UNCHANGED <<manager, mine, awaits, halting, branches, tee, stream, server, playing, idle,
                 loop>>

CloseServer(c) ==
  /\ place[c] = "close"
  /\ serving' = "no"
  /\ Goto(c, "null")
  /\ UNCHANGED <<manager, mine, awaits, halting, branches, tee, stream, listening, playing, idle,
                 loop, disturbed>>

(* A pipeline that does not reach NULL ends the process. *)
StopPipeline(c) ==
  /\ place[c] = "null"
  /\ \/ playing' = FALSE /\ Goto(c, "quit") /\ UNCHANGED over
     \/ over' = TRUE /\ UNCHANGED <<playing, place>>
  /\ UNCHANGED <<manager, mine, awaits, halting, branches, tee, stream, server, idle, looping,
                 quit, disturbed>>

(* A loop that does not run yet is not told. *)
QuitLoop(c) ==
  /\ place[c] = "quit"
  /\ quit' = (quit \/ looping)
  /\ halting' = halting \ {c}
  /\ Goto(c, IF c = Main THEN "loop" ELSE "idle")
  /\ over' = (c = Main /\ ~looping)
  /\ UNCHANGED <<manager, mine, awaits, branches, tee, stream, server, playing, idle, looping,
                 disturbed>>

HaltStep(c) == HaltRecording(c) \/ CloseServer(c) \/ StopPipeline(c) \/ QuitLoop(c)

-----------------------------------------------------------------------------
(* The main loop *)

Serve ==
  /\ place[Main] = "ready"
  /\ serving' = "yes"
  /\ Goto(Main, "served")
  /\ UNCHANGED <<manager, mine, awaits, halting, branches, tee, stream, listening, playing, idle,
                 loop, disturbed>>

RunLoop ==
  /\ place[Main] = "served"
  /\ looping' = TRUE
  /\ Goto(Main, "loop")
  /\ UNCHANGED <<manager, mine, awaits, halting, branches, tee, stream, server, playing, idle,
                 quit, over, disturbed>>

Teardown ==
  /\ place[Main] = "loop" /\ looping /\ idle > 0
  /\ idle' = idle - 1
  /\ RemoveElements
  /\ stopComplete' = IF stopComplete = "none" THEN "none" ELSE "set"
  /\ UNCHANGED <<isRecording, teePad, calls, tee, stream, server, playing, loop, disturbed>>

-----------------------------------------------------------------------------
(* The streaming threads *)

MoreProbes(p) == IF probes'[p] > 0 THEN p ELSE None

(* _on_tee_pad_blocked, once for each probe of the pad a buffer has come   *)
(* to: the pad is unlinked and released and the end of the stream sent     *)
(* into the branch.  Without elements it raises.                           *)
Unlink(p) ==
  /\ playing /\ ~midway /\ probes[p] > 0
  /\ blocked = p \/ (blocked = None /\ p \in pads)
  /\ probes' = [probes EXCEPT ![p] = @ - 1]
  /\ \/ /\ elements # None
        /\ pads' = pads \ {p} /\ linked' = linked \ {p}
        /\ teePad' = None
        /\ eos' = eos \cup {elements}
        /\ blocked' = p /\ midway' = TRUE
     \/ /\ elements = None
        /\ blocked' = MoreProbes(p)
        /\ UNCHANGED <<pads, linked, teePad, eos, midway>>
  /\ UNCHANGED <<isRecording, elements, stopComplete, calls, bin, fed, eosProbes, ended, server,
                 playing, idle, loop, disturbed>>

AddEosProbe_AtOnce ==
  /\ midway /\ midway' = FALSE
  /\ idle' = idle + 1
  /\ UNCHANGED probes /\ blocked' = MoreProbes(blocked)
  /\ UNCHANGED <<manager, calls, branches, pads, linked, server, playing, loop, disturbed>>

(* The filesink is looked up again. *)
AddEosProbe ==
  /\ midway /\ midway' = FALSE
  /\ \/ /\ elements # None
        /\ eosProbes' = [eosProbes EXCEPT ![elements] = @ + 1]
        /\ UNCHANGED idle
     \/ elements = None /\ idle' = idle + 1 /\ UNCHANGED eosProbes
  /\ UNCHANGED probes /\ blocked' = MoreProbes(blocked)
  /\ UNCHANGED <<manager, calls, bin, fed, eos, ended, pads, linked, server, playing, loop,
                 disturbed>>

(* _on_recording_eos; a probe that comes after the end is never called.    *)
EosArrives(b) ==
  /\ playing /\ b \in eos \ ended /\ b \in bin
  /\ ended' = ended \cup {b}
  /\ idle' = idle + eosProbes[b]
  /\ eosProbes' = [eosProbes EXCEPT ![b] = 0]
  /\ UNCHANGED <<manager, calls, bin, fed, eos, tee, stream, server, playing, loop, disturbed>>

-----------------------------------------------------------------------------
Call(c) == ~over /\ (Start(c) \/ Stop(c) \/ HaltStep(c))

MainLoop == ~over /\ (Serve \/ RunLoop \/ Teardown)

LeaveLoop == ~over /\ LoopEnds

Requests(c) == ~over /\ (AskStart(c) \/ AskStop(c) \/ AskHalt(c))

Events == ~over /\ (OnMessage \/ OnSigterm)

Streaming ==
  ~over /\ (AddEosProbe \/ \E b \in Branch : Unlink(b) \/ EosArrives(b))

Next ==
  \/ MainLoop \/ LeaveLoop \/ Events \/ Streaming
  \/ \E c \in Caller : Call(c)
  \/ \E c \in Client : Requests(c)

Spec == Init /\ [][Next]_vars

(* The threads run, and a loop that has been told to quit ends; buffers, requests and messages come or not. *)
FairSpec ==
  /\ Spec
  /\ WF_vars(MainLoop) /\ WF_vars(LeaveLoop)
  /\ \A c \in Caller : WF_vars(Call(c))

-----------------------------------------------------------------------------
(* Properties.  A disturbance is a stop that has timed out, or a start or  *)
(* stop that has passed its check within another stop, a start that has    *)
(* within another start or Streamer.stop, and a Streamer.stop within       *)
(* either: nothing serialises them.                                        *)

(* When the telemetry says that the streamer records, then the branch is   *)
(* there, fed by the tee, and the manager holds what it takes to stop it,  *)
(* however the starts and stops before it have ended (start, _cleanup).    *)
RecordingIsReal ==
  isRecording /\ ~disturbed /\ (\A c \in Caller : place[c] \notin Starting \cup {"clear"})
    => elements # None /\ teePad = elements /\ elements \in bin \cap linked

(* When no recording is under way nothing of one is left: no element in    *)
(* the pipeline, no pad at the tee, which would block the video, and no    *)
(* teardown that could hit the next recording (stop, _teardown).           *)
NothingLeft == ~isRecording /\ ~disturbed /\ Busy = {} => bin = {} /\ pads = {} /\ idle = 0

(* Both: what the manager knows of a recording is all there is of it.      *)
RecordingSound == RecordingIsReal /\ NothingLeft

(* A branch that was fed is not removed, nor the pipeline stopped, before  *)
(* the end of the stream has come to its filesink, so that its file is     *)
(* complete (_on_tee_pad_blocked, _on_recording_eos, Streamer.stop).       *)
FilesComplete ==
  [][\A b \in fed : b \notin bin' \/ ~playing' => b \in ended \/ disturbed']_vars

(* A loop that has been told to quit ends the process, also when it is     *)
(* Streamer.stop on the main loop that waits for a recording to be torn    *)
(* down on the main loop (_on_message, run, STOP_TIMEOUT).                 *)
StopsAtLast == quit ~> over

(* "Reverted on failure" (start): a start that fails leaves is_recording   *)
(* FALSE.                                                                  *)
RevertedOnFailure == isRecording /\ ~disturbed /\ ~over /\ Busy = {} => elements # None

(* "True if recording started successfully" and "True if recording         *)
(* stopped successfully" (start, stop): so it is, whoever calls them.      *)
SafeToCall == isRecording /\ Busy = {} => elements # None /\ teePad = elements

=============================================================================

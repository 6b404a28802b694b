----------------------------- MODULE PipelineProofs -----------------------------
(***************************************************************************)
(* Proofs about the streamer: its pipeline, and what runs beside it.       *)
(*                                                                         *)
(* Recordings: what the manager knows of a recording is all there is of    *)
(* it, and no branch that was fed is removed before the end of the stream  *)
(* has come to its file, for any number of clients, branches and pending   *)
(* teardowns.                                                              *)
(*                                                                         *)
(* Frames: the times that are kept and the stamp are those of the frame,   *)
(* for any number of frames, any size of the queues and any depth of the   *)
(* encoder.                                                                *)
(*                                                                         *)
(* Beside it: a property has the value of a request that succeeded, for    *)
(* any number of connections that set it; the outputs come to rest, for    *)
(* any number of receivers that drive them; a lost modem is marked.        *)
(***************************************************************************)
EXTENDS MCPipeline, MCStreamer, FiniteSetTheorems, WellFoundedInduction, TLAPS

-----------------------------------------------------------------------------
(* The inductive invariant.  A caller that has passed the check of start,  *)
(* or of stop. *)

Starter(c) == place[c] \in {"make", "request", "attach"}
Stopper(c) == place[c] \in {"clear", "probe", "wait"}
Nobody(p) == \A c \in Caller : place[c] # p

(* Whatever happens: who is in Streamer.stop, and how far; before the      *)
(* control server runs there is only the main thread.                      *)
InPlace(c) ==
  /\ c \in halting => place[c] \in Halting \cup Stopping
  /\ place[c] \in Halting => c \in halting
  /\ place[c] \in {"null", "quit"} => serving = "no"
  /\ (c = Main /\ place[c] \in Starting \cup {"ready"}) => serving = "not yet"
  /\ (c # Main /\ serving = "not yet") => place[c] = "idle"
  /\ place[c] = "request" => mine[c] # None

Places ==
  /\ \A c \in Caller : InPlace(c)
  /\ ~playing => serving = "no"

(* Until calls disturb each other there is one of each at most, and a stop *)
(* passes its check only within a start that has its pad.                  *)
Alone ==
  /\ \A c, d \in Caller : (Starter(c) /\ Starter(d)) => c = d
  /\ \A c, d \in Caller : (Stopper(c) /\ Stopper(d)) => c = d
  /\ \A c, d \in Caller : (Starter(c) /\ Stopper(d)) => place[c] = "attach"

(* None has started when Streamer.stop stops the recording.                *)
HaltAlone == \A c \in halting : place[c] # "halt" => \A d \in Caller : ~Starter(d)

(* Once Streamer.stop has come to the server nothing of a recording is     *)
(* left, and none can begin.                                               *)
Closing == serving = "no" \/ \E c \in Caller : place[c] \in {"close", "null", "quit"}

AllClosed ==
  Closing => /\ elements = None
             /\ \A c \in Caller : ~Starter(c) /\ ~Stopper(c)

(* There is the branch, and the pad, that the manager knows of, and no     *)
(* other.                                                                  *)
OneBranch ==
  /\ bin = {elements} \ {None}
  /\ pads = {teePad} \ {None}
  /\ teePad \in {None, elements}
  /\ eos \subseteq bin

(* What the manager holds, by how far calls have come. *)
Flags ==
  /\ (Nobody("request") /\ Nobody("wait")) => teePad = elements
  /\ (Nobody("probe") /\ Nobody("wait") /\ elements # None) => isRecording
  /\ (Nobody("probe") /\ Nobody("wait") /\ isRecording) => (elements # None \/ DiskFails)
  /\ (Nobody("wait") /\ \A c \in Caller : ~Starter(c)) => linked = pads
  /\ \A c \in Caller : place[c] \in {"probe", "wait"} => ~isRecording
  /\ \A c \in Caller : place[c] = "make" => (elements = None /\ ~isRecording)
  /\ \A c \in Caller : place[c] = "request" => (elements = mine[c] /\ teePad = None)
  /\ \A c \in Caller : Starter(c) => fed = {}
  /\ \A c \in Caller : place[c] = "probe" => stopComplete = "made"

NoProbe == \A b \in Branch : probes[b] = 0
NoEosProbe == \A b \in Branch : eosProbes[b] = 0
Flowing == ~midway /\ blocked = None

(* A stop puts one probe on the pad; that becomes the end of the stream    *)
(* and a probe for it, and that becomes one teardown.                      *)
Calm == NoProbe /\ Flowing /\ NoEosProbe /\ idle = 0
Probing ==
  /\ teePad # None /\ probes[teePad] = 1 /\ \A b \in Branch \ {teePad} : probes[b] = 0
  /\ Flowing /\ NoEosProbe /\ idle = 0
Midway == teePad = None /\ NoProbe /\ midway /\ blocked # None /\ NoEosProbe /\ idle = 0
AwaitsEnd ==
  /\ teePad = None /\ NoProbe /\ Flowing /\ idle = 0
  /\ elements # None /\ eosProbes[elements] = 1 /\ \A b \in Branch \ {elements} : eosProbes[b] = 0
Pending == teePad = None /\ NoProbe /\ Flowing /\ NoEosProbe /\ idle = 1 /\ fed \subseteq ended

NoneLeft == elements = None /\ Calm

Tearing ==
  \/ NoneLeft
  \/ stopComplete = "made" /\ (Probing \/ Midway \/ AwaitsEnd \/ Pending)

OneStop ==
  /\ Nobody("wait") => Calm
  /\ \A c \in Caller : place[c] = "wait" =>
       (awaits[c] = "event" /\ stopComplete # "none" /\ Tearing)

Ordered == Alone /\ HaltAlone /\ AllClosed /\ OneBranch /\ Flags /\ OneStop

RecInv == TypeOK /\ Places /\ (~disturbed => Ordered)

-----------------------------------------------------------------------------
LEMMA NewBranchIsUnused == Unused # {} => NewBranch \in Unused
BY DEF NewBranch

Place == Quiet \cup Starting \cup Stopping \cup Halting

(* Where a caller goes, the others are where they were. *)
LEMMA Going ==
  ASSUME TypeOK, NEW c \in Caller, NEW p \in Place, Goto(c, p)
  PROVE  /\ place' \in [Caller -> Place] /\ place'[c] = p
         /\ \A d \in Caller : d # c => place'[d] = place[d]
BY DEF TypeOK, Goto, Place

LEMMA RemovalTyped ==
  ASSUME TypeOK, RemoveElements
  PROVE  /\ elements' \in Branch \cup {None} /\ bin' \subseteq Branch /\ fed' \subseteq bin'
         /\ eos' \subseteq Branch /\ ended' \subseteq bin' /\ eosProbes' \in [Branch -> Nat]
BY DEF TypeOK, RemoveElements

LEMMA ReleaseTyped ==
  ASSUME TypeOK, ReleasePad
  PROVE  /\ teePad' \in Branch \cup {None} /\ pads' \subseteq Branch /\ linked' \subseteq pads'
         /\ probes' \in [Branch -> Nat]
BY DEF TypeOK, ReleasePad

LEMMA StartTyped ==
  ASSUME TypeOK, Places, NEW c \in Caller, Start(c)
  PROVE  TypeOK'
<1>1. CASE StartCheck(c)
  BY <1>1 DEF StartCheck, StartEnds, Goto, TypeOK, manager, branches, tee, stream, server, loop, Quiet, Starting
<1>2. CASE StartMake(c)
  <2>1. Unused # {} => NewBranch \in Branch
    BY NewBranchIsUnused DEF Unused
  <2>2. place' \in [Caller -> Place] /\ mine' \in [Caller -> Branch \cup {None}]
    BY <1>2, <2>1 DEF StartMake, StartEnds, Goto, TypeOK, Place, Quiet, Starting
  <2>3. /\ elements' \in Branch \cup {None} /\ bin' \subseteq Branch /\ bin \subseteq bin'
        /\ isRecording' \in BOOLEAN /\ over' \in BOOLEAN
    BY <1>2, <2>1 DEF StartMake, TypeOK
  <2> QED
    BY <1>2, <2>2, <2>3 DEF StartMake, TypeOK, Place, tee, stream, server
<1>3. CASE StartRequest(c)
  <2>1. mine[c] \in Branch
    BY <1>3 DEF StartRequest, Places, InPlace, TypeOK
  <2>2. place' \in [Caller -> Place] /\ mine' \in [Caller -> Branch \cup {None}]
    BY <1>3 DEF StartRequest, StartEnds, Goto, TypeOK, Place, Quiet, Starting
  <2>3. CASE Cleanup
    BY <1>3, <2>2, <2>3, RemovalTyped, ReleaseTyped
       DEF StartRequest, Cleanup, TypeOK, Place, stream, server, loop
  <2>4. CASE pads' = pads \cup {mine[c]} /\ teePad' = mine[c]
             /\ UNCHANGED <<isRecording, elements, branches, linked, probes>>
    BY <1>3, <2>1, <2>2, <2>4 DEF StartRequest, TypeOK, Place, branches, stream, server, loop
  <2> QED
    BY <1>3, <2>3, <2>4 DEF StartRequest
<1>4. CASE StartAttach(c)
  <2>1. place' \in [Caller -> Place] /\ mine' \in [Caller -> Branch \cup {None}]
    BY <1>4 DEF StartAttach, StartEnds, Goto, TypeOK, Place, Quiet
  <2>2. CASE Cleanup
    BY <1>4, <2>1, <2>2, RemovalTyped, ReleaseTyped
       DEF StartAttach, Cleanup, TypeOK, Place, stream, server, loop
  <2>3. CASE /\ mine[c] \in pads \cap bin
             /\ linked' = linked \cup {mine[c]} /\ fed' = fed \cup {mine[c]}
             /\ UNCHANGED <<isRecording, elements, teePad, bin, eos, eosProbes, ended, pads, probes>>
    BY <1>4, <2>1, <2>3 DEF StartAttach, TypeOK, Place, stream, server, loop
  <2> QED
    BY <1>4, <2>2, <2>3 DEF StartAttach
<1> QED
  BY <1>1, <1>2, <1>3, <1>4 DEF Start

LEMMA StopTyped ==
  ASSUME TypeOK, NEW c \in Caller, Stop(c)
  PROVE  TypeOK'
<1>1. CASE StopCheck(c)
  BY <1>1
     DEF StopCheck, StopEnds, Goto, TypeOK, manager, branches, tee, stream, server, loop, Quiet, Stopping,
         Halting
<1>2. CASE StopClear(c)
  BY <1>2 DEF StopClear, Goto, TypeOK, branches, tee, stream, server, loop, Stopping
<1>3. CASE StopProbe(c)
  <2>1. place' \in [Caller -> Place]
    BY <1>3 DEF StopProbe, Goto, TypeOK, Place, Quiet, Stopping
  <2>2. /\ probes' \in [Branch -> Nat] /\ awaits' \in [Caller -> {"nothing", "event", "lost", "set"}]
        /\ halting' \subseteq Caller /\ over' \in BOOLEAN
    <3>1. CASE teePad # None
      <4>1. teePad \in Branch /\ probes[teePad] \in Nat
        BY <3>1 DEF TypeOK
      <4>2. probes[teePad] + 1 \in Nat
        BY <4>1
      <4> QED
        BY <1>3, <3>1, <4>1, <4>2 DEF StopProbe, TypeOK
    <3>2. CASE teePad = None
      BY <1>3, <3>2 DEF StopProbe, TypeOK
    <3> QED
      BY <3>1, <3>2
  <2> QED
    BY <1>3, <2>1, <2>2 DEF StopProbe, TypeOK, Place, manager, branches, stream, server
<1>4. CASE StopWait(c)
  <2>1. place' \in [Caller -> Place] /\ awaits' \in [Caller -> {"nothing", "event", "lost", "set"}]
    BY <1>4 DEF StopWait, StopEnds, Goto, TypeOK, Place, Quiet, Halting
  <2>2. CASE ReleasePad /\ RemoveElements /\ disturbed' = TRUE
    BY <1>4, <2>1, <2>2, RemovalTyped, ReleaseTyped
       DEF StopWait, TypeOK, Place, stream, server, loop
  <2>3. CASE UNCHANGED <<elements, teePad, branches, tee, disturbed>>
    BY <1>4, <2>1, <2>3 DEF StopWait, TypeOK, Place, branches, tee, stream, server, loop
  <2> QED
    BY <1>4, <2>2, <2>3 DEF StopWait
<1> QED
  BY <1>1, <1>2, <1>3, <1>4 DEF Stop

LEMMA HaltTyped ==
  ASSUME TypeOK, NEW c \in Caller, HaltStep(c)
  PROVE  TypeOK'
<1>1. CASE HaltRecording(c)
  BY <1>1
     DEF HaltRecording, Goto, TypeOK, manager, branches, tee, stream, server, loop, Stopping, Halting
<1>2. CASE CloseServer(c)
  BY <1>2 DEF CloseServer, Goto, TypeOK, manager, branches, tee, stream, loop, Halting
<1>3. CASE StopPipeline(c)
  BY <1>3 DEF StopPipeline, Goto, TypeOK, manager, branches, tee, stream, server, Halting
<1>4. CASE QuitLoop(c)
  BY <1>4 DEF QuitLoop, Goto, TypeOK, manager, branches, tee, stream, server, Quiet
<1> QED
  BY <1>1, <1>2, <1>3, <1>4 DEF HaltStep

LEMMA RequestTyped ==
  ASSUME TypeOK, NEW c \in Client, Requests(c)
  PROVE  TypeOK'
BY DEF Requests, AskStart, AskStop, AskHalt, Halt, Received, Goto, TypeOK, manager, branches, tee, stream, loop,
       Quiet, Starting, Stopping, Halting, Caller

LEMMA MainTyped ==
  ASSUME TypeOK, MainLoop \/ LeaveLoop \/ Events
  PROVE  TypeOK'
<1>1. CASE Serve \/ RunLoop
  BY <1>1
     DEF Serve, RunLoop, Goto, TypeOK, manager, branches, tee, stream, server, loop, Quiet, Caller
<1>2. CASE Teardown
  <2>1. idle' \in Nat /\ stopComplete' \in {"none", "made", "set"}
    <3>1. idle \in Nat /\ idle > 0 /\ idle' = idle - 1
      BY <1>2 DEF Teardown, TypeOK
    <3>2. stopComplete' \in {"none", "set"}
      BY <1>2 DEF Teardown
    <3> QED
      BY <3>1, <3>2
  <2> QED
    BY <1>2, <2>1, RemovalTyped DEF Teardown, TypeOK, calls, tee, stream, server, loop
<1>3. CASE LoopEnds \/ OnMessage \/ OnSigterm
  BY <1>3
     DEF LoopEnds, OnMessage, OnSigterm, HaltMain, Halt, Goto, TypeOK, manager, calls, branches, tee, stream,
         server, loop, Halting, Caller
<1> QED
  BY <1>1, <1>2, <1>3 DEF MainLoop, LeaveLoop, Events

LEMMA StreamTyped ==
  ASSUME TypeOK, Streaming
  PROVE  TypeOK'
<1>1. ASSUME NEW b \in Branch, Unlink(b) PROVE TypeOK'
  <2>1. probes[b] - 1 \in Nat
    <3>1. probes[b] \in Nat /\ probes[b] > 0
      BY <1>1 DEF Unlink, TypeOK
    <3> QED
      BY <3>1
  <2>2. probes' \in [Branch -> Nat]
    BY <1>1, <2>1 DEF Unlink, TypeOK
  <2>3. /\ pads' \subseteq Branch /\ linked' \subseteq pads' /\ teePad' \in Branch \cup {None}
        /\ eos' \subseteq Branch /\ blocked' \in Branch \cup {None} /\ midway' \in BOOLEAN
    BY <1>1 DEF Unlink, MoreProbes, TypeOK
  <2> QED
    BY <1>1, <2>2, <2>3 DEF Unlink, TypeOK, calls, server, loop
<1>2. CASE AddEosProbe
  <2>1. blocked' \in Branch \cup {None} /\ idle' \in Nat
    <3>1. idle \in Nat /\ idle' \in {idle, idle + 1}
      BY <1>2 DEF AddEosProbe, TypeOK
    <3>2. blocked' \in Branch \cup {None}
      BY <1>2 DEF AddEosProbe, MoreProbes, TypeOK
    <3> QED
      BY <3>1, <3>2
  <2>2. eosProbes' \in [Branch -> Nat]
    <3>1. CASE elements # None
      <4>1. elements \in Branch /\ eosProbes[elements] \in Nat
        BY <3>1 DEF TypeOK
      <4>2. eosProbes[elements] + 1 \in Nat
        BY <4>1
      <4> QED
        BY <1>2, <3>1, <4>1, <4>2 DEF AddEosProbe, TypeOK
    <3>2. CASE elements = None
      BY <1>2, <3>2 DEF AddEosProbe, TypeOK
    <3> QED
      BY <3>1, <3>2
  <2> QED
    BY <1>2, <2>1, <2>2 DEF AddEosProbe, TypeOK, manager, calls, server, loop
<1>3. ASSUME NEW b \in Branch, EosArrives(b) PROVE TypeOK'
  <2>1. idle' \in Nat /\ eosProbes' \in [Branch -> Nat]
    <3>1. idle \in Nat /\ eosProbes[b] \in Nat /\ idle' = idle + eosProbes[b]
      BY <1>3 DEF EosArrives, TypeOK
    <3>2. idle' \in Nat
      BY <3>1
    <3> QED
      BY <1>3, <3>2 DEF EosArrives, TypeOK
  <2> QED
    BY <1>3, <2>1 DEF EosArrives, TypeOK, manager, calls, tee, stream, server, loop
<1> QED
  BY <1>1, <1>2, <1>3 DEF Streaming

LEMMA TypeStep ==
  ASSUME TypeOK, Places, Next
  PROVE  TypeOK'
BY StartTyped, StopTyped, HaltTyped, RequestTyped, MainTyped, StreamTyped DEF Next, Call
-----------------------------------------------------------------------------
(* Where the callers are, whatever happens *)

(* A caller stays in place while others move, and the control server with  *)
(* them, once it runs.                                                     *)
LEMMA StayInPlace ==
  ASSUME NEW d \in Caller, InPlace(d),
         place'[d] = place[d], mine'[d] = mine[d], d \in halting' <=> d \in halting,
         \/ serving' = serving
         \/ serving # "not yet" /\ serving' = "no"
         \/ serving = "not yet" /\ d # Main /\ serving' # "not yet"
  PROVE  InPlace(d)'
BY DEF InPlace

LEMMA PlacesStart ==
  ASSUME TypeOK, Places, NEW c \in Caller, Start(c)
  PROVE  Places'
<1>1. /\ place[c] \in Starting /\ UNCHANGED <<halting, serving, playing>>
      /\ \A d \in Caller : d # c => (place'[d] = place[d] /\ mine'[d] = mine[d])
  BY DEF Start, StartCheck, StartMake, StartRequest, StartAttach, StartEnds, Goto, TypeOK, server, Starting
<1>2. /\ place'[c] \in {"idle", "make", "request", "attach", "ready"}
      /\ c # Main => place'[c] # "ready"
      /\ place'[c] = "request" => mine'[c] # None
  <2>1. CASE StartCheck(c)
    BY <2>1 DEF StartCheck, StartEnds, Goto, TypeOK
  <2>2. CASE StartMake(c)
    <3>1. Unused # {} => NewBranch # None
      BY NewBranchIsUnused, RecordingAssumption DEF Unused
    <3> QED
      BY <2>2, <3>1 DEF StartMake, StartEnds, Goto, TypeOK
  <2>3. CASE StartRequest(c)
    BY <2>3 DEF StartRequest, StartEnds, Goto, TypeOK
  <2>4. CASE StartAttach(c)
    BY <2>4 DEF StartAttach, StartEnds, Goto, TypeOK
  <2> QED
    BY <2>1, <2>2, <2>3, <2>4 DEF Start
<1>3. InPlace(c)'
  BY <1>1, <1>2 DEF Places, InPlace, Starting, Stopping, Halting
<1>4. \A d \in Caller : InPlace(d)'
  BY <1>1, <1>3, StayInPlace DEF Places
<1> QED
  BY <1>1, <1>4 DEF Places

LEMMA PlacesStop ==
  ASSUME TypeOK, Places, NEW c \in Caller, Stop(c)
  PROVE  Places'
<1>1. /\ place[c] \in Stopping /\ UNCHANGED <<serving, playing, mine>>
      /\ halting' \subseteq halting /\ halting \subseteq halting' \cup {c}
      /\ \A d \in Caller : d # c => place'[d] = place[d]
  BY DEF Stop, StopCheck, StopClear, StopProbe, StopWait, StopEnds, Goto, TypeOK, server, Stopping
<1>2. /\ place'[c] \in {"idle", "loop", "clear", "probe", "wait", "close"}
      /\ place'[c] = "close" => c \in halting'
      /\ place'[c] \in {"idle", "loop"} => c \notin halting'
  BY DEF Stop, StopCheck, StopClear, StopProbe, StopWait, StopEnds, Goto, TypeOK
<1>3. InPlace(c)'
  BY <1>1, <1>2 DEF Places, InPlace, Starting, Stopping, Halting
<1>4. \A d \in Caller : InPlace(d)'
  BY <1>1, <1>3, StayInPlace DEF Places
<1> QED
  BY <1>1, <1>4 DEF Places

LEMMA PlacesHalt ==
  ASSUME TypeOK, Places, NEW c \in Caller, HaltStep(c)
  PROVE  Places'
<1>1. /\ place[c] \in Halting /\ UNCHANGED mine
      /\ halting' \subseteq halting /\ halting \subseteq halting' \cup {c}
      /\ \A d \in Caller : d # c => place'[d] = place[d]
  BY DEF HaltStep, HaltRecording, CloseServer, StopPipeline, QuitLoop, Goto, TypeOK, Halting
<1>2. /\ place'[c] \in {"stop", "close", "null"} => c \in halting'
      /\ place'[c] \in {"stop", "close", "null", "quit", "idle", "loop"}
      /\ place'[c] \in {"idle", "loop"} => c \notin halting'
      /\ place'[c] = "null" => (serving' = "no" \/ place[c] = "null")
      /\ place'[c] = "quit" => (place[c] = "null" /\ c \in halting')
      /\ serving' = serving \/ (place[c] = "close" /\ serving' = "no")
      /\ playing' = playing \/ place[c] = "null"
      /\ place[c] = "null" => serving' = serving
  <2>1. c \in halting
    BY <1>1 DEF Places, InPlace
  <2>2. CASE HaltRecording(c)
    BY <2>1, <2>2 DEF HaltRecording, Goto, TypeOK, server
  <2>3. CASE CloseServer(c)
    BY <2>1, <2>3 DEF CloseServer, Goto, TypeOK
  <2>4. CASE StopPipeline(c)
    BY <2>1, <2>4 DEF StopPipeline, Goto, TypeOK, server
  <2>5. CASE QuitLoop(c)
    BY <2>1, <2>5 DEF QuitLoop, Goto, TypeOK, server
  <2> QED
    BY <2>2, <2>3, <2>4, <2>5 DEF HaltStep
<1>3. c # Main => serving # "not yet"
  BY <1>1 DEF Places, InPlace, Halting
<1>4. InPlace(c)'
  BY <1>1, <1>2, <1>3 DEF Places, InPlace, Starting, Stopping, Halting
<1>5. \A d \in Caller : InPlace(d)'
  <2> SUFFICES ASSUME NEW d \in Caller, d # c PROVE InPlace(d)'
    BY <1>4
  <2>1. /\ InPlace(d) /\ place'[d] = place[d] /\ mine'[d] = mine[d]
        /\ d \in halting' <=> d \in halting
    BY <1>1 DEF Places
  <2>2. serving = "not yet" => d # Main
    BY <1>3
  <2>3. serving' = serving \/ serving' = "no"
    BY <1>2
  <2> QED
    BY <2>1, <2>2, <2>3, StayInPlace
<1>6. ~playing' => serving' = "no"
  <2>1. CASE playing' = playing
    BY <1>2, <2>1 DEF Places
  <2>2. CASE place[c] = "null"
    BY <1>2, <2>2 DEF Places, InPlace
  <2> QED
    BY <1>2, <2>1, <2>2
<1> QED
  BY <1>5, <1>6 DEF Places

LEMMA PlacesRequest ==
  ASSUME TypeOK, Places, NEW c \in Client, Requests(c)
  PROVE  Places'
<1>1. /\ place[c] = "idle" /\ serving # "not yet" /\ UNCHANGED <<serving, playing, mine>> /\ c \in Caller
      /\ halting \subseteq halting' /\ halting' \subseteq halting \cup {c}
      /\ \A d \in Caller : d # c => place'[d] = place[d]
  BY DEF Requests, AskStart, AskStop, AskHalt, Received, Halt, Goto, TypeOK, Caller
<1>2. \/ place'[c] \in {"start", "stop"} /\ halting' = halting
      \/ place'[c] = "halt" /\ halting' = halting \cup {c}
  BY <1>1 DEF Requests, AskStart, AskStop, AskHalt, Halt, Goto, TypeOK
<1>3. c # Main
  BY RecordingAssumption
<1>4. InPlace(c)'
  BY <1>1, <1>2, <1>3 DEF Places, InPlace, Starting, Stopping, Halting
<1>5. \A d \in Caller : InPlace(d)'
  BY <1>1, <1>4, StayInPlace DEF Places
<1> QED
  BY <1>1, <1>5 DEF Places

LEMMA PlacesMain ==
  ASSUME TypeOK, Places, MainLoop \/ LeaveLoop \/ Events
  PROVE  Places'
<1>1. CASE Teardown \/ OnSigterm
  BY <1>1 DEF Teardown, OnSigterm, Places, InPlace, calls, server
<1>2. CASE Serve \/ RunLoop \/ LoopEnds \/ OnMessage
  <2>1. /\ Main \in Caller /\ UNCHANGED <<mine, playing>>
        /\ \A d \in Caller : d # Main => place'[d] = place[d]
        /\ halting' \in {halting, halting \cup {Main}}
        /\ serving' = serving \/ (serving = "not yet" /\ serving' = "yes")
    BY <1>2
       DEF Serve, RunLoop, LoopEnds, OnMessage, HaltMain, Halt, Goto, TypeOK, Places, InPlace, server, Caller
  <2>2. \/ place'[Main] \in {"served", "loop"} /\ halting' = halting /\ place[Main] \in {"ready", "served"}
        \/ place'[Main] = "halt" /\ halting' = halting \cup {Main}
    BY <1>2, <2>1 DEF Serve, RunLoop, LoopEnds, OnMessage, HaltMain, Halt, Goto, TypeOK
  <2>3. InPlace(Main)'
    BY <2>1, <2>2 DEF Places, InPlace, Starting, Stopping, Halting
  <2>4. \A d \in Caller : InPlace(d)'
    BY <2>1, <2>3, StayInPlace DEF Places
  <2>5. ~playing => serving' = "no"
    BY <2>1 DEF Places
  <2> QED
    BY <2>1, <2>4, <2>5 DEF Places
<1> QED
  BY <1>1, <1>2 DEF MainLoop, LeaveLoop, Events

LEMMA PlacesStep ==
  ASSUME TypeOK, Places, Next
  PROVE  Places'
<1>1. CASE Streaming
  <2>1. UNCHANGED <<place, halting, mine, serving, playing>>
    BY <1>1 DEF Streaming, Unlink, AddEosProbe, EosArrives, calls, server
  <2> QED
    BY <2>1 DEF Places, InPlace
<1> QED
  BY <1>1, PlacesStart, PlacesStop, PlacesHalt, PlacesRequest, PlacesMain DEF Next, Call

-----------------------------------------------------------------------------
(* Steps beside the recording *)

Active == {"make", "request", "attach", "clear", "probe", "wait"}

LEMMA Beside ==
  ASSUME Ordered, UNCHANGED <<manager, branches, tee, stream, idle>>,
         \A d \in Caller :
           \/ place'[d] = place[d] /\ mine'[d] = mine[d] /\ awaits'[d] = awaits[d]
           \/ place[d] \notin Active /\ place'[d] \notin Active
  PROVE  Alone' /\ OneBranch' /\ Flags' /\ OneStop'
<1>1. \A d \in Caller : (Starter(d)' <=> Starter(d)) /\ (Stopper(d)' <=> Stopper(d))
  BY DEF Starter, Stopper, Active
<1>2. \A d \in Caller, p \in Active : (place'[d] = p) <=> (place[d] = p)
  OBVIOUS
<1>3. \A p \in Active : Nobody(p)' <=> Nobody(p)
  BY <1>2 DEF Nobody
<1>4. \A d \in Caller : place'[d] \in Active => (mine'[d] = mine[d] /\ awaits'[d] = awaits[d])
  OBVIOUS
<1>5. Alone'
  BY <1>1, <1>2 DEF Ordered, Alone, Active
<1>6. OneBranch'
  BY DEF Ordered, OneBranch, manager, branches, tee
<1>7. Flags'
  BY <1>1, <1>2, <1>3, <1>4 DEF Ordered, Flags, manager, branches, tee, Active
<1>8. (Calm <=> Calm') /\ (Tearing <=> Tearing')
  BY DEF Calm, Tearing, NoneLeft, Probing, Midway, AwaitsEnd, Pending, NoProbe, NoEosProbe, Flowing, manager,
         branches, tee, stream
<1>9. OneStop'
  BY <1>2, <1>3, <1>4, <1>8 DEF Ordered, OneStop, manager, Active
<1> QED
  BY <1>5, <1>6, <1>7, <1>9

NoCall == \A d \in Caller : ~Starter(d) /\ ~Stopper(d)

LEMMA StaysOrdered ==
  ASSUME Ordered, UNCHANGED <<manager, branches, tee, stream, idle>>,
         \A d \in Caller :
           \/ place'[d] = place[d] /\ mine'[d] = mine[d] /\ awaits'[d] = awaits[d]
           \/ place[d] \notin Active /\ place'[d] \notin Active,
         \A d \in halting' :
           \/ d \in Caller /\ place'[d] = "halt"
           \/ d \in halting /\ place[d] # "halt"
           \/ NoCall,
         Closing' => (Closing \/ (elements = None /\ NoCall))
  PROVE  Ordered'
<1>1. Alone' /\ OneBranch' /\ Flags' /\ OneStop'
  BY Beside
<1>2. \A d \in Caller : (Starter(d)' <=> Starter(d)) /\ (Stopper(d)' <=> Stopper(d))
  BY DEF Starter, Stopper, Active
<1>3. HaltAlone'
  BY <1>2 DEF Ordered, HaltAlone, NoCall
<1>4. AllClosed'
  BY <1>2 DEF Ordered, AllClosed, NoCall, manager
<1> QED
  BY <1>1, <1>3, <1>4 DEF Ordered

LEMMA OrderedRequest ==
  ASSUME TypeOK, Places, Ordered, NEW c \in Client, Requests(c)
  PROVE  Ordered'
<1>1. /\ c \in Caller /\ place[c] = "idle" /\ place'[c] \in {"start", "stop", "halt"}
      /\ UNCHANGED <<manager, mine, awaits, branches, tee, stream, serving, idle>>
      /\ \A d \in Caller : d # c => place'[d] = place[d]
  BY DEF Requests, AskStart, AskStop, AskHalt, Received, Halt, Goto, TypeOK, Caller
<1>2. halting' = halting \/ (halting' = halting \cup {c} /\ place'[c] = "halt")
  BY <1>1 DEF Requests, AskStart, AskStop, AskHalt, Received, Halt, Goto, TypeOK
<1>3. c \notin halting
  BY <1>1 DEF Places, InPlace, Halting, Stopping
<1>4. \A d \in Caller :
        \/ place'[d] = place[d] /\ mine'[d] = mine[d] /\ awaits'[d] = awaits[d]
        \/ place[d] \notin Active /\ place'[d] \notin Active
  BY <1>1 DEF Active
<1>5. \A d \in halting' : (d \in Caller /\ place'[d] = "halt") \/ (d \in halting /\ place[d] # "halt") \/ NoCall
  BY <1>1, <1>2, <1>3 DEF TypeOK
<1>6. Closing' => Closing
  BY <1>1 DEF Closing
<1> QED
  BY <1>1, <1>4, <1>5, <1>6, StaysOrdered

LEMMA WithinIsCalling ==
  /\ Within = {d \in Caller : Starter(d) \/ Stopper(d)}
  /\ Within = {} => NoCall
BY DEF Within, Starting, Stopping, Starter, Stopper, NoCall

(* A recording that has no call about it is as the flag tells. *)
LEMMA AtRest ==
  ASSUME Ordered, NoCall
  PROVE  /\ teePad = elements /\ linked = pads /\ Calm
         /\ elements # None => isRecording
         /\ (isRecording /\ ~DiskFails) => elements # None
<1>1. Nobody("request") /\ Nobody("probe") /\ Nobody("wait")
  BY DEF NoCall, Nobody, Starter, Stopper
<1> QED
  BY <1>1 DEF Ordered, Flags, OneStop, NoCall

LEMMA OrderedHalt ==
  ASSUME TypeOK, Places, Ordered, NEW c \in Caller, HaltStep(c), ~disturbed'
  PROVE  Ordered'
<1>1. /\ place[c] \in Halting /\ place'[c] \notin Active \cup {"halt"}
      /\ UNCHANGED <<manager, mine, awaits, branches, tee, stream, idle>>
      /\ halting' \subseteq halting
      /\ \A d \in Caller : d # c => place'[d] = place[d]
  BY DEF HaltStep, HaltRecording, CloseServer, StopPipeline, QuitLoop, Goto, TypeOK, Halting, Active
<1>2. \A d \in Caller :
        \/ place'[d] = place[d] /\ mine'[d] = mine[d] /\ awaits'[d] = awaits[d]
        \/ place[d] \notin Active /\ place'[d] \notin Active
  BY <1>1 DEF Active, Halting
<1>3. CASE HaltRecording(c)
  <2>1. NoCall
    BY <1>3, WithinIsCalling DEF HaltRecording
  <2>2. isRecording => place'[c] = "stop"
    BY <1>3 DEF HaltRecording, Goto, TypeOK
  <2>3. serving' = serving
    BY <1>3 DEF HaltRecording, server
  <2>4. Closing' => (Closing \/ elements = None)
    BY <1>1, <2>1, <2>2, <2>3, AtRest DEF Closing
  <2> QED
    BY <1>1, <1>2, <2>1, <2>4, StaysOrdered
<1>4. CASE CloseServer(c) \/ StopPipeline(c) \/ QuitLoop(c)
  <2>1. place[c] \in {"close", "null", "quit"}
    BY <1>4 DEF CloseServer, StopPipeline, QuitLoop
  <2>2. Closing
    BY <2>1 DEF Closing
  <2>3. \A d \in halting' : (d \in Caller /\ place'[d] = "halt") \/ (d \in halting /\ place[d] # "halt")
    BY <1>1, <2>1 DEF TypeOK
  <2> QED
    BY <1>1, <1>2, <2>2, <2>3, StaysOrdered
<1> QED
  BY <1>3, <1>4 DEF HaltStep

LEMMA OrderedMain ==
  ASSUME TypeOK, Places, Ordered, Serve \/ RunLoop \/ LeaveLoop \/ Events
  PROVE  Ordered'
<1>1. CASE OnSigterm
  <2>1. UNCHANGED <<manager, calls, branches, tee, stream, idle, serving>>
    BY <1>1 DEF OnSigterm, server
  <2>2. Closing' <=> Closing
    BY <2>1 DEF Closing, calls
  <2>3. halting \subseteq Caller
    BY DEF TypeOK
  <2> QED
    BY <2>1, <2>2, <2>3, StaysOrdered DEF calls
<1>2. CASE Serve \/ RunLoop \/ LoopEnds \/ OnMessage
  <2>1. /\ Main \in Caller /\ place[Main] \in {"ready", "served", "loop"}
        /\ place'[Main] \in {"served", "loop", "halt"}
        /\ UNCHANGED <<manager, mine, awaits, branches, tee, stream, idle>>
        /\ serving' = serving \/ serving' = "yes"
        /\ \A d \in Caller : d # Main => place'[d] = place[d]
    BY <1>2 DEF Serve, RunLoop, LoopEnds, OnMessage, HaltMain, Halt, Goto, TypeOK, server, Caller
  <2>2. halting' = halting \/ (halting' = halting \cup {Main} /\ place'[Main] = "halt")
    BY <1>2, <2>1 DEF Serve, RunLoop, LoopEnds, OnMessage, HaltMain, Halt, Goto, TypeOK
  <2>3. Main \notin halting
    BY <2>1 DEF Places, InPlace, Halting, Stopping
  <2>4. \A d \in Caller :
          \/ place'[d] = place[d] /\ mine'[d] = mine[d] /\ awaits'[d] = awaits[d]
          \/ place[d] \notin Active /\ place'[d] \notin Active
    BY <2>1 DEF Active
  <2>5. ASSUME NEW d \in halting'
        PROVE  (d \in Caller /\ place'[d] = "halt") \/ (d \in halting /\ place[d] # "halt")
    <3>1. halting \subseteq Caller
      BY DEF TypeOK
    <3>2. CASE d = Main
      BY <2>1, <2>2, <2>3, <3>2
    <3>3. CASE d # Main
      BY <2>1, <2>2, <3>1, <3>3
    <3> QED
      BY <3>2, <3>3
  <2>6. Closing' => Closing
    BY <2>1 DEF Closing
  <2> QED
    BY <2>1, <2>4, <2>5, <2>6, StaysOrdered
<1> QED
  BY <1>1, <1>2 DEF LeaveLoop, Events

-----------------------------------------------------------------------------
(* start *)

LEMMA OrderedStartCheck ==
  ASSUME TypeOK, Places, Ordered, NEW c \in Caller, StartCheck(c), ~disturbed'
  PROVE  Ordered'
<1>1. /\ place[c] = "start" /\ UNCHANGED <<manager, awaits, halting, branches, tee, stream, serving, idle>>
      /\ \A d \in Caller : d # c => (place'[d] = place[d] /\ mine'[d] = mine[d])
      /\ isRecording => place'[c] \in {"idle", "ready"}
      /\ ~isRecording => place'[c] = "make"
  BY DEF StartCheck, StartEnds, Goto, TypeOK, server
<1>2. ~isRecording => (Within = {} /\ halting = {} /\ serving # "no")
  BY DEF StartCheck
<1>3. c \notin halting /\ halting \subseteq Caller
  BY <1>1 DEF Places, InPlace, Halting, Stopping, TypeOK
<1>4. CASE isRecording
  <2>1. \A d \in Caller :
          \/ place'[d] = place[d] /\ mine'[d] = mine[d] /\ awaits'[d] = awaits[d]
          \/ place[d] \notin Active /\ place'[d] \notin Active
    BY <1>1, <1>4 DEF Active
  <2>2. \A d \in halting' : (d \in Caller /\ place'[d] = "halt") \/ (d \in halting /\ place[d] # "halt")
    BY <1>1, <1>3
  <2>3. Closing' => Closing
    BY <1>1, <1>4 DEF Closing
  <2> QED
    BY <1>1, <2>1, <2>2, <2>3, StaysOrdered
<1>5. CASE ~isRecording
  <2>1. NoCall
    BY <1>2, <1>5, WithinIsCalling
  <2>2. elements = None /\ teePad = None /\ linked = pads /\ Calm
    BY <1>5, <2>1, AtRest
  <2>3. bin = {} /\ pads = {} /\ fed = {}
    BY <2>2 DEF Ordered, OneBranch, TypeOK
  <2>4. \A d \in Caller : (Starter(d)' <=> d = c) /\ ~Stopper(d)'
    BY <1>1, <1>5, <2>1 DEF NoCall, Starter, Stopper
  <2>5. Alone'
    BY <2>4 DEF Alone
  <2>6. HaltAlone'
    BY <1>1, <1>2, <1>5 DEF HaltAlone
  <2>7. AllClosed'
    <3>1. \A d \in Caller : place[d] \notin Halting
      BY <1>2, <1>5 DEF Places, InPlace
    <3>2. ~Closing'
      BY <1>1, <1>2, <1>5, <3>1 DEF Closing, Halting
    <3> QED
      BY <3>2 DEF AllClosed
  <2>8. OneBranch'
    BY <1>1 DEF Ordered, OneBranch, manager, branches, tee
  <2>9. Flags'
    <3>1. \A d \in Caller : place'[d] \notin {"request", "attach", "clear", "probe", "wait"}
      BY <1>1, <1>5, <2>1 DEF NoCall, Starter, Stopper
    <3>2. /\ elements' = None /\ teePad' = None /\ fed' = {} /\ linked' = pads' /\ ~isRecording'
      BY <1>1, <1>5, <2>2, <2>3 DEF manager, branches, tee
    <3> QED
      BY <3>1, <3>2 DEF Flags
  <2>10. OneStop'
    <3>1. Calm'
      BY <1>1, <2>2 DEF Calm, NoProbe, NoEosProbe, Flowing, tee, stream, branches
    <3> QED
      BY <2>4, <3>1 DEF OneStop, Stopper
  <2> QED
    BY <2>5, <2>6, <2>7, <2>8, <2>9, <2>10 DEF Ordered
<1> QED
  BY <1>4, <1>5

(* What a start that has passed its check can count on. *)
LEMMA WithinStart ==
  ASSUME TypeOK, Places, Ordered, NEW c \in Caller, Starter(c)
  PROVE  /\ \A d \in Caller : d # c => ~Starter(d)
         /\ place[c] # "attach" => (\A d \in Caller : ~Stopper(d))
         /\ place[c] # "attach" => (Nobody("wait") /\ Nobody("probe") /\ Calm)
         /\ \A d \in halting : d \in Caller /\ d # c /\ place[d] = "halt"
         /\ ~Closing /\ fed = {} /\ ~Stopper(c)
<1>1. \A d \in Caller : Stopper(d) => place[c] = "attach"
  BY DEF Ordered, Alone
<1>2. c \notin halting /\ halting \subseteq Caller
  BY DEF Places, InPlace, Halting, Stopping, Starter, TypeOK
<1>3. \A d \in Caller : d # c => ~Starter(d)
  BY DEF Ordered, Alone
<1>4. \A d \in halting : place[d] = "halt"
  BY DEF Ordered, HaltAlone
<1>5. ~Closing /\ fed = {}
  BY DEF Ordered, AllClosed, Flags
<1>6. place[c] # "attach" => (Nobody("wait") /\ Nobody("probe"))
  BY <1>1 DEF Nobody, Stopper
<1>7. Nobody("wait") => Calm
  BY DEF Ordered, OneStop
<1>8. ~Stopper(c)
  BY DEF Starter, Stopper
<1> QED
  BY <1>1, <1>2, <1>3, <1>4, <1>5, <1>6, <1>7, <1>8

LEMMA StartMoves ==
  ASSUME TypeOK, Places, Ordered, NEW c \in Caller, Starter(c),
         \A d \in Caller : d # c => place'[d] = place[d],
         place'[c] \in {"idle", "ready"} \/ (place'[c] \in {"request", "attach"} /\ place[c] # "attach"),
         UNCHANGED <<halting, serving>>
  PROVE  Alone' /\ HaltAlone' /\ AllClosed'
<1>1. Alone'
  <2>1. \A d \in Caller : Starter(d)' => d = c
    BY WithinStart DEF Starter
  <2>2. \A d \in Caller : Stopper(d)' => (d # c /\ Stopper(d))
    BY DEF Stopper
  <2>3. Starter(c)' => \A d \in Caller : ~Stopper(d)
    BY WithinStart DEF Starter
  <2> QED
    BY <2>1, <2>2, <2>3 DEF Alone, Ordered
<1>2. HaltAlone'
  BY WithinStart DEF HaltAlone
<1>3. ~Closing'
  BY WithinStart DEF Closing
<1> QED
  BY <1>1, <1>2, <1>3 DEF AllClosed

LEMMA OrderedStartMake ==
  ASSUME TypeOK, Places, Ordered, NEW c \in Caller, StartMake(c)
  PROVE  Ordered'
<1>1. /\ place[c] = "make" /\ Starter(c)
      /\ UNCHANGED <<teePad, stopComplete, halting, serving, fed, eos, eosProbes, ended, tee, stream, idle>>
      /\ \A d \in Caller : d # c => place'[d] = place[d]
      /\ place'[c] \in {"request", "idle", "ready"}
  BY DEF StartMake, StartEnds, Goto, TypeOK, server, Starter
<1>2. Alone' /\ HaltAlone' /\ AllClosed'
  BY <1>1, StartMoves
<1>3. elements = None /\ teePad = None /\ bin = {} /\ pads = {} /\ linked = {} /\ fed = {} /\ eos = {}
  <2>1. elements = None /\ teePad \in {None, elements}
    BY <1>1 DEF Ordered, Flags, OneBranch
  <2>2. bin = {} /\ pads = {}
    BY <2>1 DEF Ordered, OneBranch
  <2> QED
    BY <2>1, <2>2 DEF Ordered, OneBranch, TypeOK
<1>4. (\A d \in Caller : d # c => ~Starter(d)) /\ (\A d \in Caller : ~Stopper(d)) /\ Calm
  BY <1>1, WithinStart
<1>5. Nobody("wait")' /\ Nobody("probe")' /\ Nobody("make")' /\ Nobody("attach")'
  BY <1>1, <1>4 DEF Nobody, Starter, Stopper
<1>6. OneStop'
  <2>1. Calm'
    BY <1>1, <1>4 DEF Calm, NoProbe, NoEosProbe, Flowing, tee, stream
  <2> QED
    BY <1>5, <2>1 DEF OneStop, Nobody
<1>7. CASE /\ Unused # {} /\ isRecording' = TRUE /\ elements' = NewBranch
           /\ mine' = [mine EXCEPT ![c] = NewBranch] /\ bin' = bin \cup {NewBranch} /\ Goto(c, "request")
  <2>1. NewBranch \in Branch /\ NewBranch # None
    BY <1>7, NewBranchIsUnused, RecordingAssumption DEF Unused
  <2>2. place'[c] = "request" /\ mine'[c] = NewBranch
    BY <1>7 DEF Goto, TypeOK
  <2>3. OneBranch'
    BY <1>1, <1>3, <1>7, <2>1 DEF OneBranch, tee
  <2>4. Starter(c)'
    BY <2>2 DEF Starter
  <2>5. \A d \in Caller : place'[d] = "request" => d = c
    BY <1>1, <1>4 DEF Starter
  <2>6. ~Nobody("request")'
    BY <2>2 DEF Nobody
  <2>7. /\ isRecording' /\ elements' = NewBranch /\ elements' # None
        /\ teePad' = None /\ fed' = {}
    BY <1>1, <1>3, <1>7, <2>1
  <2>8. Flags'
    BY <1>5, <2>2, <2>4, <2>5, <2>6, <2>7 DEF Flags, Nobody
  <2> QED
    BY <1>2, <1>6, <2>3, <2>8 DEF Ordered
<1>8. CASE /\ isRecording' = FALSE \/ (DiskFails /\ isRecording' = TRUE)
           /\ StartEnds(c) /\ UNCHANGED <<elements, bin>>
  <2>1. place'[c] \in {"idle", "ready"}
    BY <1>8 DEF StartEnds, Goto, TypeOK
  <2>2. OneBranch'
    BY <1>1, <1>3, <1>8 DEF OneBranch, tee
  <2>3. \A d \in Caller : ~Starter(d)'
    BY <1>1, <1>4, <2>1 DEF Starter
  <2>4. elements' = None /\ teePad' = None /\ linked' = pads' /\ (isRecording' => DiskFails)
    BY <1>1, <1>3, <1>8 DEF tee
  <2>5. Flags'
    BY <1>5, <2>3, <2>4 DEF Flags, Nobody, Starter
  <2> QED
    BY <1>2, <1>6, <2>2, <2>5 DEF Ordered
<1> QED
  BY <1>7, <1>8 DEF StartMake

(* What _cleanup and a forced teardown leave. *)
LEMMA CleanedUp ==
  ASSUME TypeOK, OneBranch, ReleasePad, RemoveElements
  PROVE  /\ OneBranch' /\ elements' = None /\ teePad' = None
         /\ bin' = {} /\ pads' = {} /\ linked' = {} /\ fed' = {} /\ eos' = {} /\ ended' = {}
         /\ NoProbe => NoProbe'
         /\ NoEosProbe => NoEosProbe'
<1>1. elements' = None /\ teePad' = None /\ bin' = {} /\ pads' = {} /\ linked' = {} /\ fed' = {} /\ ended' = {}
  BY DEF OneBranch, ReleasePad, RemoveElements, TypeOK
<1>2. eos' = {}
  BY DEF OneBranch, RemoveElements
<1>3. OneBranch'
  BY <1>1, <1>2 DEF OneBranch
<1>4. (NoProbe => NoProbe') /\ (NoEosProbe => NoEosProbe')
  BY DEF NoProbe, NoEosProbe, ReleasePad, RemoveElements
<1> QED
  BY <1>1, <1>2, <1>3, <1>4

LEMMA OrderedStartRequest ==
  ASSUME TypeOK, Places, Ordered, NEW c \in Caller, StartRequest(c)
  PROVE  Ordered'
<1>1. /\ place[c] = "request" /\ Starter(c)
      /\ UNCHANGED <<stopComplete, halting, serving, stream, idle>>
      /\ \A d \in Caller : d # c => place'[d] = place[d]
      /\ place'[c] \in {"attach", "idle", "ready"}
  BY DEF StartRequest, StartEnds, Goto, TypeOK, server, Starter
<1>2. Alone' /\ HaltAlone' /\ AllClosed'
  BY <1>1, StartMoves
<1>3. elements = mine[c] /\ mine[c] # None /\ mine[c] \in Branch /\ teePad = None
  BY <1>1 DEF Ordered, Flags, Places, InPlace, TypeOK
<1>4. /\ (\A d \in Caller : d # c => ~Starter(d)) /\ (\A d \in Caller : ~Stopper(d)) /\ Calm
      /\ Nobody("probe") /\ Nobody("wait") /\ fed = {}
  BY <1>1, WithinStart
<1>5. /\ Nobody("wait")' /\ Nobody("probe")' /\ Nobody("make")' /\ Nobody("request")'
  BY <1>1, <1>4 DEF Nobody, Starter, Stopper
<1>6. CASE /\ pads' = pads \cup {mine[c]} /\ teePad' = mine[c] /\ Goto(c, "attach")
           /\ UNCHANGED <<isRecording, elements, mine, branches, linked, probes>>
  <2>1. place'[c] = "attach"
    BY <1>6 DEF Goto, TypeOK
  <2>2. OneBranch'
    BY <1>3, <1>6 DEF Ordered, OneBranch, branches
  <2>3. Starter(c)'
    BY <2>1 DEF Starter
  <2>4. elements # None => isRecording
    BY <1>4 DEF Ordered, Flags
  <2>5. teePad' = elements' /\ isRecording' /\ elements' # None /\ fed' = {}
    BY <1>3, <1>4, <1>6, <2>4 DEF branches
  <2>6. Flags'
    BY <1>5, <2>3, <2>5 DEF Flags, Nobody
  <2>7. OneStop'
    <3>1. Calm'
      BY <1>1, <1>4, <1>6 DEF Calm, NoProbe, NoEosProbe, Flowing, stream, branches
    <3> QED
      BY <1>5, <3>1 DEF OneStop, Nobody
  <2> QED
    BY <1>2, <2>2, <2>6, <2>7 DEF Ordered
<1>7. CASE Cleanup /\ StartEnds(c)
  <2>1. place'[c] \in {"idle", "ready"} /\ ~isRecording' /\ ReleasePad /\ RemoveElements
    BY <1>7 DEF StartEnds, Goto, TypeOK, Cleanup
  <2>2. /\ OneBranch' /\ elements' = None /\ teePad' = None /\ pads' = {} /\ linked' = {} /\ fed' = {}
        /\ NoProbe => NoProbe'
        /\ NoEosProbe => NoEosProbe'
    BY <2>1, CleanedUp DEF Ordered
  <2>3. Flags'
    BY <1>5, <2>1, <2>2 DEF Flags, Nobody
  <2>4. OneStop'
    <3>1. Calm'
      BY <1>1, <1>4, <2>2 DEF Calm, Flowing, stream
    <3> QED
      BY <1>5, <3>1 DEF OneStop, Nobody
  <2> QED
    BY <1>2, <2>2, <2>3, <2>4 DEF Ordered
<1> QED
  BY <1>6, <1>7 DEF StartRequest

LEMMA OrderedStartAttach ==
  ASSUME TypeOK, Places, Ordered, NEW c \in Caller, StartAttach(c)
  PROVE  Ordered'
<1>1. /\ place[c] = "attach" /\ Starter(c)
      /\ UNCHANGED <<stopComplete, awaits, halting, serving, stream, idle>>
      /\ \A d \in Caller : d # c => place'[d] = place[d]
      /\ place'[c] \in {"idle", "ready"}
  BY DEF StartAttach, StartEnds, Goto, TypeOK, server, Starter
<1>2. Alone' /\ HaltAlone' /\ AllClosed'
  BY <1>1, StartMoves
<1>3. /\ \A d \in Caller : d # c => ~Starter(d)
      /\ fed = {}
  BY <1>1, WithinStart
<1>4. /\ Nobody("make") /\ Nobody("request")
      /\ \A d \in Caller : ~Starter(d)'
  BY <1>1, <1>3 DEF Nobody, Starter
<1>5. /\ \A p \in {"wait", "probe"} : (Nobody(p) <=> Nobody(p)')
      /\ \A d \in Caller, p \in {"wait", "probe"} : (place[d] = p) <=> (place'[d] = p)
      /\ Nobody("make")' /\ Nobody("request")' /\ Nobody("attach")'
  BY <1>1, <1>4 DEF Nobody, Starter
<1>6. CASE /\ mine[c] \in pads \cap bin
           /\ linked' = linked \cup {mine[c]} /\ fed' = fed \cup {mine[c]}
           /\ UNCHANGED <<isRecording, elements, teePad, bin, eos, eosProbes, ended, pads, probes>>
  <2>1. teePad = mine[c] /\ elements = mine[c] /\ teePad # None
    BY <1>6 DEF Ordered, OneBranch
  <2>2. OneBranch'
    BY <1>6 DEF Ordered, OneBranch
  <2>3. linked' = pads'
    BY <1>6, <2>1 DEF Ordered, OneBranch, TypeOK
  <2>4. Flags'
    <3>1. \A d \in Caller : place'[d] \in {"probe", "wait"} => ~isRecording'
      BY <1>5, <1>6 DEF Ordered, Flags
    <3>2. (Nobody("probe")' /\ Nobody("wait")') => isRecording'
      BY <1>5, <1>6, <2>1 DEF Ordered, Flags
    <3>3. \A d \in Caller : place'[d] = "probe" => stopComplete' = "made"
      BY <1>1, <1>5 DEF Ordered, Flags
    <3>4. teePad' = elements' /\ elements' # None
      BY <1>6, <2>1
    <3> QED
      BY <1>4, <1>5, <2>3, <3>1, <3>2, <3>3, <3>4 DEF Flags, Nobody
  <2>5. OneStop'
    <3>1. Calm => Calm'
      BY <1>1, <1>6 DEF Calm, NoProbe, NoEosProbe, Flowing, stream
    <3>2. Tearing => Tearing'
      BY <1>1, <1>6, <2>1
         DEF Tearing, NoneLeft, Probing, Midway, AwaitsEnd, Pending, NoProbe, NoEosProbe, Flowing, stream
    <3> QED
      BY <1>1, <1>5, <3>1, <3>2 DEF Ordered, OneStop
  <2> QED
    BY <1>2, <2>2, <2>4, <2>5 DEF Ordered
<1>7. CASE Cleanup
  <2>1. ~isRecording' /\ ReleasePad /\ RemoveElements
    BY <1>7 DEF Cleanup
  <2>2. /\ OneBranch' /\ elements' = None /\ teePad' = None /\ pads' = {} /\ linked' = {} /\ fed' = {}
        /\ NoProbe => NoProbe'
        /\ NoEosProbe => NoEosProbe'
    BY <2>1, CleanedUp DEF Ordered
  <2>3. Flags'
    <3>1. \A d \in Caller : place'[d] = "probe" => stopComplete' = "made"
      BY <1>1, <1>5 DEF Ordered, Flags
    <3> QED
      BY <1>4, <1>5, <2>1, <2>2, <3>1 DEF Flags, Nobody
  <2>4. Calm => Calm'
    BY <1>1, <2>2 DEF Calm, Flowing, stream
  <2>5. Tearing => Tearing'
    <3>1. NoneLeft => NoneLeft'
      BY <2>2, <2>4 DEF NoneLeft
    <3>2. Probing => NoneLeft'
      <4>1. Probing => NoProbe'
        BY <2>1 DEF Probing, NoProbe, Flowing, ReleasePad, TypeOK
      <4> QED
        BY <1>1, <2>2, <4>1 DEF NoneLeft, Probing, Calm, Flowing, stream
    <3>3. Midway => Midway'
      BY <1>1, <2>2 DEF Midway, stream
    <3>4. AwaitsEnd => NoneLeft'
      <4>1. AwaitsEnd => NoEosProbe'
        BY <2>1 DEF AwaitsEnd, NoEosProbe, RemoveElements
      <4> QED
        BY <1>1, <2>2, <4>1 DEF NoneLeft, AwaitsEnd, Calm, Flowing, stream
    <3>5. Pending => Pending'
      BY <1>1, <2>2 DEF Pending, Flowing, stream
    <3> QED
      BY <1>1, <3>1, <3>2, <3>3, <3>4, <3>5 DEF Tearing
  <2>6. OneStop'
    BY <1>1, <1>5, <2>4, <2>5 DEF Ordered, OneStop
  <2> QED
    BY <1>2, <2>2, <2>3, <2>6 DEF Ordered
<1> QED
  BY <1>6, <1>7 DEF StartAttach

LEMMA OrderedStart ==
  ASSUME TypeOK, Places, Ordered, NEW c \in Caller, Start(c), ~disturbed'
  PROVE  Ordered'
BY OrderedStartCheck, OrderedStartMake, OrderedStartRequest, OrderedStartAttach DEF Start

-----------------------------------------------------------------------------
(* stop *)

LEMMA OrderedStopCheck ==
  ASSUME TypeOK, Places, Ordered, NEW c \in Caller, StopCheck(c), ~disturbed'
  PROVE  Ordered'
<1>1. /\ place[c] = "stop" /\ UNCHANGED <<manager, mine, halting, branches, tee, stream, serving, idle>>
      /\ \A d \in Caller : d # c => (place'[d] = place[d])
  BY DEF StopCheck, StopEnds, Goto, TypeOK, server
<1>2. \A d \in Caller : ~Stopper(d)
  <2>1. \A d \in Within : place[d] \notin Stopping
    BY DEF StopCheck
  <2> QED
    BY <2>1, WithinIsCalling DEF Stopper, Stopping
<1>3. halting \subseteq Caller
  BY DEF TypeOK
<1>4. CASE isRecording /\ teePad # None /\ Goto(c, "clear") /\ UNCHANGED awaits
  <2>1. place'[c] = "clear"
    BY <1>4 DEF Goto, TypeOK
  <2>2. \A d \in Caller : Starter(d)' <=> Starter(d)
    BY <1>1, <2>1 DEF Starter
  <2>3. \A d \in Caller : Stopper(d)' => d = c
    BY <1>1, <1>2 DEF Stopper
  <2>4. \A d \in Caller : Starter(d) => place[d] = "attach"
    BY <1>4 DEF Ordered, Flags, Starter
  <2>5. Alone'
    BY <1>1, <2>2, <2>3, <2>4 DEF Ordered, Alone, Starter, Stopper
  <2>6. HaltAlone'
    BY <1>1, <2>1, <2>2, <1>3 DEF Ordered, HaltAlone
  <2>7. AllClosed'
    <3>1. elements # None
      BY <1>4 DEF Ordered, OneBranch
    <3>2. ~Closing'
      BY <1>1, <2>1, <3>1 DEF Ordered, AllClosed, Closing
    <3> QED
      BY <3>2 DEF AllClosed
  <2>8. OneBranch'
    BY <1>1 DEF Ordered, OneBranch, manager, branches, tee
  <2>9. \A d \in Caller, p \in {"make", "request", "probe", "wait"} : (place'[d] = p) <=> (place[d] = p)
    BY <1>1, <2>1
  <2>10. \A p \in {"make", "request", "probe", "wait"} : Nobody(p)' <=> Nobody(p)
    BY <2>9 DEF Nobody
  <2>11. Flags'
    BY <1>1, <2>2, <2>9, <2>10 DEF Ordered, Flags, manager, branches, tee
  <2>12. OneStop'
    <3>1. Calm' <=> Calm
      BY <1>1 DEF Calm, NoProbe, NoEosProbe, Flowing, tee, stream, branches
    <3>2. Nobody("wait")
      BY <1>2 DEF Nobody, Stopper
    <3> QED
      BY <2>9, <3>1, <3>2 DEF Ordered, OneStop, Nobody
  <2> QED
    BY <2>5, <2>6, <2>7, <2>8, <2>11, <2>12 DEF Ordered
<1>5. CASE ~(isRecording /\ teePad # None) /\ StopEnds(c)
  <2>1. /\ place'[c] \in {"close", "idle"} /\ (place'[c] = "close" => c \in halting)
        /\ \A d \in Caller : d # c => awaits'[d] = awaits[d]
    BY <1>5 DEF StopEnds, Goto, TypeOK
  <2>2. \A d \in Caller :
          \/ place'[d] = place[d] /\ mine'[d] = mine[d] /\ awaits'[d] = awaits[d]
          \/ place[d] \notin Active /\ place'[d] \notin Active
    BY <1>1, <2>1 DEF Active
  <2>3. \A d \in halting' : (d \in Caller /\ place'[d] = "halt") \/ (d \in halting /\ place[d] # "halt")
    BY <1>1, <1>3
  <2>4. place'[c] = "close" => (elements = None /\ NoCall)
    <3>1. c \in halting => NoCall
      BY <1>1, <1>2 DEF Ordered, HaltAlone, NoCall
    <3>2. NoCall => elements = None
      BY <1>5, AtRest
    <3> QED
      BY <2>1, <3>1, <3>2
  <2>5. Closing' => (Closing \/ (elements = None /\ NoCall))
    BY <1>1, <2>1, <2>4 DEF Closing
  <2> QED
    BY <1>1, <2>2, <2>3, <2>5, StaysOrdered
<1> QED
  BY <1>4, <1>5 DEF StopCheck

(* What a stop that has passed its check can count on. *)
LEMMA WithinStop ==
  ASSUME Ordered, NEW c \in Caller, Stopper(c)
  PROVE  /\ \A d \in Caller : d # c => ~Stopper(d)
         /\ \A d \in Caller : Starter(d) => place[d] = "attach"
         /\ Nobody("make") /\ Nobody("request")
         /\ place[c] # "wait" => (Nobody("wait") /\ Calm /\ teePad = elements)
         /\ ~Closing /\ ~Starter(c)
<1>1. \A d \in Caller : d # c => ~Stopper(d)
  BY DEF Ordered, Alone
<1>2. \A d \in Caller : Starter(d) => place[d] = "attach"
  BY DEF Ordered, Alone
<1>3. Nobody("make") /\ Nobody("request")
  BY <1>2 DEF Nobody, Starter
<1>4. place[c] # "wait" => Nobody("wait")
  BY <1>1 DEF Nobody, Stopper
<1>5. Nobody("wait") => (Calm /\ teePad = elements)
  BY <1>3 DEF Ordered, Flags, OneStop
<1>6. ~Closing
  BY DEF Ordered, AllClosed
<1>7. ~Starter(c)
  BY DEF Starter, Stopper
<1> QED
  BY <1>1, <1>2, <1>3, <1>4, <1>5, <1>6, <1>7

LEMMA StopMoves ==
  ASSUME TypeOK, Places, Ordered, NEW c \in Caller, Stopper(c),
         \A d \in Caller : d # c => place'[d] = place[d],
         place'[c] \in {"probe", "wait", "idle", "loop", "close"},
         halting' \subseteq halting, serving' = serving
  PROVE  /\ Alone' /\ HaltAlone'
         /\ place'[c] # "close" => AllClosed'
         /\ \A d \in Caller : Starter(d)' <=> Starter(d)
<1>1. \A d \in Caller : Starter(d)' <=> Starter(d)
  BY DEF Starter, Stopper
<1>2. \A d \in Caller : Stopper(d)' => Stopper(d)
  BY DEF Stopper
<1>3. Alone'
  <2>1. \A d \in Caller : Starter(d)' => (Starter(d) /\ d # c /\ place'[d] = place[d])
    BY <1>1, WithinStop
  <2> QED
    BY <1>2, <2>1 DEF Ordered, Alone
<1>4. HaltAlone'
  <2>1. \A d \in halting' : d \in halting /\ d \in Caller
    BY DEF TypeOK
  <2>2. place[c] # "halt"
    BY DEF Stopper
  <2> QED
    BY <1>1, <2>1, <2>2 DEF Ordered, HaltAlone
<1>5. place'[c] # "close" => ~Closing'
  BY WithinStop DEF Closing
<1> QED
  BY <1>1, <1>3, <1>4, <1>5 DEF AllClosed

LEMMA OrderedStopClear ==
  ASSUME TypeOK, Places, Ordered, NEW c \in Caller, StopClear(c)
  PROVE  Ordered'
<1>1. /\ place[c] = "clear" /\ Stopper(c) /\ place'[c] = "probe"
      /\ ~isRecording' /\ stopComplete' = "made"
      /\ UNCHANGED <<elements, teePad, mine, halting, branches, tee, stream, serving, idle>>
      /\ \A d \in Caller : d # c => (place'[d] = place[d])
  BY DEF StopClear, Goto, TypeOK, server, Stopper
<1>2. /\ \A d \in Caller : d # c => ~Stopper(d)
      /\ Nobody("make") /\ Nobody("request") /\ Nobody("wait") /\ Calm /\ teePad = elements
  BY <1>1, WithinStop
<1>3. Alone' /\ HaltAlone' /\ AllClosed' /\ \A d \in Caller : Starter(d)' <=> Starter(d)
  BY <1>1, StopMoves
<1>4. OneBranch'
  BY <1>1 DEF Ordered, OneBranch, branches, tee
<1>5. Nobody("make")' /\ Nobody("request")' /\ Nobody("wait")' /\ ~Nobody("probe")'
  BY <1>1, <1>2 DEF Nobody
<1>6. Flags'
  <2>1. \A d \in Caller : Starter(d)' => fed' = {}
    BY <1>1, <1>3 DEF Ordered, Flags, branches
  <2>2. (\A d \in Caller : ~Starter(d)') => linked' = pads'
    BY <1>1, <1>2, <1>3 DEF Ordered, Flags, tee
  <2> QED
    BY <1>1, <1>2, <1>5, <2>1, <2>2 DEF Flags, Nobody
<1>7. OneStop'
  <2>1. Calm'
    BY <1>1, <1>2 DEF Calm, NoProbe, NoEosProbe, Flowing, tee, stream, branches
  <2> QED
    BY <1>5, <2>1 DEF OneStop, Nobody
<1> QED
  BY <1>3, <1>4, <1>6, <1>7 DEF Ordered

LEMMA OrderedStopProbe ==
  ASSUME TypeOK, Places, Ordered, NEW c \in Caller, StopProbe(c)
  PROVE  Ordered'
<1>1. /\ place[c] = "probe" /\ Stopper(c) /\ place'[c] \in {"wait", "idle", "loop"}
      /\ UNCHANGED <<manager, mine, branches, pads, linked, stream, serving, idle>>
      /\ halting' \subseteq halting
      /\ \A d \in Caller : d # c => (place'[d] = place[d])
  BY DEF StopProbe, Goto, TypeOK, server, Stopper
<1>2. /\ \A d \in Caller : d # c => ~Stopper(d)
      /\ Nobody("make") /\ Nobody("request") /\ Nobody("wait") /\ Calm /\ teePad = elements
  BY <1>1, WithinStop
<1>3. Alone' /\ HaltAlone' /\ AllClosed' /\ \A d \in Caller : Starter(d)' <=> Starter(d)
  BY <1>1, StopMoves
<1>4. OneBranch'
  BY <1>1 DEF Ordered, OneBranch, branches, manager
<1>5. /\ Nobody("make")' /\ Nobody("request")' /\ Nobody("probe")'
      /\ \A d \in Caller : place'[d] = "wait" => d = c
  BY <1>1, <1>2 DEF Nobody, Stopper
<1>6. ~isRecording /\ stopComplete = "made"
  BY <1>1 DEF Ordered, Flags
<1>7. \A d \in Caller : Starter(d)' => fed' = {}
  BY <1>1, <1>3 DEF Ordered, Flags, branches
<1>8. CASE /\ teePad # None /\ probes' = [probes EXCEPT ![teePad] = @ + 1]
           /\ awaits' = [awaits EXCEPT ![c] = "event"] /\ Goto(c, "wait")
  <2>1. place'[c] = "wait" /\ awaits'[c] = "event"
    BY <1>8 DEF Goto, TypeOK
  <2>2. ~Nobody("wait")'
    BY <2>1 DEF Nobody
  <2>3. Flags'
    BY <1>1, <1>5, <1>6, <1>7, <2>2 DEF Flags, Nobody, manager
  <2>4. Probing'
    <3>1. teePad \in Branch /\ probes[teePad] = 0
      BY <1>2, <1>8 DEF TypeOK, Calm, NoProbe
    <3>2. /\ probes'[teePad] = 0 + 1
          /\ \A b \in Branch \ {teePad} : probes'[b] = 0
      BY <1>2, <1>8, <3>1 DEF TypeOK, Calm, NoProbe
    <3>3. Flowing' /\ NoEosProbe' /\ idle' = 0
      BY <1>1, <1>2 DEF Calm, NoEosProbe, Flowing, stream, branches
    <3> QED
      BY <1>1, <1>8, <3>2, <3>3 DEF Probing, manager
  <2>5. OneStop'
    BY <1>1, <1>5, <1>6, <2>1, <2>2, <2>4 DEF OneStop, Tearing, manager
  <2> QED
    BY <1>3, <1>4, <2>3, <2>5 DEF Ordered
<1>9. CASE teePad = None /\ UNCHANGED probes /\ place'[c] # "wait"
  <2>1. Nobody("wait")'
    BY <1>5, <1>9 DEF Nobody
  <2>2. elements' = None /\ teePad' = None /\ ~isRecording'
    BY <1>1, <1>2, <1>6, <1>9 DEF manager
  <2>3. linked' = pads'
    BY <1>1, <1>9 DEF Ordered, OneBranch, TypeOK
  <2>4. Flags'
    BY <1>5, <1>7, <2>1, <2>2, <2>3 DEF Flags, Nobody
  <2>5. Calm'
    BY <1>1, <1>2, <1>9 DEF Calm, NoProbe, NoEosProbe, Flowing, stream, branches
  <2>6. OneStop'
    BY <2>1, <2>5 DEF OneStop, Nobody
  <2> QED
    BY <1>3, <1>4, <2>4, <2>6 DEF Ordered
<1>10. teePad = None => place'[c] # "wait"
  BY DEF StopProbe, Goto, TypeOK
<1> QED
  BY <1>8, <1>9, <1>10 DEF StopProbe

LEMMA OrderedStopWait ==
  ASSUME TypeOK, Places, Ordered, NEW c \in Caller, StopWait(c), ~disturbed'
  PROVE  Ordered'
<1>1. /\ place[c] = "wait" /\ Stopper(c) /\ Woken(c)
      /\ place'[c] \in {"close", "idle"} /\ (place'[c] = "close" => c \in halting)
      /\ UNCHANGED <<manager, mine, halting, branches, tee, stream, serving, idle>>
      /\ \A d \in Caller : d # c => (place'[d] = place[d])
  BY DEF StopWait, StopEnds, Goto, TypeOK, server, manager, Stopper
<1>2. /\ \A d \in Caller : d # c => ~Stopper(d)
      /\ Nobody("make") /\ Nobody("request") /\ ~Closing
  BY <1>1, WithinStop
<1>3. Alone' /\ HaltAlone' /\ (place'[c] # "close" => AllClosed') /\ \A d \in Caller : Starter(d)' <=> Starter(d)
  BY <1>1, StopMoves
<1>4. OneBranch'
  BY <1>1 DEF Ordered, OneBranch, branches, tee, manager
<1>5. NoneLeft
  <2>1. awaits[c] = "event" /\ Tearing
    BY <1>1 DEF Ordered, OneStop
  <2>2. stopComplete = "set"
    BY <1>1, <2>1 DEF Woken
  <2> QED
    BY <2>1, <2>2 DEF Tearing
<1>6. elements = None /\ teePad = None /\ linked = pads
  BY <1>5 DEF NoneLeft, Ordered, OneBranch, TypeOK
<1>7. \A d \in Caller : ~Stopper(d)'
  BY <1>1, <1>2 DEF Stopper
<1>8. \A d \in Caller : place'[d] \notin {"make", "request"}
  BY <1>1, <1>2 DEF Nobody
<1>9. AllClosed'
  <2>1. CASE place'[c] = "close"
    <3>1. \A d \in Caller : ~Starter(d)'
      BY <1>1, <1>3, <2>1 DEF Ordered, HaltAlone
    <3> QED
      BY <1>1, <1>6, <1>7, <3>1 DEF AllClosed, manager
  <2> QED
    BY <1>3, <2>1
<1>10. Flags'
  <2>1. ~isRecording
    BY <1>1 DEF Ordered, Flags
  <2>2. \A d \in Caller : Starter(d)' => fed' = {}
    BY <1>1, <1>3 DEF Ordered, Flags, branches
  <2>3. elements' = None /\ teePad' = None /\ ~isRecording' /\ linked' = pads'
    BY <1>1, <1>6, <2>1 DEF manager, tee
  <2> QED
    BY <1>7, <1>8, <2>2, <2>3 DEF Flags, Stopper
<1>11. OneStop'
  <2>1. Calm'
    BY <1>1, <1>5 DEF NoneLeft, Calm, NoProbe, NoEosProbe, Flowing, tee, stream, branches
  <2> QED
    BY <1>7, <2>1 DEF OneStop, Stopper
<1> QED
  BY <1>3, <1>4, <1>9, <1>10, <1>11 DEF Ordered

LEMMA OrderedStop ==
  ASSUME TypeOK, Places, Ordered, NEW c \in Caller, Stop(c), ~disturbed'
  PROVE  Ordered'
BY OrderedStopCheck, OrderedStopClear, OrderedStopProbe, OrderedStopWait DEF Stop

-----------------------------------------------------------------------------
(* The branch is torn down while a stop waits *)

LEMMA WhileWaiting ==
  ASSUME Ordered, NEW w \in Caller, place[w] = "wait",
         UNCHANGED <<calls, serving, isRecording>>, fed' \subseteq fed
  PROVE  /\ Alone' /\ HaltAlone' /\ AllClosed' /\ Flags'
         /\ awaits[w] = "event" /\ stopComplete # "none" /\ Tearing
         /\ (stopComplete' # "none" /\ Tearing') => OneStop'
<1>1. Stopper(w)
  BY DEF Stopper
<1>2. /\ \A d \in Caller : d # w => ~Stopper(d)
      /\ Nobody("make") /\ Nobody("request") /\ ~Closing
  BY <1>1, WithinStop
<1>3. \A d \in Caller : (Starter(d)' <=> Starter(d)) /\ (Stopper(d)' <=> Stopper(d))
  BY DEF calls, Starter, Stopper
<1>4. Alone' /\ HaltAlone'
  BY <1>3 DEF Ordered, Alone, HaltAlone, calls
<1>5. AllClosed'
  BY <1>2 DEF AllClosed, Closing, calls
<1>6. Nobody("make")' /\ Nobody("request")' /\ ~Nobody("wait")'
  BY <1>2 DEF Nobody, calls
<1>7. \A d \in Caller : place'[d] \notin {"make", "request", "probe"}
  BY <1>2 DEF Nobody, Stopper, calls
<1>8. Flags'
  <2>1. ~isRecording
    BY DEF Ordered, Flags
  <2>2. \A d \in Caller : Starter(d)' => fed' = {}
    BY <1>3 DEF Ordered, Flags
  <2> QED
    BY <1>6, <1>7, <2>1, <2>2 DEF Flags
<1>9. awaits[w] = "event" /\ stopComplete # "none" /\ Tearing
  BY DEF Ordered, OneStop
<1>10. (stopComplete' # "none" /\ Tearing') => OneStop'
  <2>1. \A d \in Caller : place'[d] = "wait" => d = w
    BY <1>2 DEF Stopper, calls
  <2> QED
    BY <1>6, <1>9, <2>1 DEF OneStop, calls
<1> QED
  BY <1>4, <1>5, <1>8, <1>9, <1>10

LEMMA OneWaits ==
  ASSUME Ordered, ~Calm
  PROVE  \E w \in Caller : place[w] = "wait"
BY DEF Ordered, OneStop, Nobody

LEMMA OrderedTeardown ==
  ASSUME TypeOK, Places, Ordered, Teardown
  PROVE  Ordered'
<1>1. /\ idle > 0 /\ idle' = idle - 1 /\ RemoveElements
      /\ stopComplete' = (IF stopComplete = "none" THEN "none" ELSE "set")
      /\ UNCHANGED <<isRecording, teePad, calls, tee, stream, serving>>
  BY DEF Teardown, server
<1>2. ~(idle = 0)
  BY <1>1
<1>3. PICK w \in Caller : place[w] = "wait"
  BY <1>2, OneWaits DEF Calm
<1>4. fed' \subseteq fed
  BY <1>1 DEF RemoveElements
<1>5. Tearing /\ stopComplete # "none"
  BY <1>1, <1>3, <1>4, WhileWaiting
<1>6. Pending
  BY <1>2, <1>5 DEF Tearing, NoneLeft, Calm, Probing, Midway, AwaitsEnd
<1>7. idle = 1 /\ idle' = 1 - 1
  BY <1>1, <1>6 DEF Pending
<1>8. idle' = 0
  BY <1>7
<1>9. elements' = None /\ bin' = {} /\ eos' = {}
  BY <1>1 DEF Ordered, OneBranch, RemoveElements
<1>10. OneBranch'
  BY <1>1, <1>6, <1>9 DEF Ordered, OneBranch, Pending, tee
<1>11. NoneLeft'
  BY <1>1, <1>6, <1>8, <1>9 DEF NoneLeft, Calm, Pending, NoProbe, NoEosProbe, Flowing, RemoveElements, tee, stream
<1>12. Alone' /\ HaltAlone' /\ AllClosed' /\ Flags' /\ OneStop'
  <2>1. stopComplete' # "none" /\ Tearing'
    BY <1>1, <1>5, <1>11 DEF Tearing
  <2> QED
    BY <1>1, <1>3, <1>4, <2>1, WhileWaiting
<1> QED
  BY <1>10, <1>12 DEF Ordered

LEMMA OrderedUnlink ==
  ASSUME TypeOK, Places, Ordered, NEW p \in Branch, Unlink(p)
  PROVE  Ordered'
<1>1. /\ ~midway /\ probes[p] > 0 /\ probes' = [probes EXCEPT ![p] = @ - 1]
      /\ UNCHANGED <<isRecording, elements, stopComplete, calls, bin, fed, eosProbes, ended, serving, idle>>
  BY DEF Unlink, server
<1>2. probes[p] # 0
  BY <1>1
<1>3. PICK w \in Caller : place[w] = "wait"
  BY <1>2, OneWaits DEF Calm, NoProbe
<1>4. Tearing
  BY <1>1, <1>3, WhileWaiting
<1>5. Probing /\ stopComplete = "made"
  BY <1>1, <1>2, <1>4 DEF Tearing, NoneLeft, Calm, Midway, AwaitsEnd, Pending, NoProbe
<1>6. p = teePad /\ p # None /\ elements = p /\ pads = {p} /\ probes[p] = 1
  BY <1>2, <1>5 DEF Probing, Ordered, OneBranch
<1>7. /\ pads' = pads \ {p} /\ teePad' = None /\ eos' = eos \cup {elements}
      /\ blocked' = p /\ midway' = TRUE
  BY <1>6 DEF Unlink
<1>8. pads' = {} /\ OneBranch'
  BY <1>1, <1>6, <1>7 DEF Ordered, OneBranch
<1>9. Midway'
  <2>1. probes'[p] = 1 - 1
    BY <1>1, <1>6 DEF TypeOK
  <2>2. probes'[p] = 0
    BY <2>1
  <2>3. NoProbe'
    BY <1>1, <1>5, <1>6, <2>2 DEF Probing, NoProbe, TypeOK
  <2> QED
    BY <1>1, <1>5, <1>6, <1>7, <2>3 DEF Probing, Midway, NoEosProbe
<1>10. Alone' /\ HaltAlone' /\ AllClosed' /\ Flags' /\ OneStop'
  <2>1. stopComplete' # "none" /\ Tearing'
    BY <1>1, <1>5, <1>9 DEF Tearing
  <2> QED
    BY <1>1, <1>3, <2>1, WhileWaiting
<1> QED
  BY <1>8, <1>10 DEF Ordered

LEMMA OrderedAddEosProbe ==
  ASSUME TypeOK, Places, Ordered, AddEosProbe
  PROVE  Ordered'
<1>1. /\ midway /\ midway' = FALSE /\ UNCHANGED probes /\ blocked' = MoreProbes(blocked)
      /\ UNCHANGED <<manager, calls, bin, fed, eos, ended, pads, linked, serving>>
  BY DEF AddEosProbe, server
<1>2. PICK w \in Caller : place[w] = "wait"
  BY <1>1, OneWaits DEF Calm, Flowing
<1>3. Tearing
  BY <1>1, <1>2, WhileWaiting DEF manager
<1>4. Midway /\ stopComplete = "made"
  BY <1>1, <1>3 DEF Tearing, NoneLeft, Calm, Probing, AwaitsEnd, Pending, Flowing
<1>5. blocked' = None /\ NoProbe'
  <2>1. blocked \in Branch /\ probes'[blocked] = 0
    BY <1>1, <1>4 DEF Midway, NoProbe, TypeOK
  <2> QED
    BY <1>1, <1>4, <2>1 DEF MoreProbes, Midway, NoProbe
<1>6. OneBranch'
  BY <1>1 DEF Ordered, OneBranch, manager
<1>7. AwaitsEnd' \/ Pending'
  <2>1. CASE elements # None
    <3>1. eosProbes' = [eosProbes EXCEPT ![elements] = @ + 1] /\ idle' = idle
      BY <2>1 DEF AddEosProbe
    <3>2. elements \in Branch /\ eosProbes[elements] = 0
      BY <1>4, <2>1 DEF Midway, NoEosProbe, TypeOK
    <3>3. eosProbes'[elements] = 0 + 1 /\ \A b \in Branch \ {elements} : eosProbes'[b] = 0
      BY <1>4, <3>1, <3>2 DEF Midway, NoEosProbe, TypeOK
    <3>4. AwaitsEnd'
      BY <1>1, <1>4, <1>5, <2>1, <3>1, <3>3 DEF AwaitsEnd, Midway, Flowing, manager
    <3> QED
      BY <3>4
  <2>2. CASE elements = None
    <3>1. idle' = idle + 1 /\ UNCHANGED eosProbes
      BY <2>2 DEF AddEosProbe
    <3>2. idle' = 1
      BY <1>4, <3>1 DEF Midway
    <3>3. fed' = {}
      BY <1>1, <2>2 DEF Ordered, OneBranch, TypeOK
    <3>4. Pending'
      BY <1>1, <1>4, <1>5, <3>1, <3>2, <3>3 DEF Pending, Midway, NoEosProbe, Flowing, manager
    <3> QED
      BY <3>4
  <2> QED
    BY <2>1, <2>2
<1>8. Alone' /\ HaltAlone' /\ AllClosed' /\ Flags' /\ OneStop'
  <2>1. stopComplete' # "none" /\ Tearing'
    BY <1>1, <1>4, <1>7 DEF Tearing, manager
  <2> QED
    BY <1>1, <1>2, <2>1, WhileWaiting DEF manager
<1> QED
  BY <1>6, <1>8 DEF Ordered

LEMMA OrderedEosArrives ==
  ASSUME TypeOK, Places, Ordered, NEW b \in Branch, EosArrives(b)
  PROVE  Ordered'
<1>1. /\ b \in bin /\ ended' = ended \cup {b}
      /\ idle' = idle + eosProbes[b] /\ eosProbes' = [eosProbes EXCEPT ![b] = 0]
      /\ UNCHANGED <<manager, calls, bin, fed, eos, tee, stream, serving>>
  BY DEF EosArrives, server
<1>2. b = elements /\ elements # None
  BY <1>1 DEF Ordered, OneBranch
<1>3. Alone' /\ HaltAlone' /\ AllClosed' /\ OneBranch'
  BY <1>1
     DEF Ordered, Alone, HaltAlone, AllClosed, OneBranch, Starter, Stopper, Closing, manager, calls, tee
<1>4. Flags'
  BY <1>1 DEF Ordered, Flags, Nobody, Starter, manager, calls, tee
<1>5. idle \in Nat /\ eosProbes \in [Branch -> Nat]
  BY DEF TypeOK
<1>6. NoEosProbe => (NoEosProbe' /\ idle' = idle)
  <2>1. eosProbes[b] = 0 => idle' = idle
    BY <1>1, <1>5
  <2> QED
    BY <1>1, <1>5, <2>1 DEF NoEosProbe
<1>7. Calm => Calm'
  BY <1>1, <1>6 DEF Calm, NoProbe, Flowing, tee, stream
<1>8. Tearing => Tearing'
  <2>1. ~NoneLeft
    BY <1>2 DEF NoneLeft
  <2>2. Probing => Probing'
    BY <1>1, <1>6 DEF Probing, Flowing, manager, tee, stream
  <2>3. Midway => Midway'
    BY <1>1, <1>6 DEF Midway, NoProbe, manager, tee, stream
  <2>4. AwaitsEnd => Pending'
    <3>1. AwaitsEnd => idle' = 0 + 1
      BY <1>1, <1>2 DEF AwaitsEnd
    <3>2. AwaitsEnd => NoEosProbe'
      BY <1>1, <1>2, <1>5 DEF AwaitsEnd, NoEosProbe
    <3>3. fed' \subseteq ended'
      BY <1>1, <1>2 DEF Ordered, OneBranch, TypeOK
    <3> QED
      BY <1>1, <3>1, <3>2, <3>3 DEF AwaitsEnd, Pending, NoProbe, Flowing, manager, tee, stream
  <2>5. Pending => Pending'
    BY <1>1, <1>6 DEF Pending, NoProbe, Flowing, manager, tee, stream
  <2> QED
    BY <1>1, <2>1, <2>2, <2>3, <2>4, <2>5 DEF Tearing, manager
<1>9. OneStop'
  BY <1>1, <1>7, <1>8 DEF Ordered, OneStop, Nobody, manager, calls
<1> QED
  BY <1>3, <1>4, <1>9 DEF Ordered

-----------------------------------------------------------------------------
(* The invariant holds. *)

LEMMA InvInit ==
  ASSUME Init
  PROVE  RecInv
<1>1. TypeOK
  BY DEF Init, TypeOK, Quiet, Starting
<1>2. Places
  BY RecordingAssumption DEF Init, Places, InPlace, Caller, Starting, Halting
<1>3. \A c \in Caller : place[c] \in {"start", "ready", "idle"}
  BY DEF Init
<1>4. \A c \in Caller : ~Starter(c) /\ ~Stopper(c)
  BY <1>3 DEF Starter, Stopper
<1>5. ~Closing
  BY <1>3 DEF Closing, Init
<1>6. Alone /\ HaltAlone /\ AllClosed
  BY <1>4, <1>5 DEF Alone, HaltAlone, AllClosed
<1>7. OneBranch
  BY DEF Init, OneBranch
<1>8. Flags
  BY <1>3, <1>4 DEF Init, Flags
<1>9. Calm
  BY DEF Init, Calm, NoProbe, NoEosProbe, Flowing
<1>10. OneStop
  BY <1>3, <1>9 DEF OneStop
<1> QED
  BY <1>1, <1>2, <1>6, <1>7, <1>8, <1>10 DEF RecInv, Ordered

(* Once calls have disturbed each other they have for good. *)
LEMMA DisturbedForGood ==
  ASSUME TypeOK, Next, ~disturbed'
  PROVE  ~disturbed
BY DEF Next, Call, Start, StartCheck, StartMake, StartRequest, StartAttach, Stop, StopCheck, StopClear,
       StopProbe, StopWait, HaltStep, HaltRecording, CloseServer, StopPipeline, QuitLoop, MainLoop, Serve,
       RunLoop, Teardown, LeaveLoop, LoopEnds, HaltMain, Requests, AskStart, AskStop, AskHalt, Received,
       Events, OnMessage, OnSigterm, Streaming, Unlink, AddEosProbe, EosArrives

LEMMA OrderedStep ==
  ASSUME TypeOK, Places, Ordered, Next, ~disturbed'
  PROVE  Ordered'
BY OrderedStart, OrderedStop, OrderedHalt, OrderedMain, OrderedTeardown, OrderedRequest, OrderedUnlink,
   OrderedAddEosProbe, OrderedEosArrives
   DEF Next, Call, MainLoop, Streaming

LEMMA InvStep ==
  ASSUME RecInv, [Next]_vars
  PROVE  RecInv'
<1>1. CASE Next
  <2>1. TypeOK' /\ Places'
    BY <1>1, TypeStep, PlacesStep DEF RecInv
  <2>2. ~disturbed' => Ordered'
    BY <1>1, DisturbedForGood, OrderedStep DEF RecInv
  <2> QED
    BY <2>1, <2>2 DEF RecInv
<1>2. CASE UNCHANGED vars
  <2>1. TypeOK'
    BY <1>2 DEF RecInv, TypeOK, vars, manager, calls, branches, tee, stream, server, loop
  <2>2. Places'
    BY <1>2 DEF RecInv, Places, InPlace, vars, calls, server
  <2>3. disturbed' = disturbed
    BY <1>2 DEF vars
  <2>4. Ordered => Ordered'
    <3>1. /\ UNCHANGED <<manager, branches, tee, stream, idle>>
          /\ place' = place /\ mine' = mine /\ awaits' = awaits /\ halting' = halting /\ serving' = serving
      BY <1>2 DEF vars, calls, server
    <3>2. Closing' <=> Closing
      BY <3>1 DEF Closing
    <3>3. halting \subseteq Caller
      BY DEF RecInv, TypeOK
    <3> QED
      BY <3>1, <3>2, <3>3, StaysOrdered
  <2> QED
    BY <2>1, <2>2, <2>3, <2>4 DEF RecInv
<1> QED
  BY <1>1, <1>2

LEMMA Invariance == Spec => []RecInv
BY InvInit, InvStep, PTL DEF Spec

-----------------------------------------------------------------------------
(* Every variable of the manager, of the pipeline and of the callers keeps *)
(* its type, and fed branches are in the pipeline (RecordingManager).      *)
THEOREM RecordingTypeCorrect == Spec => []TypeOK
<1>1. RecInv => TypeOK
  BY DEF RecInv
<1> QED
  BY <1>1, Invariance, PTL

(* Where the directory can be made, what the manager knows of a recording  *)
(* is all there is of it, however many clients start and stop: one that it *)
(* reports is in the pipeline and fed, with what it takes to stop it, and  *)
(* when none is under way no element, pad or teardown is left (start,      *)
(* stop, _teardown), unless calls have disturbed each other.               *)
THEOREM RecordingIsSound ==
  ASSUME ~DiskFails
  PROVE  Spec => []RecordingSound
<1>1. RecInv => RecordingSound
  <2> SUFFICES ASSUME RecInv PROVE RecordingSound
    OBVIOUS
  <2>1. ASSUME isRecording, ~disturbed, \A c \in Caller : place[c] \notin Starting \cup {"clear"}
        PROVE  elements # None /\ teePad = elements /\ elements \in bin \cap linked
    <3>1. Ordered
      BY <2>1 DEF RecInv
    <3>2. \A c \in Caller : place[c] \notin {"probe", "wait"}
      BY <2>1, <3>1 DEF Ordered, Flags
    <3>3. NoCall
      BY <2>1, <3>2 DEF NoCall, Starter, Stopper, Starting
    <3>4. elements # None /\ teePad = elements /\ linked = pads
      BY <2>1, <3>1, <3>3, AtRest
    <3> QED
      BY <3>1, <3>4 DEF Ordered, OneBranch
  <2>2. ASSUME ~isRecording, ~disturbed, Busy = {}
        PROVE  bin = {} /\ pads = {} /\ idle = 0
    <3>1. Ordered
      BY <2>2 DEF RecInv
    <3>2. NoCall
      BY <2>2 DEF NoCall, Busy, Quiet, Starter, Stopper
    <3>3. elements = None /\ teePad = None /\ Calm
      BY <2>2, <3>1, <3>2, AtRest
    <3> QED
      BY <3>1, <3>3 DEF Ordered, OneBranch, Calm
  <2> QED
    BY <2>1, <2>2 DEF RecordingSound, RecordingIsReal, NothingLeft
<1> QED
  BY <1>1, Invariance, PTL

(* A branch leaves the pipeline, and the pipeline stops, only when the end *)
(* of the stream has come to the file of every branch that was fed, unless *)
(* calls have disturbed each other (_on_tee_pad_blocked,                   *)
(* _on_recording_eos, Streamer.stop).                                      *)
THEOREM FilesAlwaysComplete == Spec => FilesComplete
<1>1. ASSUME RecInv, [Next]_vars, ~disturbed',
             NEW b \in fed, b \notin bin' \/ ~playing'
      PROVE  b \in ended
  <2>1. RecInv'
    BY <1>1, InvStep
  <2>2. ~disturbed
    BY <1>1, DisturbedForGood DEF RecInv, vars
  <2>3. Ordered /\ Ordered' /\ TypeOK /\ TypeOK' /\ Places'
    BY <1>1, <2>1, <2>2 DEF RecInv
  <2>4. CASE b \notin bin'
    <3>1. b \in bin
      BY <2>3 DEF TypeOK
    <3>2. Teardown \/ (\E c \in Caller : place[c] \in {"request", "attach"})
      <4>1. CASE Next
        BY <1>1, <2>4, <3>1, <4>1
           DEF Next, Call, Start, StartCheck, StartMake, StartRequest, StartAttach, Stop, StopCheck,
               StopClear, StopProbe, StopWait, HaltStep, HaltRecording, CloseServer, StopPipeline,
               QuitLoop, MainLoop, Serve, RunLoop, LeaveLoop, LoopEnds, HaltMain, Requests, AskStart,
               AskStop, AskHalt, Received, Events, OnMessage, OnSigterm, Streaming, Unlink, AddEosProbe,
               EosArrives, branches
      <4>2. CASE UNCHANGED vars
        BY <2>4, <3>1, <4>2 DEF vars, branches
      <4> QED
        BY <1>1, <4>1, <4>2
    <3>3. CASE Teardown
      <4>1. idle > 0 /\ UNCHANGED <<isRecording, calls, serving>> /\ fed' \subseteq fed
        BY <3>3 DEF Teardown, RemoveElements, server
      <4>2. ~(idle = 0)
        BY <4>1
      <4>3. PICK w \in Caller : place[w] = "wait"
        BY <2>3, <4>2, OneWaits DEF Calm
      <4>4. Tearing
        BY <2>3, <4>1, <4>3, WhileWaiting
      <4>5. Pending
        BY <4>2, <4>4 DEF Tearing, NoneLeft, Calm, Probing, Midway, AwaitsEnd
      <4> QED
        BY <4>5 DEF Pending
    <3>4. CASE \E c \in Caller : place[c] \in {"request", "attach"}
      <4>1. fed = {}
        BY <2>3, <3>4 DEF Ordered, Flags, Starter
      <4> QED
        BY <4>1
    <3> QED
      BY <3>2, <3>3, <3>4
  <2>5. CASE b \in bin' /\ ~playing'
    <3>1. Closing'
      BY <2>3, <2>5 DEF Places, Closing
    <3>2. elements' = None
      BY <2>3, <3>1 DEF Ordered, AllClosed
    <3>3. bin' = {}
      BY <2>3, <3>2 DEF Ordered, OneBranch
    <3> QED
      BY <2>5, <3>3
  <2> QED
    BY <1>1, <2>4, <2>5
<1>2. (RecInv /\ [Next]_vars) =>
        [\A b \in fed : (b \notin bin' \/ ~playing') => (b \in ended \/ disturbed')]_vars
  BY <1>1
<1> QED
  BY <1>2, Invariance, PTL DEF Spec, FilesComplete

-----------------------------------------------------------------------------
(* Frames *)

(* How far a frame is. *)
Rank(p) ==
  IF p = "none" THEN 0
  ELSE IF p = "source" THEN 1
  ELSE IF p = "queue_encoder" THEN 2
  ELSE IF p = "encoder" THEN 3
  ELSE IF p \in {"encoded", "stamped", "overrun"} THEN 4
  ELSE IF p = "queue_udp" THEN 5
  ELSE IF p \in {"payloader", "purge"} THEN 6
  ELSE 7

(* The stages that a frame on its way has passed. *)
Stages(p) ==
  IF p = "source" THEN {"source"}
  ELSE IF p \in {"queue_encoder", "encoder"} THEN {"source", "capsfilter"}
  ELSE IF p \in {"encoded", "stamped", "overrun", "queue_udp"}
  THEN {"source", "capsfilter", "encoder"} ELSE Frames!Stage

(* Frames are on their way one behind the other, and threads hold one each. *)
Fresh == \A f, g \in Frames!Frame : at[f] = "none" /\ at[g] # "none" => g < f
Behind ==
  \A f, g \in Frames!Frame : Rank(at[f]) < Rank(at[g]) /\ Rank(at[g]) <= 6 => g < f
Single ==
  \A f, g \in Frames!Frame : Rank(at[f]) = Rank(at[g]) /\ Rank(at[f]) \in {1, 4, 6} => f = g
Queue == at \in [Frames!Frame -> Frames!Place] /\ Fresh /\ Behind /\ Single

Timed == Timing =>
  \A f \in Frames!Frame : Rank(at[f]) \in 1 .. 6 /\ at[f] # "purge" =>
    f \in DOMAIN data /\ data[f] = Stages(at[f])

(* What is looked through has all that is older. *)
Measured ==
  /\ DOMAIN data \subseteq Frames!Frame
  /\ measured \in Frames!Frame \cup {0} /\ (measured # 0 => at[measured] # "none")
  /\ (\A f \in Frames!Frame : at[f] # "purge") /\ ~failed => \A k \in DOMAIN data : k > measured
  /\ \A f \in Frames!Frame : at[f] = "purge" =>
       measured = f /\ f \notin DOMAIN data /\ \A k \in DOMAIN data : k < f => k \in reading

Stamped ==
  /\ stamp \in [Frames!Frame -> Frames!Frame \cup {0}]
  /\ \A f \in Frames!Frame :
       IF Timing
       THEN /\ at[f] \in {"encoder", "encoded"} => f \in pending
            /\ at[f] \in {"stamped", "overrun", "queue_udp", "payloader", "purge", "sent"} =>
                 stamp[f] = f
       ELSE f \notin pending /\ stamp[f] = 0

FramesInv == Queue /\ Timed /\ Measured /\ Stamped

-----------------------------------------------------------------------------
LEMMA Ranks ==
  ASSUME NEW p \in Frames!Place
  PROVE  /\ Rank(p) \in 0 .. 7 /\ (Rank(p) = 0 <=> p = "none") /\ (Rank(p) = 1 <=> p = "source")
         /\ (Rank(p) = 2 <=> p = "queue_encoder") /\ (Rank(p) = 3 <=> p = "encoder")
         /\ (Rank(p) = 4 <=> p \in {"encoded", "stamped", "overrun"})
         /\ (Rank(p) = 5 <=> p = "queue_udp")
         /\ (Rank(p) = 6 <=> p \in {"payloader", "purge"})
         /\ (Rank(p) = 7 <=> p \in {"sent", "lost", "dropped"})
BY DEF Rank, Frames!Place

LEMMA Least ==
  ASSUME NEW T \in SUBSET Nat, T # {}
  PROVE  \E x \in T : \A y \in T : x <= y
<1> DEFINE R == OpToRel(<, Nat)
<1>1. R = {ss \in Nat \X Nat : ss[1] < ss[2]}
  BY DEF OpToRel
<1>2. IsWellFoundedOn(R, Nat)
  BY NatLessThanWellFounded
<1>3. \A x, y \in Nat : <<y, x>> \in R <=> y < x
  BY <1>1
<1> HIDE DEF R
<1>4. PICK x \in T : \A y \in T : ~(<<y, x>> \in R)
  BY <1>2, WFMin
<1>5. ASSUME NEW y \in T
      PROVE  x <= y
  <2>1. x \in Nat /\ y \in Nat
    OBVIOUS
  <2>2. ~(y < x)
    BY <1>3, <1>4, <2>1
  <2> QED
    BY <2>1, <2>2
<1> QED
  BY <1>4, <1>5

(* The first frame at a place *)
LEMMA First ==
  ASSUME at \in [Frames!Frame -> Frames!Place], NEW p, Frames!At(p) # {}
  PROVE  /\ Frames!Min(Frames!At(p)) \in Frames!Frame /\ at[Frames!Min(Frames!At(p))] = p
         /\ \A g \in Frames!Frame :
              at[g] = p /\ g # Frames!Min(Frames!At(p)) => Frames!Min(Frames!At(p)) < g
<1>1. Frames!At(p) \in SUBSET Nat
  BY FrameAssumption DEF Frames!At, Frames!Frame
<1>2. \E x \in Frames!At(p) : \A y \in Frames!At(p) : x <= y
  BY <1>1, Least
<1>3. Frames!Min(Frames!At(p)) \in Frames!At(p) /\ \A y \in Frames!At(p) : Frames!Min(Frames!At(p)) <= y
  BY <1>2 DEF Frames!Min
<1> HIDE DEF Frames!Min
<1>4. \A g \in Frames!Frame : at[g] = p /\ g # Frames!Min(Frames!At(p)) => Frames!Min(Frames!At(p)) < g
  BY <1>1, <1>3 DEF Frames!At
<1> QED
  BY <1>3, <1>4 DEF Frames!At

(* A frame goes one place on, and others may be lost.                      *)
LEMMA Moved ==
  ASSUME Queue, NEW f \in Frames!Frame, NEW q \in Frames!Place, NEW old \in SUBSET Frames!Frame,
         at' = [k \in Frames!Frame |-> IF k = f THEN q ELSE IF k \in old THEN "dropped" ELSE at[k]],
         q # "none",
         \A k \in old : at[k] # "none",
         \/ Rank(q) = Rank(at[f])
         \/ at[f] # "none" /\ Rank(q) = 7
         \/ /\ Rank(q) = Rank(at[f]) + 1
            /\ \A g \in Frames!Frame : at[g] = at[f] /\ g # f => f < g
            /\ Rank(q) \in {1, 4, 6} => \A g \in Frames!Frame : Rank(at[g]) # Rank(q)
  PROVE  Queue'
<1>1. at' \in [Frames!Frame -> Frames!Place] /\ at \in [Frames!Frame -> Frames!Place]
  BY DEF Queue, Frames!Place
<1>2. \A g \in Frames!Frame : at'[g] = IF g = f THEN q ELSE IF g \in old THEN "dropped" ELSE at[g]
  OBVIOUS
<1>3. \A p \in Frames!Place : Rank(p) \in 0 .. 7 /\ (Rank(p) = 0 <=> p = "none")
  BY Ranks
<1>4. Rank("dropped") = 7 /\ "dropped" # "none"
  BY DEF Rank
<1>5. Frames!Frame \subseteq Nat
  BY FrameAssumption DEF Frames!Frame
<1>6. \A g \in Frames!Frame : Rank(at[g]) = Rank(at[f]) /\ g # f /\ Rank(q) # Rank(at[f])
                       /\ Rank(q) # 7 => f < g
  <2> SUFFICES ASSUME NEW g \in Frames!Frame, Rank(at[g]) = Rank(at[f]), g # f,
                      Rank(q) # Rank(at[f]), Rank(q) # 7
               PROVE  f < g
    OBVIOUS
  <2>1. \A x \in Frames!Frame : at[x] = at[f] /\ x # f => f < x
    OBVIOUS
  <2>2. Rank(at[f]) \notin {1, 4, 6}
    BY DEF Queue, Single
  <2>3. Rank(at[f]) \in {0, 2, 3, 5}
    BY <1>1, <1>3, <2>2
  <2>4. at[g] = at[f]
    BY <1>1, <2>3, Ranks
  <2> QED
    BY <2>1, <2>4
<1>7. Fresh'
  <2> SUFFICES ASSUME NEW a \in Frames!Frame, NEW b \in Frames!Frame, at'[a] = "none", at'[b] # "none"
               PROVE  b < a
    BY DEF Fresh
  <2>1. a # f /\ at[a] = "none"
    BY <1>2, <1>4
  <2>2. CASE b = f /\ at[f] = "none"
    <3>1. Rank(at[a]) = Rank(at[f]) /\ Rank(at[f]) = 0
      BY <2>1, <2>2, <1>1, <1>3
    <3>2. Rank(q) # 0
      BY <1>3
    <3>3. Rank(q) # 7
      BY <2>2, <3>1
    <3> QED
      BY <1>6, <2>1, <2>2, <3>1, <3>2, <3>3
  <2>3. CASE ~(b = f /\ at[f] = "none")
    <3>1. at[b] # "none"
      BY <1>2, <2>3
    <3> QED
      BY <2>1, <3>1 DEF Queue, Fresh
  <2> QED
    BY <2>2, <2>3
<1>8. Behind'
  <2> SUFFICES ASSUME NEW a \in Frames!Frame, NEW b \in Frames!Frame, Rank(at'[a]) < Rank(at'[b]),
                      Rank(at'[b]) <= 6
               PROVE  b < a
    BY DEF Behind
  <2> DEFINE ra == Rank(at[a])
             rb == Rank(at[b])
             rf == Rank(at[f])
             rq == Rank(q)
  <2>1. /\ ra \in 0 .. 7 /\ rb \in 0 .. 7 /\ rf \in 0 .. 7 /\ rq \in 0 .. 7
        /\ rq = rf \/ rq = 7 \/ rq = rf + 1
    BY <1>1, <1>3
  <2>2. ra < rb /\ rb <= 6 => b < a
    BY DEF Queue, Behind
  <2>3. CASE a = f /\ b # f
    <3>1. Rank(at'[a]) = rq /\ Rank(at'[b]) = rb
      <4>1. at'[a] = q /\ (at'[b] = at[b] \/ at'[b] = "dropped")
        BY <1>2, <2>3
      <4>2. Rank(at'[b]) # 7
        BY <1>1, <1>3
      <4> QED
        BY <1>4, <4>1, <4>2
    <3>2. rq < rb /\ rb <= 6 /\ ra = rf
      BY <2>3, <3>1
    <3> HIDE DEF ra, rb, rf, rq
    <3>3. ra < rb
      BY <2>1, <3>2
    <3> QED
      BY <2>2, <3>2, <3>3
  <2>4. CASE a # f /\ b = f
    <3>1. Rank(at'[a]) = ra /\ Rank(at'[b]) = rq
      <4>1. at'[b] = q /\ (at'[a] = at[a] \/ at'[a] = "dropped")
        BY <1>2, <2>4
      <4>2. Rank(at'[a]) # 7
        BY <1>1, <1>3
      <4> QED
        BY <1>4, <4>1, <4>2
    <3>2. ra < rq /\ rq <= 6 /\ rb = rf
      BY <2>4, <3>1
    <3>3. ra = rf /\ rq # rf /\ rq # 7 => f < a
      BY <1>6, <2>4
    <3> HIDE DEF ra, rb, rf, rq
    <3>4. ra < rb \/ (ra = rf /\ rq # rf /\ rq # 7)
      BY <2>1, <3>2
    <3>5. rb <= 6
      BY <2>1, <3>2
    <3> QED
      BY <2>2, <2>4, <3>3, <3>4, <3>5
  <2>5. CASE a # f /\ b # f
    <3>1. Rank(at'[a]) # 7 /\ Rank(at'[b]) # 7
      BY <1>1, <1>3
    <3>2. at'[a] = at[a] /\ at'[b] = at[b]
      BY <1>2, <1>4, <2>5, <3>1
    <3> QED
      BY <3>2, <2>2
  <2>6. a # b
    BY <1>1, <1>3
  <2> QED
    BY <2>3, <2>4, <2>5, <2>6
<1>9. Single'
  <2> SUFFICES ASSUME NEW a \in Frames!Frame, NEW b \in Frames!Frame, Rank(at'[a]) = Rank(at'[b]),
                      Rank(at'[a]) \in {1, 4, 6}
               PROVE  a = b
    BY DEF Single
  <2>1. at'[a] # "dropped" /\ at'[b] # "dropped"
    BY <1>4
  <2>2. (a = f \/ at'[a] = at[a]) /\ (b = f \/ at'[b] = at[b])
    BY <1>2, <2>1
  <2>3. CASE Rank(q) = Rank(at[f])
    <3>1. Rank(at'[a]) = Rank(at[a]) /\ Rank(at'[b]) = Rank(at[b])
      BY <1>2, <2>2, <2>3
    <3> QED
      BY <3>1 DEF Queue, Single
  <2>4. CASE Rank(q) = 7
    <3>1. a # f /\ b # f
      BY <1>2, <2>4
    <3> QED
      BY <2>2, <3>1 DEF Queue, Single
  <2>5. CASE Rank(q) # Rank(at[f]) /\ Rank(q) # 7
    <3>1. Rank(q) \in {1, 4, 6} => \A g \in Frames!Frame : Rank(at[g]) # Rank(q)
      BY <2>5
    <3>2. at'[f] = q
      BY <1>2
    <3> QED
      BY <2>2, <3>1, <3>2 DEF Queue, Single
  <2> QED
    BY <2>3, <2>4, <2>5
<1> QED
  BY <1>1, <1>7, <1>8, <1>9 DEF Queue

LEMMA MovedAlone ==
  ASSUME Queue, NEW f \in Frames!Frame, NEW q \in Frames!Place, at' = [at EXCEPT ![f] = q], q # "none",
         \/ Rank(q) = Rank(at[f])
         \/ at[f] # "none" /\ Rank(q) = 7
         \/ /\ Rank(q) = Rank(at[f]) + 1
            /\ \A g \in Frames!Frame : at[g] = at[f] /\ g # f => f < g
            /\ Rank(q) \in {1, 4, 6} => \A g \in Frames!Frame : Rank(at[g]) # Rank(q)
  PROVE  Queue' /\ \A k \in Frames!Frame : at'[k] = IF k = f THEN q ELSE at[k]
<1> DEFINE old == {}
<1>1. at \in [Frames!Frame -> Frames!Place]
  BY DEF Queue
<1>2. at' = [k \in Frames!Frame |-> IF k = f THEN q ELSE IF k \in old THEN "dropped" ELSE at[k]]
  BY <1>1
<1>3. old \in SUBSET Frames!Frame /\ \A k \in old : at[k] # "none"
  OBVIOUS
<1>4. \A k \in Frames!Frame : at'[k] = IF k = f THEN q ELSE at[k]
  BY <1>1
<1> HIDE DEF old
<1> QED
  BY <1>2, <1>3, <1>4, Moved

LEMMA Queueing ==
  ASSUME at \in [Frames!Frame -> Frames!Place], NEW f \in Frames!Frame, NEW queue,
         NEW size \in Nat \ {0},
         Frames!Queued(f, queue, size)
  PROVE  \E old \in SUBSET Frames!Frame :
           /\ \A k \in old : at[k] = queue
           /\ at' = [k \in Frames!Frame |->
                          IF k = f THEN queue ELSE IF k \in old THEN "dropped" ELSE at[k]]
<1> DEFINE old == IF Frames!Cardinality(Frames!At(queue)) < size THEN {}
                  ELSE {Frames!Min(Frames!At(queue))}
<1>1. at' = [k \in Frames!Frame |->
                  IF k = f THEN queue ELSE IF k \in old THEN "dropped" ELSE at[k]]
  BY DEF Frames!Queued
<1>2. Frames!At(queue) = {} => old = {}
  <2>1. Frames!Cardinality({}) = 0
    BY FS_EmptySet DEF Frames!Cardinality, Cardinality
  <2> QED
    BY <2>1
<1>3. \A k \in old : k \in Frames!Frame /\ at[k] = queue
  <2>1. CASE Frames!At(queue) = {}
    BY <1>2, <2>1
  <2>2. CASE Frames!At(queue) # {}
    <3>1. Frames!Min(Frames!At(queue)) \in Frames!Frame /\ at[Frames!Min(Frames!At(queue))] = queue
      BY <2>2, First
    <3> QED
      BY <3>1
  <2> QED
    BY <2>1, <2>2
<1> HIDE DEF old
<1> QED
  BY <1>1, <1>3

-----------------------------------------------------------------------------
(* What is known of the frames that a step does not concern *)

LEMMA TimedKept ==
  ASSUME Timed, NEW f,
         Timing => \A k \in Frames!Frame : k # f /\ Rank(at'[k]) \in 1 .. 6 /\ at'[k] # "purge" =>
                     /\ Rank(at[k]) \in 1 .. 6 /\ at[k] # "purge"
                     /\ Stages(at'[k]) = Stages(at[k])
                     /\ (k \in DOMAIN data => k \in DOMAIN data' /\ data'[k] = data[k]),
         Timing /\ f \in Frames!Frame /\ Rank(at'[f]) \in 1 .. 6 /\ at'[f] # "purge" =>
           f \in DOMAIN data' /\ data'[f] = Stages(at'[f])
  PROVE  Timed'
BY DEF Timed

LEMMA MeasuredKept ==
  ASSUME Measured, DOMAIN data' = DOMAIN data, UNCHANGED <<measured, reading, failed>>,
         \A k \in Frames!Frame : at'[k] = "purge" <=> at[k] = "purge",
         \A k \in Frames!Frame : at'[k] = "none" => at[k] = "none"
  PROVE  Measured'
BY DEF Measured

LEMMA StampedKept ==
  ASSUME Stamped, UNCHANGED Frames!injector,
         \A k \in Frames!Frame :
           \/ at'[k] = at[k] \/ at'[k] \in {"source", "queue_encoder", "lost", "dropped"}
           \/ at[k] = "encoder" /\ at'[k] = "encoded"
           \/ /\ at[k] \in {"stamped", "overrun", "queue_udp", "payloader", "purge", "sent"}
              /\ at'[k] \in {"stamped", "overrun", "queue_udp", "payloader", "purge", "sent"}
  PROVE  Stamped'
<1>1. pending' = pending /\ stamp' = stamp
  BY DEF Frames!injector
<1> QED
  BY <1>1 DEF Stamped

LEMMA Passing ==
  ASSUME NEW f, NEW stage
  PROVE  /\ DOMAIN Frames!Passed(f, stage) = DOMAIN data
         /\ \A k \in DOMAIN data : k # f => Frames!Passed(f, stage)[k] = data[k]
         /\ f \in DOMAIN data => Frames!Passed(f, stage)[f] = data[f] \cup {stage}
BY DEF Frames!Passed

-----------------------------------------------------------------------------
(* The steps of a frame *)

LEMMA SourceStep == FramesInv /\ Frames!_on_source_buffer => FramesInv'
<1> SUFFICES ASSUME FramesInv, Frames!_on_source_buffer PROVE FramesInv'
  OBVIOUS
<1> DEFINE f == Frames!Min(Frames!At("none"))
<1>1. /\ Frames!At("source") = {} /\ Frames!At("none") # {} /\ at' = [at EXCEPT ![f] = "source"]
      /\ data' = IF Timing THEN [k \in DOMAIN data \cup {f} |-> IF k = f THEN {"source"} ELSE data[k]]
                 ELSE data
      /\ UNCHANGED <<measured, reading, failed, Frames!injector>>
  BY DEF Frames!_on_source_buffer
<1>2. Queue /\ Timed /\ Measured /\ Stamped /\ at \in [Frames!Frame -> Frames!Place]
  BY DEF FramesInv, Queue
<1>3. f \in Frames!Frame /\ at[f] = "none" /\ \A g \in Frames!Frame : at[g] = "none" /\ g # f => f < g
  BY <1>1, <1>2, First
<1> HIDE DEF f
<1>4. /\ Rank("source") = 1 /\ Rank("none") = 0 /\ "source" \in Frames!Place
      /\ Stages("source") = {"source"}
  BY DEF Rank, Frames!Place, Stages
<1>5. \A g \in Frames!Frame : Rank(at[g]) # 1
  BY <1>1, <1>2, Ranks DEF Frames!At
<1>6. Queue' /\ \A k \in Frames!Frame : at'[k] = IF k = f THEN "source" ELSE at[k]
  <2>1. /\ Rank("source") = Rank(at[f]) + 1
        /\ \A g \in Frames!Frame : at[g] = at[f] /\ g # f => f < g
        /\ \A g \in Frames!Frame : Rank(at[g]) # Rank("source")
    BY <1>3, <1>4, <1>5
  <2>2. at' = [at EXCEPT ![f] = "source"]
    BY <1>1
  <2> QED
    BY <1>2, <1>3, <1>4, <2>1, <2>2, MovedAlone
<1>7. Timed'
  BY <1>1, <1>2, <1>3, <1>4, <1>6, TimedKept
<1>8. Measured'
  <2>1. DOMAIN data' \subseteq DOMAIN data \cup {f}
    BY <1>1
  <2>2. measured # 0 => measured < f
    BY <1>2, <1>3 DEF Measured, Queue, Fresh
  <2>3. f > measured
    <3>1. f \in Nat \ {0}
      BY <1>3, FrameAssumption DEF Frames!Frame
    <3> QED
      BY <2>2, <3>1
  <2>4. \A g \in Frames!Frame : at[g] = "purge" => g < f
    BY <1>2, <1>3 DEF Queue, Fresh
  <2>5. \A g \in Frames!Frame : at[g] = "purge" => g # f /\ ~(f < g)
    BY <2>4, <1>3, FrameAssumption DEF Frames!Frame
  <2>6. \A g \in Frames!Frame : at'[g] = "purge" <=> at[g] = "purge"
    BY <1>3, <1>6
  <2>7. measured' # 0 => at'[measured'] # "none"
    BY <1>1, <1>2, <1>6 DEF Measured
  <2>8. (\A g \in Frames!Frame : at'[g] # "purge") /\ ~failed' => \A k \in DOMAIN data' : k > measured'
    BY <1>1, <1>2, <2>1, <2>3, <2>6 DEF Measured
  <2>9. \A g \in Frames!Frame : at'[g] = "purge" =>
          measured' = g /\ g \notin DOMAIN data' /\ \A k \in DOMAIN data' : k < g => k \in reading'
    BY <1>1, <1>2, <2>1, <2>5, <2>6 DEF Measured
  <2>10. DOMAIN data' \subseteq Frames!Frame /\ measured' \in Frames!Frame \cup {0}
    BY <1>1, <1>2, <1>3, <2>1 DEF Measured
  <2> HIDE DEF Measured
  <2> QED
    BY <2>7, <2>8, <2>9, <2>10 DEF Measured
<1>9. Stamped'
  BY <1>1, <1>2, <1>6, StampedKept
<1> QED
  BY <1>6, <1>7, <1>8, <1>9 DEF FramesInv

LEMMA CameraStep ==
  ASSUME FramesInv, NEW f \in Frames!Frame, Frames!_on_camera_buffer(f)
  PROVE  FramesInv'
<1>1. /\ at[f] = "source" /\ data' = Frames!Passed(f, "capsfilter")
      /\ Frames!Queued(f, "queue_encoder", SizeBuffers)
      /\ UNCHANGED <<measured, reading, failed, Frames!injector>>
  BY DEF Frames!_on_camera_buffer, Frames!At
<1>2. Queue /\ Timed /\ Measured /\ Stamped /\ at \in [Frames!Frame -> Frames!Place]
  BY DEF FramesInv, Queue
<1>3. PICK old \in SUBSET Frames!Frame :
        /\ \A k \in old : at[k] = "queue_encoder"
        /\ at' = [k \in Frames!Frame |->
                       IF k = f THEN "queue_encoder" ELSE IF k \in old THEN "dropped" ELSE at[k]]
  BY <1>1, <1>2, Queueing, FrameAssumption
<1>4. /\ Rank("queue_encoder") = 2 /\ Rank("source") = 1 /\ Rank("dropped") = 7
      /\ "queue_encoder" \in Frames!Place
      /\ Stages("source") = {"source"} /\ Stages("queue_encoder") = {"source", "capsfilter"}
  BY DEF Rank, Frames!Place, Stages
<1>5. \A g \in Frames!Frame : at[g] = at[f] /\ g # f => f < g
  BY <1>1, <1>2, <1>4 DEF Queue, Single
<1>6. Queue'
  BY <1>1, <1>2, <1>3, <1>4, <1>5, Moved
<1>7. \A k \in Frames!Frame :
        at'[k] = IF k = f THEN "queue_encoder" ELSE IF k \in old THEN "dropped" ELSE at[k]
  BY <1>3
<1>8. /\ DOMAIN data' = DOMAIN data /\ \A k \in DOMAIN data : k # f => data'[k] = data[k]
      /\ f \in DOMAIN data => data'[f] = data[f] \cup {"capsfilter"}
  BY <1>1, Passing
<1>9. Timed'
  <2>1. Timing => f \in DOMAIN data' /\ data'[f] = Stages("queue_encoder")
    BY <1>1, <1>2, <1>4, <1>8 DEF Timed
  <2> QED
    BY <1>2, <1>4, <1>7, <1>8, <2>1, TimedKept
<1>10. Measured'
  BY <1>1, <1>2, <1>3, <1>7, <1>8, MeasuredKept
<1>11. Stamped'
  BY <1>1, <1>2, <1>7, StampedKept
<1> QED
  BY <1>6, <1>9, <1>10, <1>11 DEF FramesInv

LEMMA EncodeStep == FramesInv /\ Frames!on_pre_encode => FramesInv'
<1> SUFFICES ASSUME FramesInv, Frames!on_pre_encode PROVE FramesInv'
  OBVIOUS
<1> DEFINE f == Frames!Min(Frames!At("queue_encoder"))
<1>1. /\ Frames!At("queue_encoder") # {} /\ at' = [at EXCEPT ![f] = "encoder"]
      /\ pending' = IF Timing THEN pending \cup {f} ELSE pending
      /\ UNCHANGED <<data, measured, reading, failed, stamp>>
  BY DEF Frames!on_pre_encode, Frames!timer
<1>2. Queue /\ Timed /\ Measured /\ Stamped /\ at \in [Frames!Frame -> Frames!Place]
  BY DEF FramesInv, Queue
<1>3. f \in Frames!Frame /\ at[f] = "queue_encoder"
      /\ \A g \in Frames!Frame : at[g] = "queue_encoder" /\ g # f => f < g
  BY <1>1, <1>2, First
<1> HIDE DEF f
<1>4. /\ Rank("encoder") = 3 /\ Rank("queue_encoder") = 2 /\ "encoder" \in Frames!Place
      /\ Stages("encoder") = Stages("queue_encoder")
  BY DEF Rank, Frames!Place, Stages
<1>5. Queue' /\ \A k \in Frames!Frame : at'[k] = IF k = f THEN "encoder" ELSE at[k]
  <2>1. /\ Rank("encoder") = Rank(at[f]) + 1
        /\ \A g \in Frames!Frame : at[g] = at[f] /\ g # f => f < g
        /\ Rank("encoder") \notin {1, 4, 6}
    BY <1>3, <1>4
  <2>2. at' = [at EXCEPT ![f] = "encoder"]
    BY <1>1
  <2> QED
    BY <1>2, <1>3, <1>4, <2>1, <2>2, MovedAlone
<1>6. Timed'
  <2>1. Timing => f \in DOMAIN data' /\ data'[f] = Stages("encoder")
    BY <1>1, <1>2, <1>3, <1>4 DEF Timed
  <2> QED
    BY <1>1, <1>2, <1>4, <1>5, <2>1, TimedKept
<1>7. Measured'
  BY <1>1, <1>2, <1>3, <1>5, MeasuredKept
<1>8. Stamped'
  BY <1>1, <1>2, <1>5 DEF Stamped
<1> QED
  BY <1>5, <1>6, <1>7, <1>8 DEF FramesInv

LEMMA LoseStep == ASSUME FramesInv, NEW f \in Frames!Frame, Frames!Lose(f) PROVE FramesInv'
<1>1. /\ at[f] = "encoder" /\ at' = [at EXCEPT ![f] = "lost"]
      /\ UNCHANGED <<data, measured, reading, failed, Frames!injector>>
  BY DEF Frames!Lose, Frames!At, Frames!timer
<1>2. Queue /\ Timed /\ Measured /\ Stamped /\ at \in [Frames!Frame -> Frames!Place]
  BY DEF FramesInv, Queue
<1>3. Rank("lost") = 7 /\ "lost" \in Frames!Place
  BY DEF Rank, Frames!Place
<1>4. Queue' /\ \A k \in Frames!Frame : at'[k] = IF k = f THEN "lost" ELSE at[k]
  BY <1>1, <1>2, <1>3, MovedAlone
<1>5. Timed'
  BY <1>1, <1>2, <1>3, <1>4, TimedKept
<1>6. Measured'
  BY <1>1, <1>2, <1>4, MeasuredKept
<1>7. Stamped'
  BY <1>1, <1>2, <1>4, StampedKept
<1> QED
  BY <1>4, <1>5, <1>6, <1>7 DEF FramesInv

LEMMA EncodedStep == FramesInv /\ Frames!_on_encoder_buffer => FramesInv'
<1> SUFFICES ASSUME FramesInv, Frames!_on_encoder_buffer PROVE FramesInv'
  OBVIOUS
<1> DEFINE f == Frames!Min(Frames!At("encoder"))
<1>1. /\ Frames!At("encoder") # {}
      /\ Frames!At("encoded") \cup Frames!At("stamped") \cup Frames!At("overrun") = {}
      /\ at' = [at EXCEPT ![f] = "encoded"] /\ data' = Frames!Passed(f, "encoder")
      /\ UNCHANGED <<measured, reading, failed, Frames!injector>>
  BY DEF Frames!_on_encoder_buffer
<1>2. Queue /\ Timed /\ Measured /\ Stamped /\ at \in [Frames!Frame -> Frames!Place]
  BY DEF FramesInv, Queue
<1>3. /\ f \in Frames!Frame /\ at[f] = "encoder"
      /\ \A g \in Frames!Frame : at[g] = "encoder" /\ g # f => f < g
  BY <1>1, <1>2, First
<1> HIDE DEF f
<1>4. /\ Rank("encoder") = 3 /\ Rank("encoded") = 4 /\ "encoded" \in Frames!Place
      /\ Stages("encoder") = {"source", "capsfilter"}
      /\ Stages("encoded") = {"source", "capsfilter", "encoder"}
  BY DEF Rank, Frames!Place, Stages
<1>5. \A g \in Frames!Frame : Rank(at[g]) # 4
  BY <1>1, <1>2, Ranks DEF Frames!At
<1>6. Queue' /\ \A k \in Frames!Frame : at'[k] = IF k = f THEN "encoded" ELSE at[k]
  <2>1. /\ Rank("encoded") = Rank(at[f]) + 1
        /\ \A g \in Frames!Frame : at[g] = at[f] /\ g # f => f < g
        /\ \A g \in Frames!Frame : Rank(at[g]) # Rank("encoded")
    BY <1>3, <1>4, <1>5
  <2>2. at' = [at EXCEPT ![f] = "encoded"]
    BY <1>1
  <2> QED
    BY <1>2, <1>3, <1>4, <2>1, <2>2, MovedAlone
<1>7. /\ DOMAIN data' = DOMAIN data /\ \A k \in DOMAIN data : k # f => data'[k] = data[k]
      /\ f \in DOMAIN data => data'[f] = data[f] \cup {"encoder"}
  BY <1>1, Passing
<1>8. Timed'
  <2>1. Timing => f \in DOMAIN data' /\ data'[f] = Stages("encoded")
    BY <1>2, <1>3, <1>4, <1>7 DEF Timed
  <2> QED
    BY <1>2, <1>4, <1>6, <1>7, <2>1, TimedKept
<1>9. Measured'
  BY <1>1, <1>2, <1>3, <1>6, <1>7, MeasuredKept
<1>10. Stamped'
  BY <1>1, <1>2, <1>3, <1>6, StampedKept
<1> QED
  BY <1>6, <1>8, <1>9, <1>10 DEF FramesInv

LEMMA StampStep == ASSUME FramesInv, NEW f \in Frames!Frame, Frames!on_post_encode(f) PROVE FramesInv'
<1>1. /\ at[f] = "encoded" /\ at' = [at EXCEPT ![f] = "stamped"]
      /\ IF f \notin pending THEN UNCHANGED <<pending, stamp>>
         ELSE stamp' = [stamp EXCEPT ![f] = f] /\ pending' = pending \ {f}
      /\ UNCHANGED <<data, measured, reading, failed>>
  BY DEF Frames!on_post_encode, Frames!At, Frames!timer, Frames!injector
<1>2. Queue /\ Timed /\ Measured /\ Stamped /\ at \in [Frames!Frame -> Frames!Place]
  BY DEF FramesInv, Queue
<1>3. /\ Rank("stamped") = 4 /\ Rank("encoded") = 4 /\ "stamped" \in Frames!Place
      /\ Stages("stamped") = Stages("encoded")
  BY DEF Rank, Frames!Place, Stages
<1>4. Queue' /\ \A k \in Frames!Frame : at'[k] = IF k = f THEN "stamped" ELSE at[k]
  BY <1>1, <1>2, <1>3, MovedAlone
<1>5. Timed'
  <2>1. Timing => f \in DOMAIN data' /\ data'[f] = Stages("stamped")
    BY <1>1, <1>2, <1>3 DEF Timed
  <2> QED
    BY <1>1, <1>2, <1>3, <1>4, <2>1, TimedKept
<1>6. Measured'
  BY <1>1, <1>2, <1>4, MeasuredKept
<1>7. Stamped'
  <2>1. stamp' \in [Frames!Frame -> Frames!Frame \cup {0}]
    BY <1>1, <1>2 DEF Stamped
  <2>2. CASE Timing
    <3>1. f \in pending /\ pending' = pending \ {f} /\ stamp'[f] = f
          /\ \A k \in Frames!Frame : k # f => stamp'[k] = stamp[k]
      BY <1>1, <1>2, <2>2 DEF Stamped
    <3> QED
      BY <1>2, <1>4, <2>1, <2>2, <3>1 DEF Stamped
  <2>3. CASE ~Timing
    <3>1. UNCHANGED <<pending, stamp>>
      BY <1>1, <1>2, <2>3 DEF Stamped
    <3> QED
      BY <1>2, <2>1, <2>3, <3>1 DEF Stamped
  <2> QED
    BY <2>2, <2>3
<1> QED
  BY <1>4, <1>5, <1>6, <1>7 DEF FramesInv

(* The tee, with room in the UDP queue or after its overrun. *)
LEMMA PushStep ==
  ASSUME FramesInv, NEW f \in Frames!Frame, at[f] \in {"stamped", "overrun"},
         Frames!Queued(f, "queue_udp", SizeUdp),
         UNCHANGED <<data, measured, reading, failed, Frames!injector>>
  PROVE  FramesInv'
<1>1. Queue /\ Timed /\ Measured /\ Stamped /\ at \in [Frames!Frame -> Frames!Place]
  BY DEF FramesInv, Queue
<1>2. PICK old \in SUBSET Frames!Frame :
        /\ \A k \in old : at[k] = "queue_udp"
        /\ at' = [k \in Frames!Frame |->
                       IF k = f THEN "queue_udp" ELSE IF k \in old THEN "dropped" ELSE at[k]]
  BY <1>1, Queueing, FrameAssumption
<1>3. /\ Rank("queue_udp") = 5 /\ Rank("stamped") = 4 /\ Rank("overrun") = 4
      /\ "queue_udp" \in Frames!Place /\ Rank("dropped") = 7
      /\ Stages("queue_udp") = Stages("stamped") /\ Stages("queue_udp") = Stages("overrun")
  BY DEF Rank, Frames!Place, Stages
<1>4. \A g \in Frames!Frame : at[g] = at[f] /\ g # f => f < g
  BY <1>1, <1>3 DEF Queue, Single
<1>5. Queue'
  <2>1. Rank("queue_udp") = Rank(at[f]) + 1 /\ Rank("queue_udp") \notin {1, 4, 6}
    BY <1>3
  <2> QED
    BY <1>1, <1>2, <1>3, <1>4, <2>1, Moved
<1>6. \A k \in Frames!Frame :
        at'[k] = IF k = f THEN "queue_udp" ELSE IF k \in old THEN "dropped" ELSE at[k]
  BY <1>2
<1>7. Timed'
  <2>1. Timing => f \in DOMAIN data' /\ data'[f] = Stages("queue_udp")
    BY <1>1, <1>3 DEF Timed
  <2> QED
    BY <1>1, <1>3, <1>6, <2>1, TimedKept
<1>8. Measured'
  BY <1>1, <1>2, <1>6, MeasuredKept
<1>9. Stamped'
  BY <1>1, <1>6, StampedKept
<1> QED
  BY <1>5, <1>7, <1>8, <1>9 DEF FramesInv

LEMMA OverrunStep ==
  ASSUME FramesInv, NEW f \in Frames!Frame, Frames!_on_udp_queue_overrun(f)
  PROVE  FramesInv'
<1>1. /\ at[f] = "stamped" /\ at' = [at EXCEPT ![f] = "overrun"]
      /\ UNCHANGED <<data, measured, reading, failed, Frames!injector>>
  BY DEF Frames!_on_udp_queue_overrun, Frames!At, Frames!timer
<1>2. Queue /\ Timed /\ Measured /\ Stamped /\ at \in [Frames!Frame -> Frames!Place]
  BY DEF FramesInv, Queue
<1>3. /\ Rank("stamped") = 4 /\ Rank("overrun") = 4 /\ "overrun" \in Frames!Place
      /\ Stages("stamped") = Stages("overrun")
  BY DEF Rank, Frames!Place, Stages
<1>4. Queue' /\ \A k \in Frames!Frame : at'[k] = IF k = f THEN "overrun" ELSE at[k]
  BY <1>1, <1>2, <1>3, MovedAlone
<1>5. Timed'
  <2>1. Timing => f \in DOMAIN data' /\ data'[f] = Stages("overrun")
    BY <1>1, <1>2, <1>3 DEF Timed
  <2> QED
    BY <1>1, <1>2, <1>3, <1>4, <2>1, TimedKept
<1>6. Measured'
  BY <1>1, <1>2, <1>4, MeasuredKept
<1>7. Stamped'
  BY <1>1, <1>2, <1>4, StampedKept
<1> QED
  BY <1>4, <1>5, <1>6, <1>7 DEF FramesInv

LEMMA PayloadStep == FramesInv /\ Frames!_on_payloader_in => FramesInv'
<1> SUFFICES ASSUME FramesInv, Frames!_on_payloader_in PROVE FramesInv'
  OBVIOUS
<1> DEFINE f == Frames!Min(Frames!At("queue_udp"))
           passed == f \in DOMAIN data /\ data[f] = {"source", "capsfilter", "encoder"}
<1>1. /\ Frames!At("queue_udp") # {} /\ Frames!At("payloader") \cup Frames!At("purge") = {}
      /\ at' = [at EXCEPT ![f] = "payloader"]
      /\ data' = IF passed THEN Frames!Passed(f, "payloader_in") ELSE data
      /\ UNCHANGED <<measured, reading, failed, Frames!injector>>
  BY DEF Frames!_on_payloader_in
<1>2. Queue /\ Timed /\ Measured /\ Stamped /\ at \in [Frames!Frame -> Frames!Place]
  BY DEF FramesInv, Queue
<1>3. f \in Frames!Frame /\ at[f] = "queue_udp"
      /\ \A g \in Frames!Frame : at[g] = "queue_udp" /\ g # f => f < g
  BY <1>1, <1>2, First
<1>4. /\ Rank("queue_udp") = 5 /\ Rank("payloader") = 6 /\ "payloader" \in Frames!Place
      /\ Stages("queue_udp") = {"source", "capsfilter", "encoder"}
      /\ Stages("payloader") = Frames!Stage
  BY DEF Rank, Frames!Place, Stages
<1>5. Timing => passed
  BY <1>2, <1>3, <1>4 DEF Timed
<1>6. /\ DOMAIN data' = DOMAIN data /\ \A k \in DOMAIN data : k # f => data'[k] = data[k]
      /\ passed => data'[f] = Frames!Stage
  <2>1. /\ DOMAIN Frames!Passed(f, "payloader_in") = DOMAIN data
        /\ \A k \in DOMAIN data : k # f => Frames!Passed(f, "payloader_in")[k] = data[k]
        /\ f \in DOMAIN data => Frames!Passed(f, "payloader_in")[f] = data[f] \cup {"payloader_in"}
    BY Passing
  <2> HIDE DEF f
  <2> QED
    BY <1>1, <2>1 DEF Frames!Stage
<1>7. passed => f \in DOMAIN data
  OBVIOUS
<1> HIDE DEF f, passed
<1>8. \A g \in Frames!Frame : Rank(at[g]) # 6
  BY <1>1, <1>2, Ranks DEF Frames!At
<1>9. Queue' /\ \A k \in Frames!Frame : at'[k] = IF k = f THEN "payloader" ELSE at[k]
  <2>1. /\ Rank("payloader") = Rank(at[f]) + 1
        /\ \A g \in Frames!Frame : at[g] = at[f] /\ g # f => f < g
        /\ \A g \in Frames!Frame : Rank(at[g]) # Rank("payloader")
    BY <1>3, <1>4, <1>8
  <2>2. at' = [at EXCEPT ![f] = "payloader"]
    BY <1>1
  <2> QED
    BY <1>2, <1>3, <1>4, <2>1, <2>2, MovedAlone
<1>10. Timed'
  <2>1. Timing => f \in DOMAIN data' /\ data'[f] = Stages("payloader")
    BY <1>4, <1>5, <1>6, <1>7
  <2> QED
    BY <1>2, <1>4, <1>6, <1>9, <2>1, TimedKept
<1>11. Measured'
  BY <1>1, <1>2, <1>3, <1>6, <1>9, MeasuredKept
<1>12. Stamped'
  BY <1>1, <1>2, <1>3, <1>9, StampedKept
<1> QED
  BY <1>9, <1>10, <1>11, <1>12 DEF FramesInv

LEMMA SinkStep ==
  ASSUME FramesInv, NEW f \in Frames!Frame, Frames!_on_udpsink_buffer_list(f)
  PROVE  FramesInv'
<1>1. /\ at[f] = "payloader"
      /\ \/ /\ data' = Frames!Without(data, {f}) /\ measured' = f /\ reading' = DOMAIN data \ {f}
            /\ at' = [at EXCEPT ![f] = "purge"]
         \/ /\ ~(f \in DOMAIN data /\ "payloader_in" \in data[f])
            /\ at' = [at EXCEPT ![f] = "sent"] /\ UNCHANGED <<data, measured, reading>>
      /\ UNCHANGED <<failed, Frames!injector>>
  BY DEF Frames!_on_udpsink_buffer_list, Frames!At
<1>2. Queue /\ Timed /\ Measured /\ Stamped /\ at \in [Frames!Frame -> Frames!Place]
  BY DEF FramesInv, Queue
<1>3. /\ Rank("payloader") = 6 /\ Rank("purge") = 6 /\ Rank("sent") = 7
      /\ "purge" \in Frames!Place /\ "sent" \in Frames!Place
  BY DEF Rank, Frames!Place
<1>4. \A g \in Frames!Frame : g # f => at[g] \notin {"payloader", "purge"}
  BY <1>1, <1>2, <1>3 DEF Queue, Single
<1>5. CASE /\ data' = Frames!Without(data, {f}) /\ measured' = f /\ reading' = DOMAIN data \ {f}
           /\ at' = [at EXCEPT ![f] = "purge"]
  <2>1. Queue' /\ \A k \in Frames!Frame : at'[k] = IF k = f THEN "purge" ELSE at[k]
    BY <1>1, <1>2, <1>3, <1>5, MovedAlone
  <2>2. DOMAIN data' = DOMAIN data \ {f} /\ \A k \in DOMAIN data \ {f} : data'[k] = data[k]
    BY <1>5 DEF Frames!Without, Frames!Restrict
  <2>3. Timed'
    BY <1>2, <2>1, <2>2, TimedKept
  <2>4. Measured'
    BY <1>1, <1>2, <1>4, <1>5, <2>1, <2>2 DEF Measured
  <2>5. Stamped'
    BY <1>1, <1>2, <2>1, StampedKept
  <2> QED
    BY <2>1, <2>3, <2>4, <2>5 DEF FramesInv
<1>6. CASE at' = [at EXCEPT ![f] = "sent"] /\ UNCHANGED <<data, measured, reading>>
  <2>1. Queue' /\ \A k \in Frames!Frame : at'[k] = IF k = f THEN "sent" ELSE at[k]
    BY <1>1, <1>2, <1>3, <1>6, MovedAlone
  <2>2. Timed'
    BY <1>2, <1>3, <1>6, <2>1, TimedKept
  <2>3. Measured'
    BY <1>1, <1>2, <1>6, <2>1, MeasuredKept
  <2>4. Stamped'
    BY <1>1, <1>2, <2>1, StampedKept
  <2> QED
    BY <2>1, <2>2, <2>3, <2>4 DEF FramesInv
<1> QED
  BY <1>1, <1>5, <1>6

LEMMA PurgeStep == ASSUME FramesInv, NEW f \in Frames!Frame, Frames!Purge(f) PROVE FramesInv'
<1>1. /\ at[f] = "purge" /\ reading' = {}
      /\ data' = Frames!Without(data, {k \in reading : k < f}) /\ at' = [at EXCEPT ![f] = "sent"]
      /\ UNCHANGED <<measured, failed, Frames!injector>>
  BY DEF Frames!Purge, Frames!At
<1>2. Queue /\ Timed /\ Measured /\ Stamped /\ at \in [Frames!Frame -> Frames!Place]
  BY DEF FramesInv, Queue
<1>3. Rank("payloader") = 6 /\ Rank("purge") = 6 /\ Rank("sent") = 7 /\ "sent" \in Frames!Place
  BY DEF Rank, Frames!Place
<1>4. \A g \in Frames!Frame : g # f => at[g] # "purge"
  BY <1>1, <1>2, <1>3 DEF Queue, Single
<1>5. Queue' /\ \A k \in Frames!Frame : at'[k] = IF k = f THEN "sent" ELSE at[k]
  BY <1>1, <1>2, <1>3, MovedAlone
<1>6. /\ DOMAIN data' = {k \in DOMAIN data : ~(k \in reading /\ k < f)}
      /\ \A k \in DOMAIN data' : data'[k] = data[k]
  BY <1>1 DEF Frames!Without, Frames!Restrict
<1>7. \A k \in Frames!Frame : k # f /\ Rank(at[k]) \in 1 .. 6 => f < k
  <2> SUFFICES ASSUME NEW k \in Frames!Frame, k # f, Rank(at[k]) \in 1 .. 6
               PROVE  f < k
    OBVIOUS
  <2>1. Rank(at[k]) # 6
    BY <1>1, <1>2, <1>3 DEF Queue, Single
  <2>2. Rank(at[k]) < Rank(at[f]) /\ Rank(at[f]) <= 6
    BY <1>1, <1>3, <2>1
  <2> QED
    BY <1>2, <2>2 DEF Queue, Behind
<1>8. \A k \in Frames!Frame : f < k => ~(k < f)
  BY FrameAssumption DEF Frames!Frame
<1>9. Timed'
  <2>1. \A k \in Frames!Frame : k # f /\ Rank(at'[k]) \in 1 .. 6 /\ at'[k] # "purge" =>
          /\ Rank(at[k]) \in 1 .. 6 /\ at[k] # "purge" /\ at'[k] = at[k]
          /\ (k \in DOMAIN data => k \in DOMAIN data' /\ data'[k] = data[k])
    BY <1>5, <1>6, <1>7, <1>8
  <2>2. Rank(at'[f]) = 7
    BY <1>3, <1>5
  <2> QED
    BY <1>2, <2>1, <2>2, TimedKept
<1>10. Measured'
  <2>1. measured = f /\ f \notin DOMAIN data /\ \A k \in DOMAIN data : k < f => k \in reading
    BY <1>1, <1>2 DEF Measured
  <2>2. \A k \in DOMAIN data' : k \in Frames!Frame /\ k # f /\ ~(k < f)
    BY <1>2, <1>6, <2>1 DEF Measured
  <2>3. \A k \in DOMAIN data' : k > measured
    BY <2>1, <2>2, FrameAssumption DEF Frames!Frame
  <2>4. \A g \in Frames!Frame : at'[g] # "purge"
    BY <1>4, <1>5
  <2> QED
    BY <1>1, <1>2, <1>5, <2>1, <2>2, <2>3, <2>4 DEF Measured
<1>11. Stamped'
  BY <1>1, <1>2, <1>5, StampedKept
<1> QED
  BY <1>5, <1>9, <1>10, <1>11 DEF FramesInv

LEMMA RaiseStep == ASSUME FramesInv, NEW f \in Frames!Frame, Frames!PurgeRaises(f) PROVE FramesInv'
<1>1. /\ at[f] = "purge" /\ failed' = TRUE /\ at' = [at EXCEPT ![f] = "dropped"]
      /\ UNCHANGED <<data, measured, Frames!injector>>
  BY DEF Frames!PurgeRaises, Frames!At
<1>2. Queue /\ Timed /\ Measured /\ Stamped /\ at \in [Frames!Frame -> Frames!Place]
  BY DEF FramesInv, Queue
<1>3. Rank("purge") = 6 /\ Rank("dropped") = 7 /\ "dropped" \in Frames!Place
  BY DEF Rank, Frames!Place
<1>4. \A g \in Frames!Frame : g # f => at[g] # "purge"
  BY <1>1, <1>2, <1>3 DEF Queue, Single
<1>5. Queue' /\ \A k \in Frames!Frame : at'[k] = IF k = f THEN "dropped" ELSE at[k]
  BY <1>1, <1>2, <1>3, MovedAlone
<1>6. Timed'
  BY <1>1, <1>2, <1>3, <1>5, TimedKept
<1>7. Measured'
  BY <1>1, <1>2, <1>4, <1>5 DEF Measured
<1>8. Stamped'
  BY <1>1, <1>2, <1>5, StampedKept
<1> QED
  BY <1>5, <1>6, <1>7, <1>8 DEF FramesInv

LEMMA FramesInit == Frames!Init => FramesInv
<1> SUFFICES ASSUME Frames!Init PROVE FramesInv
  OBVIOUS
<1>1. /\ at = [f \in Frames!Frame |-> "none"] /\ data = <<>> /\ measured = 0 /\ failed = FALSE
      /\ pending = {} /\ stamp = [f \in Frames!Frame |-> 0]
  BY DEF Frames!Init
<1>2. Rank("none") = 0 /\ "none" \in Frames!Place
  BY DEF Rank, Frames!Place
<1>3. DOMAIN data = {}
  BY <1>1
<1>4. Queue
  BY <1>1, <1>2 DEF Queue, Fresh, Behind, Single
<1>5. Timed
  BY <1>1, <1>2 DEF Timed
<1>6. Measured
  BY <1>1, <1>3 DEF Measured
<1>7. Stamped
  BY <1>1 DEF Stamped
<1> QED
  BY <1>4, <1>5, <1>6, <1>7 DEF FramesInv

LEMMA FramesStep == FramesInv /\ [Frames!Next]_(Frames!vars) => FramesInv'
<1> SUFFICES ASSUME FramesInv, [Frames!Next]_(Frames!vars) PROVE FramesInv'
  OBVIOUS
<1>1. CASE UNCHANGED <<at, Frames!timer, Frames!injector>>
  BY <1>1 DEF Frames!timer, Frames!injector, FramesInv, Queue, Fresh, Behind, Single, Timed,
              Measured, Stamped
<1>2. CASE Frames!Building
  BY <1>1, <1>2 DEF Frames!Building, Frames!BuildSource, Frames!BuildEncoder, Frames!BuildUdp,
                    Frames!Play, Frames!on_demux_pad_added, Frames!Build
<1>3. CASE Frames!Encoding
  <2>1. ASSUME NEW f \in Frames!Frame, Frames!Push(f)
        PROVE  FramesInv'
    BY <2>1, PushStep DEF Frames!Push, Frames!At, Frames!timer
  <2>2. ASSUME NEW f \in Frames!Frame, Frames!AddTimeout(f)
        PROVE  FramesInv'
    BY <2>2, PushStep DEF Frames!AddTimeout, Frames!At, Frames!timer
  <2>3. CASE Frames!RemoveTimeout
    BY <1>1, <2>3 DEF Frames!RemoveTimeout
  <2> QED
    BY <1>3, <2>1, <2>2, <2>3, EncodedStep, StampStep, OverrunStep DEF Frames!Encoding
<1>4. CASE Frames!MainLoop
  BY <1>1, <1>4 DEF Frames!MainLoop, Frames!TimeoutEnds, Frames!TimeoutFires
<1>5. CASE Frames!Sending
  BY <1>5, PayloadStep, SinkStep, PurgeStep, RaiseStep DEF Frames!Sending
<1>6. CASE \/ Frames!_on_source_buffer \/ Frames!on_pre_encode
           \/ \E f \in Frames!Frame : Frames!_on_camera_buffer(f) \/ Frames!Lose(f)
  BY <1>6, SourceStep, EncodeStep, CameraStep, LoseStep
<1>7. CASE UNCHANGED Frames!vars
  BY <1>1, <1>7 DEF Frames!vars
<1> QED
  BY <1>2, <1>3, <1>4, <1>5, <1>6, <1>7 DEF Frames!Next

(* A frame on its way has the times of its own stages and in the end its   *)
(* own stamp, whatever is lost, and nothing older than the last frame that *)
(* was measured is kept (PipelineTimer.py, SEIInjector.py).                *)
THEOREM FrameTimesOwn == PipelineSpec => []TimesOwn
<1>1. FramesInv => Frames!TimesKept
  <2> SUFFICES ASSUME FramesInv, Timing PROVE Frames!TimesKept
    BY DEF Frames!TimesKept
  <2>1. Queue /\ Timed /\ Measured /\ at \in [Frames!Frame -> Frames!Place]
    BY DEF FramesInv, Queue
  <2>2. ASSUME NEW f \in Frames!Frame, at[f] \notin {"none", "sent", "lost", "dropped", "purge"}
        PROVE  /\ f \in DOMAIN data
               /\ data[f] = [p \in Frames!Place |->
                   IF p = "source" THEN {"source"}
                   ELSE IF p \in {"queue_encoder", "encoder"} THEN {"source", "capsfilter"}
                   ELSE IF p \in {"encoded", "stamped", "overrun", "queue_udp"}
                   THEN {"source", "capsfilter", "encoder"} ELSE Frames!Stage][at[f]]
    <3>1. at[f] \in Frames!Place /\ Rank(at[f]) \in 0 .. 7
      BY <2>1, Ranks
    <3>2. Rank(at[f]) \in 1 .. 6
      BY <2>2, <3>1, Ranks
    <3>3. f \in DOMAIN data /\ data[f] = Stages(at[f])
      BY <2>1, <2>2, <3>2 DEF Timed
    <3> QED
      BY <3>1, <3>3 DEF Stages
  <2>3. Frames!At("purge") = {} /\ ~failed => \A f \in DOMAIN data : f > measured
    BY <2>1 DEF Frames!At, Measured
  <2> QED
    BY <2>2, <2>3 DEF Frames!TimesKept
<1>2. FramesInv => Frames!OwnStamp
  BY DEF FramesInv, Stamped, Frames!OwnStamp
<1>3. PipelineInit => FramesInv
  BY FramesInit DEF PipelineInit
<1>4. FramesInv /\ [PipelineNext]_pipelineVars => FramesInv'
  <2>1. [PipelineNext]_pipelineVars => [Frames!Next]_(Frames!vars)
    BY DEF PipelineNext, pipelineVars, frameVars, Frames!vars, Frames!timer, Frames!injector,
           Frames!recovery
  <2> QED
    BY <2>1, FramesStep
<1>5. FramesInv => TimesOwn
  BY <1>1, <1>2 DEF TimesOwn
<1> QED
  BY <1>3, <1>4, <1>5, PTL DEF PipelineSpec

(* The theorems about recordings hold of the sum that the run checks.      *)
LEMMA PipelineRecording == PipelineSpec => Spec
<1>1. PipelineInit => Init
  BY DEF PipelineInit
<1>2. [PipelineNext]_pipelineVars => [Next]_vars
  BY DEF PipelineNext, pipelineVars
<1> QED
  BY <1>1, <1>2, PTL DEF PipelineSpec, Spec
-----------------------------------------------------------------------------
(* Properties set over the control server: the inductive invariant.        *)

(* Requests are numbered, and each is of one thread. *)
OneThreadEach ==
  /\ requests \in 0 .. MaxRequests
  /\ value \in 0 .. requests
  /\ thread \in [Connection -> [of : 0 .. requests, attempt : 1 .. MaxRetries,
                                at : {"idle", "set", "setting", "verify", "verifying"}]]
  /\ outcome \in [Connection -> 0 .. Settings!Failed]
  /\ answer \in [Settings!Request -> {"none", "success", "error"}]
  /\ \A c \in Connection : thread[c].at = "idle" <=> thread[c].of = 0
  /\ \A c, d \in Connection : thread[c].of = thread[d].of /\ thread[c].of # 0 => c = d

(* Each callback is waited for by one thread, which waits for no other. *)
Awaited ==
  /\ callbacks \in Seq(Settings!Call)
  /\ \A i \in DOMAIN callbacks : \E c \in Connection :
       Settings!Waits(c, callbacks[i]) /\ outcome[c] = Settings!Unset
  /\ \A i, j \in DOMAIN callbacks : callbacks[i].of = callbacks[j].of => i = j

(* What may end with an error has not set the property, or others have set *)
(* it since, and whoever is done with the request that set it last has     *)
(* said so.                                                                *)
NotYetSet(c) ==
  \/ thread[c].at = "set"
  \/ thread[c].at = "setting" /\ outcome[c] \in {Settings!Unset, Settings!Failed}
  \/ thread[c].at = "verifying" /\ outcome[c] \notin {Settings!Unset, thread[c].of}

LastSet ==
  /\ \A c \in Connection : NotYetSet(c) => value # thread[c].of
  /\ value # 0 /\ (\A c \in Connection : thread[c].of # value) => answer[value] = "success"

KeepInv == OneThreadEach /\ Awaited /\ LastSet

LEMMA KeepInit == Settings!Init => KeepInv
<1> SUFFICES ASSUME Settings!Init PROVE KeepInv
  OBVIOUS
<1> USE DEF Settings!Init, Settings!Idle, Settings!Unset, Settings!Failed, Settings!Request
<1>1. MaxRequests \in Nat /\ MaxRetries \in Nat \ {0}
  BY StreamerAssumption
<1>2. OneThreadEach
  BY <1>1 DEF OneThreadEach
<1>3. Awaited
  BY DEF Awaited
<1>4. LastSet
  BY <1>1 DEF LastSet, NotYetSet
<1> QED
  BY <1>2, <1>3, <1>4 DEF KeepInv

(* A thread that goes on to what awaits no callback.  *)
LEMMA OthersAwait ==
  ASSUME Awaited, NEW c \in Connection, UNCHANGED callbacks,
         \A d \in Connection \ {c} : thread'[d] = thread[d] /\ outcome'[d] = outcome[d],
         \/ outcome[c] # Settings!Unset
         \/ thread[c].at \notin {"setting", "verifying"}
  PROVE  Awaited'
<1> SUFFICES ASSUME NEW i \in DOMAIN callbacks
             PROVE  \E d \in Connection :
                      (Settings!Waits(d, callbacks[i]) /\ outcome[d] = Settings!Unset)'
  BY DEF Awaited, Settings!Call, Settings!Request
<1>1. PICK d \in Connection : Settings!Waits(d, callbacks[i]) /\ outcome[d] = Settings!Unset
  BY DEF Awaited
<1>2. d # c
  BY <1>1 DEF Settings!Waits
<1> QED
  BY <1>1, <1>2 DEF Settings!Waits, Settings!Unset

LEMMA KeepRequest ==
  ASSUME KeepInv, NEW c \in Connection, Settings!_handle_set(c) PROVE KeepInv'
<1> USE DEF Settings!Request, Settings!Failed
<1>1. /\ MaxRequests \in Nat /\ MaxRetries \in Nat \ {0}
      /\ thread[c].at = "idle" /\ requests < MaxRequests /\ requests' = requests + 1
      /\ thread' = [thread EXCEPT ![c] = [of |-> requests', attempt |-> 1, at |-> "set"]]
      /\ UNCHANGED <<value, outcome, callbacks, dispatching, answer>>
  BY StreamerAssumption DEF Settings!_handle_set
<1>2. OneThreadEach /\ thread[c].of = 0
  BY <1>1 DEF KeepInv, OneThreadEach
<1>3. /\ thread'[c].of = requests + 1 /\ thread'[c].at = "set" /\ thread'[c].attempt = 1
      /\ \A d \in Connection \ {c} : thread'[d] = thread[d]
      /\ \A d \in Connection : thread[d].of \in 0 .. requests
  BY <1>1, <1>2 DEF OneThreadEach
<1>4. OneThreadEach'
  <2>1. thread' \in [Connection -> [of : 0 .. requests', attempt : 1 .. MaxRetries,
                                at : {"idle", "set", "setting", "verify", "verifying"}]]
    BY <1>1, <1>2 DEF OneThreadEach
  <2> QED
    BY <1>1, <1>2, <1>3, <2>1 DEF OneThreadEach
<1>5. Awaited'
  BY <1>1, <1>3, OthersAwait DEF KeepInv
<1>6. LastSet'
  <2>1. value' \in 0 .. requests /\ value' = value
    BY <1>1, <1>2 DEF OneThreadEach
  <2>2. ASSUME NEW d \in Connection, NotYetSet(d)' PROVE value' # thread'[d].of
    <3>1. CASE d = c
      BY <1>1, <1>2, <1>3, <2>1, <3>1 DEF OneThreadEach
    <3>2. CASE d # c
      BY <1>1, <1>3, <2>2, <3>2 DEF KeepInv, LastSet, NotYetSet, Settings!Unset
    <3> QED
      BY <3>1, <3>2
  <2>3. (\A d \in Connection : thread'[d].of # value') => \A d \in Connection : thread[d].of # value \/ value = 0
    BY <1>2, <1>3, <2>1
  <2> QED
    BY <1>1, <2>1, <2>2, <2>3 DEF KeepInv, LastSet
<1> QED
  BY <1>4, <1>5, <1>6 DEF KeepInv

LEMMA KeepAsk ==
  ASSUME KeepInv, NEW c \in Connection, Settings!AskSet(c) \/ Settings!AskVerify(c) PROVE KeepInv'
<1> DEFINE ask == [of |-> thread[c].of, attempt |-> thread[c].attempt,
                   what |-> IF thread[c].at = "set" THEN "set" ELSE "verify"]
<1>1. /\ thread[c].at \in {"set", "verify"}
      /\ callbacks' = Append(callbacks, ask)
      /\ outcome' = [outcome EXCEPT ![c] = Settings!Unset]
      /\ thread' = [thread EXCEPT ![c].at = IF thread[c].at = "set" THEN "setting" ELSE "verifying"]
      /\ UNCHANGED <<value, requests, dispatching, answer>>
  BY DEF Settings!AskSet, Settings!AskVerify, Settings!IdleAdd
<1> HIDE DEF ask
<1>2. OneThreadEach /\ Awaited /\ LastSet /\ MaxRequests \in Nat
  BY StreamerAssumption DEF KeepInv
<1>3. /\ thread'[c].of = thread[c].of /\ thread'[c].attempt = thread[c].attempt
      /\ thread'[c].at = (IF thread[c].at = "set" THEN "setting" ELSE "verifying")
      /\ \A d \in Connection \ {c} : thread'[d] = thread[d] /\ outcome'[d] = outcome[d]
      /\ outcome'[c] = Settings!Unset /\ thread[c].of # 0
  BY <1>1, <1>2 DEF OneThreadEach
<1>4. OneThreadEach'
  <2>1. thread' \in [Connection -> [of : 0 .. requests, attempt : 1 .. MaxRetries,
                                at : {"idle", "set", "setting", "verify", "verifying"}]]
    BY <1>1, <1>2 DEF OneThreadEach
  <2>2. outcome' \in [Connection -> 0 .. Settings!Failed]
    BY <1>1, <1>2 DEF OneThreadEach, Settings!Failed, Settings!Unset
  <2>3. \A d \in Connection : thread'[d].of = thread[d].of /\ (thread'[d].at = "idle" <=> thread[d].at = "idle")
    BY <1>1, <1>3
  <2>4. UNCHANGED <<value, requests, answer, Settings!Failed>>
    BY <1>1 DEF Settings!Failed
  <2> QED
    BY <1>2, <2>1, <2>2, <2>3, <2>4 DEF OneThreadEach, Settings!Request
<1>5. Awaited'
  <2>1. ask \in Settings!Call
    BY <1>1, <1>2, <1>3 DEF ask, OneThreadEach, Settings!Call, Settings!Request
  <2>2. callbacks \in Seq(Settings!Call)
    BY <1>2 DEF Awaited
  <2>3. /\ callbacks' \in Seq(Settings!Call) /\ Len(callbacks') = Len(callbacks) + 1
        /\ callbacks'[Len(callbacks')] = ask /\ \A i \in DOMAIN callbacks : callbacks'[i] = callbacks[i]
        /\ DOMAIN callbacks = 1 .. Len(callbacks) /\ DOMAIN callbacks' = 1 .. Len(callbacks')
        /\ Len(callbacks) \in Nat
    BY <1>1, <2>1, <2>2
  <2>4. ASSUME NEW i \in DOMAIN callbacks
        PROVE  \E d \in Connection \ {c} : Settings!Waits(d, callbacks[i]) /\ outcome[d] = Settings!Unset
    BY <1>1, <1>2 DEF Awaited, Settings!Waits
  <2>5. \A i \in DOMAIN callbacks : callbacks[i].of # ask.of
    BY <1>2, <1>3, <2>4 DEF ask, OneThreadEach, Settings!Waits
  <2>6. ASSUME NEW i \in DOMAIN callbacks'
        PROVE  \E d \in Connection : (Settings!Waits(d, callbacks[i]) /\ outcome[d] = Settings!Unset)'
    <3>1. CASE i \in DOMAIN callbacks
      BY <3>1, <1>3, <2>3, <2>4 DEF Settings!Waits, Settings!Unset
    <3>2. CASE i = Len(callbacks')
      <4>1. callbacks'[i] = ask /\ Settings!Unset' = Settings!Unset
        BY <3>2, <2>3 DEF Settings!Unset
      <4>2. thread'[c].of = ask.of /\ thread'[c].attempt = ask.attempt
            /\ thread'[c].at = IF ask.what = "set" THEN "setting" ELSE "verifying"
        BY <1>1, <1>3 DEF ask
      <4> QED
        BY <1>3, <4>1, <4>2 DEF Settings!Waits
    <3> QED
      BY <3>1, <3>2, <2>3
  <2>7. \A i, j \in DOMAIN callbacks' : callbacks'[i].of = callbacks'[j].of => i = j
    <3> SUFFICES ASSUME NEW i \in DOMAIN callbacks', NEW j \in DOMAIN callbacks',
                        callbacks'[i].of = callbacks'[j].of
                 PROVE  i = j
      OBVIOUS
    <3>1. (i \in DOMAIN callbacks \/ i = Len(callbacks')) /\ (j \in DOMAIN callbacks \/ j = Len(callbacks'))
      BY <2>3
    <3> QED
      BY <3>1, <2>3, <2>5, <1>2 DEF Awaited
  <2> QED
    BY <2>3, <2>6, <2>7 DEF Awaited, Settings!Call, Settings!Request
<1>6. LastSet'
  <2>1. ASSUME NEW d \in Connection, NotYetSet(d)' PROVE value' # thread'[d].of
    <3>1. CASE d # c
      BY <1>1, <1>2, <1>3, <2>1, <3>1 DEF LastSet, NotYetSet, Settings!Unset, Settings!Failed
    <3>2. CASE d = c
      BY <1>1, <1>2, <1>3, <2>1, <3>2 DEF LastSet, NotYetSet, Settings!Unset
    <3> QED
      BY <3>1, <3>2
  <2>2. \A d \in Connection : thread'[d].of = thread[d].of
    BY <1>3
  <2> QED
    BY <1>1, <1>2, <2>1, <2>2 DEF LastSet
<1> QED
  BY <1>4, <1>5, <1>6 DEF KeepInv

LEMMA KeepGoOn ==
  ASSUME KeepInv, NEW c \in Connection, UNCHANGED <<value, requests, outcome, callbacks>>,
         thread[c].at # "idle", outcome[c] # Settings!Unset,
         \/ /\ thread[c].at = "setting" /\ outcome[c] \in Settings!Request
            /\ thread' = [thread EXCEPT ![c].at = "verify"] /\ UNCHANGED answer
         \/ /\ NotYetSet(c) /\ thread[c].attempt # MaxRetries
            /\ thread' = [thread EXCEPT ![c].at = "set", ![c].attempt = @ + 1] /\ UNCHANGED answer
         \/ \E status \in {"success", "error"} :
              /\ status = "error" => NotYetSet(c)
              /\ thread[c].at \in {"setting", "verifying"} /\ Settings!Reply(c, status)
  PROVE  KeepInv'
<1>1. OneThreadEach /\ Awaited /\ LastSet /\ MaxRequests \in Nat /\ MaxRetries \in Nat \ {0}
  BY StreamerAssumption DEF KeepInv
<1>2. thread[c].of \in Settings!Request
  BY <1>1 DEF OneThreadEach, Settings!Request
<1>3. /\ \A d \in Connection \ {c} : thread'[d] = thread[d]
      /\ \/ thread'[c].of = 0 /\ thread'[c].at = "idle"
         \/ thread'[c].of = thread[c].of /\ thread'[c].at # "idle"
      /\ thread' \in [Connection -> [of : 0 .. requests, attempt : 1 .. MaxRetries,
                                at : {"idle", "set", "setting", "verify", "verifying"}]]
      /\ answer' \in [Settings!Request -> {"none", "success", "error"}]
  <2>1. CASE thread' = [thread EXCEPT ![c].at = "verify"] /\ UNCHANGED answer
    BY <1>1, <1>2, <2>1 DEF OneThreadEach
  <2>2. CASE /\ thread[c].attempt # MaxRetries /\ UNCHANGED answer
             /\ thread' = [thread EXCEPT ![c].at = "set", ![c].attempt = @ + 1]
    BY <1>1, <1>2, <2>2 DEF OneThreadEach
  <2>3. CASE \E status \in {"success", "error"} : Settings!Reply(c, status)
    BY <1>1, <1>2, <2>3 DEF OneThreadEach, Settings!Reply, Settings!Idle
  <2> QED
    BY <2>1, <2>2, <2>3
<1>4. OneThreadEach'
  <2>1. \A d \in Connection : thread'[d].of = thread[d].of \/ (d = c /\ thread'[d].of = 0)
    <3>1. thread'[c].of = 0 \/ thread'[c].of = thread[c].of
      BY <1>3
    <3> QED
      BY <1>3, <3>1
  <2>2. \A d \in Connection : thread'[d].at = "idle" <=> thread'[d].of = 0
    BY <1>1, <1>2, <1>3 DEF OneThreadEach, Settings!Request
  <2>3. \A d, e \in Connection : thread'[d].of = thread'[e].of /\ thread'[d].of # 0 => d = e
    BY <1>1, <2>1 DEF OneThreadEach
  <2> QED
    BY <1>1, <1>3, <2>2, <2>3 DEF OneThreadEach, Settings!Request, Settings!Failed
<1>5. Awaited'
  BY <1>1, <1>3, OthersAwait
<1>6. LastSet'
  <2>1. ASSUME NEW d \in Connection, NotYetSet(d)' PROVE value' # thread'[d].of
    <3>1. CASE d # c
      BY <1>1, <1>3, <2>1, <3>1 DEF LastSet, NotYetSet, Settings!Unset, Settings!Failed
    <3>2. CASE d = c
      <4>1. thread'[c].at \in {"idle", "set", "verify"}
        BY <1>1 DEF OneThreadEach, Settings!Reply, Settings!Idle
      <4>2. thread'[c].at = "set"
        BY <2>1, <3>2, <4>1 DEF NotYetSet
      <4>3. NotYetSet(c) /\ thread'[c].of = thread[c].of
        BY <1>1, <4>2 DEF OneThreadEach, Settings!Reply, Settings!Idle
      <4> QED
        BY <1>1, <3>2, <4>3 DEF LastSet
    <3> QED
      BY <3>1, <3>2
  <2>2. ASSUME value # 0, \A d \in Connection : thread'[d].of # value
        PROVE  answer'[value] = "success"
    <3>1. CASE \A d \in Connection : thread[d].of # value
      <4>1. answer[value] = "success" /\ value # thread[c].of
        BY <1>1, <2>2, <3>1 DEF LastSet
      <4>2. answer'[value] = answer[value]
        BY <1>1, <1>2, <2>2, <4>1 DEF Settings!Reply, OneThreadEach, Settings!Request
      <4> QED
        BY <4>1, <4>2
    <3>2. CASE thread[c].of = value
      <4>1. thread'[c].of # thread[c].of /\ ~NotYetSet(c)
        BY <1>1, <2>2, <3>2 DEF LastSet
      <4>2. PICK status \in {"success", "error"} :
              (status = "error" => NotYetSet(c)) /\ Settings!Reply(c, status)
        BY <1>1, <4>1 DEF OneThreadEach
      <4> QED
        BY <1>1, <1>2, <3>2, <4>1, <4>2 DEF Settings!Reply, OneThreadEach
    <3> QED
      BY <1>3, <2>2, <3>1, <3>2
  <2> QED
    BY <2>1, <2>2 DEF LastSet
<1> QED
  BY <1>4, <1>5, <1>6 DEF KeepInv

LEMMA KeepDone ==
  ASSUME KeepInv, ~Slow, dispatching, NEW c \in Connection,
         Settings!SetDone(c) \/ Settings!VerifyDone(c)
  PROVE  KeepInv'
<1>1. ~Settings!TimedOut(c) /\ MaxRequests \in Nat /\ OneThreadEach
  BY StreamerAssumption DEF Settings!TimedOut, KeepInv
<1>2. outcome[c] # Settings!Unset /\ UNCHANGED <<value, requests, outcome, callbacks>>
      /\ thread[c].at \in {"setting", "verifying"}
  <2>1. \/ outcome[c] # Settings!Unset
        \/ outcome[c] \in Settings!Request
        \/ outcome[c] = Settings!Failed
    BY <1>1 DEF Settings!SetDone, Settings!VerifyDone
  <2>2. outcome[c] # Settings!Unset
    BY <1>1, <2>1 DEF Settings!Unset, Settings!Failed, Settings!Request
  <2> QED
    BY <2>2 DEF Settings!SetDone, Settings!VerifyDone
<1>3. CASE Settings!SetDone(c)
  <2>1. CASE outcome[c] \in Settings!Request /\ thread' = [thread EXCEPT ![c].at = "verify"] /\ UNCHANGED answer
    BY <1>2, <1>3, <2>1, KeepGoOn DEF Settings!SetDone
  <2>2. CASE outcome[c] = Settings!Failed /\ Settings!Reply(c, "error")
    BY <1>2, <1>3, <2>2, KeepGoOn DEF Settings!SetDone, NotYetSet
  <2> QED
    BY <1>1, <1>3, <2>1, <2>2 DEF Settings!SetDone
<1>4. CASE Settings!VerifyDone(c)
  <2>1. CASE outcome[c] = thread[c].of /\ Settings!Reply(c, "success")
    BY <1>2, <1>4, <2>1, KeepGoOn
  <2>2. CASE outcome[c] # thread[c].of
    <3>1. NotYetSet(c)
      BY <1>2, <1>4, <2>2 DEF Settings!VerifyDone, NotYetSet
    <3>2. CASE thread[c].attempt = MaxRetries /\ Settings!Reply(c, "error")
      BY <1>2, <3>1, <3>2, KeepGoOn
    <3>3. CASE thread[c].attempt # MaxRetries
      BY <1>2, <1>4, <2>2, <3>1, <3>3, KeepGoOn DEF Settings!VerifyDone
    <3> QED
      BY <1>4, <2>2, <3>2, <3>3 DEF Settings!VerifyDone
  <2> QED
    BY <1>4, <2>1, <2>2 DEF Settings!VerifyDone
<1> QED
  BY <1>3, <1>4

LEMMA KeepDispatch ==
  ASSUME KeepInv, Settings!Dispatch PROVE KeepInv'
<1> DEFINE call == Head(callbacks)
<1>1. OneThreadEach /\ Awaited /\ LastSet /\ MaxRequests \in Nat
  BY StreamerAssumption DEF KeepInv
<1>2. /\ callbacks \in Seq(Settings!Call) /\ callbacks # <<>> /\ callbacks' = Tail(callbacks)
      /\ UNCHANGED <<requests, thread, dispatching, answer>>
      /\ Settings!_do_set(call) \/ Settings!_do_verify(call)
  BY <1>1 DEF Settings!Dispatch, Awaited
<1>3. /\ call = callbacks[1] /\ 1 \in DOMAIN callbacks /\ callbacks' \in Seq(Settings!Call)
      /\ \A i \in DOMAIN callbacks' : i + 1 \in DOMAIN callbacks /\ callbacks'[i] = callbacks[i + 1]
                                      /\ i \in Nat \ {0}
  BY <1>2
<1> HIDE DEF call
<1>4. PICK w \in Connection : Settings!Waits(w, call) /\ outcome[w] = Settings!Unset
  BY <1>1, <1>3 DEF Awaited
<1>5. thread[w].of = call.of /\ call.of # 0 /\ call.of \in 1 .. MaxRequests /\ call.of \in 1 .. requests
  BY <1>1, <1>4 DEF Settings!Waits, OneThreadEach
<1>6. \A d \in Connection : Settings!Waits(d, call) <=> d = w
  BY <1>1, <1>4, <1>5 DEF Settings!Waits, OneThreadEach
<1>7. PICK o \in 0 .. Settings!Failed :
        /\ outcome' = [outcome EXCEPT ![w] = o] /\ o # Settings!Unset
        /\ \/ /\ call.what = "set" /\ o = call.of /\ value' \in {call.of, value}
           \/ call.what = "set" /\ o = Settings!Failed /\ value' = value
           \/ call.what = "verify" /\ o = value /\ value' = value
  <2>1. ASSUME NEW o, Settings!Leaves(call, o) PROVE outcome' = [outcome EXCEPT ![w] = o]
    BY <1>1, <1>6, <2>1 DEF Settings!Leaves, OneThreadEach
  <2>2. call.of \in 0 .. Settings!Failed /\ call.of # Settings!Unset
    BY <1>1, <1>5 DEF Settings!Failed, Settings!Unset
  <2>3. Settings!Failed \in 0 .. Settings!Failed /\ Settings!Failed # Settings!Unset
    BY <1>1 DEF Settings!Failed, Settings!Unset
  <2>4. value \in 0 .. Settings!Failed /\ value # Settings!Unset
    BY <1>1 DEF Settings!Failed, Settings!Unset, OneThreadEach
  <2>5. CASE Settings!_do_set(call)
    <3>1. CASE value' \in {call.of, value} /\ Settings!Leaves(call, call.of)
      BY <2>1, <2>2, <2>5, <3>1 DEF Settings!_do_set
    <3>2. CASE UNCHANGED value /\ Settings!Leaves(call, Settings!Failed)
      BY <2>1, <2>3, <2>5, <3>2 DEF Settings!_do_set
    <3> QED
      BY <2>5, <3>1, <3>2 DEF Settings!_do_set
  <2>6. CASE Settings!_do_verify(call)
    BY <2>1, <2>4, <2>6 DEF Settings!_do_verify
  <2> QED
    BY <1>2, <2>5, <2>6
<1>8. /\ outcome'[w] = o /\ \A d \in Connection \ {w} : outcome'[d] = outcome[d]
      /\ value' \in 0 .. requests
  BY <1>1, <1>5, <1>7 DEF OneThreadEach
<1>9. OneThreadEach'
  <2>1. outcome' \in [Connection -> 0 .. Settings!Failed]
    BY <1>1, <1>7 DEF OneThreadEach
  <2>2. UNCHANGED <<requests, thread, answer, Settings!Failed>>
    BY <1>2 DEF Settings!Failed
  <2> QED
    BY <1>1, <1>8, <2>1, <2>2 DEF OneThreadEach, Settings!Request
<1>10. Awaited'
  <2>1. ASSUME NEW i \in DOMAIN callbacks'
        PROVE  \E d \in Connection : (Settings!Waits(d, callbacks[i]) /\ outcome[d] = Settings!Unset)'
    <3>1. PICK d \in Connection : Settings!Waits(d, callbacks[i + 1]) /\ outcome[d] = Settings!Unset
      BY <1>1, <1>3 DEF Awaited
    <3>2. callbacks[i + 1].of # call.of
      <4>1. i + 1 \in DOMAIN callbacks /\ 1 \in DOMAIN callbacks /\ i + 1 # 1
        BY <1>3
      <4> QED
        BY <1>1, <1>3, <4>1 DEF Awaited
    <3>3. d # w
      BY <1>5, <3>1, <3>2 DEF Settings!Waits
    <3> QED
      BY <1>2, <1>3, <1>8, <3>1, <3>3 DEF Settings!Waits, Settings!Unset
  <2>2. \A i, j \in DOMAIN callbacks' : callbacks'[i].of = callbacks'[j].of => i = j
    <3> SUFFICES ASSUME NEW i \in DOMAIN callbacks', NEW j \in DOMAIN callbacks',
                        callbacks'[i].of = callbacks'[j].of
                 PROVE  i = j
      OBVIOUS
    <3>1. i + 1 \in DOMAIN callbacks /\ j + 1 \in DOMAIN callbacks /\ i \in Nat /\ j \in Nat
          /\ callbacks[i + 1].of = callbacks[j + 1].of
      BY <1>3
    <3>2. i + 1 = j + 1
      BY <1>1, <3>1 DEF Awaited
    <3> QED
      BY <3>1, <3>2
  <2> QED
    BY <1>3, <2>1, <2>2 DEF Awaited, Settings!Call, Settings!Request
<1>11. LastSet'
  <2>1. ASSUME NEW d \in Connection, NotYetSet(d)' PROVE value' # thread'[d].of
    <3>1. CASE d # w
      <4>1. NotYetSet(d) /\ thread'[d] = thread[d]
        BY <1>2, <1>8, <2>1, <3>1 DEF NotYetSet, Settings!Unset, Settings!Failed
      <4>2. thread[d].of # call.of /\ value # thread[d].of
        BY <1>1, <1>5, <3>1, <4>1 DEF OneThreadEach, LastSet
      <4> QED
        BY <1>7, <4>1, <4>2
    <3>2. CASE d = w
      <4>1. /\ thread[w].at = IF call.what = "set" THEN "setting" ELSE "verifying"
            /\ thread'[w] = thread[w]
        BY <1>2, <1>4 DEF Settings!Waits
      <4>2. CASE call.what = "set"
        <5>1. o # call.of
          BY <1>1, <1>5, <1>8, <2>1, <3>2, <4>1, <4>2 DEF NotYetSet, Settings!Unset, Settings!Failed
        <5>2. NotYetSet(w)
          BY <1>4, <4>1, <4>2 DEF NotYetSet
        <5>3. value # thread[w].of
          BY <1>1, <5>2 DEF LastSet
        <5> QED
          BY <1>7, <3>2, <4>1, <4>2, <5>1, <5>3
      <4>3. CASE call.what = "verify"
        <5>1. o # thread[w].of
          BY <1>8, <2>1, <3>2, <4>1, <4>3 DEF NotYetSet
        <5> QED
          BY <1>7, <3>2, <4>1, <4>3, <5>1
      <4> QED
        BY <1>7, <4>2, <4>3
    <3> QED
      BY <3>1, <3>2
  <2>2. ASSUME value' # 0, \A d \in Connection : thread'[d].of # value'
        PROVE  answer'[value'] = "success"
    <3>1. value' = value
      BY <1>2, <1>5, <1>7, <2>2
    <3> QED
      BY <1>1, <1>2, <2>2, <3>1 DEF LastSet
  <2> QED
    BY <2>1, <2>2 DEF LastSet
<1> QED
  BY <1>9, <1>10, <1>11 DEF KeepInv

LEMMA KeepStep ==
  ASSUME ~Slow, dispatching => KeepInv, [Settings!Next]_(Settings!vars)
  PROVE  (dispatching => KeepInv)'
<1> SUFFICES ASSUME dispatching' PROVE KeepInv'
  OBVIOUS
<1>1. dispatching /\ KeepInv
  BY DEF Settings!Next, Settings!vars, Settings!Dispatch, Settings!Quit, Settings!_handle_set,
         Settings!Serve, Settings!AskSet, Settings!AskVerify, Settings!IdleAdd, Settings!SetDone,
         Settings!VerifyDone
<1>2. CASE UNCHANGED Settings!vars
  BY <1>1, <1>2 DEF Settings!vars, KeepInv, OneThreadEach, Awaited, LastSet, NotYetSet,
                    Settings!Unset, Settings!Failed, Settings!Request, Settings!Waits, Settings!Call
<1>3. CASE Settings!Quit
  BY <1>3 DEF Settings!Quit
<1>4. ASSUME NEW c \in Connection, Settings!_handle_set(c) \/ Settings!Serve(c) PROVE KeepInv'
  BY <1>1, <1>4, KeepRequest, KeepAsk, KeepDone DEF Settings!Serve
<1> QED
  BY <1>1, <1>2, <1>3, <1>4, KeepDispatch DEF Settings!Next

(* As long as the main loop is quicker than the threads wait, a property   *)
(* that nobody is setting any longer has the value of a request that was   *)
(* answered with success, for any number of connections, requests and      *)
(* attempts, however they take turns (set_property of Streamer.py).        *)
THEOREM KeptAsConfirmed ==
  ASSUME ~Slow PROVE StreamerSpec => []Settings!KeptIsConfirmed
<1>1. StreamerInit => (dispatching => KeepInv)
  BY KeepInit DEF StreamerInit
<1>2. (dispatching => KeepInv) /\ [StreamerNext]_streamerVars => (dispatching => KeepInv)'
  <2>1. [StreamerNext]_streamerVars => [Settings!Next]_(Settings!vars)
    BY DEF StreamerNext, streamerVars, settingVars, Settings!vars
  <2> QED
    BY <2>1, KeepStep
<1>3. (dispatching => KeepInv) => Settings!KeptIsConfirmed
  BY DEF KeepInv, OneThreadEach, LastSet, Settings!KeptIsConfirmed
<1> QED
  BY <1>1, <1>2, <1>3, PTL DEF StreamerSpec

-----------------------------------------------------------------------------
(* The end of the control application: the inductive invariant.            *)

AppPlace ==
  {"none", "setup", "connect", "loop", "stop_rx", "stop_tx", "await_tx", "join_rx", "joining_rx",
   "join_tx", "joining_tx", "joined", "close", "join", "idle", "zero", "handlers", "socket",
   "transmitter", "receiver", "start_tx", "start_rx", "ended", "failed", "crashed"}
Attribute == {"socket", "transmitter", "receiver"}

Shapes ==
  /\ doing \in [App!Client -> AppPlace] /\ using \in [Attribute -> Nat]
  /\ receiver \in [App!Built -> App!Thread]
  /\ pwm \in [App!Output -> App!Pulse]
  /\ todo \in [App!Writer -> Seq(App!Output \X App!Pulse)]

(* Before the Client is started it has no thread. *)
Early == doing["main"] \in {"setup", "connect", "failed"}
Unstarted ==
  /\ Early => doing["run"] = "none" /\ using["receiver"] = 0
  /\ Early => \A c \in App!Built : receiver[c] = "none"

(* One receiver runs at most, and none while the run thread has one to     *)
(* build.                                                                  *)
OneReceiver ==
  \A c \in App!Built : receiver[c] = "running" =>
    c = using["receiver"] /\ doing["run"] \in {"loop", "handlers", "stop_rx", "ended"}

(* An end that is apart from a loss is alone: the run thread builds        *)
(* nothing meanwhile, no receiver is left to run once it was stopped, and  *)
(* from then on writes come to an end: those of the run thread before that *)
(* has ended, those of the workers before the outputs are set to zero.     *)
Late == ~Early /\ doing["main"] # "loop"
RestZero == App!Rest("zero")
Zeroing ==
  /\ todo[App!MainWriter] \in {RestZero, Tail(RestZero), <<>>}
  /\ todo[App!MainWriter] # RestZero => pwm["throttle"] = "zero"
  /\ todo[App!MainWriter] = <<>> => pwm["steering"] = "zero"
EndAlone ==
  /\ Late => doing["run"] \in {"loop", "ended"} /\ state # "DISCONNECTED"
  /\ Late /\ doing["main"] # "stop_rx" => \A c \in App!Built : receiver[c] # "running"
  /\ doing["main"] \in {"idle", "zero", "ended"} => doing["run"] = "ended"
  /\ doing["run"] = "ended" => todo[App!RunWriter] = <<>>
  /\ doing["main"] \in {"zero", "ended"} => \A c \in App!Built : todo[c] = <<>>
  /\ doing["main"] = "zero" => Zeroing
  /\ doing["main"] = "ended" =>
       todo[App!MainWriter] = <<>> /\ pwm = [o \in App!Output |-> "zero"] /\ ~powered

AppInv == Shapes /\ Unstarted /\ OneReceiver /\ (apart => EndAlone)

LEMMA Writers ==
  /\ App!Writer = App!Built \cup {App!RunWriter, App!MainWriter}
  /\ App!RunWriter \notin App!Built /\ App!MainWriter \notin App!Built
  /\ App!RunWriter # App!MainWriter /\ 0 \in App!Built
BY StreamerAssumption DEF App!Writer, App!Built, App!RunWriter, App!MainWriter

LEMMA RestIsWritten ==
  ASSUME NEW v \in App!Pulse
  PROVE  /\ App!Rest(v) \in Seq(App!Output \X App!Pulse) /\ App!Rest(v) # <<>>
         /\ Head(App!Rest(v)) = <<"throttle", v>>
         /\ Tail(App!Rest(v)) = << <<"steering", v>> >>
         /\ Tail(App!Rest(v)) # <<>> /\ Tail(App!Rest(v)) # App!Rest(v)
         /\ Head(Tail(App!Rest(v))) = <<"steering", v>> /\ Tail(Tail(App!Rest(v))) = <<>>
<1>1. "throttle" \in App!Output /\ "steering" \in App!Output
  BY DEF App!Output
<1>2. App!Rest(v) = << <<"throttle", v>>, <<"steering", v>> >>
  BY DEF App!Rest
<1>3. <<"throttle", v>> \in App!Output \X App!Pulse /\ <<"steering", v>> \in App!Output \X App!Pulse
  BY <1>1
<1>4. <<"throttle", v>> # <<"steering", v>>
  OBVIOUS
<1> QED
  BY <1>2, <1>3, <1>4

LEMMA AppInit == App!Init => AppInv
<1> SUFFICES ASSUME App!Init PROVE AppInv
  OBVIOUS
<1>1. Shapes
  BY DEF App!Init, Shapes, App!Client, AppPlace, Attribute, App!Thread, App!Output, App!Pulse,
         App!Writer
<1>2. /\ doing["main"] = "setup" /\ doing["run"] = "none" /\ using["receiver"] = 0
      /\ \A c \in App!Built : receiver[c] = "none"
  BY DEF App!Init, App!Client
<1> QED
  BY <1>1, <1>2 DEF AppInv, Unstarted, Early, OneReceiver, EndAlone, Late

(* What a thread of the Client that takes a step leaves alone. *)
LEMMA Moves ==
  ASSUME Shapes, NEW t \in App!Client, NEW from, NEW to \in AppPlace, App!Step(t, from, to)
  PROVE  /\ doing' \in [App!Client -> AppPlace] /\ doing[t] = from /\ doing'[t] = to
         /\ \A u \in App!Client : u # t => doing'[u] = doing[u]
BY DEF Shapes, App!Step

LEMMA WriteStep ==
  ASSUME AppInv, NEW t \in App!Writer, App!set_pulse_width(t) PROVE AppInv'
<1>1. /\ todo[t] # <<>> /\ pwm' = [pwm EXCEPT ![Head(todo[t])[1]] = Head(todo[t])[2]]
      /\ todo' = [todo EXCEPT ![t] = Tail(todo[t])]
      /\ UNCHANGED <<apart, doing, waits, state, running, using, open, transmitter, receiver,
                     worker, powered>>
  BY DEF App!set_pulse_width, App!clientVars, App!threads
<1>2. Shapes /\ Unstarted /\ OneReceiver /\ (apart => EndAlone)
  BY DEF AppInv
<1>3. Head(todo[t]) \in App!Output \X App!Pulse /\ Tail(todo[t]) \in Seq(App!Output \X App!Pulse)
  BY <1>1, <1>2 DEF Shapes
<1>4. Head(todo[t])[1] \in App!Output /\ Head(todo[t])[2] \in App!Pulse
  BY <1>3
<1>5. Shapes'
  BY <1>1, <1>2, <1>3, <1>4 DEF Shapes
<1>6. Unstarted' /\ OneReceiver'
  BY <1>1, <1>2 DEF Unstarted, Early, OneReceiver
<1>7. /\ todo'[t] = Tail(todo[t]) /\ \A u \in App!Writer : u # t => todo'[u] = todo[u]
  BY <1>1, <1>2 DEF Shapes
<1>8. ASSUME apart PROVE EndAlone'
  <2>1. EndAlone
    BY <1>2, <1>8
  <2>2. CASE doing["main"] \notin {"zero", "ended"}
    BY <1>1, <1>7, <2>1, <2>2, Writers DEF EndAlone, Late, Early
  <2>3. CASE doing["main"] \in {"zero", "ended"}
    <3>1. t = App!MainWriter /\ doing["main"] = "zero" /\ Zeroing
      BY <1>1, <2>1, <2>3, Writers DEF EndAlone
    <3>2. \A u \in App!Writer : u # App!MainWriter => todo'[u] = todo[u]
      BY <1>7, <3>1
    <3>3. Zeroing'
      <4>1. "zero" \in App!Pulse /\ RestZero' = RestZero
        BY DEF App!Pulse, RestZero, App!Rest
      <4>2. /\ RestZero # <<>> /\ Head(RestZero) = <<"throttle", "zero">>
            /\ Tail(RestZero) # <<>> /\ Tail(RestZero) # RestZero
            /\ Head(Tail(RestZero)) = <<"steering", "zero">> /\ Tail(Tail(RestZero)) = <<>>
        BY <4>1, RestIsWritten DEF RestZero
      <4>3. CASE todo[t] = RestZero
        <5>1. pwm' = [pwm EXCEPT !["throttle"] = "zero"] /\ todo'[t] = Tail(RestZero)
          <6>1. Head(todo[t]) = <<"throttle", "zero">>
            BY <4>2, <4>3
          <6>2. Head(todo[t])[1] = "throttle" /\ Head(todo[t])[2] = "zero"
            BY <6>1
          <6> QED
            BY <1>1, <1>7, <4>2, <4>3, <6>2
        <5> QED
          BY <1>2, <3>1, <4>1, <4>2, <5>1 DEF Zeroing, Shapes, App!Output
      <4>4. CASE todo[t] = Tail(RestZero)
        <5>1. pwm' = [pwm EXCEPT !["steering"] = "zero"] /\ todo'[t] = <<>>
          <6>1. Head(todo[t]) = <<"steering", "zero">>
            BY <4>2, <4>4
          <6>2. Head(todo[t])[1] = "steering" /\ Head(todo[t])[2] = "zero"
            BY <6>1
          <6> QED
            BY <1>1, <1>7, <4>2, <4>4, <6>2
        <5>2. pwm["throttle"] = "zero"
          BY <3>1, <4>2, <4>4 DEF Zeroing
        <5> QED
          BY <1>2, <3>1, <4>1, <4>2, <5>1, <5>2 DEF Zeroing, Shapes, App!Output
      <4> QED
        BY <1>1, <3>1, <4>3, <4>4 DEF Zeroing
    <3> QED
      BY <1>1, <2>1, <3>1, <3>2, <3>3, Writers DEF EndAlone, Late, Early
  <2> QED
    BY <2>2, <2>3
<1> QED
  BY <1>1, <1>5, <1>6, <1>8 DEF AppInv

(* Steps of the main thread that neither write nor end anything: it comes  *)
(* past stop_rx with no receiver running.                                  *)
LEMMA MainMoves ==
  ASSUME AppInv, UNCHANGED <<apart, pwm, powered, todo, using, state>>,
         NEW from \in AppPlace, NEW to \in AppPlace, App!Step("main", from, to),
         from \notin {"setup", "connect", "failed", "idle", "zero", "ended"},
         to \notin {"setup", "connect", "failed", "loop", "idle", "zero", "ended"},
         receiver' \in [App!Built -> App!Thread],
         \A c \in App!Built : receiver'[c] = "running" => receiver[c] = "running",
         from = "loop" => to = "stop_rx" /\ (apart => doing["run"] = "loop" /\ state # "DISCONNECTED"),
         from = "stop_rx" => to = "stop_rx" \/ \A c \in App!Built : receiver'[c] # "running",
         to = "stop_rx" => from \in {"loop", "stop_rx"}
  PROVE  AppInv'
<1>1. Shapes /\ Unstarted /\ OneReceiver /\ (apart => EndAlone)
  BY DEF AppInv
<1>2. /\ doing' \in [App!Client -> AppPlace] /\ doing["main"] = from /\ doing'["main"] = to
      /\ doing'["run"] = doing["run"]
  BY <1>1, Moves DEF App!Client
<1>3. Shapes' /\ Unstarted' /\ OneReceiver'
  BY <1>1, <1>2 DEF Shapes, Unstarted, Early, OneReceiver
<1>4. ASSUME apart PROVE EndAlone'
  BY <1>1, <1>2, <1>4 DEF EndAlone, Late, Early
<1> QED
  BY <1>3, <1>4 DEF AppInv

(* Steps of the run thread that do not write: when the main thread is past *)
(* its loop it can only end.                                               *)
LEMMA RunMoves ==
  ASSUME AppInv, UNCHANGED <<apart, pwm, powered, todo>>,
         NEW from \in AppPlace, NEW to \in AppPlace, App!Step("run", from, to),
         from # "none", to # "none", from # "ended",
         apart /\ doing["main"] # "loop" => to = "ended" /\ state' = state,
         to = "ended" => todo[App!RunWriter] = <<>>,
         receiver' \in [App!Built -> App!Thread], using' \in [Attribute -> Nat],
         apart /\ doing["main"] # "loop" =>
           \A c \in App!Built : receiver'[c] = "running" => receiver[c] = "running",
         \A c \in App!Built : receiver'[c] = "running" =>
           c = using'["receiver"] /\ to \in {"loop", "handlers", "stop_rx", "ended"}
  PROVE  AppInv'
<1>1. Shapes /\ Unstarted /\ OneReceiver /\ (apart => EndAlone)
  BY DEF AppInv
<1>2. /\ doing' \in [App!Client -> AppPlace] /\ doing["run"] = from /\ doing'["run"] = to
      /\ doing'["main"] = doing["main"] /\ ~Early
  BY <1>1, Moves DEF App!Client, Unstarted
<1>3. Shapes' /\ Unstarted' /\ OneReceiver'
  BY <1>1, <1>2 DEF Shapes, Unstarted, Early, OneReceiver
<1>4. ASSUME apart PROVE EndAlone'
  <2>1. CASE doing["main"] = "loop"
    BY <1>1, <1>2, <1>4, <2>1 DEF EndAlone, Late, Early
  <2>2. CASE doing["main"] # "loop"
    BY <1>1, <1>2, <1>4, <2>2 DEF EndAlone, Late, Early, Zeroing, RestZero, App!Rest
  <2> QED
    BY <2>1, <2>2
<1> QED
  BY <1>3, <1>4 DEF AppInv

LEMMA TearDownStep ==
  ASSUME AppInv, NEW t \in App!Client, App!TearDown(t) PROVE AppInv'
<1>1. /\ Shapes /\ OneReceiver
      /\ UNCHANGED <<apart, pwm, powered, todo, using, state>>
  BY DEF AppInv, App!TearDown, App!StopHandler, App!StopSender, App!JoinHandler, App!JoinSender,
         App!Waited, App!clientVars, App!outputs
<1> DEFINE Down == {"stop_rx", "stop_tx", "await_tx", "join_rx", "joining_rx", "join_tx",
                    "joining_tx"}
<1>2. \E from \in Down, to \in (Down \ {"stop_rx"}) \cup {"joined", "crashed"} :
        /\ App!Step(t, from, to)
        /\ from = "stop_rx" =>
             receiver' = IF receiver[using["receiver"]] = "running"
                         THEN [receiver EXCEPT ![using["receiver"]] = "stopping"] ELSE receiver
        /\ from # "stop_rx" => receiver' = receiver
  <2>1. CASE App!StopHandler(t)
    BY <2>1 DEF App!StopHandler, App!Handler
  <2>2. CASE App!StopSender(t)
    BY <2>2 DEF App!StopSender
  <2>3. CASE App!JoinHandler(t)
    BY <2>3 DEF App!JoinHandler, App!threads
  <2>4. CASE App!JoinSender(t)
    BY <2>4 DEF App!JoinSender, App!threads
  <2>5. CASE App!Waited(t)
    BY <2>5 DEF App!Waited, App!threads
  <2> QED
    BY <2>1, <2>2, <2>3, <2>4, <2>5 DEF App!TearDown
<1>3. PICK from \in Down, to \in (Down \ {"stop_rx"}) \cup {"joined", "crashed"} :
        /\ App!Step(t, from, to)
        /\ from = "stop_rx" =>
             receiver' = IF receiver[using["receiver"]] = "running"
                         THEN [receiver EXCEPT ![using["receiver"]] = "stopping"] ELSE receiver
        /\ from # "stop_rx" => receiver' = receiver
  BY <1>2
<1>4. /\ receiver' \in [App!Built -> App!Thread]
      /\ \A c \in App!Built : receiver'[c] = "running" => receiver[c] = "running"
      /\ from = "stop_rx" => \A c \in App!Built : receiver'[c] # "running"
  <2>1. CASE from = "stop_rx"
    BY <1>1, <1>3, <2>1 DEF Shapes, OneReceiver, App!Thread
  <2>2. CASE from # "stop_rx"
    BY <1>1, <1>3, <2>2 DEF Shapes
  <2> QED
    BY <2>1, <2>2
<1>5. /\ from \in AppPlace /\ to \in AppPlace
      /\ from \notin {"none", "setup", "connect", "failed", "loop", "idle", "zero", "ended"}
      /\ to \notin {"none", "setup", "connect", "failed", "loop", "idle", "zero", "ended", "stop_rx"}
  BY DEF AppPlace
<1>6. CASE t = "main"
  BY <1>1, <1>3, <1>4, <1>5, <1>6, MainMoves
<1>7. CASE t = "run"
  <2>1. doing["run"] = from
    BY <1>3, <1>7 DEF App!Step
  <2>2. ~Early /\ (apart => doing["main"] = "loop")
    BY <1>5, <2>1 DEF AppInv, Unstarted, EndAlone, Late
  <2>3. \A c \in App!Built : receiver'[c] # "running"
    BY <1>1, <1>4, <1>5, <2>1 DEF OneReceiver
  <2>4. using' \in [Attribute -> Nat]
    BY <1>1 DEF Shapes
  <2> QED
    BY <1>1, <1>3, <1>4, <1>5, <1>7, <2>2, <2>3, <2>4, RunMoves
<1> QED
  BY <1>6, <1>7 DEF App!Client

LEMMA MainStep ==
  ASSUME AppInv,
         \/ App!ConnectFails \/ App!End \/ App!Setup \/ App!Connect \/ App!Clear
         \/ App!CloseSocket \/ App!Join \/ App!SetZero \/ App!Disable
  PROVE  AppInv'
<1>1. Shapes /\ Unstarted /\ OneReceiver /\ (apart => EndAlone)
  BY DEF AppInv
<1>2. CASE App!Setup \/ App!ConnectFails
  <2>1. \E from, to \in {"setup", "connect", "failed"} : App!Step("main", from, to)
    BY <1>2 DEF App!Setup, App!ConnectFails
  <2>2. doing' \in [App!Client -> AppPlace] /\ Early /\ Early' /\ doing'["run"] = doing["run"]
    BY <1>1, <2>1, Moves DEF App!Client, AppPlace, Early
  <2>3. UNCHANGED <<apart, using, receiver, todo>>
    BY <1>2 DEF App!Setup, App!ConnectFails, App!clientVars, App!threads, App!outputs
  <2>4. pwm' \in [App!Output -> App!Pulse]
    BY <1>1, <1>2 DEF Shapes, App!Setup, App!ConnectFails, App!outputs, App!Pulse
  <2>5. Shapes' /\ Unstarted' /\ OneReceiver'
    BY <1>1, <2>2, <2>3, <2>4 DEF Shapes, Unstarted, OneReceiver
  <2>6. EndAlone'
    BY <1>1, <2>2, <2>3 DEF EndAlone, Late, Early, Unstarted
  <2> QED
    BY <2>5, <2>6 DEF AppInv
<1>3. CASE App!Connect
  <2>1. /\ doing' = [t \in App!Client |-> "loop"] /\ Early
        /\ receiver' = [receiver EXCEPT ![0] = "running"]
        /\ UNCHANGED <<apart, using, pwm, powered, todo>>
    BY <1>3 DEF App!Connect, Early, App!outputs
  <2>2. doing'["main"] = "loop" /\ doing'["run"] = "loop" /\ doing' \in [App!Client -> AppPlace]
    BY <2>1 DEF App!Client, AppPlace
  <2>3. receiver' \in [App!Built -> App!Thread] /\ \A c \in App!Built : receiver'[c] = "running" => c = 0
    BY <1>1, <2>1 DEF Shapes, App!Thread, Unstarted
  <2>4. Shapes' /\ Unstarted' /\ OneReceiver'
    BY <1>1, <2>1, <2>2, <2>3 DEF Shapes, Unstarted, Early, OneReceiver
  <2>5. EndAlone'
    BY <2>2 DEF EndAlone, Late, Early
  <2> QED
    BY <2>4, <2>5 DEF AppInv
<1>4. CASE App!End \/ App!Clear \/ App!CloseSocket
  <2>1. UNCHANGED <<apart, pwm, powered, todo, using, state, receiver>>
    BY <1>4 DEF App!End, App!Clear, App!CloseSocket, App!clientVars, App!threads, App!outputs
  <2>2. \E from, to \in AppPlace :
          /\ App!Step("main", from, to)
          /\ \/ /\ from = "loop" /\ to = "stop_rx"
                /\ apart => doing["run"] = "loop" /\ state # "DISCONNECTED"
             \/ from = "joined" /\ to = "close"
             \/ from = "close" /\ to = "join"
    BY <1>4 DEF App!End, App!Clear, App!CloseSocket, AppPlace
  <2> QED
    BY <1>1, <2>1, <2>2, MainMoves DEF Shapes
<1>5. CASE App!Join
  <2>1. /\ App!Step("main", "join", "idle") /\ doing["run"] = "ended"
        /\ todo' = [todo EXCEPT ![App!MainWriter] = App!Rest("idle")]
        /\ UNCHANGED <<apart, using, state, receiver, pwm, powered>>
    BY <1>5 DEF App!Join, App!clientVars, App!threads
  <2>2. /\ doing' \in [App!Client -> AppPlace] /\ doing["main"] = "join" /\ doing'["main"] = "idle"
        /\ doing'["run"] = doing["run"]
    BY <1>1, <2>1, Moves DEF App!Client, AppPlace
  <2>3. App!Rest("idle") \in Seq(App!Output \X App!Pulse)
    BY RestIsWritten DEF App!Pulse
  <2>4. todo' \in [App!Writer -> Seq(App!Output \X App!Pulse)] /\ todo'[App!RunWriter] = todo[App!RunWriter]
    BY <1>1, <2>1, <2>3, Writers DEF Shapes
  <2>5. Shapes' /\ Unstarted' /\ OneReceiver'
    BY <1>1, <2>1, <2>2, <2>4 DEF Shapes, Unstarted, Early, OneReceiver
  <2>6. ASSUME apart PROVE EndAlone'
    BY <1>1, <2>1, <2>2, <2>4, <2>6 DEF EndAlone, Late, Early
  <2> QED
    BY <2>1, <2>5, <2>6 DEF AppInv
<1>6. CASE App!SetZero
  <2>1. /\ App!Step("main", "idle", "zero")
        /\ apart => \A c \in App!Built : todo[c] = <<>>
        /\ todo' = [todo EXCEPT ![App!MainWriter] = App!Rest("zero")]
        /\ UNCHANGED <<apart, using, state, receiver, pwm, powered>>
    BY <1>6 DEF App!SetZero, App!Settled, App!clientVars, App!threads
  <2>2. /\ doing' \in [App!Client -> AppPlace] /\ doing["main"] = "idle" /\ doing'["main"] = "zero"
        /\ doing'["run"] = doing["run"]
    BY <1>1, <2>1, Moves DEF App!Client, AppPlace
  <2>3. App!Rest("zero") \in Seq(App!Output \X App!Pulse) /\ App!Rest("zero") # <<>>
    BY RestIsWritten DEF App!Pulse
  <2>4. /\ todo' \in [App!Writer -> Seq(App!Output \X App!Pulse)]
        /\ todo'[App!MainWriter] = App!Rest("zero")
        /\ \A t \in App!Writer : t # App!MainWriter => todo'[t] = todo[t]
    BY <1>1, <2>1, <2>3, Writers DEF Shapes
  <2>5. Shapes' /\ Unstarted' /\ OneReceiver'
    BY <1>1, <2>1, <2>2, <2>4 DEF Shapes, Unstarted, Early, OneReceiver
  <2>6. Zeroing'
    <3>1. todo'[App!MainWriter] = RestZero' /\ RestZero' # <<>>
      BY <2>3, <2>4 DEF RestZero, App!Rest
    <3> QED
      BY <3>1 DEF Zeroing
  <2>7. ASSUME apart PROVE EndAlone'
    <3>1. /\ todo'[App!RunWriter] = todo[App!RunWriter]
          /\ \A c \in App!Built : todo'[c] = <<>>
      BY <2>1, <2>4, <2>7, Writers
    <3> QED
      BY <1>1, <2>1, <2>2, <2>6, <2>7, <3>1 DEF EndAlone, Late, Early
  <2> QED
    BY <2>1, <2>5, <2>7 DEF AppInv
<1>7. CASE App!Disable
  <2>1. /\ App!Step("main", "zero", "ended") /\ todo[App!MainWriter] = <<>> /\ powered' = FALSE
        /\ UNCHANGED <<apart, using, state, receiver, pwm, todo>>
    BY <1>7 DEF App!Disable, App!Settled, App!clientVars, App!threads
  <2>2. /\ doing' \in [App!Client -> AppPlace] /\ doing["main"] = "zero" /\ doing'["main"] = "ended"
        /\ doing'["run"] = doing["run"]
    BY <1>1, <2>1, Moves DEF App!Client, AppPlace
  <2>3. Shapes' /\ Unstarted' /\ OneReceiver'
    BY <1>1, <2>1, <2>2 DEF Shapes, Unstarted, Early, OneReceiver
  <2>4. ASSUME apart PROVE EndAlone'
    <3>1. Zeroing /\ RestZero # <<>>
      BY <1>1, <2>2, <2>4, RestIsWritten DEF EndAlone, RestZero, App!Pulse
    <3>2. pwm["throttle"] = "zero" /\ pwm["steering"] = "zero"
      BY <2>1, <3>1 DEF Zeroing
    <3>3. pwm = [o \in App!Output |-> "zero"]
      BY <1>1, <3>2 DEF Shapes, App!Output
    <3> QED
      BY <1>1, <2>1, <2>2, <2>4, <3>3 DEF EndAlone, Late, Early
  <2> QED
    BY <2>1, <2>3, <2>4 DEF AppInv
<1> QED
  BY <1>2, <1>3, <1>4, <1>5, <1>6, <1>7

LEMMA RunStep ==
  ASSUME AppInv,
         \/ App!Expire \/ App!ReInitialize \/ App!ReClose \/ App!BuildSocket
         \/ App!BuildTransmitter \/ App!BuildHandler \/ App!StartTransmitter \/ App!StartHandler
         \/ App!RunEnds
  PROVE  AppInv'
<1>1. Shapes /\ Unstarted /\ OneReceiver /\ (apart => EndAlone)
  BY DEF AppInv
<1>2. UNCHANGED <<apart, pwm, powered, todo>>
  BY DEF App!Expire, App!ReInitialize, App!ReClose, App!BuildSocket, App!BuildTransmitter,
         App!BuildHandler, App!StartTransmitter, App!StartHandler, App!RunEnds, App!outputs
<1>3. ASSUME NEW from \in AppPlace, App!Step("run", from, doing'["run"]), from # "none"
      PROVE  /\ doing["run"] = from /\ ~Early
             /\ apart /\ doing["main"] # "loop" => from \in {"loop", "ended"} /\ state # "DISCONNECTED"
  BY <1>1, <1>3 DEF App!Step, Unstarted, EndAlone, Late
<1>4. \A from, to \in AppPlace : App!Step("run", from, to) => doing["run"] = from /\ doing'["run"] = to
  BY <1>1, Moves DEF App!Client
<1>5. CASE App!Expire \/ App!RunEnds
  <2>1. /\ UNCHANGED <<using, receiver>>
        /\ \/ /\ App!Step("run", "loop", "handlers") /\ (apart => doing["main"] = "loop")
           \/ /\ App!Step("run", "loop", "ended") /\ todo[App!RunWriter] = <<>> /\ state' = state
    BY <1>5 DEF App!Expire, App!RunEnds, App!clientVars, App!threads
  <2>2. "loop" \in AppPlace /\ "handlers" \in AppPlace /\ "ended" \in AppPlace
    BY DEF AppPlace
  <2>3. doing["run"] = "loop"
    BY <1>4, <2>1, <2>2
  <2> QED
    BY <1>1, <1>2, <2>1, <2>2, <2>3, RunMoves DEF Shapes, OneReceiver
<1>6. CASE App!ReInitialize
  <2>1. App!Step("run", "loop", "stop_rx") /\ state = "DISCONNECTED" /\ UNCHANGED <<using, state, receiver>>
    BY <1>6 DEF App!ReInitialize, App!clientVars, App!threads
  <2>2. "loop" \in AppPlace /\ "stop_rx" \in AppPlace
    BY DEF AppPlace
  <2>3. doing["run"] = "loop" /\ (apart => doing["main"] = "loop")
    BY <1>3, <1>4, <2>1, <2>2
  <2> QED
    BY <1>1, <1>2, <2>1, <2>2, <2>3, RunMoves DEF Shapes, OneReceiver
<1>7. CASE \/ App!ReClose \/ App!BuildSocket \/ App!BuildTransmitter \/ App!BuildHandler
           \/ App!StartTransmitter
  <2>1. \E from \in {"joined", "socket", "transmitter", "receiver", "start_tx"},
           to \in {"socket", "transmitter", "receiver", "start_tx", "start_rx"} : App!Step("run", from, to)
    BY <1>7 DEF App!ReClose, App!BuildSocket, App!BuildTransmitter, App!BuildHandler,
                App!StartTransmitter
  <2>2. PICK from \in {"joined", "socket", "transmitter", "receiver", "start_tx"},
             to \in {"socket", "transmitter", "receiver", "start_tx", "start_rx"} : App!Step("run", from, to)
    BY <2>1
  <2>3. from \in AppPlace /\ to \in AppPlace
    BY DEF AppPlace
  <2>4. doing["run"] = from /\ (apart => doing["main"] = "loop")
    BY <1>3, <1>4, <2>2, <2>3
  <2>5. \A c \in App!Built : receiver[c] # "running"
    BY <1>1, <2>4 DEF OneReceiver
  <2>6. receiver' \in [App!Built -> App!Thread] /\ \A c \in App!Built : receiver'[c] # "running"
    <3>1. receiver' = receiver \/ \E h \in Nat : receiver' = [receiver EXCEPT ![h] = "new"]
      BY <1>1, <1>7 DEF App!ReClose, App!BuildSocket, App!BuildTransmitter, App!BuildHandler,
           App!StartTransmitter, Shapes, Attribute
    <3> QED
      BY <1>1, <2>5, <3>1 DEF Shapes, App!Thread
  <2>7. using' \in [Attribute -> Nat]
    BY <1>1, <1>7 DEF App!ReClose, App!BuildSocket, App!BuildTransmitter, App!BuildHandler,
         App!StartTransmitter, App!clientVars, Shapes, Attribute
  <2> QED
    BY <1>2, <2>2, <2>3, <2>4, <2>6, <2>7, RunMoves
<1>8. CASE App!StartHandler
  <2>1. /\ App!Step("run", "start_rx", "loop") /\ using' = using
        /\ receiver' = [receiver EXCEPT ![using["receiver"]] = "running"]
    BY <1>8 DEF App!StartHandler, App!Handler
  <2>2. "start_rx" \in AppPlace /\ "loop" \in AppPlace
    BY DEF AppPlace
  <2>3. doing["run"] = "start_rx" /\ (apart => doing["main"] = "loop")
    BY <1>3, <1>4, <2>1, <2>2
  <2>4. receiver' \in [App!Built -> App!Thread]
        /\ \A c \in App!Built : receiver'[c] = "running" => c = using'["receiver"]
    BY <1>1, <2>1, <2>3 DEF Shapes, OneReceiver, App!Thread
  <2> QED
    BY <1>1, <1>2, <2>1, <2>2, <2>3, <2>4, RunMoves DEF Shapes
<1> QED
  BY <1>5, <1>6, <1>7, <1>8

LEMMA LostStep == ASSUME AppInv, App!disconnect_handler PROVE AppInv'
<1>1. Shapes /\ Unstarted /\ OneReceiver /\ (apart => EndAlone)
  BY DEF AppInv
<1>2. /\ App!Step("run", "handlers", "loop")
      /\ todo' = [todo EXCEPT ![App!RunWriter] = App!Rest("idle")]
      /\ UNCHANGED <<apart, using, state, receiver, pwm, powered>>
  BY DEF App!disconnect_handler, App!clientVars, App!threads
<1>3. /\ doing' \in [App!Client -> AppPlace] /\ doing["run"] = "handlers" /\ doing'["run"] = "loop"
      /\ doing'["main"] = doing["main"]
  BY <1>1, <1>2, Moves DEF App!Client, AppPlace
<1>4. App!Rest("idle") \in Seq(App!Output \X App!Pulse)
  BY RestIsWritten DEF App!Pulse
<1>5. Shapes' /\ Unstarted' /\ OneReceiver'
  BY <1>1, <1>2, <1>3, <1>4 DEF Shapes, Unstarted, Early, OneReceiver
<1>6. ASSUME apart PROVE EndAlone'
  BY <1>1, <1>3, <1>6 DEF EndAlone, Late, Early, Unstarted
<1> QED
  BY <1>2, <1>5, <1>6 DEF AppInv

LEMMA ThreadStep ==
  ASSUME AppInv, NEW c \in App!Built,
         \/ App!TransmitterEnds(c) \/ App!ReceiverEnds(c) \/ App!WorkerEnds(c)
         \/ App!ack_handler(c) \/ App!control_handler(c)
  PROVE  AppInv'
<1>1. Shapes /\ Unstarted /\ OneReceiver /\ (apart => EndAlone)
  BY DEF AppInv
<1>2. UNCHANGED <<apart, doing, using, pwm, powered>>
  BY DEF App!TransmitterEnds, App!ReceiverEnds, App!WorkerEnds, App!ack_handler,
         App!control_handler, App!clientVars, App!outputs
<1>3. CASE App!TransmitterEnds(c) \/ App!ReceiverEnds(c) \/ App!WorkerEnds(c) \/ App!ack_handler(c)
  <2>1. /\ todo' = todo /\ (state' = state \/ state' = "CONNECTED")
        /\ receiver' = receiver
           \/ (receiver[c] # "none" /\ receiver' = [receiver EXCEPT ![c] = "ended"])
    BY <1>3 DEF App!TransmitterEnds, App!ReceiverEnds, App!WorkerEnds, App!ack_handler,
         App!clientVars, App!outputs, App!threads
  <2>2. /\ receiver' \in [App!Built -> App!Thread]
        /\ \A d \in App!Built : receiver'[d] = receiver[d] \/ (receiver[d] # "none" /\ receiver'[d] = "ended")
    BY <1>1, <2>1 DEF Shapes, App!Thread
  <2>3. Shapes' /\ Unstarted' /\ OneReceiver'
    BY <1>1, <1>2, <2>1, <2>2 DEF Shapes, Unstarted, Early, OneReceiver
  <2>4. ASSUME apart PROVE EndAlone'
    BY <1>1, <1>2, <2>1, <2>2, <2>4 DEF EndAlone, Late, Early, Zeroing, RestZero, App!Rest
  <2> QED
    BY <1>2, <2>3, <2>4 DEF AppInv
<1>4. CASE App!control_handler(c)
  <2>1. /\ receiver[c] = "running" /\ UNCHANGED <<state, receiver>>
        /\ \E w : w \in Seq(App!Output \X App!Pulse) /\ todo' = [todo EXCEPT ![c] = w]
    <3>1. PICK throttle \in {"driven", "failsafe"} :
            todo' = [todo EXCEPT ![c] = IF state = "CONNECTED"
                                        THEN << <<"throttle", throttle>>, <<"steering", "driven">> >>
                                        ELSE App!Rest("failsafe")]
      BY <1>4 DEF App!control_handler
    <3>2. App!Rest("failsafe") \in Seq(App!Output \X App!Pulse)
      BY RestIsWritten DEF App!Pulse
    <3>3. << <<"throttle", throttle>>, <<"steering", "driven">> >> \in Seq(App!Output \X App!Pulse)
      <4>1. <<"throttle", throttle>> \in App!Output \X App!Pulse
        BY DEF App!Output, App!Pulse
      <4>2. <<"steering", "driven">> \in App!Output \X App!Pulse
        BY DEF App!Output, App!Pulse
      <4> QED
        BY <4>1, <4>2
    <3>4. receiver[c] = "running" /\ UNCHANGED <<state, receiver>>
      BY <1>4 DEF App!control_handler, App!clientVars, App!threads
    <3> QED
      BY <3>1, <3>2, <3>3, <3>4
  <2>2. /\ todo' \in [App!Writer -> Seq(App!Output \X App!Pulse)]
        /\ \A t \in App!Writer : t # c => todo'[t] = todo[t]
    BY <1>1, <2>1, Writers DEF Shapes
  <2>3. Shapes' /\ Unstarted' /\ OneReceiver'
    BY <1>1, <1>2, <2>1, <2>2 DEF Shapes, Unstarted, Early, OneReceiver
  <2>4. ASSUME apart PROVE EndAlone'
    <3>1. doing["main"] \in {"loop", "stop_rx"}
      BY <1>1, <2>1, <2>4 DEF EndAlone, Late, Unstarted
    <3> QED
      BY <1>1, <1>2, <2>1, <2>2, <2>4, <3>1, Writers DEF EndAlone, Late, Early
  <2> QED
    BY <1>2, <2>3, <2>4 DEF AppInv
<1> QED
  BY <1>3, <1>4

LEMMA AppStep == ASSUME AppInv, [App!Next]_(App!vars) PROVE AppInv'
<1>1. CASE UNCHANGED App!vars
  BY <1>1 DEF App!vars, App!clientVars, App!threads, App!outputs, AppInv, Shapes, Unstarted, Early,
              OneReceiver, EndAlone, Late, Zeroing, RestZero, App!Rest
<1>2. ASSUME NEW c \in App!Built, App!Ending(c) \/ App!ack_handler(c) \/ App!control_handler(c)
      PROVE  AppInv'
  BY <1>2, ThreadStep, WriteStep, Writers DEF App!Ending
<1>3. CASE App!ConnectFails \/ App!End \/ App!MainThread
  BY <1>3, MainStep, TearDownStep, WriteStep, Writers DEF App!MainThread, App!Client
<1>4. CASE App!Expire \/ App!RunThread
  BY <1>4, RunStep, LostStep, TearDownStep, WriteStep, Writers DEF App!RunThread, App!Client
<1> QED
  BY <1>1, <1>2, <1>3, <1>4 DEF App!Next

(* An application that ends while its connection stands leaves its outputs *)
(* without a pulse and disabled, whatever its workers, its run thread and  *)
(* its receivers were about to do, for any number of connections before    *)
(* (cleanup_pwm of apps/streamer.py, stop of Client.py).                   *)
THEOREM OutputsComeToRest == StreamerSpec => []App!AtRest
<1>1. StreamerInit => AppInv
  BY AppInit DEF StreamerInit
<1>2. AppInv /\ [StreamerNext]_streamerVars => AppInv'
  <2>1. [StreamerNext]_streamerVars => [App!Next]_(App!vars)
    BY DEF StreamerNext, streamerVars, appVars, App!vars, App!clientVars, App!threads, App!outputs
  <2> QED
    BY <2>1, AppStep
<1>3. AppInv => App!AtRest
  BY DEF AppInv, EndAlone, App!AtRest
<1> QED
  BY <1>1, <1>2, <1>3, PTL DEF StreamerSpec

-----------------------------------------------------------------------------
(* Telemetry *)

TelemetryInv ==
  payload = [g \in Telemetry!Group |-> payload[g]] /\ Telemetry!LostIsMarked

LEMMA TelemetryStep ==
  ASSUME TelemetryInv, [Telemetry!Next]_(Telemetry!vars) PROVE TelemetryInv'
<1> USE DEF Telemetry!LostIsMarked, Telemetry!Unknown
<1>1. /\ payload = [g \in Telemetry!Group |-> payload[g]]
      /\ "signal" \in Telemetry!Group /\ "cell" \in Telemetry!Group
  BY DEF TelemetryInv, Telemetry!Group
<1>2. CASE UNCHANGED <<modem, payload>>
  BY <1>1, <1>2 DEF TelemetryInv
<1>3. CASE Telemetry!ModemAvailable
  <2>1. (modem => modem') /\ payload' = payload
    BY <1>3 DEF Telemetry!ModemAvailable, Telemetry!modemVars
  <2> QED
    BY <1>1, <2>1 DEF TelemetryInv
<1>4. ASSUME NEW g \in {"signal", "cell"}, NEW next, Telemetry!Query(g, next)
      PROVE  TelemetryInv'
  <2>1. CASE modem' = FALSE /\ payload' = [payload EXCEPT ![g] = Telemetry!Unknown]
    BY <1>1, <1>4, <2>1 DEF TelemetryInv
  <2>2. CASE modem /\ modem' = modem /\ payload' = [payload EXCEPT ![g] = now]
    BY <1>1, <2>2 DEF TelemetryInv
  <2> QED
    BY <1>2, <1>4, <2>1, <2>2 DEF Telemetry!Query
<1>5. CASE Telemetry!UpdateBattery \/ Telemetry!UpdateFlags
  <2>1. /\ modem' = modem
        /\ \/ payload' = payload
           \/ \E v : payload' = [payload EXCEPT !["battery"] = v]
           \/ \E v : payload' = [payload EXCEPT !["recording"] = v]
    BY <1>5 DEF Telemetry!UpdateBattery, Telemetry!UpdateFlags, Telemetry!modemVars
  <2> QED
    BY <1>1, <2>1 DEF TelemetryInv
<1>6. CASE \/ Telemetry!UpdateGps \/ Telemetry!ShareLocation \/ Telemetry!Without
           \/ Telemetry!Again \/ Telemetry!GpsFails
  BY <1>2, <1>6 DEF Telemetry!UpdateGps, Telemetry!ShareLocation, Telemetry!Without,
       Telemetry!Again, Telemetry!GpsFails, Telemetry!modemVars
<1>7. CASE \/ Telemetry!Change \/ Telemetry!Send \/ Telemetry!Lose \/ Telemetry!Drop
           \/ Telemetry!Reconnect \/ Telemetry!Receive \/ Telemetry!reset
           \/ Telemetry!Toggle \/ Telemetry!Record
  BY <1>2, <1>7 DEF Telemetry!Change, Telemetry!Send, Telemetry!Lose, Telemetry!Drop,
       Telemetry!Reconnect, Telemetry!Receive, Telemetry!reset, Telemetry!Toggle,
       Telemetry!Record, Telemetry!collectorVars, Telemetry!modemVars
<1>8. CASE UNCHANGED Telemetry!vars
  BY <1>2, <1>8 DEF Telemetry!vars, Telemetry!collectorVars, Telemetry!modemVars
<1> QED
  BY <1>3, <1>4, <1>5, <1>6, <1>7, <1>8
  DEF Telemetry!Next, Telemetry!Collect, Telemetry!UpdateSignal, Telemetry!UpdateCell

(* A modem that was given up is marked in what is sent until one answers,  *)
(* whenever it goes, comes back, or fails to answer between two queries    *)
(* (_update_signal and _update_cell of Telemetry.py).                      *)
THEOREM LostModemMarked == StreamerSpec => []Telemetry!LostIsMarked
<1>1. StreamerInit => TelemetryInv
  <2> SUFFICES ASSUME Telemetry!Init PROVE TelemetryInv
    BY DEF StreamerInit
  <2>1. payload = [g \in Telemetry!Group |->
                     CASE g = "location" -> [lat |-> Telemetry!Unknown, lng |-> Telemetry!Unknown]
                       [] g = "recording" -> FALSE
                       [] OTHER -> Telemetry!Unknown]
    BY DEF Telemetry!Init, Telemetry!Blank
  <2>2. "signal" \in Telemetry!Group /\ payload["signal"] = Telemetry!Unknown
    BY <2>1 DEF Telemetry!Group
  <2> QED
    BY <2>1, <2>2 DEF TelemetryInv, Telemetry!LostIsMarked
<1>2. TelemetryInv /\ [StreamerNext]_streamerVars => TelemetryInv'
  <2>1. [StreamerNext]_streamerVars => [Telemetry!Next]_(Telemetry!vars)
    BY DEF StreamerNext, streamerVars, telemetryVars, Telemetry!vars, Telemetry!worldVars,
           Telemetry!collectorVars, Telemetry!modemVars, Telemetry!gpsVars, Telemetry!viewerVars
  <2> QED
    BY <2>1, TelemetryStep
<1> QED
  BY <1>1, <1>2, PTL DEF StreamerSpec, TelemetryInv
=============================================================================

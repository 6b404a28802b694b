--------------------------------- MODULE Video ---------------------------------
(***************************************************************************)
(* The video receiver of the viewer: the Receiver with its frame buffer,   *)
(* and its two backends, ReceiverPyAV (with or without the UdpVideoProxy)  *)
(* and ReceiverGst.  The thread of the receiver opens and closes the       *)
(* stream; with GStreamer a thread of the pipeline delivers the samples;   *)
(* the main loop of the viewer picks frames.                               *)
(*                                                                         *)
(* A frame is its number, modulo Frames, and whether it was received since *)
(* the stream was opened.  Of its presentation time it only matters        *)
(* whether it is older than the latest by max_age_seconds or more.         *)
(***************************************************************************)
EXTENDS Naturals, Sequences, SequencesExt

CONSTANTS
  MaxBuffer,   \* max_frame_buffer_size
  Target,      \* frames that an adaptive render_ratio leaves in the buffer
  MaxOld,      \* max_consecutive_old_frames
  Port,        \* local ports of the proxy
  None         \* no frame, or no port

ASSUME VideoAssumption ==
  /\ MaxBuffer \in Nat \ {0} /\ Target \in 0 .. MaxBuffer /\ MaxOld \in Nat
  /\ None \notin Port /\ Port # {}

Frames == MaxBuffer + 2
Number == 0 .. Frames - 1
Frame == [n : Number, current : BOOLEAN]

VARIABLES
  backend,    \* "pyav", "proxy" (PyAV behind the proxy) or "gst"
  ratio,      \* how frames are picked: "oldest", "newest" or "adaptive"
  phase,      \* where the thread of the receiver is
  running,    \* the event
  asked,      \* stop() was called
  streaming,  \* the sender sends, and packets get through
  behind,     \* its packets are too old, for it was restarted
  latest,     \* a packet has been seen: latest_packet_pts, latest_pts
  old,        \* consecutive_old_frames
  next,       \* the number of the next frame
  buffer,     \* frame_buffer
  stamps,     \* frame_timestamps, decode_durations and capture_timestamps
  frame,      \* the frame that is displayed
  stamp,      \* the times that were taken for it
  forward,    \* _forward_addr of the proxy
  sdp,        \* the port in the SDP file
  listening,  \* the port the container has opened
  lost,       \* history: stop() came before run()
  late,       \* history: a sample came between the clearing and the end
  unpaired    \* history: frames were cleared and their times were not

stream == <<streaming, behind, latest, old, next>>
picture == <<buffer, stamps, frame, stamp>>
ports == <<forward, sdp, listening>>
history == <<lost, late, unpaired>>
vars == <<backend, ratio, phase, running, asked, stream, picture, ports, history>>

TypeOK ==
  /\ backend \in {"pyav", "proxy", "gst"} /\ ratio \in {"oldest", "newest", "adaptive"}
  /\ phase \in {"new", "open", "play", "clear", "end", "done"}
  /\ running \in BOOLEAN /\ asked \in BOOLEAN
  /\ streaming \in BOOLEAN /\ behind \in BOOLEAN /\ latest \in BOOLEAN
  /\ old \in 0 .. MaxOld + 1 /\ next \in Number
  /\ buffer \in Seq(Frame) /\ Len(buffer) <= MaxBuffer
  /\ stamps \in Seq(Number) /\ Len(stamps) <= MaxBuffer
  /\ frame \in Frame \cup {None} /\ stamp \in Number \cup {None}
  /\ forward \in Port \cup {None} /\ sdp \in Port \cup {None} /\ listening \in Port \cup {None}
  /\ lost \in BOOLEAN /\ late \in BOOLEAN /\ unpaired \in BOOLEAN

Init ==
  /\ backend \in {"pyav", "proxy", "gst"} /\ ratio \in {"oldest", "newest", "adaptive"}
  /\ phase = "new" /\ running = FALSE /\ asked = FALSE
  /\ streaming = FALSE /\ behind = FALSE /\ latest = FALSE /\ old = 0 /\ next = 0
  /\ buffer = <<>> /\ stamps = <<>> /\ frame = None /\ stamp = None
  /\ forward = None /\ sdp = None /\ listening = None
  /\ lost = FALSE /\ late = FALSE /\ unpaired = FALSE

-----------------------------------------------------------------------------
(* The sender and the network *)

(* A sender that was restarted begins its timestamps anew, which PyAV      *)
(* compares; the jitter buffer of GStreamer stamps by arrival.             *)
StartSending ==
  /\ ~streaming /\ streaming' = TRUE
  /\ behind' \in {FALSE, latest /\ backend # "gst"}
  /\ UNCHANGED <<backend, ratio, phase, running, asked, latest, old, next, picture, ports, history>>

StopSending ==
  /\ streaming /\ streaming' = FALSE
  /\ UNCHANGED <<backend, ratio, phase, running, asked, behind, latest, old, next, picture, ports,
                 history>>

-----------------------------------------------------------------------------
(* The main loop of the viewer *)

Stop ==
  /\ ~asked /\ asked' = TRUE
  /\ running' = FALSE
  /\ lost' = (phase = "new")
  /\ UNCHANGED <<backend, ratio, phase, stream, picture, ports, late, unpaired>>

PickOldest ==
  /\ frame' = Head(buffer) /\ buffer' = Tail(buffer)
  /\ stamp' = IF stamps = <<>> THEN stamp ELSE Head(stamps)
  /\ stamps' = IF stamps = <<>> THEN <<>> ELSE Tail(stamps)

PickNewest ==
  /\ frame' = Last(buffer) /\ buffer' = <<>>
  /\ stamp' = IF stamps = <<>> THEN stamp ELSE Last(stamps)
  /\ stamps' = <<>>

Drop(seq, k) == SubSeq(seq, k + 1, Len(seq))

PickAdaptive_FramesOnly ==
  LET dropped == IF Len(buffer) > Target + 1 THEN Len(buffer) - Target - 1 ELSE 0
      frames == Drop(buffer, dropped)
  IN  /\ frame' = Head(frames) /\ buffer' = Tail(frames)
      /\ stamp' = IF stamps = <<>> THEN stamp ELSE Head(stamps)
      /\ stamps' = Drop(stamps, 1)

(* Down to the target. *)
PickAdaptive ==
  LET dropped == IF Len(buffer) > Target + 1 THEN Len(buffer) - Target - 1 ELSE 0
      frames == Drop(buffer, dropped)
      times == Drop(stamps, dropped)
  IN  /\ frame' = Head(frames) /\ buffer' = Tail(frames)
      /\ stamp' = IF times = <<>> THEN stamp ELSE Head(times)
      /\ stamps' = Drop(times, 1)

GetFrame ==
  /\ buffer # <<>>
  /\ CASE ratio = "oldest" -> PickOldest
       [] ratio = "newest" -> PickNewest
       [] ratio = "adaptive" -> PickAdaptive
  /\ UNCHANGED <<backend, ratio, phase, running, asked, stream, ports, history>>

-----------------------------------------------------------------------------
(* Receiver, for both backends *)

(* run and _setup: the proxy finds a port, or is given up. *)
Run ==
  /\ phase = "new" /\ phase' = "open"
  /\ running' = TRUE
  /\ \/ backend = "proxy" /\ \E p \in Port : forward' = p /\ sdp' = p /\ UNCHANGED backend
     \/ backend = "proxy" /\ backend' = "pyav" /\ UNCHANGED <<forward, sdp>>
     \/ backend # "proxy" /\ UNCHANGED <<backend, forward, sdp>>
  /\ UNCHANGED <<ratio, asked, stream, picture, listening, history>>

Outdated(f) == IF f = None THEN None ELSE [f EXCEPT !.current = FALSE]

(* A container, or a pipeline that plays.  What is still there was         *)
(* received before.                                                        *)
Open ==
  /\ phase = "open" /\ running
  /\ phase' = "play"
  /\ latest' = FALSE /\ behind' = FALSE /\ old' = 0
  /\ listening' = sdp
  /\ frame' = Outdated(frame)
  /\ buffer' = [i \in DOMAIN buffer |-> Outdated(buffer[i])]
  /\ UNCHANGED <<backend, ratio, running, asked, streaming, next, stamps, stamp, forward, sdp, history>>

(* _refresh_local_port: both the proxy and the SDP file get a new one. *)
RefreshLocalPort(p) == forward' = p /\ sdp' = p

(* av.open fails, and may have no other port to try. *)
OpenFails ==
  /\ phase = "open" /\ running /\ backend # "gst"
  /\ \/ backend = "proxy" /\ \E p \in Port : RefreshLocalPort(p)
     \/ UNCHANGED <<forward, sdp>>
  /\ UNCHANGED <<backend, ratio, phase, running, asked, stream, picture, listening, history>>

(* With a proxy that sends elsewhere nothing would get here. *)
Arrives == streaming /\ (backend = "proxy" => forward = listening)

(* PyAV looks at the event with every packet, a pipeline plays on. *)
Playing == phase = "play" /\ (running \/ backend = "gst")

(* _update_frame; the deques lose their oldest entry when they are full.   *)
Push(seq, e) == Append(IF Len(seq) = MaxBuffer THEN Tail(seq) ELSE seq, e)

Update ==
  /\ buffer' = Push(buffer, [n |-> next, current |-> TRUE])
  /\ stamps' = Push(stamps, next)
  /\ next' = (next + 1) % Frames

(* A packet that is not too old and can be decoded. *)
Decode ==
  /\ Arrives /\ ~behind /\ Playing
  /\ latest' = TRUE /\ old' = 0
  /\ Update
  /\ UNCHANGED <<backend, ratio, phase, running, asked, streaming, behind, frame, stamp, ports,
                 history>>

DropOld_CountAgain ==
  /\ Arrives /\ latest /\ Playing
  /\ old' = IF old < MaxOld THEN old + 1 ELSE 0
  /\ UNCHANGED <<backend, ratio, phase, running, asked, streaming, behind, latest, next, picture,
                 ports, history>>

(* One that is too old.  PyAV opens a new container after too many of them *)
(* in a row, GStreamer counts them again.                                  *)
DropOld ==
  /\ Arrives /\ latest /\ Playing
  /\ IF old < MaxOld THEN old' = old + 1 /\ UNCHANGED phase
     ELSE IF backend = "gst" THEN old' = 0 /\ UNCHANGED phase
     ELSE old' = MaxOld + 1 /\ phase' = "clear"
  /\ UNCHANGED <<backend, ratio, running, asked, streaming, behind, latest, next, picture, ports,
                 history>>

(* It ends when it is told to, which PyAV sees with the next packet, when  *)
(* nothing has come for five seconds (PyAV), and on errors.                *)
StreamEnds ==
  /\ phase = "play"
  /\ phase' = "clear"
  /\ UNCHANGED <<backend, ratio, running, asked, stream, picture, ports, history>>

(* The frames, but not their times. *)
Clear ==
  /\ frame' = None /\ buffer' = <<>>
  /\ unpaired' = (unpaired \/ (ratio # "newest" /\ buffer # <<>>))

(* ReceiverGst._check_timeout. *)
CheckTimeout ==
  /\ backend = "gst" /\ phase = "play" /\ latest /\ ~streaming
  /\ frame # None \/ buffer # <<>>
  /\ Clear
  /\ UNCHANGED <<backend, ratio, phase, running, asked, stream, stamps, stamp, ports, lost, late>>

(* The finally of the main loop: the frames are cleared ... *)
ClearFrames ==
  /\ phase = "clear" /\ phase' = "end"
  /\ Clear
  /\ UNCHANGED <<backend, ratio, running, asked, stream, stamps, stamp, ports, lost, late>>

(* ... while the pipeline of GStreamer still plays ... *)
LateSample ==
  /\ backend = "gst" /\ Arrives /\ phase = "end"
  /\ late' = TRUE
  /\ Update
  /\ UNCHANGED <<backend, ratio, phase, running, asked, streaming, behind, latest, old, frame,
                 stamp, ports, lost, unpaired>>

(* ... until it is stopped, as the container is closed. *)
CloseStream ==
  /\ phase = "end" /\ phase' = "open"
  /\ listening' = None
  /\ UNCHANGED <<backend, ratio, running, asked, stream, picture, forward, sdp, history>>

(* _cleanup. *)
Leave ==
  /\ phase = "open" /\ ~running
  /\ phase' = "done"
  /\ forward' = None /\ sdp' = None
  /\ UNCHANGED <<backend, ratio, running, asked, stream, picture, listening, history>>

-----------------------------------------------------------------------------
(* What the thread of the receiver does next; it plays until it has a      *)
(* reason to end.                                                          *)
Thread ==
  \/ Run \/ Open \/ ClearFrames \/ CloseStream \/ Leave
  \/ (~running \/ (~streaming /\ backend # "gst")) /\ StreamEnds

Packets == Decode \/ (behind /\ DropOld)

Next ==
  \/ StartSending \/ StopSending \/ Stop \/ GetFrame
  \/ Run \/ Open \/ OpenFails \/ Decode \/ DropOld \/ StreamEnds
  \/ CheckTimeout \/ ClearFrames \/ LateSample \/ CloseStream \/ Leave

Spec == Init /\ [][Next]_vars

(* The thread runs, the timer of GStreamer fires, and packets of a sender  *)
(* that sends keep coming.                                                 *)
FairSpec == Spec /\ WF_vars(Thread) /\ WF_vars(CheckTimeout) /\ WF_vars(Packets)

-----------------------------------------------------------------------------
(* Properties *)

(* The times that are taken for the displayed frame are its own, however   *)
(* frames are dropped from the buffer, until frames are cleared while more *)
(* than the newest is picked.                                              *)
Paired == ~unpaired /\ frame # None => stamp = frame.n

(* No frame of an earlier stream is displayed, or waits to be, once a new  *)
(* one is opened, unless a sample slipped in as the earlier one ended.     *)
Current ==
  ~late => /\ frame # None => frame.current
           /\ \A i \in DOMAIN buffer : buffer[i].current

(* Both: a frame on display, and all that is told of it, are of the stream *)
(* that is open.                                                           *)
FramesOwn == Paired /\ Current

(* The last picture of a sender that is gone does not stay, or there would *)
(* be no telling.                                                          *)
Displayed == frame # None \/ buffer # <<>>
Cleared == (~streaming /\ Displayed) ~> (streaming \/ ~Displayed \/ late)

(* A sender that was restarted, whose packets all look too old, is seen    *)
(* again.                                                                  *)
Recovers == behind ~> (~behind \/ ~streaming \/ asked)

(* stop() ends the thread, which its caller waits for without a timeout,   *)
(* unless it came before the thread ran.                                   *)
Stops == asked ~> (phase = "done" \/ lost)

(* All three: the picture comes, goes and ends with the sender.            *)
FollowsSender == Cleared /\ Recovers /\ Stops

(* Receiver.__init__: "100 Render only latest frame"; 100 is what picks    *)
(* the oldest.                                                             *)
LatestOnly ==
  [][GetFrame /\ ratio = "oldest" => frame' = Last(buffer)]_vars

=============================================================================

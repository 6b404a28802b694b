------------------------------- MODULE MCPipeline -------------------------------
(* The pipeline of the streamer, one part at a time: recordings, from the  *)
(* first start to the end of the process, and the frames on their way to   *)
(* the network.  Frames neither know of a recording nor wait for one.      *)
EXTENDS Recording

CONSTANTS MaxFrames, SizeBuffers, SizeUdp, Depth, MaxLost, Timing   \* VideoPipeline

(* The queues hold at least a frame: in GStreamer 0 would be no limit. *)
ASSUME FrameAssumption ==
  MaxFrames \in Nat /\ SizeBuffers \in Nat \ {0} /\ SizeUdp \in Nat \ {0}

VARIABLES
  part,  \* which of them runs: "recordings" or "frames"
  phase, source, at, data, measured, reading, pending, stamp, overrun, timeoutId, timeouts, firing,
  handler, failed

frameVars == <<phase, source, at, data, measured, reading, pending, stamp, overrun, timeoutId,
               timeouts, firing, handler, failed>>
pipelineVars == <<part, vars, frameVars>>

Frames == INSTANCE VideoPipeline WITH place <- at

PipelineInit ==
  /\ part \in {"recordings", "frames"}
  /\ Init /\ Frames!Init
  /\ part # "recordings" => place[Main] = "ready"

PipelineNext ==
  /\ UNCHANGED part
  /\ \/ part = "recordings" /\ Next /\ UNCHANGED frameVars
     \/ part = "frames" /\ Frames!Next /\ UNCHANGED vars

PipelineSpec == PipelineInit /\ [][PipelineNext]_pipelineVars

(* The fairness of each part, for as long as it is the one that runs. *)
RecordingFairness ==
  /\ \A c \in Caller : WF_vars(part = "recordings" /\ Call(c))
  /\ WF_vars(part = "recordings" /\ MainLoop)
  /\ WF_vars(part = "recordings" /\ LeaveLoop)
FrameFairness ==
  /\ WF_frameVars(part = "frames" /\ Frames!Encoding)
  /\ WF_frameVars(part = "frames" /\ Frames!MainLoop)

FairPipelineSpec == PipelineSpec /\ RecordingFairness /\ FrameFairness

-----------------------------------------------------------------------------
(* RecordingSound, FilesComplete and StopsAtLast are those of Recording.   *)

(* The times of the frames under way are kept, and no others, and a frame  *)
(* carries its own: TimesKept and OwnStamp of VideoPipeline, about         *)
(* PipelineTimer.py and SEIInjector.py.                                    *)
TimesOwn == Frames!TimesKept /\ Frames!OwnStamp

(* The UDP queue counts as recovered in the end: OverrunEnds of            *)
(* VideoPipeline, about _on_udp_queue_overrun of Streamer.py.              *)
QueueRecovers == part = "frames" => Frames!OverrunEnds
=============================================================================

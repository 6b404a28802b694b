----------------------------- MODULE VideoPipeline -----------------------------
(***************************************************************************)
(* The pipeline of the streamer: how it is built, and the frames that pass *)
(* through it.  The camera's thread takes them through the caps filter to  *)
(* the queue of the encoder, that queue's thread into the encoder, the     *)
(* encoder's own thread out of it and through the tee to the UDP queue,    *)
(* and that queue's thread through the payloader to the network.  Both     *)
(* queues are leaky: a full one loses its oldest frame.                    *)
(*                                                                         *)
(* The probes on the way are those of the PipelineTimer, which times each  *)
(* frame at every stage, and of the SEIInjector, which stamps each one     *)
(* with the time it went into the encoder.  Beside them the main loop runs *)
(* the timeout after which the UDP queue counts as recovered.              *)
(***************************************************************************)
EXTENDS Naturals, FiniteSets, Functions, FiniteSetsExt

CONSTANTS
  MaxFrames,    \* frames of the source (a bound)
  SizeBuffers,  \* sizebuffers: how many queue_encoder holds
  SizeUdp,      \* sizebuffers_udp: how many queue_udp holds
  Depth,        \* frames the encoder holds
  MaxLost,      \* frames the encoder loses (a bound)
  Timing        \* timing_enabled

Frame == 1 .. MaxFrames   \* by their pts, which grow
Stage == {"source", "capsfilter", "encoder", "payloader_in"}
Place == {"none", "source", "queue_encoder", "encoder", "encoded", "stamped", "overrun", "queue_udp",
          "payloader", "purge", "sent", "lost", "dropped"}

VARIABLES
  phase,      \* of Streamer.start: what is built, "opening" or "unlinked" for a file, "playing" or "exited"
  source,     \* what it streams
  place,      \* where each frame is
  data,       \* _data of the timer: the stages that each frame has passed
  measured,   \* the last one whose times went into its statistics
  reading,    \* the keys of _data when it began to look for old ones
  pending,    \* _pending of the injector, by pts; a time is the frame that entered then
  stamp,      \* the stamp each frame carries, or 0
  overrun,    \* _udp_queue_overrun_active
  timeoutId,  \* _udp_queue_overrun_recovery_timeout_id, or 0
  timeouts,   \* timeouts the main loop has; each is named after the frame it was added for
  firing,     \* the one it is calling back, or 0
  handler,    \* where the overrun handler is, on the thread of the encoder
  failed      \* history: a probe raised

timer == <<data, measured, reading, failed>>
injector == <<pending, stamp>>
recovery == <<overrun, timeoutId, timeouts, firing, handler>>
vars == <<phase, source, place, timer, injector, recovery>>

TypeOK ==
  /\ phase \in {"new", "source", "encoder", "built", "opening", "unlinked", "playing", "exited"}
  /\ source \in {"none", "camera", "file", "test"}
  /\ place \in [Frame -> Place]
  /\ DOMAIN data \subseteq Frame /\ \A f \in DOMAIN data : data[f] \subseteq Stage
  /\ measured \in Frame \cup {0} /\ reading \subseteq Frame
  /\ pending \subseteq Frame /\ stamp \in [Frame -> Frame \cup {0}]
  /\ overrun \in BOOLEAN /\ timeoutId \in Frame \cup {0}
  /\ timeouts \subseteq Frame /\ firing \in Frame \cup {0}
  /\ handler \in {"idle", "remove", "add"} /\ failed \in BOOLEAN

Init ==
  /\ phase = "new" /\ source = "none" /\ place = [f \in Frame |-> "none"]
  /\ data = <<>> /\ measured = 0 /\ reading = {} /\ failed = FALSE
  /\ pending = {} /\ stamp = [f \in Frame |-> 0]
  /\ overrun = FALSE /\ timeoutId = 0 /\ timeouts = {} /\ firing = 0 /\ handler = "idle"

At(p) == {f \in Frame : place[f] = p}
Without(d, gone) == Restrict(d, DOMAIN d \ gone)
Passed(f, stage) == IF f \in DOMAIN data THEN [data EXCEPT ![f] = @ \cup {stage}] ELSE data

-----------------------------------------------------------------------------
(* Building, as far as every element can be made and every pair linked;    *)
(* otherwise, and when the pipeline does not play, the process exits.      *)
Build(from, to) ==
  /\ phase = from /\ phase' \in {to, "exited"}
  /\ UNCHANGED <<place, timer, injector, recovery>>

CameraSource == source' = "camera"
FileSource == source' = "file"
TestSource == source' = "test"

BuildSource == Build("new", "source") /\ (CameraSource \/ FileSource \/ TestSource)
BuildEncoder == Build("source", "encoder") /\ UNCHANGED source
BuildUdp == Build("encoder", "built") /\ UNCHANGED source
Play == Build("built", IF source = "file" THEN "opening" ELSE "playing") /\ UNCHANGED source

(* The demultiplexer of a file finds a video in it, which may not link, or *)
(* finds none.                                                             *)
on_demux_pad_added ==
  /\ phase = "opening" /\ phase' \in {"playing", "unlinked"}
  /\ UNCHANGED <<source, place, timer, injector, recovery>>

-----------------------------------------------------------------------------
(* The camera's thread *)

_on_source_buffer ==
  /\ phase = "playing" /\ At("source") = {} /\ At("none") # {}
  /\ LET f == Min(At("none"))
     IN  /\ place' = [place EXCEPT ![f] = "source"]
         /\ data' = IF Timing THEN [k \in DOMAIN data \cup {f} |-> IF k = f THEN {"source"} ELSE data[k]]
                    ELSE data
  /\ UNCHANGED <<phase, source, measured, reading, failed, injector, recovery>>

(* A queue that is full makes room. *)
Queued(f, queue, size) ==
  LET old == IF Cardinality(At(queue)) < size THEN {} ELSE {Min(At(queue))}
  IN  place' = [k \in Frame |-> IF k = f THEN queue ELSE IF k \in old THEN "dropped" ELSE place[k]]

_on_camera_buffer(f) ==
  /\ f \in At("source")
  /\ data' = Passed(f, "capsfilter")
  /\ Queued(f, "queue_encoder", SizeBuffers)
  /\ UNCHANGED <<phase, source, measured, reading, failed, injector, recovery>>

-----------------------------------------------------------------------------
(* The encoder, filled by the thread of its queue *)

on_pre_encode ==
  /\ At("queue_encoder") # {} /\ Cardinality(At("encoder")) < Depth
  /\ LET f == Min(At("queue_encoder"))
     IN  /\ place' = [place EXCEPT ![f] = "encoder"]
         /\ pending' = IF Timing THEN pending \cup {f} ELSE pending
  /\ UNCHANGED <<phase, source, timer, stamp, recovery>>

Lose(f) ==
  /\ f \in At("encoder") /\ Cardinality(At("lost")) < MaxLost
  /\ place' = [place EXCEPT ![f] = "lost"]
  /\ UNCHANGED <<phase, source, timer, injector, recovery>>

(* and emptied by its own thread, one frame at a time. *)
_on_encoder_buffer ==
  /\ At("encoder") # {} /\ At("encoded") \cup At("stamped") \cup At("overrun") = {}
  /\ LET f == Min(At("encoder"))
     IN  place' = [place EXCEPT ![f] = "encoded"] /\ data' = Passed(f, "encoder")
  /\ UNCHANGED <<phase, source, measured, reading, failed, injector, recovery>>

on_post_encode_Oldest(f) ==
  /\ f \in At("encoded")
  /\ place' = [place EXCEPT ![f] = "stamped"]
  /\ IF pending = {} THEN UNCHANGED injector
     ELSE stamp' = [stamp EXCEPT ![f] = Min(pending)] /\ pending' = pending \ {Min(pending)}
  /\ UNCHANGED <<phase, source, timer, recovery>>

on_post_encode(f) ==
  /\ f \in At("encoded")
  /\ place' = [place EXCEPT ![f] = "stamped"]
  /\ IF f \notin pending THEN UNCHANGED injector
     ELSE stamp' = [stamp EXCEPT ![f] = f] /\ pending' = pending \ {f}
  /\ UNCHANGED <<phase, source, timer, recovery>>

(* The tee.  A full UDP queue tells of it before it makes room.            *)
Push(f) ==
  /\ f \in At("stamped") /\ Cardinality(At("queue_udp")) < SizeUdp
  /\ Queued(f, "queue_udp", SizeUdp)
  /\ UNCHANGED <<phase, source, timer, injector, recovery>>

_on_udp_queue_overrun(f) ==
  /\ f \in At("stamped") /\ Cardinality(At("queue_udp")) = SizeUdp
  /\ place' = [place EXCEPT ![f] = "overrun"]
  /\ overrun' = TRUE /\ handler' = "remove"
  /\ UNCHANGED <<phase, source, timer, injector, timeoutId, timeouts, firing>>

RemoveTimeout ==
  /\ handler = "remove" /\ handler' = "add"
  /\ timeouts' = timeouts \ {timeoutId}
  /\ UNCHANGED <<phase, source, place, timer, injector, overrun, timeoutId, firing>>

AddTimeout_Once(f) ==
  /\ handler = "add" /\ handler' = "idle"
  /\ f \in At("overrun")
  /\ IF timeoutId = 0 THEN timeoutId' = f /\ timeouts' = timeouts \cup {f}
     ELSE UNCHANGED <<timeoutId, timeouts>>
  /\ Queued(f, "queue_udp", SizeUdp)
  /\ UNCHANGED <<phase, source, timer, injector, overrun, firing>>

AddTimeout(f) ==
  /\ handler = "add" /\ handler' = "idle"
  /\ f \in At("overrun")
  /\ timeoutId' = f /\ timeouts' = timeouts \cup {f}
  /\ Queued(f, "queue_udp", SizeUdp)
  /\ UNCHANGED <<phase, source, timer, injector, overrun, firing>>

-----------------------------------------------------------------------------
(* The main loop: _on_udp_queue_overrun_recovery_timeout *)

TimeoutFires(t) ==
  /\ firing = 0 /\ t \in timeouts
  /\ timeouts' = timeouts \ {t} /\ firing' = t
  /\ overrun' = FALSE
  /\ UNCHANGED <<phase, source, place, timer, injector, timeoutId, handler>>

TimeoutEnds ==
  /\ firing # 0 /\ firing' = 0 /\ timeoutId' = 0
  /\ UNCHANGED <<phase, source, place, timer, injector, overrun, timeouts, handler>>

-----------------------------------------------------------------------------
(* The thread of the UDP queue *)

_on_payloader_in ==
  /\ At("queue_udp") # {} /\ At("payloader") \cup At("purge") = {}
  /\ LET f == Min(At("queue_udp"))
     IN  /\ place' = [place EXCEPT ![f] = "payloader"]
         /\ data' = IF f \in DOMAIN data /\ data[f] = {"source", "capsfilter", "encoder"}
                    THEN Passed(f, "payloader_in") ELSE data
  /\ UNCHANGED <<phase, source, measured, reading, failed, injector, recovery>>

(* The times of the frame are taken and the keys of the rest looked        *)
(* through for older ones, while the camera adds its own.                  *)
_on_udpsink_buffer_list(f) ==
  /\ f \in At("payloader")
  /\ IF f \in DOMAIN data /\ "payloader_in" \in data[f]
     THEN /\ data' = Without(data, {f}) /\ measured' = f
          /\ reading' = DOMAIN data \ {f}
          /\ place' = [place EXCEPT ![f] = "purge"]
     ELSE place' = [place EXCEPT ![f] = "sent"] /\ UNCHANGED <<data, measured, reading>>
  /\ UNCHANGED <<phase, source, failed, injector, recovery>>

Purge(f) ==
  /\ f \in At("purge") /\ reading' = {}
  /\ data' = Without(data, {k \in reading : k < f})
  /\ place' = [place EXCEPT ![f] = "sent"]
  /\ UNCHANGED <<phase, source, measured, failed, injector, recovery>>

(* A dictionary that grows while it is looked through raises, and a probe  *)
(* that raises drops what it was called for.                               *)
PurgeRaises(f) ==
  /\ f \in At("purge") /\ DOMAIN data # reading
  /\ reading' = {} /\ failed' = TRUE
  /\ place' = [place EXCEPT ![f] = "dropped"]
  /\ UNCHANGED <<phase, source, data, measured, injector, recovery>>

-----------------------------------------------------------------------------
Building == BuildSource \/ BuildEncoder \/ BuildUdp \/ Play \/ on_demux_pad_added
Encoding ==
  \/ _on_encoder_buffer \/ RemoveTimeout
  \/ \E f \in Frame : on_post_encode(f) \/ Push(f) \/ _on_udp_queue_overrun(f) \/ AddTimeout(f)
MainLoop == TimeoutEnds \/ \E t \in Frame : TimeoutFires(t)
Sending ==
  \/ _on_payloader_in
  \/ \E f \in Frame : _on_udpsink_buffer_list(f) \/ Purge(f) \/ PurgeRaises(f)

Next ==
  \/ Building \/ Encoding \/ MainLoop \/ Sending
  \/ _on_source_buffer \/ on_pre_encode
  \/ \E f \in Frame : _on_camera_buffer(f) \/ Lose(f)

Spec == Init /\ [][Next]_vars

(* The encoder's thread and the main loop go on; the network may be stuck. *)
FairSpec == Spec /\ WF_vars(Encoding) /\ WF_vars(MainLoop)

-----------------------------------------------------------------------------
(* A frame on its way has an entry with the stages it has passed, however  *)
(* many frames the queues and the encoder lose before it, and of the       *)
(* frames before the last one measured no entry is left, so that _data     *)
(* stays as small as what is under way.                                    *)
TimesKept ==
  LET passed == [p \in Place |->
                   IF p = "source" THEN {"source"}
                   ELSE IF p \in {"queue_encoder", "encoder"} THEN {"source", "capsfilter"}
                   ELSE IF p \in {"encoded", "stamped", "overrun", "queue_udp"}
                   THEN {"source", "capsfilter", "encoder"} ELSE Stage]
  IN  Timing => /\ \A f \in Frame : place[f] \notin {"none", "sent", "lost", "dropped", "purge"} =>
                     f \in DOMAIN data /\ data[f] = passed[place[f]]
                /\ At("purge") = {} /\ ~failed => \A f \in DOMAIN data : f > measured

(* The stamp of a frame is the time at which this very frame went into the *)
(* encoder, although the encoder holds several and may lose some.          *)
OwnStamp == \A f \in Frame : place[f] \in {"queue_udp", "payloader", "purge", "sent"} =>
              stamp[f] = IF Timing THEN f ELSE 0

(* The UDP queue counts as recovered in the end: although the handler, on  *)
(* the encoder's thread, and the callback, on the main loop, lose each     *)
(* other's timeout, one that clears the flag is always left.               *)
OverrunEnds == overrun ~> ~overrun

(* No frame is lost but by a full queue or the encoder.  With timing it    *)
(* may be: a probe that raises drops its packets.                          *)
TimingIsHarmless == ~failed
=============================================================================

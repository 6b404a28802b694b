---------------------------- MODULE RelayInstances ----------------------------
(* Clients of the small relay instances.  An address is a string, its IP the  *)
(* client's letter and then its port: S and N are addresses of the streamer   *)
(* (N after it moved), V of the viewer, W of a spectator.                      *)
MCAddr == {"Sv", "Sc", "Nv", "Vv", "Vc", "Wv", "Wc"}
MCIp == {"S", "V", "W"}
MCIpOf == [a \in MCAddr |->
  CASE a \in {"Sv", "Sc", "Nv"} -> "S"
    [] a \in {"Vv", "Vc"} -> "V"
    [] a \in {"Wv", "Wc"} -> "W"]

Peer(role, video, control, sids) ==
  [role : {role}, port : {"video"}, addr : {video}, sid : sids]
  \cup [role : {role}, port : {"control"}, addr : {control}, sid : sids]

Streamer(sids) == Peer("streamer", "Sv", "Sc", sids)
Viewer(sids) == Peer("viewer", "Vv", "Vc", sids)

(* A streamer and a viewer whose session id is renewed. *)
Renewal == Streamer({"s1", "s2"}) \cup Viewer({"s1", "s2"})

(* One session; its streamer's video address may change. *)
Moving == Streamer({"s1"}) \cup Peer("streamer", "Nv", "Sc", {"s1"}) \cup Viewer({"s1"})

(* One session with a spectator; the streamer's video address may change.   *)
Audience == Peer("spectator", "Wv", "Wc", {"s1"})
MovingWatched == Moving \cup Audience
Watching == Streamer({"s1"}) \cup Viewer({"s1"}) \cup Audience

(* The viewer of the session becomes a spectator of it at the same ports. *)
Demoted == Streamer({"s1"}) \cup Viewer({"s1"}) \cup Peer("spectator", "Vv", "Vc", {"s1"})

(* A spectator that goes from one session to another, seen by streamers only. *)
Zapping == [role : {"streamer"}, port : {"video"}, addr : {"Sv"}, sid : {"s1"}]
  \cup [role : {"streamer"}, port : {"video"}, addr : {"Nv"}, sid : {"s2"}]
  \cup [role : {"spectator"}, port : {"video"}, addr : {"Wv"}, sid : {"s1", "s2"}]
===============================================================================

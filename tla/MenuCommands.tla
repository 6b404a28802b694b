------------------------------ MODULE MenuCommands ------------------------------
(***************************************************************************)
(* The menu of the viewer and what it waits for: commands to the streamer  *)
(* and tests of a relay, whose results come from other threads, mappings   *)
(* of keys and gamepads, and the network behind it being restarted.        *)
(*                                                                         *)
(* The main thread handles events, calls back and draws in turn.  Beside   *)
(* it run the thread that restarts the network, the one that sets it up,   *)
(* the workers of a server, and the thread of a relay test.  A server is   *)
(* the one of the newest network controller: another controller, another   *)
(* number.                                                                 *)
(***************************************************************************)
EXTENDS Naturals, Sequences, FiniteSets, SequencesExt

CONSTANTS
  MaxRequests,  \* commands and tests (a bound)
  MaxRestarts   \* restarts of the network (a bound)

Request == 1 .. MaxRequests
Tabs == {"General", "Input", "Network", "Streamer"}
NoResult == [req |-> 0, ok |-> FALSE]
Result == [req : Request, ok : BOOLEAN]

VARIABLES
  visible, tab, enabled,  \* active_tab, and whether the Streamer tab is enabled
  locked,       \* disable_tabs, with Save, Back and Quit disabled
  mapping,      \* a widget of the Input tab waits for a "key" or for the "gamepad"
  loading,      \* is_loading
  result,       \* _pending_result
  displayed,    \* _result_start_time is set
  kind,         \* of each request: "menu", "shortcut", "test" or "none"
  requests,     \* how many there are; the newest is the one that is loading
  main,         \* where send_command is
  queue,        \* _callback_queue
  tester,       \* the request whose test runs, or 0
  connected,    \* user_connected
  controller,   \* the number of network_controller
  server,       \* its server: none, up, has notified its commands, or shut
  spectator,    \* relay_spectator_mode
  pending,      \* pending_commands, with the server's number
  tasks,        \* retry tasks
  restart,      \* the thread that restarts the network
  setup,        \* the thread that sets it up
  escaped       \* history: the menu was left while the gamepad is mapped

view == <<visible, tab, enabled>>
overlay == <<loading, result, displayed>>
asking == <<kind, requests, main>>
network == <<connected, controller, server, spectator, restart, setup>>
commands == <<pending, tasks>>
vars == <<view, locked, mapping, overlay, asking, queue, tester, network, commands, escaped>>

Sent == [req : Request, to : 0 .. MaxRestarts]

TypeOK ==
  /\ visible \in BOOLEAN /\ tab \in Tabs /\ enabled \in BOOLEAN /\ locked \in BOOLEAN
  /\ mapping \in {"none", "key", "gamepad"}
  /\ loading \in BOOLEAN /\ result \in Result \cup {NoResult} /\ displayed \in BOOLEAN
  /\ kind \in [Request -> {"none", "menu", "shortcut", "test"}] /\ requests \in 0 .. MaxRequests
  /\ main \in {"idle", "check", "register", "submit", "crashed"}
  /\ queue \in Seq(Result) /\ tester \in Request \cup {0}
  /\ connected \in BOOLEAN /\ controller \in 0 .. MaxRestarts
  /\ server \in {"none", "up", "notified", "shut"} /\ spectator \in BOOLEAN
  /\ pending \subseteq Sent /\ tasks \subseteq Sent
  /\ restart \in {"none", "setup", "notify", "shut", "create"} /\ setup \in {"none", "running"}
  /\ escaped \in BOOLEAN

Init ==
  /\ visible = FALSE /\ tab = "General" /\ enabled = FALSE /\ locked = FALSE /\ mapping = "none"
  /\ loading = FALSE /\ result = NoResult /\ displayed = FALSE
  /\ kind = [r \in Request |-> "none"] /\ requests = 0 /\ main = "idle"
  /\ queue = <<>> /\ tester = 0
  /\ connected = FALSE /\ controller = 0 /\ server = "none" /\ spectator \in BOOLEAN
  /\ pending = {} /\ tasks = {} /\ restart = "none" /\ setup = "none"
  /\ escaped = FALSE

-----------------------------------------------------------------------------
(* Events of the main thread *)

Free == main = "idle"
Usable == Free /\ visible /\ ~loading     \* handle_event lets events through

connect ==
  /\ Free /\ ~visible /\ ~connected
  /\ connected' = TRUE /\ setup' = "running"
  /\ UNCHANGED <<view, locked, mapping, overlay, asking, queue, tester, controller, server,
                 spectator, restart, commands, escaped>>

show ==
  /\ Free /\ ~visible /\ visible' = TRUE
  /\ UNCHANGED <<tab, enabled, locked, mapping, overlay, asking, queue, tester, network, commands,
                 escaped>>

Choose(t) ==
  /\ Usable /\ ~locked /\ (t = "Streamer" => enabled)
  /\ tab' = t
  /\ UNCHANGED <<visible, enabled, locked, mapping, overlay, asking, queue, tester, network,
                 commands, escaped>>

(* hide, and update_settings, which restarts the network when settings it  *)
(* depends on have changed (one restart at a time is modelled).            *)
Leave ==
  /\ visible' = FALSE /\ tab' = "General"
  /\ \/ UNCHANGED restart
     \/ connected /\ restart = "none" /\ controller < MaxRestarts /\ restart' = "setup"
  /\ UNCHANGED <<enabled, overlay, asking, queue, tester, connected, controller, server, spectator,
                 setup, commands>>

BackButton == Usable /\ ~locked /\ Leave /\ UNCHANGED <<locked, mapping, escaped>>

(* The key that is waited for takes the Escape key, pressed, before it is  *)
(* released.                                                               *)
Escape ==
  /\ Usable
  /\ Leave
  /\ IF mapping = "key" THEN mapping' = "none" /\ locked' = FALSE ELSE UNCHANGED <<mapping, locked>>
  /\ escaped' = (escaped \/ mapping = "gamepad")

(* _on_remap_click of a key or a button, or a calibration that starts *)
StartMapping(w) ==
  /\ Usable /\ tab = "Input" /\ mapping = "none" /\ ~locked
  /\ mapping' = w /\ locked' = TRUE
  /\ UNCHANGED <<view, overlay, asking, queue, tester, network, commands, escaped>>

EndMapping ==
  /\ Usable /\ tab = "Input" /\ mapping # "none"
  /\ mapping' = "none" /\ locked' = FALSE
  /\ UNCHANGED <<view, overlay, asking, queue, tester, network, commands, escaped>>

-----------------------------------------------------------------------------
(* Commands and tests *)

New(k) == requests < MaxRequests /\ requests' = requests + 1 /\ kind' = [kind EXCEPT ![requests'] = k]
Answer(r, ok) == queue' = Append(queue, [req |-> r, ok |-> ok])

(* In spectator mode a command is refused through the queue. *)
send_command ==
  IF spectator THEN Answer(requests', FALSE) /\ UNCHANGED main
  ELSE main' = "check" /\ UNCHANGED queue

Command ==
  /\ Usable /\ tab = "Streamer" /\ New("menu")
  /\ locked' = TRUE /\ loading' = TRUE
  /\ send_command
  /\ UNCHANGED <<view, mapping, result, displayed, tester, network, commands, escaped>>

(* A key, or a button of the gamepad, outside the menu. *)
Shortcut ==
  /\ Free /\ ~visible /\ connected /\ New("shortcut")
  /\ send_command
  /\ UNCHANGED <<view, locked, mapping, overlay, tester, network, commands, escaped>>

TestRelay ==
  /\ Usable /\ tab = "Network" /\ New("test")
  /\ loading' = TRUE /\ tester' = requests'
  /\ UNCHANGED <<view, locked, mapping, result, displayed, main, queue, network, commands, escaped>>

TestDone ==
  /\ tester # 0 /\ tester' = 0
  /\ \E ok \in BOOLEAN : result' = [req |-> tester, ok |-> ok]
  /\ UNCHANGED <<view, locked, mapping, loading, displayed, asking, queue, network, commands,
                 escaped>>

(* Without a server the callback is called at once; of the menu's commands *)
(* that is callback_wrapper. *)
Check ==
  /\ main = "check"
  /\ IF server # "none" THEN main' = "register" /\ UNCHANGED result
     ELSE /\ main' = "idle"
          /\ result' = IF kind[requests] = "menu" THEN [req |-> requests, ok |-> FALSE] ELSE result
  /\ UNCHANGED <<view, locked, mapping, loading, displayed, kind, requests, queue, tester, network,
                 commands, escaped>>

(* The controller is read again, and by now may have no server. *)
Register ==
  /\ main = "register"
  /\ IF server = "none" THEN main' = "crashed" /\ UNCHANGED pending
     ELSE main' = "submit" /\ pending' = pending \cup {[req |-> requests, to |-> controller]}
  /\ UNCHANGED <<view, locked, mapping, overlay, kind, requests, queue, tester, network, tasks,
                 escaped>>

Newest(S) == {s \in S : s.req = requests}

Mine == CHOOSE s \in [req : {requests}, to : 0 .. controller] :
          s \in pending \/ (s.to = controller /\ Newest(pending) = {})

(* Submitting to a pool that is shut calls back at once. *)
Submit ==
  /\ main = "submit" /\ main' = "idle"
  /\ IF Mine.to = controller /\ server \in {"up", "notified"}
     THEN tasks' = tasks \cup {Mine} /\ UNCHANGED <<pending, queue>>
     ELSE /\ pending' = pending \ {Mine} /\ Answer(requests, FALSE)
          /\ UNCHANGED tasks
  /\ UNCHANGED <<view, locked, mapping, overlay, kind, requests, tester, network, escaped>>

-----------------------------------------------------------------------------
(* Workers of a server *)

command_ack_handler(s) ==
  /\ s \in pending /\ s \in tasks /\ s.to = controller /\ server = "up"
  /\ pending' = pending \ {s} /\ Answer(s.req, TRUE)
  /\ UNCHANGED <<view, locked, mapping, overlay, asking, tester, network, tasks, escaped>>

TaskEnds(s) ==
  /\ s \in tasks /\ tasks' = tasks \ {s}
  /\ pending' = pending \ {s}
  /\ IF s \in pending THEN Answer(s.req, FALSE) ELSE UNCHANGED queue
  /\ UNCHANGED <<view, locked, mapping, overlay, asking, tester, network, escaped>>

(* update_connected and _on_connection_change *)
ConnectionChange(c) ==
  /\ server = "up"
  /\ enabled' = (c /\ ~spectator)
  /\ tab' = IF tab = "Streamer" THEN "General" ELSE tab
  /\ UNCHANGED <<visible, locked, mapping, overlay, asking, queue, tester, network, commands,
                 escaped>>

-----------------------------------------------------------------------------
(* Setting the network up, and restarting it *)

SetupDone ==
  /\ setup = "running" /\ setup' = "none"
  /\ server' \in {"none", "up"}
  /\ UNCHANGED <<view, locked, mapping, overlay, asking, queue, tester, connected, controller,
                 spectator, restart, commands, escaped>>

RestartWaits ==
  /\ restart = "setup" /\ setup = "none"
  /\ restart' = IF server = "up" THEN "notify" ELSE "create"
  /\ UNCHANGED <<view, locked, mapping, overlay, asking, queue, tester, connected, controller,
                 server, spectator, setup, commands, escaped>>

StopNotify_Silent ==
  LET own == {s \in pending : s.to = controller}
  IN  /\ restart = "notify" /\ restart' = "shut"
      /\ server' = "notified" /\ pending' = pending \ own
      /\ UNCHANGED <<view, locked, mapping, overlay, asking, queue, tester, connected, controller,
                     spectator, setup, tasks, escaped>>

(* stop: every pending command is answered ... *)
StopNotify ==
  LET own == {s \in pending : s.to = controller}
  IN  /\ restart = "notify" /\ restart' = "shut"
      /\ server' = "notified" /\ pending' = pending \ own
      /\ queue' = queue \o SetToSeq({[req |-> s.req, ok |-> FALSE] : s \in own})
      /\ UNCHANGED <<view, locked, mapping, overlay, asking, tester, connected, controller,
                     spectator, setup, tasks, escaped>>

(* ... and the pool is shut, whose tasks go on. *)
StopShut ==
  /\ restart = "shut" /\ restart' = "create" /\ server' = "shut"
  /\ UNCHANGED <<view, locked, mapping, overlay, asking, queue, tester, connected, controller,
                 spectator, setup, commands, escaped>>

RestartCreate ==
  /\ restart = "create" /\ restart' = "none"
  /\ controller' = controller + 1 /\ server' = "none" /\ spectator' \in BOOLEAN
  /\ setup' = "running"
  /\ UNCHANGED <<view, locked, mapping, overlay, asking, queue, tester, connected, commands,
                 escaped>>

-----------------------------------------------------------------------------
(* Calling back and drawing *)

(* process_callbacks empties the queue: the callbacks of the menu leave    *)
(* their result for the drawing, and the last one stays.                   *)
process_callbacks ==
  LET own == {i \in DOMAIN queue : kind[queue[i].req] = "menu"}
  IN  /\ Free /\ queue # <<>> /\ queue' = <<>>
      /\ result' = IF own = {} THEN result ELSE queue[Max(own)]
      /\ UNCHANGED <<view, locked, mapping, loading, displayed, asking, tester, network, commands,
                     escaped>>

_process_pending_result_Kept ==
  /\ Free /\ visible /\ loading /\ result # NoResult
  /\ IF ~displayed THEN displayed' = TRUE /\ UNCHANGED <<loading, result, locked>>
     ELSE /\ displayed' = FALSE /\ loading' = FALSE /\ UNCHANGED result
          /\ locked' = IF kind[result.req] = "menu" THEN FALSE ELSE locked
  /\ UNCHANGED <<view, mapping, asking, queue, tester, network, commands, escaped>>

(* The result is shown for a while, and then called back with. *)
_process_pending_result ==
  /\ Free /\ visible /\ loading /\ result # NoResult
  /\ IF ~displayed THEN displayed' = TRUE /\ UNCHANGED <<loading, result, locked>>
     ELSE /\ displayed' = FALSE /\ loading' = FALSE /\ result' = NoResult
          /\ locked' = IF kind[result.req] = "menu" THEN FALSE ELSE locked
  /\ UNCHANGED <<view, mapping, asking, queue, tester, network, commands, escaped>>

-----------------------------------------------------------------------------
User ==
  \/ connect \/ show \/ BackButton \/ Escape \/ EndMapping \/ Command \/ Shortcut \/ TestRelay
  \/ \E t \in Tabs : Choose(t)
  \/ \E w \in {"key", "gamepad"} : StartMapping(w)
MainLoop == Check \/ Register \/ Submit \/ process_callbacks \/ _process_pending_result
Restarting == RestartWaits \/ StopNotify \/ StopShut \/ RestartCreate

Next ==
  \/ User \/ MainLoop \/ Restarting \/ TestDone \/ SetupDone
  \/ (\E s \in Sent : command_ack_handler(s) \/ TaskEnds(s))
  \/ (\E c \in BOOLEAN : ConnectionChange(c))

Spec == Init /\ [][Next]_vars

(* Every thread goes on.  The user need not do anything. *)
Fairness ==
  /\ WF_vars(Check \/ Register \/ Submit) /\ WF_vars(process_callbacks)
  /\ WF_vars(_process_pending_result)
  /\ WF_vars(Restarting) /\ WF_vars(TestDone) /\ WF_vars(SetupDone)
  /\ \A r \in Request : WF_vars(\E s \in Sent : s.req = r /\ TaskEnds(s))
FairSpec == Spec /\ Fairness

-----------------------------------------------------------------------------
(* The result that the menu shows and calls back with is the one of the    *)
(* command or test it waits for, also when commands of the shortcuts are   *)
(* under way and the network is restarted in between.  A command answered  *)
(* twice, by a server that stops between registering and submitting it, is *)
(* called back for the two in one go.                                      *)
OwnResult == result # NoResult => loading /\ result.req = requests

(* The menu that shows "Sending command..." or tests a relay, and takes no *)
(* event meanwhile, becomes usable again: a command is answered by the     *)
(* streamer, given up, or failed by a restart, whenever that comes.  The   *)
(* exception ends the program: a restart that takes the server away        *)
(* between the check and the use.                                          *)
LoadingEnds == loading ~> (~loading \/ main = "crashed")

(* The buttons and the tabs of the menu are disabled only while something  *)
(* is under way that enables them again.  Escape while the gamepad is      *)
(* mapped or calibrated violates it: the menu stays locked for good.       *)
NotLockedOut ==
  locked /\ ~escaped => loading \/ (visible /\ tab = "Input" /\ mapping # "none")
=============================================================================

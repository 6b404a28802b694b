----------------------------- MODULE AndroidSession -----------------------------
(***************************************************************************)
(* The activity of the Android viewer: its screens, and the coroutines     *)
(* that connect to a relay and reconnect when the settings have changed.   *)
(* Everything but the handshake runs on the main thread; coroutines        *)
(* interleave with the user where they suspend.  With UDP a                *)
(* RelayConnection announces both ports and closes its sockets; with TCP   *)
(* two tunnels are opened and stay open.                                   *)
(*                                                                         *)
(* A pair of tunnels is opened and stopped together.  Of the settings only *)
(* the transport is a value of its own.                                    *)
(***************************************************************************)
EXTENDS Naturals, Sequences, FiniteSets, SequencesExt

CONSTANTS
  MaxAttempts,  \* MAX_HANDSHAKE_ATTEMPTS
  MaxChanges,   \* changes of the settings (a bound)
  MaxStarts,    \* connections the user starts (a bound)
  Careful       \* the user waits for a reconnection, and leaves by the arrow

Settings == {"udp", "tcp", "other"}
Tcp(s) == s = "tcp"
None == "none"
Number == 1 .. 8
Job == [id : Number, again : BOOLEAN, using : Settings,
        phase : {"new", "ports", "handshake", "opened", "failed"},
        attempts : 0 .. MaxAttempts, video : BOOLEAN, control : BOOLEAN]

VARIABLES
  screen,        \* currentScreen
  backStack,
  settings,      \* networkSettings
  connection,    \* connectionState
  jobs,          \* coroutines under way
  current,       \* connectionJob, by its number
  relay,         \* the RelayConnection that can be cancelled, by that number, or 0
  sockets,       \* the jobs whose sockets are open
  used,          \* connectionNetworkSettings
  made,          \* history: the settings the connection was made with
  reconnecting,  \* isReconnecting
  held,          \* videoTunnel and controlTunnel refer to tunnels
  open,          \* tunnels that are open
  changes, starts

user == <<screen, backStack>>
coroutines == <<jobs, current, relay, sockets>>
tunnels == <<held, open>>
link == <<used, made, reconnecting>>
bounds == <<changes, starts>>
vars == <<user, settings, connection, coroutines, tunnels, link, bounds>>

TypeOK ==
  /\ screen \in {"Main", "Viewer", "Network"} /\ backStack \in Seq({"Main", "Viewer", "Network"})
  /\ settings \in Settings /\ connection \in {"Idle", "Connecting", "Error"}
  /\ jobs \subseteq Job /\ current \in Number \cup {0} /\ relay \in Number \cup {0} /\ sockets \subseteq Number
  /\ used \in Settings \cup {None} /\ made \in Settings \cup {None} /\ reconnecting \in BOOLEAN
  /\ held \in BOOLEAN /\ open \in Nat
  /\ changes \in 0 .. MaxChanges /\ starts \in 0 .. MaxStarts

Init ==
  /\ screen = "Main" /\ backStack = <<>> /\ settings \in Settings /\ connection = "Idle"
  /\ jobs = {} /\ current = 0 /\ relay = 0 /\ sockets = {}
  /\ used = None /\ made = None /\ reconnecting = FALSE
  /\ held = FALSE /\ open = 0 /\ changes = 0 /\ starts = 0

-----------------------------------------------------------------------------
(* stopTunnels, and starting others in their place *)
StopTunnels == held' = FALSE /\ open' = IF held THEN open - 1 ELSE open
StartTunnels == held' = TRUE /\ open' = open + 1

navigateTo(s) == backStack' = Append(backStack, screen) /\ screen' = s

(* A number that nothing refers to *)
New == CHOOSE n \in Number :
         n \notin {j.id : j \in jobs} \cup {current, relay} \cup sockets
NewJob(again) ==
  [id |-> New, again |-> again, using |-> settings, phase |-> "new",
   attempts |-> 0, video |-> FALSE, control |-> FALSE]

(* Cancelling a coroutine ends it where it suspends, and cancelling its    *)
(* RelayConnection closes the sockets.  A reconnection over TCP takes the  *)
(* cancellation for a failure.                                             *)
Without(id) ==
  LET caught == {j \in jobs : j.id = id /\ j.again /\ Tcp(j.using) /\ j.phase # "new"}
  IN  {j \in jobs : j.id # id} \cup {[j EXCEPT !.phase = "failed"] : j \in caught}

startConnection ==
  /\ screen = "Main" /\ connection # "Connecting" /\ starts < MaxStarts
  /\ connection' = "Connecting" /\ starts' = starts + 1
  /\ jobs' = jobs \cup {NewJob(FALSE)} /\ current' = New
  /\ relay' = IF Tcp(settings) THEN relay ELSE New
  /\ UNCHANGED <<user, settings, sockets, tunnels, link, changes>>

abortConnection_Cancels ==
  /\ screen = "Main" /\ connection = "Connecting"
  /\ connection' = "Idle"
  /\ jobs' = Without(current) /\ current' = 0
  /\ relay' = 0 /\ sockets' = sockets \ {relay}
  /\ UNCHANGED <<user, settings, tunnels, link, bounds>>

abortConnection ==
  /\ screen = "Main" /\ connection = "Connecting"
  /\ connection' = "Idle"
  /\ jobs' = Without(current) /\ current' = 0
  /\ relay' = 0 /\ sockets' = sockets \ {relay}
  /\ StopTunnels
  /\ UNCHANGED <<user, settings, link, bounds>>

(* MainScreen takes an error over and clears it. *)
ClearError ==
  /\ screen = "Main" /\ connection = "Error" /\ connection' = "Idle"
  /\ UNCHANGED <<user, settings, coroutines, tunnels, link, bounds>>

OpenSettings ==
  /\ \/ screen = "Main" /\ connection # "Connecting"
     \/ screen = "Viewer" /\ (Careful => ~reconnecting)
  /\ navigateTo("Network")
  /\ UNCHANGED <<settings, connection, coroutines, tunnels, link, bounds>>

ChangeSettings ==
  /\ screen = "Network" /\ changes < MaxChanges
  /\ \E s \in Settings \ {settings} : settings' = s
  /\ changes' = changes + 1
  /\ UNCHANGED <<user, connection, coroutines, tunnels, link, starts>>

reconnect ==
  /\ reconnecting' = TRUE
  /\ jobs' = Without(current) \cup {NewJob(TRUE)} /\ current' = New
  /\ sockets' = sockets \ {relay} /\ relay' = 0

(* Back to the screen before; to a viewer whose settings have changed with *)
(* another connection.                                                     *)
navigateBack ==
  /\ screen' = IF backStack = <<>> THEN "Main" ELSE Last(backStack)
  /\ backStack' = IF backStack = <<>> THEN <<>> ELSE Front(backStack)
  /\ IF screen' = "Viewer" /\ used # None /\ settings # used
     THEN reconnect
     ELSE UNCHANGED <<reconnecting, coroutines>>
  /\ UNCHANGED <<settings, connection, used, made, bounds>>

(* The back key of the system, and the arrow of the viewer. *)
BackKey ==
  /\ screen = "Network" \/ (screen = "Viewer" /\ ~Careful)
  /\ navigateBack
  /\ UNCHANGED tunnels

BackArrow ==
  /\ screen = "Viewer" /\ (Careful => ~reconnecting)
  /\ StopTunnels
  /\ navigateBack

-----------------------------------------------------------------------------
(* The coroutines *)

Becomes(j, k) == jobs' = (jobs \ {j}) \cup {k}

(* A reconnection closes the tunnels there are. *)
Begin(j) ==
  /\ j.phase = "new"
  /\ Becomes(j, [j EXCEPT !.phase = IF Tcp(j.using) THEN "ports" ELSE "handshake"])
  /\ IF j.again THEN StopTunnels ELSE UNCHANGED tunnels
  /\ relay' = IF j.again /\ ~Tcp(j.using) THEN j.id ELSE relay
  /\ sockets' = IF Tcp(j.using) THEN sockets ELSE sockets \cup {j.id}
  /\ UNCHANGED <<user, settings, connection, current, link, bounds>>

Ended == connection' = "Idle" /\ navigateTo("Viewer") /\ UNCHANGED reconnecting
Reconnected == reconnecting' = FALSE /\ UNCHANGED <<user, connection>>

(* Two ports are found and the tunnels opened, which connect later.  A     *)
(* first connection is shown for 1.5 s.                                    *)
OpenTunnels(j) ==
  /\ j.phase = "ports"
  /\ StartTunnels
  /\ used' = settings /\ made' = j.using
  /\ IF j.again THEN jobs' = jobs \ {j} /\ Reconnected
     ELSE Becomes(j, [j EXCEPT !.phase = "opened"]) /\ UNCHANGED <<user, connection, reconnecting>>
  /\ UNCHANGED <<settings, current, relay, sockets, bounds>>

PortsFail(j) ==
  /\ j.phase = "ports"
  /\ Becomes(j, [j EXCEPT !.phase = "failed"])
  /\ UNCHANGED <<user, settings, connection, current, relay, sockets, tunnels, link, bounds>>

(* An attempt of performHandshake: each port that has no answer announces  *)
(* itself and waits for one.                                               *)
Attempt(j) ==
  /\ j.phase = "handshake" /\ ~(j.video /\ j.control) /\ j.attempts < MaxAttempts
  /\ \E v, c \in BOOLEAN :
       Becomes(j, [j EXCEPT !.attempts = @ + 1, !.video = @ \/ v, !.control = @ \/ c])
  /\ UNCHANGED <<user, settings, connection, current, relay, sockets, tunnels, link, bounds>>

(* Both answered.  The sockets are closed, for others to bind their ports. *)
HandshakeDone(j) ==
  /\ j.phase = "handshake" /\ j.video /\ j.control
  /\ sockets' = sockets \ {j.id} /\ relay' = 0
  /\ made' = j.using
  /\ IF j.again THEN jobs' = jobs \ {j} /\ used' = settings /\ Reconnected
     ELSE Becomes(j, [j EXCEPT !.phase = "opened"]) /\ UNCHANGED <<used, user, connection, reconnecting>>
  /\ UNCHANGED <<settings, current, tunnels, bounds>>

(* Not authorized, timed out, or after the last attempt. *)
HandshakeFails(j) ==
  /\ j.phase = "handshake"
  /\ sockets' = sockets \ {j.id} /\ relay' = 0
  /\ Becomes(j, [j EXCEPT !.phase = "failed"])
  /\ UNCHANGED <<user, settings, connection, current, tunnels, link, bounds>>

Show(j) ==
  /\ j.phase = "opened"
  /\ jobs' = jobs \ {j}
  /\ used' = IF Tcp(j.using) THEN used ELSE settings
  /\ UNCHANGED made
  /\ Ended
  /\ UNCHANGED <<settings, current, relay, sockets, tunnels, bounds>>

(* onReconnectFailed leads home. *)
Fail(j) ==
  /\ j.phase = "failed"
  /\ jobs' = jobs \ {j}
  /\ connection' = "Error"
  /\ IF Tcp(j.using) THEN StopTunnels ELSE UNCHANGED tunnels
  /\ IF j.again
     THEN reconnecting' = FALSE /\ used' = None /\ backStack' = <<>> /\ screen' = "Main"
     ELSE UNCHANGED <<reconnecting, used, user>>
  /\ UNCHANGED <<settings, current, relay, sockets, made, bounds>>

-----------------------------------------------------------------------------
Step(j) ==
  \/ Begin(j) \/ OpenTunnels(j) \/ PortsFail(j) \/ Attempt(j) \/ HandshakeDone(j)
  \/ HandshakeFails(j) \/ Show(j) \/ Fail(j)

Next ==
  \/ startConnection \/ abortConnection \/ ClearError \/ OpenSettings \/ ChangeSettings
  \/ BackKey \/ BackArrow
  \/ \E j \in jobs : Step(j)

Spec == Init /\ [][Next]_vars

(* Every coroutine goes on; a handshake has a last attempt. *)
Fairness == WF_vars(\E j \in jobs : Step(j)) /\ WF_vars(ClearError)
FairSpec == Spec /\ Fairness

-----------------------------------------------------------------------------
(* The viewer shows a connection that was made with the settings there     *)
(* are, whichever way settings were changed, connections aborted, failed   *)
(* and made anew.  The settings are read again when a connection is made,  *)
(* so that a change during a reconnection is taken as in force, which      *)
(* Careful excludes.                                                       *)
InForce == screen = "Viewer" /\ ~reconnecting => made = settings

(* No tunnel and no socket outlives its use: at home and idle nothing is   *)
(* open, and never more than one pair of tunnels.  Leaving the viewer by   *)
(* the back key, or while it reconnects, violates it (Careful).            *)
NothingLeftOpen ==
  /\ open <= 1
  /\ screen = "Main" /\ jobs = {} => open = 0
  /\ \A id \in sockets : \E j \in jobs : j.id = id /\ j.phase = "handshake"

(* Connecting and reconnecting come to an end. *)
Settles == (connection = "Connecting" \/ reconnecting) ~> (connection # "Connecting" /\ ~reconnecting)
=============================================================================

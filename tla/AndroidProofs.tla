----------------------------- MODULE AndroidProofs ------------------------------
(***************************************************************************)
(* Safety of the Android viewer: its connections, for any number of        *)
(* changes, starts and attempts of a careful user, and its video pipeline, *)
(* for any number of faults and restarts.                                  *)
(***************************************************************************)
EXTENDS MCAndroid, SequenceTheorems, TLAPS

-----------------------------------------------------------------------------
(* The session *)

Screen == {"Main", "Viewer", "Network"}

(* The way from the first screen to the present one. *)
Home ==
  /\ backStack \in Seq(Screen)
  /\ \/ screen = "Main" /\ Len(backStack) = 0
     \/ screen \in {"Network", "Viewer"} /\ Len(backStack) = 1 /\ backStack[1] = "Main"
     \/ screen = "Network" /\ Len(backStack) = 2 /\ backStack[1] = "Main" /\ backStack[2] = "Viewer"

(* A user who waits has one coroutine at a time: one that connects, with   *)
(* nothing open before, or one that connects anew, and closes what is.     *)
Connecting(j) ==
  /\ ~j.again /\ screen = "Main" /\ connection = "Connecting" /\ ~reconnecting /\ j.id = current
  /\ j.phase # "opened" => open = 0
  /\ j.phase = "opened" => made = settings /\ (Session!Tcp(settings) => used = settings)
Reconnecting(j) ==
  /\ j.again /\ screen = "Viewer" /\ connection # "Connecting" /\ reconnecting
  /\ j.phase # "opened" /\ (j.phase # "new" => open = 0)
Sockets(j) ==
  /\ sockets = IF j.phase = "handshake" THEN {j.id} ELSE {}
  /\ relay = IF ~Session!Tcp(settings) /\ (j.phase = "handshake" \/ (j.phase = "new" /\ ~j.again))
             THEN j.id ELSE 0
  /\ j.phase = "handshake" => ~Session!Tcp(settings)
  /\ j.phase = "ports" => Session!Tcp(settings)
Shaped(j) ==
  j = [id |-> j.id, again |-> j.again, using |-> j.using, phase |-> j.phase,
       attempts |-> j.attempts, video |-> j.video, control |-> j.control]
Only(j) ==
  /\ jobs = {j} /\ j.using = settings /\ Shaped(j)
  /\ Connecting(j) \/ Reconnecting(j)
  /\ Sockets(j)

NoJob ==
  /\ jobs = {} /\ sockets = {} /\ relay = 0 /\ ~reconnecting /\ connection # "Connecting"
  /\ screen = "Main" => open = 0

OneJob == NoJob \/ \E j \in jobs : Only(j)

Tunnels ==
  /\ held \in BOOLEAN /\ open = IF held THEN 1 ELSE 0
  /\ screen = "Network" /\ Len(backStack) = 1 => open = 0

(* The connection that is shown, or left for the settings *)
Linked ==
  /\ settings \in Session!Settings
  /\ screen = "Viewer" /\ ~reconnecting => made = settings /\ used = settings
  /\ screen = "Network" /\ Len(backStack) = 2 => made = used /\ used # Session!None

SessionInv == Home /\ OneJob /\ Tunnels /\ Linked

-----------------------------------------------------------------------------
LEMMA Forward ==
  ASSUME NEW q \in Seq(Screen), NEW s \in Screen
  PROVE  /\ Append(q, s) \in Seq(Screen) /\ Len(q) \in Nat /\ Len(Append(q, s)) = Len(q) + 1
         /\ \A i \in 1 .. Len(q) : Append(q, s)[i] = q[i]
         /\ Append(q, s)[Len(q) + 1] = s
BY AppendProperties, LenProperties

LEMMA Backward ==
  ASSUME NEW q \in Seq(Screen)
  PROVE  /\ q = <<>> <=> Len(q) = 0
         /\ Len(q) = 1 => /\ Session!Last(q) = q[1]
                          /\ Session!Front(q) \in Seq(Screen) /\ Len(Session!Front(q)) = 0
         /\ Len(q) = 2 => /\ Session!Last(q) = q[2]
                          /\ Session!Front(q) \in Seq(Screen) /\ Len(Session!Front(q)) = 1
                          /\ Session!Front(q)[1] = q[1]
<1>1. q = <<>> <=> Len(q) = 0
  BY EmptySeq, LenProperties
<1>2. Len(q) \in Nat /\ \A i \in 1 .. Len(q) : q[i] \in Screen
  BY LenProperties
<1>3. CASE Len(q) = 1
  <2>1. SubSeq(q, 1, 0) \in Seq(Screen) /\ Len(SubSeq(q, 1, 0)) = 0
    BY SubSeqProperties
  <2> QED
    BY <1>1, <1>3, <2>1 DEF Session!Last, Session!Front
<1>4. CASE Len(q) = 2
  <2>1. \A i \in 1 .. 1 : q[i] \in Screen
    BY <1>2, <1>4
  <2>2. SubSeq(q, 1, 1) \in Seq(Screen) /\ Len(SubSeq(q, 1, 1)) = 1 /\ SubSeq(q, 1, 1)[1] = q[1]
    BY <2>1, SubSeqProperties
  <2> QED
    BY <1>1, <1>4, <2>2 DEF Session!Last, Session!Front
<1> QED
  BY <1>1, <1>3, <1>4

LEMMA SessionInit == Session!Init => SessionInv
<1> SUFFICES ASSUME Session!Init PROVE SessionInv
  OBVIOUS
<1>1. /\ screen = "Main" /\ backStack = <<>> /\ settings \in Session!Settings /\ connection = "Idle"
      /\ jobs = {} /\ relay = 0 /\ sockets = {} /\ ~reconnecting /\ held = FALSE /\ open = 0
  BY DEF Session!Init
<1>2. backStack \in Seq(Screen) /\ Len(backStack) = 0
  BY <1>1, Zenon, EmptySeq
<1>3. Home
  BY <1>1, <1>2 DEF Home
<1>4. OneJob
  BY <1>1 DEF OneJob, NoJob
<1>5. Tunnels
  BY <1>1 DEF Tunnels
<1>6. Linked
  BY <1>1 DEF Linked
<1> QED
  BY <1>3, <1>4, <1>5, <1>6 DEF SessionInv

-----------------------------------------------------------------------------
(* The user *)

LEMMA StartStep == SessionInv /\ Session!startConnection => SessionInv'
<1> SUFFICES ASSUME SessionInv, Session!startConnection PROVE SessionInv'
  OBVIOUS
<1>0. PICK j : j = Session!NewJob(FALSE)
  OBVIOUS
<1>1. /\ screen = "Main" /\ connection # "Connecting" /\ connection' = "Connecting"
      /\ jobs' = jobs \cup {j} /\ current' = Session!New
      /\ relay' = IF Session!Tcp(settings) THEN relay ELSE Session!New
      /\ UNCHANGED <<screen, backStack, settings, sockets, held, open, used, made, reconnecting>>
  BY <1>0 DEF Session!startConnection, Session!user, Session!tunnels, Session!link
<1>2. NoJob
  BY <1>1 DEF SessionInv, OneJob, Only, Connecting, Reconnecting
<1>3. j.id = current' /\ ~j.again /\ j.using = settings /\ j.phase = "new" /\ Shaped(j)
  BY <1>0, <1>1 DEF Session!NewJob, Shaped
<1>4. /\ jobs' = {j} /\ sockets' = {} /\ open' = 0 /\ ~reconnecting'
      /\ relay' = IF Session!Tcp(settings) THEN 0 ELSE j.id
  BY <1>1, <1>2, <1>3 DEF NoJob
<1>5. Only(j)'
  BY <1>1, <1>3, <1>4 DEF Only, Connecting, Sockets, Session!Tcp
<1>6. OneJob'
  BY <1>4, <1>5 DEF OneJob
<1> QED
  BY <1>1, <1>6 DEF SessionInv, Home, Tunnels, Linked

LEMMA AbortStep == SessionInv /\ Session!abortConnection => SessionInv'
<1> SUFFICES ASSUME SessionInv, Session!abortConnection PROVE SessionInv'
  OBVIOUS
<1>1. /\ screen = "Main" /\ connection = "Connecting" /\ connection' = "Idle"
      /\ jobs' = Session!Without(current) /\ relay' = 0 /\ sockets' = sockets \ {relay}
      /\ held' = FALSE /\ open' = (IF held THEN open - 1 ELSE open)
      /\ UNCHANGED <<screen, backStack, settings, used, made, reconnecting>>
  BY DEF Session!abortConnection, Session!StopTunnels, Session!user, Session!link
<1>2. PICK j \in jobs : Only(j)
  BY <1>1 DEF SessionInv, OneJob, NoJob
<1>3. jobs = {j} /\ Connecting(j) /\ Sockets(j)
  BY <1>1, <1>2 DEF Only, Reconnecting
<1>4. ~j.again /\ j.id = current /\ ~reconnecting
  BY <1>3 DEF Connecting
<1>5. jobs' = {}
  BY <1>1, <1>3, <1>4 DEF Session!Without
<1>6. sockets' = {}
  BY <1>1, <1>3 DEF Sockets, Session!Tcp
<1>7. open' = 0
  BY <1>1 DEF SessionInv, Tunnels
<1>8. NoJob'
  BY <1>1, <1>4, <1>5, <1>6, <1>7 DEF NoJob
<1> QED
  BY <1>1, <1>4, <1>7, <1>8 DEF SessionInv, Home, OneJob, Tunnels, Linked

LEMMA ClearStep == SessionInv /\ Session!ClearError => SessionInv'
<1> SUFFICES ASSUME SessionInv, Session!ClearError PROVE SessionInv'
  OBVIOUS
<1>1. /\ screen = "Main" /\ connection = "Error" /\ connection' = "Idle"
      /\ UNCHANGED <<screen, backStack, settings, jobs, current, relay, sockets, held, open, used,
                     made, reconnecting>>
  BY DEF Session!ClearError, Session!user, Session!coroutines, Session!tunnels, Session!link
<1>2. NoJob
  BY <1>1 DEF SessionInv, OneJob, Only, Connecting, Reconnecting
<1>3. NoJob'
  BY <1>1, <1>2 DEF NoJob
<1> QED
  BY <1>1, <1>3 DEF SessionInv, Home, OneJob, Tunnels, Linked

LEMMA OpenSettingsStep == Careful /\ SessionInv /\ Session!OpenSettings => SessionInv'
<1> SUFFICES ASSUME Careful, SessionInv, Session!OpenSettings PROVE SessionInv'
  OBVIOUS
<1>1. /\ \/ screen = "Main" /\ connection # "Connecting"
         \/ screen = "Viewer" /\ ~reconnecting
      /\ screen' = "Network" /\ backStack' = Append(backStack, screen)
      /\ UNCHANGED <<settings, connection, jobs, current, relay, sockets, held, open, used, made,
                     reconnecting>>
  BY DEF Session!OpenSettings, Session!navigateTo, Session!coroutines, Session!tunnels, Session!link
<1>2. NoJob /\ screen \in Screen
  BY <1>1 DEF SessionInv, OneJob, Only, Connecting, Reconnecting, Screen
<1>3. NoJob'
  BY <1>1, <1>2 DEF NoJob
<1>4. backStack \in Seq(Screen)
  BY DEF SessionInv, Home
<1>5. /\ backStack' \in Seq(Screen) /\ Len(backStack) \in Nat /\ Len(backStack') = Len(backStack) + 1
      /\ \A i \in 1 .. Len(backStack) : backStack'[i] = backStack[i]
      /\ backStack'[Len(backStack) + 1] = screen
  BY <1>1, <1>2, <1>4, Forward
<1>6. CASE screen = "Main"
  <2>1. Len(backStack') = 1 /\ backStack'[1] = "Main" /\ open = 0
    BY <1>2, <1>5, <1>6 DEF SessionInv, Home, NoJob
  <2> QED
    BY <1>1, <1>3, <1>5, <2>1 DEF SessionInv, Home, OneJob, Tunnels, Linked
<1>7. CASE screen = "Viewer"
  <2>0. Len(backStack) = 1 /\ backStack[1] = "Main"
    BY <1>7 DEF SessionInv, Home
  <2>1. Len(backStack') = 2 /\ backStack'[1] = "Main" /\ backStack'[2] = "Viewer"
    <3>1. 1 \in 1 .. Len(backStack) /\ Len(backStack) + 1 = 2
      BY <2>0
    <3> QED
      BY <1>5, <1>7, <2>0, <3>1
  <2>2. made = settings /\ used = settings /\ settings # Session!None /\ ~reconnecting
    BY <1>1, <1>7 DEF SessionInv, Linked, Session!Settings, Session!None
  <2> QED
    BY <1>1, <1>3, <1>5, <2>1, <2>2 DEF SessionInv, Home, OneJob, Tunnels, Linked
<1> QED
  BY <1>1, <1>6, <1>7

LEMMA ChangeStep == SessionInv /\ Session!ChangeSettings => SessionInv'
<1> SUFFICES ASSUME SessionInv, Session!ChangeSettings PROVE SessionInv'
  OBVIOUS
<1>1. /\ screen = "Network" /\ settings' \in Session!Settings
      /\ UNCHANGED <<screen, backStack, connection, jobs, current, relay, sockets, held, open, used,
                     made, reconnecting>>
  BY DEF Session!ChangeSettings, Session!user, Session!coroutines, Session!tunnels, Session!link
<1>2. NoJob
  BY <1>1 DEF SessionInv, OneJob, Only, Connecting, Reconnecting
<1>3. NoJob'
  BY <1>1, <1>2 DEF NoJob
<1> QED
  BY <1>1, <1>3 DEF SessionInv, Home, OneJob, Tunnels, Linked

(* Back from the settings or the viewer, with the tunnels as they are or   *)
(* stopped.                                                                *)
LEMMA BackStep ==
  ASSUME SessionInv, Session!navigateBack, screen \in {"Network", "Viewer"}, NoJob,
         held' \in BOOLEAN, open' = IF held' THEN 1 ELSE 0,
         Len(backStack) = 1 => open' = 0
  PROVE  SessionInv'
<1>1. /\ screen' = (IF backStack = <<>> THEN "Main" ELSE Session!Last(backStack))
      /\ backStack' = (IF backStack = <<>> THEN <<>> ELSE Session!Front(backStack))
      /\ UNCHANGED <<settings, connection, used, made>>
      /\ IF screen' = "Viewer" /\ used # Session!None /\ settings # used
         THEN Session!reconnect ELSE UNCHANGED <<reconnecting, jobs, current, relay, sockets>>
  BY DEF Session!navigateBack, Session!coroutines
<1>2. backStack \in Seq(Screen)
  BY DEF SessionInv, Home
<1>3. CASE Len(backStack) = 1
  <2>1. backStack[1] = "Main"
    BY <1>3 DEF SessionInv, Home
  <2>2. screen' = "Main" /\ backStack' \in Seq(Screen) /\ Len(backStack') = 0
    BY <1>1, <1>2, <1>3, <2>1, Backward
  <2>3. UNCHANGED <<reconnecting, jobs, current, relay, sockets>>
    BY <1>1, <2>2
  <2>4. NoJob'
    BY <1>1, <1>3, <2>3 DEF NoJob
  <2> QED
    BY <1>1, <2>2, <2>3, <2>4 DEF SessionInv, Home, OneJob, Tunnels, Linked
<1>4. CASE Len(backStack) = 2
  <2>1. screen = "Network" /\ backStack[1] = "Main" /\ backStack[2] = "Viewer"
    BY <1>4 DEF SessionInv, Home
  <2>2. screen' = "Viewer" /\ backStack' \in Seq(Screen) /\ Len(backStack') = 1 /\ backStack'[1] = "Main"
    BY <1>1, <1>2, <1>4, <2>1, Backward
  <2>3. made = used /\ used # Session!None
    BY <1>4, <2>1 DEF SessionInv, Linked
  <2>4. CASE settings = used
    <3>1. UNCHANGED <<reconnecting, jobs, current, relay, sockets>>
      BY <1>1, <2>4
    <3>2. NoJob'
      BY <1>1, <2>2, <3>1 DEF NoJob
    <3> QED
      BY <1>1, <2>2, <2>3, <2>4, <3>1, <3>2 DEF SessionInv, Home, OneJob, Tunnels, Linked
  <2>5. CASE settings # used
    <3>1. Session!reconnect
      BY <1>1, <2>2, <2>3, <2>5
    <3>2. PICK j : j = Session!NewJob(TRUE)
      OBVIOUS
    <3>3. /\ reconnecting' = TRUE /\ jobs' = Session!Without(current) \cup {j}
          /\ sockets' = sockets \ {relay} /\ relay' = 0
      BY <3>1, <3>2 DEF Session!reconnect
    <3>4. j.again /\ j.using = settings /\ j.phase = "new" /\ Shaped(j)
      BY <3>2 DEF Session!NewJob, Shaped
    <3>5. jobs' = {j} /\ sockets' = {}
      BY <3>3 DEF NoJob, Session!Without
    <3>6. connection' # "Connecting"
      BY <1>1 DEF NoJob
    <3>7. Only(j)'
      BY <1>1, <2>2, <3>3, <3>4, <3>5, <3>6 DEF Only, Reconnecting, Sockets, Session!Tcp
    <3>8. OneJob'
      BY <3>5, <3>7 DEF OneJob
    <3> QED
      BY <1>1, <2>2, <3>3, <3>8 DEF SessionInv, Home, Tunnels, Linked
  <2> QED
    BY <2>4, <2>5
<1> QED
  BY <1>3, <1>4 DEF SessionInv, Home

LEMMA BackKeyStep == Careful /\ SessionInv /\ Session!BackKey => SessionInv'
<1> SUFFICES ASSUME Careful, SessionInv, Session!BackKey PROVE SessionInv'
  OBVIOUS
<1>1. screen = "Network" /\ Session!navigateBack /\ held' = held /\ open' = open
  BY DEF Session!BackKey, Session!tunnels
<1>2. NoJob
  BY <1>1 DEF SessionInv, OneJob, Only, Connecting, Reconnecting
<1>3. /\ held' \in BOOLEAN /\ open' = (IF held' THEN 1 ELSE 0)
      /\ Len(backStack) = 1 => open' = 0
  BY <1>1 DEF SessionInv, Tunnels
<1> QED
  BY <1>1, <1>2, <1>3, BackStep

LEMMA BackArrowStep == Careful /\ SessionInv /\ Session!BackArrow => SessionInv'
<1> SUFFICES ASSUME Careful, SessionInv, Session!BackArrow PROVE SessionInv'
  OBVIOUS
<1>1. screen = "Viewer" /\ ~reconnecting /\ Session!navigateBack
      /\ held' = FALSE /\ open' = IF held THEN open - 1 ELSE open
  BY DEF Session!BackArrow, Session!StopTunnels
<1>2. NoJob
  BY <1>1 DEF SessionInv, OneJob, Only, Connecting, Reconnecting
<1>3. open' = 0
  BY <1>1 DEF SessionInv, Tunnels
<1>4. held' \in BOOLEAN /\ ~held'
  BY <1>1
<1>5. open' = (IF held' THEN 1 ELSE 0)
  BY <1>3, <1>4
<1> QED
  BY <1>1, <1>2, <1>3, <1>4, <1>5, BackStep

-----------------------------------------------------------------------------
(* The coroutines *)

(* A coroutine that goes on: everything else stays but its tunnels, its    *)
(* sockets and what was made with it.                                      *)
LEMMA Going ==
  ASSUME SessionInv, NEW j, NEW k, jobs' = (jobs \ {j}) \cup {k}, Only(j),
         UNCHANGED <<screen, backStack, settings, connection, current, reconnecting>>,
         screen # "Viewer" \/ reconnecting, screen # "Network",
         Connecting(k)' \/ Reconnecting(k)', Sockets(k)', k.using = settings, Shaped(k),
         held' \in BOOLEAN, open' = IF held' THEN 1 ELSE 0
  PROVE  SessionInv'
<1>1. jobs' = {k}
  BY DEF Only
<1>2. OneJob'
  BY <1>1 DEF OneJob, Only
<1> QED
  BY <1>2 DEF SessionInv, Home, Tunnels, Linked

(* A coroutine in another phase is the same in everything else.            *)
LEMMA Moved ==
  ASSUME NEW j, Shaped(j), NEW p, NEW k, k = [j EXCEPT !.phase = p]
  PROVE  Shaped(k) /\ k.id = j.id /\ k.again = j.again /\ k.using = j.using /\ k.phase = p
BY DEF Shaped

LEMMA BeginStep ==
  ASSUME SessionInv, NEW j, Only(j), Session!Begin(j)
  PROVE  SessionInv'
<1>0. PICK k : k = [j EXCEPT !.phase = IF Session!Tcp(j.using) THEN "ports" ELSE "handshake"]
  OBVIOUS
<1>1. /\ j.phase = "new" /\ jobs' = (jobs \ {j}) \cup {k}
      /\ IF j.again THEN held' = FALSE /\ open' = (IF held THEN open - 1 ELSE open)
                    ELSE held' = held /\ open' = open
      /\ relay' = (IF j.again /\ ~Session!Tcp(j.using) THEN j.id ELSE relay)
      /\ sockets' = (IF Session!Tcp(j.using) THEN sockets ELSE sockets \cup {j.id})
      /\ UNCHANGED <<screen, backStack, settings, connection, current, used, made, reconnecting>>
  BY <1>0 DEF Session!Begin, Session!Becomes, Session!StopTunnels, Session!user,
              Session!tunnels, Session!link
<1>2. /\ Shaped(k) /\ k.id = j.id /\ k.again = j.again /\ k.using = j.using
      /\ k.phase = IF Session!Tcp(j.using) THEN "ports" ELSE "handshake"
  BY <1>0, Moved DEF Only
<1>3. j.using = settings /\ Sockets(j)
  BY DEF Only
<1>4. Sockets(k)'
  BY <1>1, <1>2, <1>3 DEF Sockets, Session!Tcp
<1>5. CASE j.again
  <2>1. Reconnecting(j)
    BY <1>5 DEF Only, Connecting
  <2>2. open' = 0 /\ ~held'
    BY <1>1, <1>5 DEF SessionInv, Tunnels
  <2>3. Reconnecting(k)'
    BY <1>1, <1>2, <2>1, <2>2 DEF Reconnecting
  <2>4. screen # "Network" /\ reconnecting
    BY <2>1 DEF Reconnecting
  <2>5. held' \in BOOLEAN /\ open' = IF held' THEN 1 ELSE 0
    BY <1>1, <1>5, <2>2
  <2> QED
    BY <1>1, <1>2, <1>3, <1>4, <2>3, <2>4, <2>5, Going
<1>6. CASE ~j.again
  <2>1. Connecting(j)
    BY <1>6 DEF Only, Reconnecting
  <2>2. held' = held /\ open' = open
    BY <1>1, <1>6
  <2>3. Connecting(k)'
    BY <1>1, <1>2, <2>1, <2>2 DEF Connecting
  <2>4. screen # "Network" /\ screen # "Viewer"
    BY <2>1 DEF Connecting
  <2>5. held' \in BOOLEAN /\ open' = IF held' THEN 1 ELSE 0
    BY <2>2 DEF SessionInv, Tunnels
  <2> QED
    BY <1>1, <1>2, <1>3, <1>4, <2>3, <2>4, <2>5, Going
<1> QED
  BY <1>5, <1>6

(* A coroutine that tries again, or fails.                                 *)
LEMMA QuietStep ==
  ASSUME SessionInv, NEW j, Only(j), NEW k, jobs' = (jobs \ {j}) \cup {k},
         Shaped(k), k.id = j.id, k.again = j.again, k.using = j.using,
         j.phase \in {"ports", "handshake"}, k.phase # "opened", k.phase # "new", Sockets(k)',
         UNCHANGED <<screen, backStack, settings, connection, current, held, open, used, made,
                     reconnecting>>
  PROVE  SessionInv'
<1>1. j.using = settings
  BY DEF Only
<1>2. held' \in BOOLEAN /\ open' = IF held' THEN 1 ELSE 0
  BY DEF SessionInv, Tunnels
<1>3. CASE Connecting(j)
  <2>1. Connecting(k)'
    BY <1>3 DEF Connecting
  <2>2. screen # "Network" /\ screen # "Viewer"
    BY <1>3 DEF Connecting
  <2> QED
    BY <1>1, <1>2, <2>1, <2>2, Going
<1>4. CASE Reconnecting(j)
  <2>1. Reconnecting(k)'
    BY <1>4 DEF Reconnecting
  <2>2. screen # "Network" /\ reconnecting
    BY <1>4 DEF Reconnecting
  <2> QED
    BY <1>1, <1>2, <2>1, <2>2, Going
<1> QED
  BY <1>3, <1>4 DEF Only

LEMMA PortsFailStep ==
  ASSUME SessionInv, NEW j, Only(j), Session!PortsFail(j)
  PROVE  SessionInv'
<1>0. PICK k : k = [j EXCEPT !.phase = "failed"]
  OBVIOUS
<1>1. /\ j.phase = "ports" /\ jobs' = (jobs \ {j}) \cup {k}
      /\ UNCHANGED <<screen, backStack, settings, connection, current, relay, sockets, held, open,
                     used, made, reconnecting>>
  BY <1>0 DEF Session!PortsFail, Session!Becomes, Session!user, Session!tunnels, Session!link
<1>2. Shaped(k) /\ k.id = j.id /\ k.again = j.again /\ k.using = j.using /\ k.phase = "failed"
  BY <1>0, Moved DEF Only
<1>3. Sockets(k)'
  BY <1>1, <1>2 DEF Only, Sockets, Session!Tcp
<1> QED
  BY <1>1, <1>2, <1>3, QuietStep

LEMMA AttemptStep ==
  ASSUME SessionInv, NEW j, Only(j), Session!Attempt(j)
  PROVE  SessionInv'
<1>0. PICK v \in BOOLEAN, c \in BOOLEAN :
        Session!Becomes(j, [j EXCEPT !.attempts = @ + 1, !.video = @ \/ v, !.control = @ \/ c])
  BY DEF Session!Attempt
<1>1. PICK k : k = [j EXCEPT !.attempts = @ + 1, !.video = @ \/ v, !.control = @ \/ c]
  OBVIOUS
<1>2. /\ j.phase = "handshake" /\ jobs' = (jobs \ {j}) \cup {k}
      /\ UNCHANGED <<screen, backStack, settings, connection, current, relay, sockets, held, open,
                     used, made, reconnecting>>
  BY <1>0, <1>1 DEF Session!Attempt, Session!Becomes, Session!user, Session!tunnels, Session!link
<1>3. Shaped(j)
  BY DEF Only
<1>4. Shaped(k) /\ k.id = j.id /\ k.again = j.again /\ k.using = j.using /\ k.phase = j.phase
  BY <1>1, <1>3 DEF Shaped
<1>5. Sockets(k)'
  BY <1>2, <1>4 DEF Only, Sockets, Session!Tcp
<1> QED
  BY <1>2, <1>4, <1>5, QuietStep

LEMMA HandshakeFailsStep ==
  ASSUME SessionInv, NEW j, Only(j), Session!HandshakeFails(j)
  PROVE  SessionInv'
<1>0. PICK k : k = [j EXCEPT !.phase = "failed"]
  OBVIOUS
<1>1. /\ j.phase = "handshake" /\ jobs' = (jobs \ {j}) \cup {k}
      /\ sockets' = sockets \ {j.id} /\ relay' = 0
      /\ UNCHANGED <<screen, backStack, settings, connection, current, held, open,
                     used, made, reconnecting>>
  BY <1>0 DEF Session!HandshakeFails, Session!Becomes, Session!user, Session!tunnels, Session!link
<1>2. Shaped(k) /\ k.id = j.id /\ k.again = j.again /\ k.using = j.using /\ k.phase = "failed"
  BY <1>0, Moved DEF Only
<1>3. Sockets(k)'
  BY <1>1, <1>2 DEF Only, Sockets, Session!Tcp
<1> QED
  BY <1>1, <1>2, <1>3, QuietStep

(* A reconnection that is done. *)
LEMMA Reconnects ==
  ASSUME SessionInv, NEW j, Only(j), Reconnecting(j), jobs' = jobs \ {j},
         reconnecting' = FALSE, used' = settings, made' = settings, sockets' = {}, relay' = 0,
         UNCHANGED <<screen, backStack, settings, connection>>,
         held' \in BOOLEAN, open' = IF held' THEN 1 ELSE 0
  PROVE  SessionInv'
<1>1. jobs' = {} /\ screen = "Viewer" /\ connection # "Connecting"
  BY DEF Only, Reconnecting
<1>2. NoJob'
  BY <1>1 DEF NoJob
<1> QED
  BY <1>1, <1>2 DEF SessionInv, Home, OneJob, Tunnels, Linked

LEMMA OpenTunnelsStep ==
  ASSUME SessionInv, NEW j, Only(j), Session!OpenTunnels(j)
  PROVE  SessionInv'
<1>1. /\ j.phase = "ports" /\ held' = TRUE /\ open' = open + 1
      /\ used' = settings /\ made' = j.using
      /\ UNCHANGED <<settings, current, relay, sockets>>
  BY DEF Session!OpenTunnels, Session!StartTunnels
<1>2. j.using = settings /\ Sockets(j) /\ open = 0 /\ Shaped(j)
  BY <1>1 DEF Only, Connecting, Reconnecting
<1>3. held' \in BOOLEAN /\ open' = IF held' THEN 1 ELSE 0
  BY <1>1, <1>2
<1>4. CASE j.again
  <2>1. Reconnecting(j)
    BY <1>4 DEF Only, Connecting
  <2>2. jobs' = jobs \ {j} /\ reconnecting' = FALSE /\ UNCHANGED <<screen, backStack, connection>>
    BY <1>4 DEF Session!OpenTunnels, Session!Reconnected, Session!user
  <2>3. sockets' = {} /\ relay' = 0
    BY <1>1, <1>2 DEF Sockets
  <2> QED
    BY <1>1, <1>2, <1>3, <2>1, <2>2, <2>3, Reconnects
<1>5. CASE ~j.again
  <2>0. PICK k : k = [j EXCEPT !.phase = "opened"]
    OBVIOUS
  <2>1. jobs' = (jobs \ {j}) \cup {k} /\ UNCHANGED <<screen, backStack, connection, reconnecting>>
    BY <1>5, <2>0 DEF Session!OpenTunnels, Session!Becomes, Session!user
  <2>2. Shaped(k) /\ k.id = j.id /\ k.again = j.again /\ k.using = j.using /\ k.phase = "opened"
    BY <1>2, <2>0, Moved
  <2>3. Connecting(j)
    BY <1>5 DEF Only, Reconnecting
  <2>4. Connecting(k)'
    BY <1>1, <1>2, <2>1, <2>2, <2>3 DEF Connecting
  <2>5. Sockets(k)'
    BY <1>1, <1>2, <2>2 DEF Sockets, Session!Tcp
  <2>6. screen # "Network" /\ screen # "Viewer"
    BY <2>3 DEF Connecting
  <2> QED
    BY <1>1, <1>2, <1>3, <2>1, <2>2, <2>4, <2>5, <2>6, Going
<1> QED
  BY <1>4, <1>5

LEMMA HandshakeDoneStep ==
  ASSUME SessionInv, NEW j, Only(j), Session!HandshakeDone(j)
  PROVE  SessionInv'
<1>1. /\ j.phase = "handshake" /\ sockets' = sockets \ {j.id} /\ relay' = 0 /\ made' = j.using
      /\ UNCHANGED <<settings, current, held, open>>
  BY DEF Session!HandshakeDone, Session!tunnels
<1>2. j.using = settings /\ Sockets(j) /\ open = 0 /\ Shaped(j)
  BY <1>1 DEF Only, Connecting, Reconnecting
<1>3. held' \in BOOLEAN /\ open' = IF held' THEN 1 ELSE 0
  BY <1>1 DEF SessionInv, Tunnels
<1>4. sockets' = {} /\ ~Session!Tcp(settings)
  BY <1>1, <1>2 DEF Sockets
<1>5. CASE j.again
  <2>1. Reconnecting(j)
    BY <1>5 DEF Only, Connecting
  <2>2. /\ jobs' = jobs \ {j} /\ used' = settings /\ reconnecting' = FALSE
        /\ UNCHANGED <<screen, backStack, connection>>
    BY <1>5 DEF Session!HandshakeDone, Session!Reconnected, Session!user
  <2> QED
    BY <1>1, <1>2, <1>3, <1>4, <2>1, <2>2, Reconnects
<1>6. CASE ~j.again
  <2>0. PICK k : k = [j EXCEPT !.phase = "opened"]
    OBVIOUS
  <2>1. /\ jobs' = (jobs \ {j}) \cup {k}
        /\ UNCHANGED <<used, screen, backStack, connection, reconnecting>>
    BY <1>6, <2>0 DEF Session!HandshakeDone, Session!Becomes, Session!user
  <2>2. Shaped(k) /\ k.id = j.id /\ k.again = j.again /\ k.using = j.using /\ k.phase = "opened"
    BY <1>2, <2>0, Moved
  <2>3. Connecting(j)
    BY <1>6 DEF Only, Reconnecting
  <2>4. Connecting(k)'
    BY <1>1, <1>2, <1>4, <2>1, <2>2, <2>3 DEF Connecting, Session!Tcp
  <2>5. Sockets(k)'
    BY <1>1, <1>2, <1>4, <2>2 DEF Sockets, Session!Tcp
  <2>6. screen # "Network" /\ screen # "Viewer"
    BY <2>3 DEF Connecting
  <2> QED
    BY <1>1, <1>2, <1>3, <2>1, <2>2, <2>4, <2>5, <2>6, Going
<1> QED
  BY <1>5, <1>6

LEMMA ShowStep ==
  ASSUME SessionInv, NEW j, Only(j), Session!Show(j)
  PROVE  SessionInv'
<1>1. /\ j.phase = "opened" /\ jobs' = jobs \ {j}
      /\ used' = (IF Session!Tcp(j.using) THEN used ELSE settings) /\ made' = made
      /\ connection' = "Idle" /\ backStack' = Append(backStack, screen) /\ screen' = "Viewer"
      /\ UNCHANGED <<reconnecting, settings, relay, sockets, held, open>>
  BY DEF Session!Show, Session!Ended, Session!navigateTo, Session!tunnels
<1>2. Connecting(j) /\ jobs = {j} /\ j.using = settings /\ Sockets(j)
  BY <1>1 DEF Only, Reconnecting
<1>3. screen = "Main" /\ made = settings /\ (Session!Tcp(settings) => used = settings) /\ ~reconnecting
  BY <1>1, <1>2 DEF Connecting
<1>4. NoJob'
  BY <1>1, <1>2, <1>3 DEF NoJob, Sockets
<1>5. backStack \in Seq(Screen) /\ Len(backStack) = 0 /\ screen \in Screen
  BY <1>3 DEF SessionInv, Home, Screen
<1>6. backStack' \in Seq(Screen) /\ Len(backStack') = 1 /\ backStack'[1] = "Main"
  BY <1>1, <1>3, <1>5, Forward
<1>7. made' = settings' /\ used' = settings'
  BY <1>1, <1>2, <1>3
<1> QED
  BY <1>1, <1>4, <1>6, <1>7 DEF SessionInv, Home, OneJob, Tunnels, Linked

LEMMA FailStep ==
  ASSUME SessionInv, NEW j, Only(j), Session!Fail(j)
  PROVE  SessionInv'
<1>1. /\ j.phase = "failed" /\ jobs' = jobs \ {j} /\ connection' = "Error"
      /\ IF Session!Tcp(j.using) THEN held' = FALSE /\ open' = (IF held THEN open - 1 ELSE open)
                         ELSE held' = held /\ open' = open
      /\ IF j.again THEN /\ reconnecting' = FALSE /\ used' = Session!None
                         /\ backStack' = <<>> /\ screen' = "Main"
                    ELSE UNCHANGED <<reconnecting, used, screen, backStack>>
      /\ UNCHANGED <<settings, relay, sockets, made>>
  BY DEF Session!Fail, Session!StopTunnels, Session!tunnels, Session!user
<1>2. jobs = {j} /\ Sockets(j) /\ open = 0
  BY <1>1 DEF Only, Connecting, Reconnecting
<1>3. sockets' = {} /\ relay' = 0 /\ jobs' = {}
  BY <1>1, <1>2 DEF Sockets
<1>4. ~held /\ held \in BOOLEAN
  BY <1>2 DEF SessionInv, Tunnels
<1>5. ~held' /\ held' \in BOOLEAN /\ open' = 0
  BY <1>1, <1>2, <1>4
<1>6. screen' = "Main" /\ ~reconnecting' /\ backStack' \in Seq(Screen) /\ Len(backStack') = 0
  <2>1. CASE j.again
    <3>1. reconnecting' = FALSE /\ backStack' = <<>> /\ screen' = "Main"
      BY <1>1, <2>1
    <3> QED
      BY <3>1, Zenon, EmptySeq
  <2>2. CASE ~j.again
    <3>1. Connecting(j)
      BY <2>2 DEF Only, Reconnecting
    <3>2. screen = "Main" /\ ~reconnecting
      BY <3>1 DEF Connecting
    <3>3. UNCHANGED <<reconnecting, screen, backStack>>
      BY <1>1, <2>2
    <3> QED
      BY <3>2, <3>3 DEF SessionInv, Home
  <2> QED
    BY <2>1, <2>2
<1>7. NoJob'
  BY <1>1, <1>3, <1>5, <1>6 DEF NoJob
<1> QED
  BY <1>1, <1>5, <1>6, <1>7 DEF SessionInv, Home, OneJob, Tunnels, Linked

-----------------------------------------------------------------------------
LEMMA SessionStep == Careful /\ SessionInv /\ [Session!Next]_(Session!vars) => SessionInv'
<1> SUFFICES ASSUME Careful, SessionInv, [Session!Next]_(Session!vars) PROVE SessionInv'
  OBVIOUS
<1>1. CASE Session!startConnection \/ Session!abortConnection \/ Session!ClearError
  BY <1>1, StartStep, AbortStep, ClearStep
<1>2. CASE Session!OpenSettings \/ Session!ChangeSettings
  BY <1>2, OpenSettingsStep, ChangeStep
<1>3. CASE Session!BackKey \/ Session!BackArrow
  BY <1>3, BackKeyStep, BackArrowStep
<1>4. ASSUME NEW j \in jobs, Session!Step(j)
      PROVE  SessionInv'
  <2>1. Only(j)
    BY DEF SessionInv, OneJob, NoJob, Only
  <2>2. CASE Session!Begin(j) \/ Session!OpenTunnels(j) \/ Session!PortsFail(j) \/ Session!Attempt(j)
    BY <2>1, <2>2, BeginStep, OpenTunnelsStep, PortsFailStep, AttemptStep
  <2>3. CASE Session!HandshakeDone(j) \/ Session!HandshakeFails(j) \/ Session!Show(j) \/ Session!Fail(j)
    BY <2>1, <2>3, HandshakeDoneStep, HandshakeFailsStep, ShowStep, FailStep
  <2> QED
    BY <1>4, <2>2, <2>3 DEF Session!Step
<1>5. CASE UNCHANGED Session!vars
  <2>1. UNCHANGED <<screen, backStack, settings, connection, jobs, current, relay, sockets, held,
                    open, used, made, reconnecting>>
    BY <1>5 DEF Session!vars, Session!user, Session!coroutines, Session!tunnels, Session!link
  <2>2. Home' /\ Tunnels' /\ Linked'
    BY <2>1 DEF SessionInv, Home, Tunnels, Linked
  <2>3. OneJob'
    BY <2>1 DEF SessionInv, OneJob, NoJob, Only, Connecting, Reconnecting, Sockets
  <2> QED
    BY <2>2, <2>3 DEF SessionInv
<1> QED
  BY <1>1, <1>2, <1>3, <1>4, <1>5 DEF Session!Next

LEMMA SessionSafe == SessionInv => Session!NothingLeftOpen /\ Session!InForce
<1> SUFFICES ASSUME SessionInv PROVE Session!NothingLeftOpen /\ Session!InForce
  OBVIOUS
<1>1. Session!InForce
  BY DEF SessionInv, Linked, Session!InForce
<1>2. open <= 1
  BY DEF SessionInv, Tunnels
<1>3. screen = "Main" /\ jobs = {} => open = 0
  BY DEF SessionInv, OneJob, NoJob
<1>4. \A id \in sockets : \E j \in jobs : j.id = id /\ j.phase = "handshake"
  BY DEF SessionInv, OneJob, NoJob, Only, Sockets
<1> QED
  BY <1>1, <1>2, <1>3, <1>4 DEF Session!NothingLeftOpen

(* What is shown was connected with the settings in force, and nothing     *)
(* stays open at home, for a user who waits for a reconnection and leaves  *)
(* by the arrow (MainActivity.kt, RelayConnection.kt).                     *)
THEOREM ConnectionAsSet ==
  ASSUME Careful
  PROVE  AndroidSpec => []ConnectedAsSet
<1>1. Init => SessionInv
  BY SessionInit DEF Init
<1>2. SessionInv /\ [Next]_vars => SessionInv'
  <2>1. [Next]_vars => [Session!Next]_(Session!vars)
    BY DEF Next, vars, sessionVars, Session!vars, Session!user, Session!coroutines,
           Session!tunnels, Session!link, Session!bounds
  <2> QED
    BY <2>1, SessionStep
<1>3. SessionInv => ConnectedAsSet
  BY SessionSafe DEF ConnectedAsSet
<1> QED
  BY <1>1, <1>2, <1>3, PTL DEF AndroidSpec

-----------------------------------------------------------------------------
(* The video pipeline *)

(* A restart runs on the thread of the loop, and that thread has a         *)
(* pipeline; a pipeline and its thread belong to a start that was not      *)
(* stopped, or is being stopped.                                           *)
Owned ==
  /\ restart # "idle" => loop = "running"
  /\ loop # "none" => pipe # "none"
  /\ ~started /\ ui # "join" => loop = "none" /\ pipe = "none"
  /\ ui \in {"pause", "release"} => pipe # "none"

LEMMA OwnedInit == Video!Init => Owned
BY DEF Video!Init, Owned

LEMMA OwnedStep == Owned /\ [Video!Next]_(Video!vars) => Owned'
<1> SUFFICES ASSUME Owned, [Video!Next]_(Video!vars) PROVE Owned'
  OBVIOUS
<1> USE DEF Owned, Video!screen, Video!sink, Video!thread, Video!errors, Video!callback,
            Video!counting
<1>1. CASE Video!SetStatsEnabled \/ Video!Open \/ Video!StopPipeline
  BY <1>1 DEF Video!SetStatsEnabled, Video!Open, Video!StopPipeline
<1>2. CASE Video!SurfaceCreated
  <2>1. CASE started
    BY <1>2, <2>1 DEF Video!SurfaceCreated, Video!ResumePipeline
  <2>2. CASE ~started
    <3>1. PICK how \in {"direct", "decodebin"} : Video!StartPipeline(how) \/ Video!StartFails(how)
      BY <1>2, <2>2 DEF Video!SurfaceCreated
    <3>2. ui = "idle" /\ ui' = ui /\ started'
      BY <1>2 DEF Video!SurfaceCreated
    <3>3. restart = "idle" /\ loop = "none"
      BY <2>2, <3>2
    <3> QED
      BY <3>1, <3>2, <3>3 DEF Video!StartPipeline, Video!StartFails
  <2> QED
    BY <2>1, <2>2
<1>3. CASE Video!SurfaceDestroyed
  BY <1>3 DEF Video!SurfaceDestroyed
<1>4. CASE Video!Main
  <2>1. CASE Video!Join
    <3>1. /\ loop \in {"none", "ended"} /\ ui' = "idle" /\ loop' = "none" /\ pipe' = "none"
          /\ restart' = restart
      BY <2>1 DEF Video!Join
    <3>2. restart = "idle"
      BY <3>1
    <3> QED
      BY <3>1, <3>2
  <2>2. CASE Video!Pause \/ Video!Release
    BY <2>2 DEF Video!Pause, Video!Release
  <2> QED
    BY <1>4, <2>1, <2>2 DEF Video!Main
<1>5. CASE Video!Loop
  <2>1. CASE Video!LoopRun \/ Video!LoopEnd \/ Video!on_error
    BY <2>1 DEF Video!LoopRun, Video!LoopEnd, Video!on_error, Video!Dispatches
  <2>2. CASE Video!restart_pipeline_cb
    BY <2>2 DEF Video!restart_pipeline_cb, Video!Dispatches
  <2>3. CASE Video!RestartRead \/ Video!RestartApply \/ Video!RestartPlay
    BY <2>3 DEF Video!RestartRead, Video!RestartApply, Video!RestartPlay
  <2> QED
    BY <1>5, <2>1, <2>2, <2>3 DEF Video!Loop
<1>6. CASE Video!Fault \/ Video!PadExposed \/ Video!on_decodebin_pad_added \/ Video!WindowPasses
  BY <1>6 DEF Video!Fault, Video!PadExposed, Video!on_decodebin_pad_added, Video!WindowPasses
<1>7. CASE UNCHANGED Video!vars
  BY <1>7 DEF Video!vars
<1> QED
  BY <1>1, <1>2, <1>3, <1>4, <1>5, <1>6, <1>7 DEF Video!Next

(* The thread of a restart finds the pipeline and the loop it works on,    *)
(* however surfaces come and go meanwhile (nativeStop of gst_viewer.c).    *)
THEOREM NeverFreedInUse == AndroidSpec => []NotFreedInUse
<1>1. Init => Owned
  BY OwnedInit DEF Init
<1>2. Owned /\ [Next]_vars => Owned'
  <2>1. [Next]_vars => [Video!Next]_(Video!vars)
    BY DEF Next, vars, videoVars, Video!vars, Video!screen, Video!sink, Video!thread, Video!errors,
           Video!callback, Video!counting
  <2> QED
    BY <2>1, OwnedStep
<1>3. Owned => NotFreedInUse
  BY DEF Owned, NotFreedInUse, Video!NotFreedInUse
<1> QED
  BY <1>1, <1>2, <1>3, PTL DEF AndroidSpec
=============================================================================

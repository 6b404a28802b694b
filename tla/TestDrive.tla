------------------------------- MODULE TestDrive -------------------------------
(***************************************************************************)
(* The Discord bot of the relay: test drives (TestdriveHandler), the ids   *)
(* members ask for (Bot) and the table both write (SessionStore).          *)
(*                                                                         *)
(* A handler is a coroutine.  It runs on between two awaits, and at each   *)
(* of them other handlers run, the call it waits for may fail, and the bot *)
(* may be restarted.  What a handler looks at when it is called is what    *)
(* the button it was called by saw: interaction.message is the message as  *)
(* it was when it was clicked.                                             *)
(***************************************************************************)
EXTENDS Naturals, FiniteSets

CONSTANTS
  User,         \* everybody in the channel; whoever accepts is the host
  Guest,        \* those who request test drives
  Member,       \* those who ask for an id of their own
  Slot,         \* bound: handlers at a time
  MaxMessages,  \* bound: requests that are posted
  MaxIds,       \* bound: ids that are generated
  MaxBreaks,    \* bound: failing calls and restarts
  None

Message == 1 .. MaxMessages
Id == 1 .. MaxIds
Drive == {d \in Guest \X User : d[1] # d[2]}
Own == {<<u>> : u \in Member}

Text == {"none", "requested", "cancelled", "undelivered",
         "driving", "rated", "over", "over and rated"}

Subject == {"drive", "own"} \X User
Place == {"request", "posted", "cancel", "edit", "accept", "fetch", "host", "guest",
          "invalidate", "rate", "ask", "renew", "send"}
Task == [about : Subject, at : Place, user : User, msg : Message \cup {None}, saw : Text,
         id : Id \cup {None}, failed : BOOLEAN, becomes : Text]

ASSUME TestDriveAssumption ==
  /\ Guest \subseteq User /\ Member \subseteq User
  /\ None \notin User /\ None \notin Id \cup Message /\ None \notin Task
  /\ {MaxMessages, MaxIds, MaxBreaks} \subseteq Nat

VARIABLES
  pending,    \* pending_requests: its keys, nobody reads the values
  sessions,   \* allowed_sessions: the id by discord_user_id
  issued,     \* how many ids have been generated
  message,    \* the requests in the channel
  task,       \* the handlers that run
  known,      \* history: the ids of test drives by those they were sent to
  last,       \* history: the id of their own that members were sent last
  clashed,    \* history: whom handlers were about that ran at the same time
  broken,     \* history: and those of which one did not reach its end
  breaks

store == <<sessions, issued>>
history == <<clashed, broken, breaks>>
vars == <<pending, store, message, task, known, last, history>>

(* What a message offers. *)
Open == {"requested"}                    \* Accept and Cancel
Endable == {"driving", "rated"}          \* Invalidate
Ratable == {"driving", "over"}

TypeOK ==
  /\ pending \subseteq Guest
  /\ sessions \in [Drive \cup Own -> Id \cup {None}]
  /\ issued \in 0 .. MaxIds
  /\ message \in [Message -> [text : Text, guest : User \cup {None}, host : User \cup {None}]]
  /\ task \in [Slot -> Task \cup {None}]
  /\ known \subseteq User \X Id
  /\ last \in [Member -> Id \cup {None}]
  /\ clashed \subseteq Subject /\ broken \subseteq Subject
  /\ breaks \in 0 .. MaxBreaks

Init ==
  /\ pending = {}
  /\ sessions = [k \in Drive \cup Own |-> None]
  /\ issued = 0
  /\ message = [m \in Message |-> [text |-> "none", guest |-> None, host |-> None]]
  /\ task = [s \in Slot |-> None]
  /\ known = {}
  /\ last = [u \in Member |-> None]
  /\ clashed = {} /\ broken = {} /\ breaks = 0

Running == {s \in Slot : task[s] # None}
At(s, place) == task[s] # None /\ task[s].at = place
GuestOf(s) == task[s].about[2]
Handled(subject) == \E s \in Running : task[s].about = subject

-----------------------------------------------------------------------------
(* Interactions.  Those that are refused change nothing. *)

Begin(s, place, u, subject, m) ==
  /\ task[s] = None
  /\ task' = [task EXCEPT ![s] =
       [about |-> subject, at |-> place, user |-> u, msg |-> m,
        saw |-> IF m = None THEN "none" ELSE message[m].text,
        id |-> None, failed |-> FALSE, becomes |-> "none"]]
  /\ clashed' = IF Handled(subject) THEN clashed \cup {subject} ELSE clashed
  /\ UNCHANGED <<pending, store, message, known, last, broken, breaks>>

Pause(s, place) == task' = [task EXCEPT ![s].at = place]
PauseWith(s, place, id) == task' = [task EXCEPT ![s].at = place, ![s].id = id]
EditTo(s, text) == task' = [task EXCEPT ![s].at = "edit", ![s].becomes = text]
End(s) == task' = [task EXCEPT ![s] = None]

HasPendingOrActive_PendingOnly(u) == u \in pending

(* get_testdrive_by_user finds the guest as well as the host. *)
HasPendingOrActive(u) ==
  \/ u \in pending
  \/ \E d \in Drive : u \in {d[1], d[2]} /\ sessions[d] # None

ClickRequest(s, g) ==
  /\ ~HasPendingOrActive(g)
  /\ \E m \in Message : message[m].text = "none"
  /\ Begin(s, "request", g, <<"drive", g>>, None)

ClickCancel(s, m) ==
  /\ message[m].text \in Open
  /\ Begin(s, "cancel", message[m].guest, <<"drive", message[m].guest>>, m)

ClickAccept(s, h, m) ==
  /\ message[m].text \in Open
  /\ message[m].guest \in pending /\ h # message[m].guest
  /\ issued < MaxIds
  /\ Begin(s, "accept", h, <<"drive", message[m].guest>>, m)

ClickInvalidate(s, m) ==
  /\ message[m].text \in Endable
  /\ Begin(s, "invalidate", message[m].host, <<"drive", message[m].guest>>, m)

ClickRate(s, m) ==
  /\ message[m].text \in Ratable
  /\ Begin(s, "rate", message[m].guest, <<"drive", message[m].guest>>, m)

AskForId(s, u) ==
  /\ issued < MaxIds
  /\ \E place \in {"ask", "renew"} : Begin(s, place, u, <<"own", u>>, None)

-----------------------------------------------------------------------------
(* _handle_request: the message can be clicked before its author goes on. *)

Post(s) ==
  /\ At(s, "request")
  /\ \E m \in Message :
       /\ message[m].text = "none" /\ \A n \in 1 .. (m - 1) : message[n].text # "none"
       /\ message' = [message EXCEPT ![m] = [text |-> "requested", guest |-> GuestOf(s), host |-> None]]
  /\ Pause(s, "posted")
  /\ UNCHANGED <<pending, store, known, last, history>>

RememberRequest(s) ==
  /\ At(s, "posted")
  /\ pending' = pending \cup {GuestOf(s)}
  /\ End(s)
  /\ UNCHANGED <<store, message, known, last, history>>

-----------------------------------------------------------------------------
(* _handle_cancel *)

ForgetRequest(s) ==
  /\ At(s, "cancel")
  /\ pending' = pending \ {GuestOf(s)}
  /\ EditTo(s, "cancelled")
  /\ UNCHANGED <<store, message, known, last, history>>

(* The last thing handlers do. *)
Edit(s) ==
  /\ At(s, "edit")
  /\ message' = [message EXCEPT ![task[s].msg].text = task[s].becomes,
                                ![task[s].msg].host =
                                  IF task[s].becomes = "driving" THEN task[s].user ELSE @]
  /\ End(s)
  /\ UNCHANGED <<pending, store, known, last, history>>

-----------------------------------------------------------------------------
(* _handle_accept *)

DriveOf(s) == <<GuestOf(s), task[s].user>>

(* create: discord_user_id is unique. *)
CreateSession(s) ==
  /\ At(s, "accept")
  /\ \/ /\ sessions[DriveOf(s)] # None
        /\ End(s)
        /\ UNCHANGED <<pending, store>>
     \/ /\ sessions[DriveOf(s)] = None /\ issued < MaxIds
        /\ issued' = issued + 1
        /\ sessions' = [sessions EXCEPT ![DriveOf(s)] = issued']
        /\ pending' = pending \ {GuestOf(s)}
        /\ PauseWith(s, "fetch", issued')
  /\ UNCHANGED <<message, known, last, history>>

FetchGuest(s) ==
  /\ At(s, "fetch")
  /\ \E failed \in BOOLEAN :
       task' = [task EXCEPT ![s].at = "host", ![s].failed = failed]
  /\ UNCHANGED <<pending, store, message, known, last, history>>

(* After the last direct message.  The session is looked for by the names  *)
(* of guest and host.                                                      *)
Conclude(s, failed) ==
  /\ EditTo(s, IF failed THEN "undelivered" ELSE "driving")
  /\ sessions' = IF failed THEN [sessions EXCEPT ![DriveOf(s)] = None] ELSE sessions

(* A message that cannot be sent: send raises Forbidden. *)
Send(s, u, sent) ==
  known' = IF sent THEN known \cup {<<u, task[s].id>>} ELSE known

(* The guest is sent nothing who could not be fetched. *)
TellHost(s) ==
  /\ At(s, "host")
  /\ \E sent \in BOOLEAN :
       /\ Send(s, task[s].user, sent)
       /\ \/ task[s].failed /\ Conclude(s, TRUE)
          \/ /\ ~task[s].failed
             /\ task' = [task EXCEPT ![s].at = "guest", ![s].failed = ~sent]
             /\ UNCHANGED sessions
  /\ UNCHANGED <<pending, issued, message, last, history>>

TellGuest_HostForgotten(s) ==
  /\ At(s, "guest")
  /\ \E sent \in BOOLEAN :
       /\ Send(s, GuestOf(s), sent)
       /\ Conclude(s, ~sent)
  /\ UNCHANGED <<pending, issued, message, last, history>>

TellGuest(s) ==
  /\ At(s, "guest")
  /\ \E sent \in BOOLEAN :
       /\ Send(s, GuestOf(s), sent)
       /\ Conclude(s, task[s].failed \/ ~sent)
  /\ UNCHANGED <<pending, issued, message, last, history>>

-----------------------------------------------------------------------------
(* _handle_invalidate and _handle_rate: what the message becomes depends   *)
(* on what it was when it was clicked.                                     *)

DeleteSession(s) ==
  /\ At(s, "invalidate")
  /\ sessions' = [sessions EXCEPT ![DriveOf(s)] = None]
  /\ EditTo(s, IF task[s].saw = "rated" THEN "over and rated" ELSE "over")
  /\ UNCHANGED <<pending, issued, message, known, last, history>>

Rate(s) ==
  /\ At(s, "rate")
  /\ EditTo(s, IF task[s].saw = "over" THEN "over and rated" ELSE "rated")
  /\ UNCHANGED <<pending, store, message, known, last, history>>

-----------------------------------------------------------------------------
(* handle_requestid_command and handle_renewid_command *)

Generate_OldSent(s) ==
  LET key == <<task[s].user>>
  IN /\ issued < MaxIds
     /\ issued' = issued + 1
     /\ sessions' = [sessions EXCEPT ![key] = issued']
     /\ PauseWith(s, "send", sessions[key])

Generate(s) ==
  LET key == <<task[s].user>>
  IN /\ issued < MaxIds
     /\ issued' = issued + 1
     /\ sessions' = [sessions EXCEPT ![key] = issued']
     /\ PauseWith(s, "send", issued')

Reuse(s) ==
  /\ PauseWith(s, "send", sessions[<<task[s].user>>])
  /\ UNCHANGED store

FindId(s) ==
  /\ \/ At(s, "ask") /\ sessions[<<task[s].user>>] # None /\ Reuse(s)
     \/ At(s, "ask") /\ sessions[<<task[s].user>>] = None /\ Generate(s)
     \/ At(s, "renew") /\ Generate(s)
  /\ UNCHANGED <<pending, message, known, last, history>>

(* A member whose messages are off is told so instead. *)
SendId(s) ==
  /\ At(s, "send")
  /\ \E id \in {task[s].id, None} : last' = [last EXCEPT ![task[s].user] = id]
  /\ End(s)
  /\ UNCHANGED <<pending, store, message, known, history>>

-----------------------------------------------------------------------------
(* Faults *)

(* The call that a handler waits for raises what it does not expect. *)
Raise(s) ==
  /\ task[s] # None /\ breaks < MaxBreaks
  /\ breaks' = breaks + 1
  /\ broken' = broken \cup {task[s].about}
  /\ End(s)
  /\ UNCHANGED <<pending, store, message, known, last, clashed>>

(* pending_requests is not kept, the messages and the table are. *)
RestartBot ==
  /\ breaks < MaxBreaks
  /\ breaks' = breaks + 1
  /\ broken' = broken \cup {task[s].about : s \in Running}
  /\ pending' = {}
  /\ task' = [s \in Slot |-> None]
  /\ UNCHANGED <<store, message, known, last, clashed>>

-----------------------------------------------------------------------------
Click(s) ==
  \/ \E g \in Guest : ClickRequest(s, g)
  \/ \E m \in Message : ClickCancel(s, m) \/ ClickInvalidate(s, m) \/ ClickRate(s, m)
  \/ \E h \in User, m \in Message : ClickAccept(s, h, m)
  \/ \E u \in Member : AskForId(s, u)

Handle(s) ==
  \/ Post(s) \/ RememberRequest(s) \/ ForgetRequest(s) \/ Edit(s)
  \/ CreateSession(s) \/ FetchGuest(s) \/ TellHost(s) \/ TellGuest(s)
  \/ DeleteSession(s) \/ Rate(s)
  \/ FindId(s) \/ SendId(s)

Next == RestartBot \/ \E s \in Slot : Click(s) \/ Handle(s) \/ Raise(s)

Spec == Init /\ [][Next]_vars

-----------------------------------------------------------------------------
(* Properties *)

(* Handlers about one guest that overlap may undo each other's work, and   *)
(* so may one that ends halfway.                                           *)
Orderly(subject) == subject \notin clashed \cup broken
Settled(g) == Orderly(<<"drive", g>>) /\ ~Handled(<<"drive", g>>)

(* A session of a test drive that stays was sent to both its guest and its *)
(* host; otherwise it is rolled back (_handle_accept), however the         *)
(* handlers of several clicks overlap.                                     *)
Delivered ==
  \A d \in Drive :
    sessions[d] # None /\ <<"drive", d[1]>> \notin broken /\ ~Handled(<<"drive", d[1]>>)
      => \A u \in {d[1], d[2]} : <<u, sessions[d]>> \in known

(* Who is kept from requesting a test drive can be helped by a click: a    *)
(* pending request can be accepted or cancelled, and a session can be      *)
(* invalidated by its host, unless clicks overlapped or a handler failed   *)
(* (_has_pending_or_active_testdrive).                                     *)
NoDeadEnd ==
  \A g \in Guest : Settled(g) =>
    /\ g \in pending => \E m \in Message : message[m].guest = g /\ message[m].text \in Open
    /\ \A h \in User \ {g} : sessions[<<g, h>>] # None =>
         \E m \in Message :
           message[m].guest = g /\ message[m].host = h /\ message[m].text \in Endable

(* A message that offers to end a test drive is of one that goes on        *)
(* (_handle_invalidate, _handle_rate).                                     *)
StillDriving ==
  \A m \in Message :
    message[m].text \in Endable /\ Settled(message[m].guest)
      => sessions[<<message[m].guest, message[m].host>>] # None

(* "You already have a pending or active test drive.": a guest has one of  *)
(* them at a time (_handle_request).                                       *)
OneDrive ==
  \A g \in Guest : Orderly(<<"drive", g>>) =>
    Cardinality({h \in User \ {g} : sessions[<<g, h>>] # None})
      + (IF g \in pending THEN 1 ELSE 0) <= 1

(* All three: what guests, hosts and messages know of a test drive agrees. *)
DrivesAgree == NoDeadEnd /\ StillDriving /\ OneDrive

(* The id that a member was sent last is the one the relay accepts         *)
(* (handle_requestid_command, handle_renewid_command).                     *)
LastIdIsValid ==
  \A u \in Member :
    last[u] # None /\ Orderly(<<"own", u>>) /\ ~Handled(<<"own", u>>)
      => sessions[<<u>>] = last[u]

=============================================================================

---------------------------- MODULE TestDriveProofs ----------------------------
(***************************************************************************)
(* Proofs about TestDrive: for any number of guests, hosts, members and    *)
(* handlers, and however many requests, ids, failures and restarts.        *)
(***************************************************************************)
EXTENDS TestDrive, FiniteSetTheorems, TLAPS

-----------------------------------------------------------------------------
(* The inductive invariant *)

OwnPlace == {"ask", "renew", "send"}
DrivePlace == Place \ OwnPlace
Accepting == {"accept", "fetch", "host", "guest"}
Delivering == {"fetch", "host", "guest"}

(* What the task of a handler is about, and the message it was called by. *)
Tasked(t) ==
  /\ t.at \in OwnPlace => t.user \in Member /\ t.about = <<"own", t.user>>
  /\ t.at \in DrivePlace => t.about[1] = "drive" /\ t.about[2] \in Guest
  /\ t.at \in DrivePlace \ {"request", "posted"} =>
       /\ t.msg \in Message
       /\ message[t.msg].text # "none" /\ message[t.msg].guest = t.about[2]
  /\ t.at \in Accepting \cup {"invalidate"} => t.user # t.about[2]
  /\ t.at \in Delivering \cup {"send"} => t.id \in Id
  /\ t.at = "edit" =>
       /\ t.becomes \notin {"none", "requested"}
       /\ t.becomes = "driving" => t.user # t.about[2]
  /\ t.at \in {"invalidate", "rate"} => message[t.msg].host \in User
  /\ t.at = "edit" /\ t.becomes \in {"rated", "over"} => message[t.msg].host \in User

Typed ==
  /\ TypeOK
  /\ \A m \in Message :
       /\ message[m].text # "none" => message[m].guest \in Guest
       /\ message[m].text \in Endable \cup Ratable => message[m].host \in User
       /\ message[m].host \in User => message[m].host # message[m].guest
  /\ \A s \in Running : Tasked(task[s])

(* Handlers about the same that run at the same time have clashed. *)
Unique ==
  \A s, t \in Running : task[s].about = task[t].about /\ s # t => task[s].about \in clashed

(* A session is delivered, or a handler that still delivers it runs. *)
SentToBoth(d) == \A u \in {d[1], d[2]} : <<u, sessions[d]>> \in known

Delivers(s, d) ==
  /\ task[s] # None /\ task[s].at \in Delivering
  /\ task[s].about = <<"drive", d[1]>> /\ task[s].user = d[2] /\ task[s].id = sessions[d]
  /\ task[s].at = "guest" /\ ~task[s].failed => <<d[2], sessions[d]>> \in known

DeliveredOrRunning ==
  \A d \in Drive : sessions[d] # None /\ <<"drive", d[1]>> \notin broken =>
    SentToBoth(d) \/ \E s \in Slot : Delivers(s, d)

(* The id a member was sent last is valid, or a handler that sends another *)
(* one runs, and that one is valid.                                        *)
Sends(s, u) == task[s] # None /\ task[s].about = <<"own", u>> /\ task[s].at = "send"

SendsValid ==
  \A u \in Member : Orderly(<<"own", u>>) =>
    /\ last[u] = None \/ sessions[<<u>>] = last[u] \/ \E s \in Slot : Sends(s, u)
    /\ \A s \in Slot : Sends(s, u) => task[s].id = sessions[<<u>>]

Hosts(g) == {h \in User \ {g} : sessions[<<g, h>>] # None}
Offers(g) == {m \in Message : message[m].guest = g /\ message[m].text \in Endable}
Requests(g) == {m \in Message : message[m].guest = g /\ message[m].text \in Open}
About(s, g) == task[s] # None /\ task[s].about = <<"drive", g>>

(* The handler posts that the test drive begins, or that it is over. *)
Starts(s, g) ==
  /\ About(s, g)
  /\ \/ task[s].at \in Delivering
     \/ task[s].at = "edit" /\ task[s].becomes = "driving"
Ends(s, g, m) ==
  About(s, g) /\ task[s].at = "edit" /\ task[s].msg = m /\ task[s].becomes \in {"over", "over and rated"}

(* A guest has a request or a session, and a message that says so. *)
OneOf(g) ==
  /\ g \in pending => Hosts(g) = {} /\ Requests(g) # {}
  /\ \A h1, h2 \in Hosts(g) : h1 = h2
  /\ \A m1, m2 \in Offers(g) : m1 = m2
HostsOffered(g) ==
  \A h \in Hosts(g) : (\E m \in Offers(g) : message[m].host = h) \/ (\E s \in Slot : Starts(s, g))
OffersHosted(g) ==
  \A m \in Offers(g) : message[m].host \in Hosts(g) \/ \E s \in Slot : Ends(s, g, m)
GuestOK(g) == OneOf(g) /\ HostsOffered(g) /\ OffersHosted(g)

(* How far a handler has come with its guest. *)
HandlerOK(t, g) ==
  /\ t.at \in DrivePlace \ {"request", "posted"} => message[t.msg].text = t.saw
  /\ t.at \in {"request", "posted"} => g \notin pending /\ Hosts(g) = {} /\ Offers(g) = {}
  /\ t.at = "posted" => Requests(g) # {}
  /\ t.at \in {"cancel"} \cup Accepting => t.saw \in Open
  /\ t.at = "accept" => g \in pending /\ Offers(g) = {}
  /\ t.at \in Delivering => g \notin pending /\ Hosts(g) = {t.user} /\ Offers(g) = {}
  /\ t.at = "invalidate" => t.saw \in Endable /\ message[t.msg].host = t.user
  /\ t.at = "rate" => t.saw \in Ratable
  /\ t.at = "edit" =>
       /\ t.becomes \in {"cancelled", "undelivered", "driving"} => g \notin pending /\ t.saw \in Open
       /\ t.becomes = "driving" => Hosts(g) = {t.user} /\ Offers(g) = {}
       /\ t.becomes = "rated" => t.saw = "driving"
       /\ t.becomes \in {"over", "over and rated"} =>
            \/ t.saw = "over"
            \/ t.saw \in Endable /\ Hosts(g) = {}

GuestAgrees(g) ==
  /\ GuestOK(g)
  /\ \A s \in Slot : About(s, g) => HandlerOK(task[s], g)

GuestsAgree == \A g \in Guest : Orderly(<<"drive", g>>) => GuestAgrees(g)

-----------------------------------------------------------------------------
(* What the operators do *)

(* The keys of test drives and of members' own ids are apart. *)
LEMMA Keys ==
  /\ \A g \in Guest, h \in User : g # h => <<g, h>> \in Drive
  /\ \A d \in Drive : /\ d[1] \in Guest /\ d[2] \in User /\ d[1] # d[2]
                       /\ d = <<d[1], d[2]>>
  /\ \A u \in Member : <<u>> \in Own /\ <<u>> \notin Drive
  /\ \A k \in Own : k \notin Drive
BY TestDriveAssumption DEF Drive, Own

(* Only the handler in the slot goes on. *)
Others(s) == \A r \in Slot \ {s} : task'[r] = task[r]

(* It goes on with what it was called for. *)
Keeps(s) ==
  /\ task'[s] \in Task /\ task'[s] # None
  /\ task'[s].about = task[s].about /\ task'[s].user = task[s].user
  /\ task'[s].msg = task[s].msg /\ task'[s].saw = task[s].saw

LEMMA RunningTasks ==
  ASSUME TypeOK, NEW s \in Running
  PROVE  /\ s \in Slot /\ task[s] \in Task /\ task[s] # None
         /\ task[s].about \in Subject /\ task[s].about = <<task[s].about[1], task[s].about[2]>>
         /\ task[s].about[2] \in User
BY DEF TypeOK, Running, Task, Subject

LEMMA PauseStep ==
  ASSUME TypeOK, NEW s \in Running, NEW place \in Place, Pause(s, place)
  PROVE  /\ task' \in [Slot -> Task \cup {None}] /\ Others(s) /\ Keeps(s)
         /\ task'[s].at = place /\ task'[s].id = task[s].id
         /\ task'[s].failed = task[s].failed /\ task'[s].becomes = task[s].becomes
BY TestDriveAssumption DEF TypeOK, Running, Task, Pause, Others, Keeps

LEMMA EditToStep ==
  ASSUME TypeOK, NEW s \in Running, NEW text \in Text, EditTo(s, text)
  PROVE  /\ task' \in [Slot -> Task \cup {None}] /\ Others(s) /\ Keeps(s)
         /\ task'[s].at = "edit" /\ task'[s].id = task[s].id
         /\ task'[s].failed = task[s].failed /\ task'[s].becomes = text
BY TestDriveAssumption DEF TypeOK, Running, Task, EditTo, Others, Keeps, Place

LEMMA EndStep ==
  ASSUME TypeOK, NEW s \in Running, End(s)
  PROVE  task' \in [Slot -> Task \cup {None}] /\ Others(s) /\ task'[s] = None
BY TestDriveAssumption DEF TypeOK, Running, End, Others

(* Handlers that send go on with an id, or with what failed. *)
LEMMA PauseWithStep ==
  ASSUME TypeOK, NEW s \in Running, NEW place \in Place, NEW id \in Id \cup {None},
         PauseWith(s, place, id)
  PROVE  /\ task' \in [Slot -> Task \cup {None}] /\ Others(s) /\ Keeps(s)
         /\ task'[s].at = place /\ task'[s].id = id
         /\ task'[s].failed = task[s].failed /\ task'[s].becomes = task[s].becomes
BY TestDriveAssumption DEF TypeOK, Running, Task, PauseWith, Others, Keeps

LEMMA FailStep ==
  ASSUME TypeOK, NEW s \in Running, NEW place \in Place, NEW failed \in BOOLEAN,
         task' = [task EXCEPT ![s].at = place, ![s].failed = failed]
  PROVE  /\ task' \in [Slot -> Task \cup {None}] /\ Others(s) /\ Keeps(s)
         /\ task'[s].at = place /\ task'[s].id = task[s].id
         /\ task'[s].failed = failed /\ task'[s].becomes = task[s].becomes
BY TestDriveAssumption DEF TypeOK, Running, Task, Others, Keeps

LEMMA BeginStep ==
  ASSUME TypeOK, NEW s \in Slot, NEW place \in Place, NEW u \in User, NEW subject \in Subject,
         NEW m \in Message \cup {None}, Begin(s, place, u, subject, m)
  PROVE  /\ task' \in [Slot -> Task \cup {None}] /\ Others(s)
         /\ task[s] = None /\ task'[s] \in Task /\ task'[s] # None
         /\ task'[s].about = subject /\ task'[s].at = place /\ task'[s].user = u
         /\ task'[s].msg = m
         /\ m \in Message => task'[s].saw = message[m].text
         /\ clashed' = IF Handled(subject) THEN clashed \cup {subject} ELSE clashed
         /\ pending' = pending /\ sessions' = sessions /\ issued' = issued /\ message' = message
         /\ known' = known /\ last' = last /\ broken' = broken /\ breaks' = breaks
<1> DEFINE t == [about |-> subject, at |-> place, user |-> u, msg |-> m,
                 saw |-> IF m = None THEN "none" ELSE message[m].text,
                 id |-> None, failed |-> FALSE, becomes |-> "none"]
<1>1. t \in Task
  BY TestDriveAssumption DEF TypeOK, Task, Text
<1>2. task' = [task EXCEPT ![s] = t] /\ task[s] = None
  BY DEF Begin
<1>3. t.about = subject /\ t.at = place /\ t.user = u /\ t.msg = m
      /\ (m \in Message => t.saw = message[m].text)
  BY TestDriveAssumption
<1> HIDE DEF t
<1>4. t # None
  BY <1>1, TestDriveAssumption
<1> QED
  BY <1>1, <1>2, <1>3, <1>4 DEF Begin, TypeOK, Others, store

(* Only the message of the handler is edited. *)
LEMMA EditStep ==
  ASSUME TypeOK, NEW s \in Running, Edit(s), task[s].msg \in Message
  PROVE  /\ message' \in [Message -> [text : Text, guest : User \cup {None}, host : User \cup {None}]]
         /\ \A m \in Message \ {task[s].msg} : message'[m] = message[m]
         /\ message'[task[s].msg].text = task[s].becomes
         /\ message'[task[s].msg].guest = message[task[s].msg].guest
         /\ message'[task[s].msg].host =
              IF task[s].becomes = "driving" THEN task[s].user ELSE message[task[s].msg].host
BY RunningTasks DEF TypeOK, Task, Edit

-----------------------------------------------------------------------------
(* Types, and what a handler is about *)

(* Posted messages stay posted, and those that can be ended have a host.   *)
MessagesOK ==
  \A m \in Message :
    /\ message'[m].text # "none" => message'[m].guest \in Guest
    /\ message'[m].text \in Endable \cup Ratable => message'[m].host \in User
    /\ message'[m].host \in User => message'[m].host # message'[m].guest
    /\ message[m].text # "none" =>
         /\ message'[m].text # "none" /\ message'[m].guest = message[m].guest
         /\ message[m].host \in User => message'[m].host \in User

LEMMA TypedOthers ==
  ASSUME Typed, TypeOK', NEW s \in Slot, Others(s), MessagesOK,
         task'[s] = None \/ Tasked(task[s])'
  PROVE  Typed'
<1>1. \A r \in Running' : Tasked(task[r])'
  <2> SUFFICES ASSUME NEW r \in Running' PROVE Tasked(task[r])'
    OBVIOUS
  <2>1. CASE r = s
    BY <2>1 DEF Running
  <2>2. CASE r # s
    <3>1. r \in Running /\ task'[r] = task[r]
      BY <2>2 DEF Running, Others
    <3> DEFINE t == task[r]
    <3>2. Tasked(t)
      BY <3>1 DEF Typed
    <3>3. t.msg \in Message /\ message[t.msg].text # "none" =>
            /\ message'[t.msg].text # "none" /\ message'[t.msg].guest = message[t.msg].guest
            /\ message[t.msg].host \in User => message'[t.msg].host \in User
      BY DEF MessagesOK
    <3>4. task'[r] = t
      BY <3>1
    <3>5. t.at \in {"edit", "invalidate", "rate"} => t.msg \in Message /\ message[t.msg].text # "none"
      BY <3>2 DEF Tasked, DrivePlace, OwnPlace, Place
    <3> HIDE DEF t
    <3> QED
      BY <3>2, <3>3, <3>4, <3>5 DEF Tasked
  <2> QED
    BY <2>1, <2>2
<1> QED
  BY <1>1 DEF Typed, MessagesOK

LEMMA MessagesStay ==
  ASSUME Typed, message' = message
  PROVE  MessagesOK
BY DEF Typed, MessagesOK

LEMMA TypedBegin ==
  ASSUME Typed, NEW s \in Slot, NEW place \in Place, NEW u \in User, NEW subject \in Subject,
         NEW m \in Message \cup {None}, Begin(s, place, u, subject, m),
         place \in OwnPlace => u \in Member /\ subject = <<"own", u>>,
         place \in DrivePlace => subject[1] = "drive" /\ subject[2] \in Guest,
         place \in DrivePlace \ {"request", "posted"} =>
           m \in Message /\ message[m].text # "none" /\ message[m].guest = subject[2],
         place \in Accepting \cup {"invalidate"} => u # subject[2],
         place \in {"invalidate", "rate"} => message[m].host \in User,
         place \notin Delivering \cup {"send", "edit"}
  PROVE  Typed'
<1>1. TypeOK
  BY DEF Typed
<1>2. /\ task'[s].about = subject /\ task'[s].at = place /\ task'[s].user = u
      /\ task'[s].msg = m /\ message' = message /\ Others(s)
  BY <1>1, BeginStep
<1>3. TypeOK'
  BY <1>1, BeginStep DEF TypeOK, store
<1>4. Tasked(task'[s])
  BY <1>2 DEF Tasked
<1>5. Tasked(task[s])'
  BY <1>2, <1>4 DEF Tasked
<1> QED
  BY <1>2, <1>3, <1>5, TypedOthers, MessagesStay

LEMMA TypedClick ==
  ASSUME Typed, NEW s \in Slot, Click(s)
  PROVE  Typed'
<1>0. TypeOK
  BY DEF Typed
<1>1. ASSUME NEW g \in Guest, ClickRequest(s, g) PROVE Typed'
  BY <1>1, TypedBegin, TestDriveAssumption
     DEF ClickRequest, Place, DrivePlace, OwnPlace, Accepting, Delivering, Subject
<1>2. ASSUME NEW m \in Message, ClickCancel(s, m) PROVE Typed'
  BY <1>2, TypedBegin, TestDriveAssumption
     DEF ClickCancel, Typed, Open, Place, DrivePlace, OwnPlace, Accepting, Delivering, Subject
<1>3. ASSUME NEW m \in Message, ClickInvalidate(s, m) PROVE Typed'
  BY <1>3, TypedBegin, TestDriveAssumption
     DEF ClickInvalidate, Typed, Endable, Ratable, Place, DrivePlace, OwnPlace, Accepting, Delivering, Subject
<1>4. ASSUME NEW m \in Message, ClickRate(s, m) PROVE Typed'
  BY <1>4, TypedBegin, TestDriveAssumption
     DEF ClickRate, Typed, Endable, Ratable, Place, DrivePlace, OwnPlace, Accepting, Delivering, Subject
<1>5. ASSUME NEW h \in User, NEW m \in Message, ClickAccept(s, h, m) PROVE Typed'
  BY <1>5, TypedBegin, TestDriveAssumption
     DEF ClickAccept, Typed, Open, Place, DrivePlace, OwnPlace, Accepting, Delivering, Subject
<1>6. ASSUME NEW u \in Member, AskForId(s, u) PROVE Typed'
  BY <1>6, TypedBegin, TestDriveAssumption
     DEF AskForId, Place, DrivePlace, OwnPlace, Accepting, Delivering, Subject
<1> QED
  BY <1>1, <1>2, <1>3, <1>4, <1>5, <1>6, Zenon DEF Click

LEMMA TypedHandle ==
  ASSUME Typed, NEW s \in Slot, Handle(s)
  PROVE  Typed'
<1>0. TypeOK /\ s \in Running /\ Tasked(task[s])
  BY DEF Typed, Running, Handle, Post, RememberRequest, ForgetRequest, Edit, CreateSession,
         FetchGuest, TellHost, TellGuest, DeleteSession, Rate, FindId, SendId, At
<1>1. CASE Post(s)
  <2>1. PICK m \in Message :
          /\ message[m].text = "none"
          /\ message' = [message EXCEPT ![m] = [text |-> "requested", guest |-> GuestOf(s), host |-> None]]
    BY <1>1 DEF Post
  <2>2. GuestOf(s) \in Guest /\ task[s].about[1] = "drive"
    BY <1>0, <1>1 DEF Tasked, Post, At, DrivePlace, OwnPlace, Place, GuestOf
  <2>3. MessagesOK
    BY <1>0, <2>1, <2>2, TestDriveAssumption DEF Typed, TypeOK, MessagesOK, Endable, Ratable
  <2>4. Others(s) /\ Keeps(s) /\ task' \in [Slot -> Task \cup {None}] /\ task'[s].at = "posted"
    BY <1>0, <1>1, PauseStep DEF Post, Place
  <2>5. TypeOK'
    BY <1>0, <1>1, <2>1, <2>2, <2>4, TestDriveAssumption
       DEF Post, TypeOK, store, history, Text
  <2>6. Tasked(task[s])'
    BY <2>2, <2>4 DEF Tasked, Keeps, GuestOf, DrivePlace, OwnPlace, Place, Accepting, Delivering
  <2> QED
    BY <2>3, <2>4, <2>5, <2>6, TypedOthers
<1>2. CASE RememberRequest(s)
  <2>1. Others(s) /\ task'[s] = None /\ task' \in [Slot -> Task \cup {None}]
    BY <1>0, <1>2, EndStep DEF RememberRequest
  <2>2. GuestOf(s) \in Guest
    BY <1>0, <1>2 DEF Tasked, RememberRequest, At, DrivePlace, OwnPlace, Place, GuestOf
  <2>3. TypeOK' /\ message' = message
    BY <1>0, <1>2, <2>1, <2>2 DEF RememberRequest, TypeOK, store, history
  <2> QED
    BY <2>1, <2>3, MessagesStay, TypedOthers
<1>3. CASE ForgetRequest(s)
  <2>1. /\ Others(s) /\ Keeps(s) /\ task' \in [Slot -> Task \cup {None}]
        /\ task'[s].at = "edit" /\ task'[s].becomes = "cancelled"
    BY <1>0, <1>3, EditToStep DEF ForgetRequest, Text
  <2>2. TypeOK' /\ message' = message
    BY <1>0, <1>3, <2>1 DEF ForgetRequest, TypeOK, store, history
  <2>3. Tasked(task[s])'
    BY <1>0, <1>3, <2>1, <2>2
       DEF ForgetRequest, At, Tasked, Keeps, DrivePlace, OwnPlace, Place, Accepting, Delivering
  <2> QED
    BY <2>1, <2>2, <2>3, MessagesStay, TypedOthers
<1>4. CASE Edit(s)
  <2>1. task[s].msg \in Message /\ task[s].becomes \notin {"none", "requested"}
        /\ message[task[s].msg].text # "none"
    BY <1>0, <1>4 DEF Edit, At, Tasked, DrivePlace, OwnPlace, Place
  <2>2. Others(s) /\ task'[s] = None /\ task' \in [Slot -> Task \cup {None}]
    BY <1>0, <1>4, EndStep DEF Edit
  <2>3. TypeOK'
    BY <1>0, <1>4, <2>1, <2>2, EditStep DEF Edit, TypeOK, store, history
  <2>4. MessagesOK
    <3> DEFINE k == task[s].msg
    <3>1. /\ \A m \in Message \ {k} : message'[m] = message[m]
          /\ message'[k].text = task[s].becomes /\ message'[k].guest = message[k].guest
          /\ message'[k].host = IF task[s].becomes = "driving" THEN task[s].user ELSE message[k].host
      BY <1>0, <1>4, <2>1, EditStep
    <3>2. /\ k \in Message /\ message[k].text # "none" /\ message[k].guest = task[s].about[2]
          /\ task[s].becomes = "driving" => task[s].user # task[s].about[2] /\ task[s].user \in User
          /\ task[s].becomes \in Endable \cup Ratable /\ task[s].becomes # "driving" =>
               message[k].host \in User
      BY <1>0, <1>4, RunningTasks
         DEF Edit, At, Tasked, DrivePlace, OwnPlace, Place, Endable, Ratable, Task
    <3> HIDE DEF k
    <3>3. /\ message'[k].text \in Endable \cup Ratable => message'[k].host \in User
          /\ message'[k].host \in User => message'[k].host # message'[k].guest
          /\ message'[k].text # "none" /\ message'[k].guest \in Guest
          /\ message[k].host \in User => message'[k].host \in User
      BY <3>1, <3>2, <2>1 DEF Typed, k
    <3> QED
      BY <3>1, <3>2, <3>3 DEF MessagesOK, Typed
  <2> QED
    BY <2>2, <2>3, <2>4, TypedOthers
<1>5. CASE CreateSession(s)
  <2>1. /\ DriveOf(s) \in Drive /\ task[s].at = "accept" /\ task[s].user # task[s].about[2]
        /\ task[s].about[1] = "drive" /\ task[s].about[2] \in Guest
        /\ task[s].msg \in Message /\ message[task[s].msg].text # "none"
        /\ message[task[s].msg].guest = task[s].about[2]
    BY <1>0, <1>5, Keys, RunningTasks
       DEF CreateSession, At, Tasked, Accepting, DrivePlace, OwnPlace, Place, DriveOf, GuestOf, Task
  <2>2. CASE End(s) /\ UNCHANGED <<pending, store>>
    <3>1. Others(s) /\ task'[s] = None /\ task' \in [Slot -> Task \cup {None}]
      BY <1>0, <2>2, EndStep
    <3>2. TypeOK' /\ message' = message
      BY <1>0, <1>5, <2>2, <3>1 DEF CreateSession, TypeOK, store, history
    <3> QED
      BY <3>1, <3>2, MessagesStay, TypedOthers
  <2>3. CASE /\ issued < MaxIds /\ issued' = issued + 1
             /\ sessions' = [sessions EXCEPT ![DriveOf(s)] = issued']
             /\ pending' = pending \ {GuestOf(s)}
             /\ PauseWith(s, "fetch", issued')
    <3>1. issued' \in Id /\ issued' \in 0 .. MaxIds
      BY <1>0, <2>3, TestDriveAssumption DEF TypeOK, Id
    <3>2. /\ Others(s) /\ Keeps(s) /\ task' \in [Slot -> Task \cup {None}]
          /\ task'[s].at = "fetch" /\ task'[s].id = issued'
      BY <1>0, <2>3, <3>1, PauseWithStep DEF Place
    <3>3. TypeOK' /\ message' = message
      BY <1>0, <1>5, <2>1, <2>3, <3>1, <3>2 DEF CreateSession, TypeOK, history
    <3>4. Tasked(task[s])'
      BY <2>1, <3>1, <3>2, <3>3
         DEF Tasked, Keeps, DrivePlace, OwnPlace, Place, Accepting, Delivering, GuestOf, Id
    <3> QED
      BY <3>2, <3>3, <3>4, MessagesStay, TypedOthers
  <2> QED
    BY <1>5, <2>2, <2>3 DEF CreateSession
<1>6. CASE FetchGuest(s)
  <2>1. PICK failed \in BOOLEAN :
          task' = [task EXCEPT ![s].at = "host", ![s].failed = failed]
    BY <1>6 DEF FetchGuest
  <2>2. /\ Others(s) /\ Keeps(s) /\ task' \in [Slot -> Task \cup {None}]
        /\ task'[s].at = "host" /\ task'[s].id = task[s].id
    BY <1>0, <2>1, FailStep DEF Place
  <2>3. TypeOK' /\ message' = message
    BY <1>0, <1>6, <2>2 DEF FetchGuest, TypeOK, store, history
  <2>4. Tasked(task[s])'
    BY <1>0, <1>6, <2>2, <2>3
       DEF FetchGuest, At, Tasked, Keeps, DrivePlace, OwnPlace, Place, Accepting, Delivering
  <2> QED
    BY <2>2, <2>3, <2>4, MessagesStay, TypedOthers
<1>7. CASE TellHost(s) \/ TellGuest(s)
  <2>1. /\ task[s].at \in Delivering /\ DriveOf(s) \in Drive /\ task[s].user # task[s].about[2]
        /\ task[s].id \in Id /\ task[s].user \in User /\ GuestOf(s) \in User
    BY <1>0, <1>7, Keys, RunningTasks
       DEF TellHost, TellGuest, At, Tasked, Accepting, Delivering, DrivePlace, OwnPlace, Place,
           DriveOf, GuestOf, Task
  <2>2. known' \subseteq User \X Id
    <3>1. ASSUME NEW u \in User, NEW sent \in BOOLEAN, Send(s, u, sent)
          PROVE  known' \subseteq User \X Id
      BY <1>0, <2>1, <3>1 DEF Send, TypeOK
    <3> QED
      BY <1>7, <2>1, <3>1 DEF TellHost, TellGuest
  <2>3. ASSUME NEW failed \in BOOLEAN, Conclude(s, failed)
        PROVE  /\ Others(s) /\ Keeps(s) /\ task' \in [Slot -> Task \cup {None}]
               /\ task'[s].at = "edit" /\ task'[s].becomes \in {"undelivered", "driving"}
               /\ sessions' \in [Drive \cup Own -> Id \cup {None}]
    <3> DEFINE text == IF failed THEN "undelivered" ELSE "driving"
    <3>1. text \in Text /\ EditTo(s, text)
      BY <2>3 DEF Conclude, Text
    <3>2. /\ Others(s) /\ Keeps(s) /\ task' \in [Slot -> Task \cup {None}]
          /\ task'[s].at = "edit" /\ task'[s].becomes = text
      BY <1>0, <3>1, EditToStep
    <3> QED
      BY <1>0, <2>1, <2>3, <3>2 DEF Conclude, TypeOK
  <2>4. /\ Others(s) /\ Keeps(s) /\ task' \in [Slot -> Task \cup {None}]
        /\ \/ task'[s].at = "edit" /\ task'[s].becomes \in {"undelivered", "driving"}
           \/ task'[s].at = "guest" /\ task'[s].id = task[s].id
        /\ sessions' \in [Drive \cup Own -> Id \cup {None}]
    <3>1. CASE TellHost(s)
      <4>1. CASE Conclude(s, TRUE)
        BY <2>3, <4>1
      <4>2. CASE UNCHANGED sessions /\ \E sent \in BOOLEAN :
                   task' = [task EXCEPT ![s].at = "guest", ![s].failed = ~sent]
        BY <1>0, <4>2, FailStep DEF TypeOK, Place
      <4> QED
        BY <3>1, <4>1, <4>2 DEF TellHost
    <3>2. CASE TellGuest(s)
      <4>1. PICK sent \in BOOLEAN : Conclude(s, task[s].failed \/ ~sent)
        BY <3>2 DEF TellGuest
      <4>2. (task[s].failed \/ ~sent) \in BOOLEAN
        OBVIOUS
      <4> QED
        BY <2>3, <4>1, <4>2
    <3> QED
      BY <1>7, <3>1, <3>2
  <2>5. TypeOK' /\ message' = message
    BY <1>0, <1>7, <2>2, <2>4 DEF TellHost, TellGuest, TypeOK, history
  <2>6. Tasked(task[s])'
    BY <1>0, <2>1, <2>4, <2>5
       DEF Tasked, Keeps, DrivePlace, OwnPlace, Place, Accepting, Delivering
  <2> QED
    BY <2>4, <2>5, <2>6, MessagesStay, TypedOthers
<1>8. CASE DeleteSession(s)
  <2>1. /\ Others(s) /\ Keeps(s) /\ task' \in [Slot -> Task \cup {None}]
        /\ task'[s].at = "edit" /\ task'[s].becomes \in {"over", "over and rated"}
    BY <1>0, <1>8, EditToStep DEF DeleteSession, Text
  <2>2. TypeOK' /\ message' = message
    BY <1>0, <1>8, <2>1 DEF DeleteSession, TypeOK, history
  <2>3. Tasked(task[s])'
    BY <1>0, <1>8, <2>1, <2>2
       DEF DeleteSession, At, Tasked, Keeps, DrivePlace, OwnPlace, Place, Accepting, Delivering
  <2> QED
    BY <2>1, <2>2, <2>3, MessagesStay, TypedOthers
<1>9. CASE Rate(s)
  <2>1. /\ Others(s) /\ Keeps(s) /\ task' \in [Slot -> Task \cup {None}]
        /\ task'[s].at = "edit" /\ task'[s].becomes \in {"rated", "over and rated"}
    BY <1>0, <1>9, EditToStep DEF Rate, Text
  <2>2. TypeOK' /\ message' = message
    BY <1>0, <1>9, <2>1 DEF Rate, TypeOK, store, history
  <2>3. Tasked(task[s])'
    BY <1>0, <1>9, <2>1, <2>2
       DEF Rate, At, Tasked, Keeps, DrivePlace, OwnPlace, Place, Accepting, Delivering
  <2> QED
    BY <2>1, <2>2, <2>3, MessagesStay, TypedOthers
<1>10. CASE FindId(s)
  <2>1. /\ task[s].at \in {"ask", "renew"} /\ task[s].user \in Member
        /\ task[s].about = <<"own", task[s].user>> /\ <<task[s].user>> \in Own
    BY <1>0, <1>10, Keys DEF FindId, At, Tasked, OwnPlace
  <2>2. CASE Reuse(s) /\ sessions[<<task[s].user>>] # None
    <3>1. sessions[<<task[s].user>>] \in Id
      BY <1>0, <2>1, <2>2 DEF TypeOK
    <3>2. /\ Others(s) /\ Keeps(s) /\ task' \in [Slot -> Task \cup {None}]
          /\ task'[s].at = "send" /\ task'[s].id \in Id
      BY <1>0, <2>2, <3>1, PauseWithStep DEF Reuse, Place
    <3>3. TypeOK' /\ message' = message
      BY <1>0, <1>10, <2>2, <3>2 DEF FindId, Reuse, TypeOK, store, history
    <3>4. Tasked(task[s])'
      BY <2>1, <3>2, <3>3
         DEF Tasked, Keeps, DrivePlace, OwnPlace, Place, Accepting, Delivering
    <3> QED
      BY <3>2, <3>3, <3>4, MessagesStay, TypedOthers
  <2>3. CASE Generate(s)
    <3>1. issued' \in Id /\ issued' \in 0 .. MaxIds
      BY <1>0, <2>3, TestDriveAssumption DEF Generate, TypeOK, Id
    <3>2. /\ Others(s) /\ Keeps(s) /\ task' \in [Slot -> Task \cup {None}]
          /\ task'[s].at = "send" /\ task'[s].id \in Id
      BY <1>0, <2>3, <3>1, PauseWithStep DEF Generate, Place
    <3>3. TypeOK' /\ message' = message
      BY <1>0, <1>10, <2>1, <2>3, <3>1, <3>2 DEF FindId, Generate, TypeOK, history
    <3>4. Tasked(task[s])'
      BY <2>1, <3>2, <3>3
         DEF Tasked, Keeps, DrivePlace, OwnPlace, Place, Accepting, Delivering
    <3> QED
      BY <3>2, <3>3, <3>4, MessagesStay, TypedOthers
  <2> QED
    BY <1>10, <2>2, <2>3 DEF FindId
<1>11. CASE SendId(s)
  <2>1. Others(s) /\ task'[s] = None /\ task' \in [Slot -> Task \cup {None}]
    BY <1>0, <1>11, EndStep DEF SendId
  <2>2. TypeOK' /\ message' = message
    BY <1>0, <1>11, <2>1, RunningTasks DEF SendId, TypeOK, Task, store, history
  <2> QED
    BY <2>1, <2>2, MessagesStay, TypedOthers
<1> QED
  BY <1>1, <1>2, <1>3, <1>4, <1>5, <1>6, <1>7, <1>8, <1>9, <1>10, <1>11 DEF Handle

LEMMA TypedFaults ==
  ASSUME Typed, RestartBot \/ \E s \in Slot : Raise(s)
  PROVE  Typed'
<1>0. TypeOK
  BY DEF Typed
<1>1. CASE RestartBot
  <2>1. \A s \in Slot : task'[s] = None
    BY <1>1 DEF RestartBot
  <2>2. TypeOK' /\ message' = message
    BY <1>0, <1>1, RunningTasks, TestDriveAssumption DEF RestartBot, TypeOK, store
  <2>3. Running' = {}
    BY <2>1 DEF Running
  <2> QED
    BY <2>2, <2>3 DEF Typed
<1>2. ASSUME NEW s \in Slot, Raise(s) PROVE Typed'
  <2>1. s \in Running
    BY <1>2 DEF Raise, Running
  <2>2. Others(s) /\ task'[s] = None /\ task' \in [Slot -> Task \cup {None}]
    BY <1>0, <1>2, <2>1, EndStep DEF Raise
  <2>3. TypeOK' /\ message' = message
    BY <1>0, <1>2, <2>1, <2>2, RunningTasks, TestDriveAssumption DEF Raise, TypeOK, store
  <2> QED
    BY <2>2, <2>3, MessagesStay, TypedOthers
<1> QED
  BY <1>1, <1>2

LEMMA TypedInit == Init => Typed
<1> SUFFICES ASSUME Init PROVE Typed
  OBVIOUS
<1>1. Running = {}
  BY DEF Init, Running
<1>2. TypeOK
  BY TestDriveAssumption DEF Init, TypeOK, Text
<1> QED
  BY <1>1, <1>2, TestDriveAssumption DEF Init, Typed, Endable, Ratable

LEMMA TypedStep ==
  ASSUME Typed, [Next]_vars
  PROVE  Typed'
<1>1. CASE Next
  BY <1>1, TypedClick, TypedHandle, TypedFaults DEF Next
<1>2. CASE UNCHANGED vars
  BY <1>2 DEF vars, store, history, Typed, TypeOK, Running, Tasked
<1> QED
  BY <1>1, <1>2

(* Whatever the handlers, the members and the table hold, it is of the     *)
(* kind the code keeps there: TypeOK is an invariant.                      *)
THEOREM TypeCorrect == Spec => []TypeOK
<1>1. Init => Typed
  BY TypedInit
<1>2. Typed /\ [Next]_vars => Typed'
  BY TypedStep
<1>3. Typed => TypeOK
  BY DEF Typed
<1> QED
  BY <1>1, <1>2, <1>3, PTL DEF Spec

-----------------------------------------------------------------------------
(* Handlers that overlap *)

(* What a handler does concerns its own task, which it keeps or ends. *)
Goes(s) == Others(s) /\ (task'[s] = None \/ Keeps(s))

LEMMA HandleGoes ==
  ASSUME Typed, NEW s \in Slot, Handle(s)
  PROVE  s \in Running /\ Goes(s) /\ UNCHANGED history
<1>1. TypeOK /\ s \in Running
  BY DEF Typed, Running, Handle, Post, RememberRequest, ForgetRequest, Edit, CreateSession,
         FetchGuest, TellHost, TellGuest, DeleteSession, Rate, FindId, SendId, At
<1>2. UNCHANGED history
  BY DEF Handle, Post, RememberRequest, ForgetRequest, Edit, CreateSession,
         FetchGuest, TellHost, TellGuest, DeleteSession, Rate, FindId, SendId
<1> SUFFICES Goes(s)
  BY <1>1, <1>2
<1>3. ASSUME NEW text \in Text, EditTo(s, text) PROVE Goes(s)
  BY <1>1, <1>3, EditToStep DEF Goes
<1>4. ASSUME NEW failed \in BOOLEAN, Conclude(s, failed) PROVE Goes(s)
  BY <1>3, <1>4 DEF Conclude, Text
<1>5. CASE Post(s)
  BY <1>1, <1>5, PauseStep DEF Goes, Post, Place
<1>6. CASE RememberRequest(s) \/ Edit(s) \/ SendId(s)
  BY <1>1, <1>6, EndStep DEF Goes, RememberRequest, Edit, SendId
<1>7. CASE ForgetRequest(s) \/ DeleteSession(s) \/ Rate(s)
  BY <1>3, <1>7 DEF ForgetRequest, DeleteSession, Rate, Text
<1>8. CASE CreateSession(s)
  <2>1. issued < MaxIds => issued + 1 \in Id
    BY <1>1, TestDriveAssumption DEF TypeOK, Id
  <2> QED
    BY <1>1, <1>8, <2>1, EndStep, PauseWithStep DEF Goes, CreateSession, Place
<1>9. CASE FetchGuest(s)
  BY <1>1, <1>9, FailStep DEF Goes, FetchGuest, Place
<1>10. CASE TellHost(s)
  <2>1. CASE Conclude(s, TRUE)
    BY <1>4, <2>1
  <2>2. CASE \E sent \in BOOLEAN : task' = [task EXCEPT ![s].at = "guest", ![s].failed = ~sent]
    BY <1>1, <2>2, FailStep DEF Goes, Place
  <2> QED
    BY <1>10, <2>1, <2>2 DEF TellHost
<1>11. CASE TellGuest(s)
  <2>1. PICK sent \in BOOLEAN : Conclude(s, task[s].failed \/ ~sent)
    BY <1>11 DEF TellGuest
  <2>2. (task[s].failed \/ ~sent) \in BOOLEAN
    OBVIOUS
  <2> QED
    BY <1>4, <2>1, <2>2
<1>12. CASE FindId(s)
  <2>1. issued < MaxIds => issued + 1 \in Id
    BY <1>1, TestDriveAssumption DEF TypeOK, Id
  <2>2. <<task[s].user>> \in Own
    BY <1>1, <1>12, Keys DEF FindId, At, Typed, Tasked, OwnPlace
  <2>3. sessions[<<task[s].user>>] \in Id \cup {None}
    BY <1>1, <2>2 DEF TypeOK
  <2>4. ASSUME NEW id \in Id \cup {None}, PauseWith(s, "send", id) PROVE Goes(s)
    BY <1>1, <2>4, PauseWithStep DEF Goes, Place
  <2> QED
    BY <1>1, <1>12, <2>1, <2>3, <2>4 DEF FindId, Reuse, Generate
<1> QED
  BY <1>5, <1>6, <1>7, <1>8, <1>9, <1>10, <1>11, <1>12 DEF Handle

LEMMA ClickBegins ==
  ASSUME Typed, NEW s \in Slot, Click(s)
  PROVE  \E place \in Place, u \in User, subject \in Subject, m \in Message \cup {None} :
           /\ place \in {"ask", "renew", "request", "cancel", "accept", "invalidate", "rate"}
           /\ Begin(s, place, u, subject, m)
<1>1. ASSUME NEW m \in Message, message[m].text # "none"
      PROVE  message[m].guest \in User
  BY <1>1, TestDriveAssumption DEF Typed
<1>2. ASSUME NEW m \in Message, message[m].text \in Endable
      PROVE  message[m].host \in User /\ message[m].text # "none"
  BY <1>2 DEF Typed, Endable
<1> QED
  BY <1>1, <1>2, TestDriveAssumption
     DEF Click, ClickRequest, ClickCancel, ClickInvalidate, ClickRate, ClickAccept, AskForId,
         Open, Ratable, Subject, Place, OwnPlace

(* One action of any kind, by what it does to the tasks. *)
Begins(s) ==
  /\ Others(s) /\ task[s] = None /\ task'[s] \in Task /\ task'[s] # None
  /\ task'[s].at \notin Delivering \cup {"send", "edit"}
  /\ clashed' = IF Handled(task'[s].about) THEN clashed \cup {task'[s].about} ELSE clashed
  /\ pending' = pending /\ sessions' = sessions /\ issued' = issued /\ message' = message
  /\ known' = known /\ last' = last /\ broken' = broken /\ breaks' = breaks

LEMMA ClickStep ==
  ASSUME Typed, NEW s \in Slot, Click(s)
  PROVE  Begins(s)
<1>1. PICK place \in Place, u \in User, subject \in Subject, m \in Message \cup {None} :
        /\ place \in {"ask", "renew", "request", "cancel", "accept", "invalidate", "rate"}
        /\ Begin(s, place, u, subject, m)
  BY ClickBegins
<1>2. TypeOK
  BY DEF Typed
<1> QED
  BY <1>1, <1>2, BeginStep DEF Begins, Delivering

LEMMA UniqueStep ==
  ASSUME Typed, Unique, [Next]_vars
  PROVE  Unique'
<1>1. ASSUME NEW s \in Slot, Click(s) PROVE Unique'
  <2>1. Begins(s)
    BY <1>1, ClickStep
  <2> QED
    BY <2>1 DEF Unique, Begins, Others, Running, Handled
<1>2. ASSUME NEW s \in Slot, Handle(s) PROVE Unique'
  BY <1>2, HandleGoes DEF Unique, Goes, Keeps, Others, Running, history
<1>3. ASSUME NEW s \in Slot, Raise(s) PROVE Unique'
  BY <1>3 DEF Raise, End, Unique, Running, Typed, TypeOK
<1>4. CASE RestartBot
  BY <1>4 DEF RestartBot, Unique, Running
<1>5. CASE UNCHANGED vars
  BY <1>5 DEF vars, history, Unique, Running
<1> QED
  BY <1>1, <1>2, <1>3, <1>4, <1>5 DEF Next

-----------------------------------------------------------------------------
(* The ids of test drives are delivered *)

(* It is enough to look at the handler that goes on. *)
LEMMA DeliveredOthers ==
  ASSUME DeliveredOrRunning, NEW s \in Slot, Others(s), known \subseteq known', broken \subseteq broken',
         \A d \in Drive : sessions'[d] # None /\ sessions'[d] # sessions[d] =>
           \E r \in Slot : Delivers(r, d)',
         \A d \in Drive :
           Delivers(s, d) /\ sessions'[d] # None /\ sessions'[d] = sessions[d]
             /\ <<"drive", d[1]>> \notin broken'
             => SentToBoth(d)' \/ Delivers(s, d)'
  PROVE  DeliveredOrRunning'
<1> SUFFICES ASSUME NEW d \in Drive, sessions'[d] # None, <<"drive", d[1]>> \notin broken',
                    sessions'[d] = sessions[d]
             PROVE  SentToBoth(d)' \/ \E r \in Slot : Delivers(r, d)'
  BY DEF DeliveredOrRunning
<1>1. SentToBoth(d) \/ \E r \in Slot : Delivers(r, d)
  BY DEF DeliveredOrRunning
<1>2. CASE SentToBoth(d)
  BY <1>2 DEF SentToBoth
<1>3. ASSUME NEW r \in Slot \ {s}, Delivers(r, d) PROVE Delivers(r, d)'
  BY <1>3 DEF Delivers, Others
<1> QED
  BY <1>1, <1>2, <1>3

LEMMA DeliveredHandle ==
  ASSUME Typed, DeliveredOrRunning, NEW s \in Slot, Handle(s)
  PROVE  DeliveredOrRunning'
<1>1. TypeOK /\ s \in Running /\ Tasked(task[s]) /\ Others(s) /\ broken' = broken /\ task[s] # None
  BY HandleGoes DEF Typed, Goes, history, Running
<1>2. CASE \/ Post(s) \/ RememberRequest(s) \/ ForgetRequest(s) \/ Edit(s)
           \/ Rate(s) \/ SendId(s)
  <2>1. known' = known /\ sessions' = sessions /\ task[s].at \notin Delivering
    BY <1>2 DEF Post, RememberRequest, ForgetRequest, Edit, Rate, SendId, store, At, Delivering
  <2> QED
    BY <1>1, <2>1, DeliveredOthers DEF Delivers
<1>3. CASE FindId(s)
  <2>1. known' = known /\ task[s].at \notin Delivering /\ <<task[s].user>> \notin Drive
    BY <1>1, <1>3, Keys DEF FindId, At, Delivering, Tasked, OwnPlace
  <2>2. \A d \in Drive : sessions'[d] = sessions[d]
    BY <1>1, <1>3, <2>1 DEF FindId, Reuse, Generate, store, TypeOK
  <2> QED
    BY <1>1, <2>1, <2>2, DeliveredOthers DEF Delivers
<1>4. CASE DeleteSession(s)
  <2>1. known' = known /\ task[s].at \notin Delivering
    BY <1>4 DEF DeleteSession, At, Delivering
  <2>2. \A d \in Drive : sessions'[d] # None => sessions'[d] = sessions[d]
    BY <1>1, <1>4 DEF DeleteSession, TypeOK
  <2> QED
    BY <1>1, <2>1, <2>2, DeliveredOthers DEF Delivers
<1>5. CASE CreateSession(s)
  <2>1. task[s].at \notin Delivering /\ known' = known /\ GuestOf(s) = task[s].about[2]
        /\ task[s].about = <<"drive", GuestOf(s)>>
    BY <1>1, <1>5, RunningTasks
       DEF CreateSession, At, Delivering, Tasked, GuestOf, DrivePlace, OwnPlace, Place
  <2>2. CASE UNCHANGED store
    BY <1>1, <2>1, <2>2, DeliveredOthers DEF Delivers, store
  <2>3. CASE /\ issued < MaxIds /\ issued' = issued + 1
             /\ sessions' = [sessions EXCEPT ![DriveOf(s)] = issued']
             /\ PauseWith(s, "fetch", issued')
    <3>1. issued' \in Id
      BY <1>1, <2>3, TestDriveAssumption DEF TypeOK, Id
    <3>2. Keeps(s) /\ task'[s].at = "fetch" /\ task'[s].id = issued'
      BY <1>1, <2>3, <3>1, PauseWithStep DEF Place
    <3>3. \A d \in Drive : d # DriveOf(s) => sessions'[d] = sessions[d]
      BY <1>1, <2>3 DEF TypeOK
    <3>4. ASSUME NEW d \in Drive, d = DriveOf(s) PROVE Delivers(s, d)'
      <4>1. sessions'[d] = issued' /\ d[1] = GuestOf(s) /\ d[2] = task[s].user
        BY <1>1, <2>3, <3>4 DEF TypeOK, DriveOf
      <4> QED
        BY <2>1, <3>2, <4>1 DEF Delivers, Delivering, Keeps
    <3> QED
      BY <1>1, <2>1, <3>3, <3>4, DeliveredOthers DEF Delivers
  <2> QED
    BY <1>5, <2>2, <2>3 DEF CreateSession, store
<1>6. CASE FetchGuest(s)
  <2>1. /\ Keeps(s) /\ task'[s].at = "host" /\ task'[s].id = task[s].id
        /\ known' = known /\ sessions' = sessions
    BY <1>1, <1>6, FailStep DEF FetchGuest, Place, store
  <2> QED
    BY <1>1, <2>1, DeliveredOthers DEF Delivers, Delivering, Keeps
<1>7. ASSUME NEW failed \in BOOLEAN, Conclude(s, failed), known \subseteq known',
             ASSUME NEW d \in Drive, Delivers(s, d), ~failed PROVE SentToBoth(d)'
      PROVE  DeliveredOrRunning'
  <2>1. \A d \in Drive : sessions'[d] # None => sessions'[d] = sessions[d]
    BY <1>1, <1>7 DEF Conclude, TypeOK
  <2>2. ASSUME NEW d \in Drive, Delivers(s, d), sessions'[d] # None PROVE ~failed
    <3>1. d = DriveOf(s)
      BY <2>2, Keys DEF Delivers, DriveOf, GuestOf
    <3> QED
      BY <1>1, <1>7, <2>2, <3>1 DEF Conclude, TypeOK
  <2> QED
    BY <1>1, <1>7, <2>1, <2>2, DeliveredOthers
<1>8. CASE TellHost(s)
  <2>1. PICK sent \in BOOLEAN :
          /\ Send(s, task[s].user, sent)
          /\ \/ task[s].failed /\ Conclude(s, TRUE)
             \/ /\ ~task[s].failed
                /\ task' = [task EXCEPT ![s].at = "guest", ![s].failed = ~sent]
                /\ UNCHANGED sessions
    BY <1>8 DEF TellHost
  <2>2. known \subseteq known'
    BY <2>1 DEF Send
  <2>3. CASE Conclude(s, TRUE)
    BY <1>7, <2>2, <2>3
  <2>4. CASE /\ task' = [task EXCEPT ![s].at = "guest", ![s].failed = ~sent]
             /\ UNCHANGED sessions
    <3>1. /\ Keeps(s) /\ task'[s].at = "guest" /\ task'[s].id = task[s].id
          /\ task'[s].failed = ~sent
      BY <1>1, <2>4, FailStep DEF Place
    <3>2. ASSUME NEW d \in Drive, Delivers(s, d) PROVE Delivers(s, d)'
      <4>1. sent => <<d[2], sessions[d]>> \in known'
        BY <2>1, <3>2 DEF Send, Delivers
      <4> QED
        BY <2>4, <3>1, <3>2, <4>1 DEF Delivers, Delivering, Keeps
    <3> QED
      BY <1>1, <2>2, <2>4, <3>2, DeliveredOthers
  <2> QED
    BY <2>1, <2>3, <2>4
<1>9. CASE TellGuest(s)
  <2>1. PICK sent \in BOOLEAN : Send(s, GuestOf(s), sent) /\ Conclude(s, task[s].failed \/ ~sent)
    BY <1>9 DEF TellGuest
  <2>2. known \subseteq known'
    BY <2>1 DEF Send
  <2>3. ASSUME NEW d \in Drive, Delivers(s, d), ~(task[s].failed \/ ~sent) PROVE SentToBoth(d)'
    <3>1. <<d[2], sessions[d]>> \in known /\ GuestOf(s) = d[1] /\ task[s].id = sessions[d]
      BY <1>9, <2>3 DEF Delivers, GuestOf, TellGuest, At
    <3>2. <<d[1], sessions[d]>> \in known' /\ <<d[2], sessions[d]>> \in known'
      BY <2>1, <2>2, <2>3, <3>1 DEF Send
    <3>3. sessions'[d] = sessions[d]
      BY <2>1, <2>3 DEF Conclude
    <3> QED
      BY <3>2, <3>3 DEF SentToBoth
  <2>4. (task[s].failed \/ ~sent) \in BOOLEAN
    OBVIOUS
  <2> QED
    BY <1>7, <2>1, <2>2, <2>3, <2>4
<1> QED
  BY <1>2, <1>3, <1>4, <1>5, <1>6, <1>8, <1>9 DEF Handle

LEMMA DeliveredStep ==
  ASSUME Typed, DeliveredOrRunning, [Next]_vars
  PROVE  DeliveredOrRunning'
<1>1. ASSUME NEW s \in Slot, Click(s) PROVE DeliveredOrRunning'
  BY <1>1, ClickStep, DeliveredOthers DEF Begins, Delivers
<1>2. ASSUME NEW s \in Slot, Raise(s) PROVE DeliveredOrRunning'
  <2>1. TypeOK /\ s \in Running
    BY <1>2 DEF Typed, Raise, Running
  <2>2. Others(s) /\ known' = known /\ sessions' = sessions /\ broken' = broken \cup {task[s].about}
    BY <1>2, <2>1, EndStep DEF Raise, store
  <2> QED
    BY <2>2, DeliveredOthers DEF Delivers
<1>3. CASE RestartBot
  <2>1. /\ known' = known /\ sessions' = sessions
        /\ broken' = broken \cup {task[s].about : s \in Running}
    BY <1>3 DEF RestartBot, store
  <2>2. ASSUME NEW d \in Drive, NEW s \in Slot, Delivers(s, d) PROVE <<"drive", d[1]>> \in broken'
    BY <2>1, <2>2 DEF Delivers, Running
  <2> QED
    BY <2>1, <2>2 DEF DeliveredOrRunning, SentToBoth
<1>4. CASE UNCHANGED vars
  BY <1>4 DEF vars, store, history, DeliveredOrRunning, SentToBoth, Delivers
<1> QED
  BY <1>1, <1>2, <1>3, <1>4, DeliveredHandle DEF Next

(* Two clicks on Accept may create two sessions for a guest; each of them  *)
(* that stays has been sent to the guest and to its host, or is rolled     *)
(* back by the handler that created it, for any number of handlers whose   *)
(* awaits interleave (_handle_accept).                                     *)
THEOREM EverySessionDelivered == Spec => []Delivered
<1>1. Init => Typed /\ DeliveredOrRunning
  BY TypedInit DEF Init, DeliveredOrRunning
<1>2. Typed /\ DeliveredOrRunning /\ [Next]_vars => (Typed /\ DeliveredOrRunning)'
  BY TypedStep, DeliveredStep
<1>3. DeliveredOrRunning => Delivered
  BY DEF DeliveredOrRunning, Delivered, SentToBoth, Delivers, Handled, Running
<1> QED
  BY <1>1, <1>2, <1>3, PTL DEF Spec

-----------------------------------------------------------------------------
(* The ids that members ask for *)

LEMMA SendsHandle ==
  ASSUME Typed, Unique, SendsValid, NEW s \in Slot, Handle(s)
  PROVE  SendsValid'
<1>1. /\ TypeOK /\ s \in Running /\ Tasked(task[s]) /\ Others(s)
      /\ task'[s] = None \/ Keeps(s)
      /\ clashed' = clashed /\ broken' = broken /\ task[s] # None
  BY HandleGoes DEF Typed, Goes, history, Running
<1>2. SUFFICES ASSUME NEW u \in Member, Orderly(<<"own", u>>)
               PROVE  /\ \/ last'[u] = None \/ sessions'[<<u>>] = last'[u]
                         \/ \E r \in Slot : Sends(r, u)'
                      /\ \A r \in Slot : Sends(r, u)' => task'[r].id = sessions'[<<u>>]
  BY <1>1 DEF SendsValid, Orderly
<1>3. /\ last[u] = None \/ sessions[<<u>>] = last[u] \/ \E r \in Slot : Sends(r, u)
      /\ \A r \in Slot : Sends(r, u) => task[r].id = sessions[<<u>>]
  BY <1>2 DEF SendsValid
<1>4. CASE task[s].about # <<"own", u>>
  <2>1. last'[u] = last[u] /\ sessions'[<<u>>] = sessions[<<u>>]
    <3>1. <<u>> \in DOMAIN sessions /\ <<u>> # DriveOf(s)
      BY <1>1, Keys DEF TypeOK, DriveOf
    <3>2. CASE FindId(s)
      <4>1. task[s].user # u
        BY <1>1, <1>4, <3>2 DEF FindId, At, Tasked, OwnPlace
      <4>2. <<task[s].user>> # <<u>>
        BY <4>1
      <4> QED
        BY <3>1, <3>2, <4>2 DEF FindId, Reuse, Generate, store
    <3>3. CASE SendId(s)
      <4>1. task[s].user # u
        BY <1>1, <1>4, <3>3 DEF SendId, At, Tasked, OwnPlace
      <4> QED
        BY <1>1, <3>3, <4>1 DEF SendId, store, TypeOK
    <3>4. CASE CreateSession(s) \/ DeleteSession(s) \/ TellHost(s) \/ TellGuest(s)
      BY <3>1, <3>4 DEF CreateSession, DeleteSession, TellHost, TellGuest, Conclude, store
    <3>5. CASE \/ Post(s) \/ RememberRequest(s) \/ ForgetRequest(s) \/ Edit(s)
               \/ FetchGuest(s) \/ Rate(s)
      BY <3>5 DEF Post, RememberRequest, ForgetRequest, Edit, FetchGuest, Rate, store
    <3> QED
      BY <3>2, <3>3, <3>4, <3>5 DEF Handle
  <2>2. \A r \in Slot : (Sends(r, u)' <=> Sends(r, u)) /\ (Sends(r, u) => task'[r] = task[r])
    BY <1>1, <1>4 DEF Sends, Others, Keeps
  <2> QED
    BY <1>3, <2>1, <2>2
<1>5. CASE task[s].about = <<"own", u>>
  <2>1. \A r \in Slot \ {s} : task[r] = None \/ task[r].about # <<"own", u>>
    BY <1>2, <1>5, <1>1 DEF Unique, Running, Orderly
  <2>2. \A r \in Slot \ {s} : ~Sends(r, u)'
    BY <1>1, <2>1 DEF Others, Sends
  <2>3. CASE FindId(s)
    <3>1. /\ task[s].at \in {"ask", "renew"} /\ task[s].user = u /\ last' = last
          /\ <<u>> \in Own /\ \A r \in Slot : ~Sends(r, u)
      BY <1>1, <1>5, <2>1, <2>3, Keys DEF FindId, At, Tasked, OwnPlace, Sends
    <3>2. PICK id \in Id \cup {None} : PauseWith(s, "send", id) /\ id = sessions'[<<u>>]
      <4>1. sessions[<<u>>] \in Id \cup {None} /\ (issued < MaxIds => issued + 1 \in Id)
        BY <1>1, <3>1, TestDriveAssumption DEF TypeOK, Id
      <4> QED
        BY <1>1, <2>3, <3>1, <4>1 DEF FindId, Reuse, Generate, store, TypeOK
    <3>3. Keeps(s) /\ task'[s].at = "send" /\ task'[s].id = sessions'[<<u>>]
      BY <1>1, <3>2, PauseWithStep DEF Place
    <3>4. Sends(s, u)'
      BY <1>5, <3>3 DEF Sends, Keeps
    <3> QED
      BY <2>2, <3>3, <3>4
  <2>4. CASE SendId(s)
    <3>1. /\ task[s].at = "send" /\ task[s].user = u /\ sessions' = sessions
          /\ task[s].id = sessions[<<u>>]
      BY <1>1, <1>3, <1>5, <2>4 DEF SendId, At, Tasked, OwnPlace, Sends, store
    <3>2. last'[u] \in {task[s].id, None}
      BY <1>1, <2>4, <3>1 DEF SendId, TypeOK
    <3>3. task'[s] = None
      BY <1>1, <2>4, EndStep DEF SendId
    <3> QED
      BY <2>2, <3>1, <3>2, <3>3 DEF Sends
  <2>5. FindId(s) \/ SendId(s)
    <3>1. task[s].about[1] # "drive"
      BY <1>5
    <3>2. task[s].at \in OwnPlace
      BY <1>1, <3>1, RunningTasks DEF Tasked, DrivePlace, Task
    <3> QED
      BY <3>2 DEF Handle, Post, RememberRequest, ForgetRequest, Edit, CreateSession, FetchGuest,
                  TellHost, TellGuest, DeleteSession, Rate, At, OwnPlace
  <2> QED
    BY <2>3, <2>4, <2>5
<1> QED
  BY <1>4, <1>5

LEMMA SendsStep ==
  ASSUME Typed, Unique, SendsValid, [Next]_vars
  PROVE  SendsValid'
<1>1. ASSUME NEW s \in Slot, Click(s) PROVE SendsValid'
  <2>1. Begins(s)
    BY <1>1, ClickStep
  <2>2. \A u \in Member, r \in Slot : (Sends(r, u)' <=> Sends(r, u)) /\ (Sends(r, u) => task'[r] = task[r])
    BY <2>1 DEF Sends, Begins, Others
  <2>3. \A u \in Member : Orderly(<<"own", u>>)' => Orderly(<<"own", u>>)
    BY <2>1 DEF Begins, Orderly
  <2> QED
    BY <2>1, <2>2, <2>3 DEF SendsValid, Begins
<1>2. ASSUME NEW s \in Slot, Raise(s) PROVE SendsValid'
  <2>1. TypeOK /\ s \in Running
    BY <1>2 DEF Typed, Raise, Running
  <2>2. Others(s) /\ task'[s] = None /\ last' = last /\ sessions' = sessions
        /\ broken' = broken \cup {task[s].about} /\ clashed' = clashed
    BY <1>2, <2>1, EndStep DEF Raise, store
  <2>3. ASSUME NEW u \in Member, Orderly(<<"own", u>>)'
        PROVE  /\ Orderly(<<"own", u>>)
               /\ \A r \in Slot : (Sends(r, u)' <=> Sends(r, u)) /\ (Sends(r, u) => task'[r] = task[r])
    BY <2>2, <2>3 DEF Sends, Others, Orderly
  <2> QED
    BY <2>2, <2>3 DEF SendsValid
<1>3. CASE RestartBot
  <2>1. /\ last' = last /\ sessions' = sessions /\ clashed' = clashed
        /\ broken' = broken \cup {task[s].about : s \in Running}
        /\ \A s \in Slot : task'[s] = None
    BY <1>3 DEF RestartBot, store
  <2>2. ASSUME NEW u \in Member, Orderly(<<"own", u>>)'
        PROVE  Orderly(<<"own", u>>) /\ \A r \in Slot : ~Sends(r, u) /\ ~Sends(r, u)'
    BY <2>1, <2>2 DEF Sends, Orderly, Running
  <2> QED
    BY <2>1, <2>2 DEF SendsValid
<1>4. CASE UNCHANGED vars
  BY <1>4 DEF vars, store, history, SendsValid, Sends, Orderly
<1> QED
  BY <1>1, <1>2, <1>3, <1>4, SendsHandle DEF Next

(* The id a member was sent last is the one in the table, unless two       *)
(* commands of the member overlapped or one failed on the way, for any     *)
(* number of members who ask (handle_requestid_command,                    *)
(* handle_renewid_command).                                                *)
THEOREM LastSentIsValid == Spec => []LastIdIsValid
<1> DEFINE I == Typed /\ Unique /\ SendsValid
<1>1. Init => I
  <2> SUFFICES ASSUME Init PROVE Unique /\ SendsValid
    BY TypedInit
  <2> QED
    BY DEF Init, Unique, SendsValid, Sends, Running
<1>2. I /\ [Next]_vars => I'
  BY TypedStep, UniqueStep, SendsStep
<1>3. I => LastIdIsValid
  BY DEF SendsValid, Sends, LastIdIsValid, Handled, Running
<1> HIDE DEF I
<1> QED
  BY <1>1, <1>2, <1>3, PTL DEF Spec

-----------------------------------------------------------------------------
(* What guests, hosts and messages know of a test drive *)

(* Nothing that is about the guest changes. *)
Untouched(g) ==
  /\ g \in pending' <=> g \in pending
  /\ \A h \in User \ {g} : sessions'[<<g, h>>] = sessions[<<g, h>>]
  /\ \A m \in Message :
       \/ message'[m] = message[m]
       \/ message'[m].guest # g /\ (message[m].guest # g \/ message[m].text = "none")
  /\ \A s \in Slot : About(s, g)' <=> About(s, g)
  /\ \A s \in Slot : About(s, g) => task'[s] = task[s]

LEMMA SameTables ==
  ASSUME NEW g \in Guest
  PROVE  /\ (\A h \in User \ {g} : sessions'[<<g, h>>] = sessions[<<g, h>>]) => Hosts(g)' = Hosts(g)
         /\ (\A m \in Message :
               \/ message'[m] = message[m]
               \/ message'[m].guest # g /\ (message[m].guest # g \/ message[m].text = "none"))
             => Offers(g)' = Offers(g) /\ Requests(g)' = Requests(g)
BY DEF Hosts, Offers, Requests, Endable, Open

LEMMA AboutMessage ==
  ASSUME Typed, NEW g \in Guest, NEW s \in Slot, About(s, g)
  PROVE  /\ task[s].at \in DrivePlace /\ Tasked(task[s]) /\ GuestOf(s) = g
         /\ task[s].at \in DrivePlace \ {"request", "posted"} =>
              task[s].msg \in Message /\ message[task[s].msg].text # "none"
                /\ message[task[s].msg].guest = g
<1>1. TypeOK /\ s \in Running /\ Tasked(task[s])
  BY DEF Typed, About, Running
<1>2. task[s].about[1] # "own" /\ task[s].about[2] = g
  BY DEF About
<1>3. task[s].at \in DrivePlace
  BY <1>1, <1>2, RunningTasks DEF Tasked, DrivePlace, Task
<1> QED
  BY <1>1, <1>2, <1>3 DEF Tasked, GuestOf

LEMMA UntouchedAgrees ==
  ASSUME Typed, NEW g \in Guest, GuestAgrees(g), Untouched(g)
  PROVE  GuestAgrees(g)'
<1>1. Hosts(g)' = Hosts(g) /\ Offers(g)' = Offers(g) /\ Requests(g)' = Requests(g)
  BY SameTables DEF Untouched
<1>2. \A m \in Offers(g) : message'[m] = message[m]
  BY DEF Untouched, Offers, Endable
<1>3. GuestOK(g)'
  <2>1. GuestOK(g) /\ (g \in pending' <=> g \in pending)
    BY DEF GuestAgrees, Untouched
  <2>2. \A s \in Slot : Starts(s, g) => Starts(s, g)'
    BY DEF Untouched, Starts
  <2>3. \A s \in Slot, m \in Message : Ends(s, g, m) => Ends(s, g, m)'
    BY DEF Untouched, Ends
  <2>4. OneOf(g)'
    BY <1>1, <2>1 DEF GuestOK, OneOf
  <2>5. HostsOffered(g)'
    BY <1>1, <1>2, <2>1, <2>2 DEF GuestOK, HostsOffered
  <2>6. OffersHosted(g)'
    BY <1>1, <1>2, <2>1, <2>3 DEF GuestOK, OffersHosted, Offers
  <2> QED
    BY <2>4, <2>5, <2>6 DEF GuestOK
<1>4. ASSUME NEW s \in Slot, About(s, g) PROVE HandlerOK(task[s], g)'
  <2>1. HandlerOK(task[s], g) /\ task'[s] = task[s]
    BY <1>4 DEF GuestAgrees, Untouched
  <2>2. task[s].at \in DrivePlace \ {"request", "posted"} => message'[task[s].msg] = message[task[s].msg]
    BY <1>4, AboutMessage DEF Untouched
  <2>3. task[s].at = "invalidate" => task[s].at \in DrivePlace \ {"request", "posted"}
    BY DEF DrivePlace, OwnPlace, Place
  <2> QED
    BY <1>1, <2>1, <2>2, <2>3 DEF HandlerOK, Untouched
<1> QED
  BY <1>3, <1>4 DEF GuestAgrees, Untouched

(* The handlers of other guests, and those of members, do nothing to it. *)
LEMMA OtherGuestsUntouched ==
  ASSUME Typed, NEW s \in Slot, Handle(s), NEW g \in Guest, ~About(s, g)
  PROVE  Untouched(g)
<1>1. /\ TypeOK /\ s \in Running /\ Tasked(task[s]) /\ Others(s) /\ task[s] # None
      /\ task'[s] = None \/ Keeps(s)
  BY HandleGoes DEF Typed, Goes, Running
<1>2. /\ \A r \in Slot : About(r, g)' <=> About(r, g)
      /\ \A r \in Slot : About(r, g) => task'[r] = task[r]
  BY <1>1 DEF About, Others, Keeps
<1>3. task[s].at \in DrivePlace => GuestOf(s) # g /\ task[s].about = <<"drive", GuestOf(s)>>
  BY <1>1, RunningTasks DEF Tasked, About, GuestOf
<1>4. SUFFICES /\ g \in pending' <=> g \in pending
               /\ \A h \in User \ {g} : sessions'[<<g, h>>] = sessions[<<g, h>>]
               /\ \A m \in Message :
                    \/ message'[m] = message[m]
                    \/ message'[m].guest # g /\ (message[m].guest # g \/ message[m].text = "none")
  BY <1>2 DEF Untouched
<1>5. CASE Post(s)
  <2>1. GuestOf(s) # g /\ pending' = pending /\ sessions' = sessions
    BY <1>3, <1>5 DEF Post, At, DrivePlace, OwnPlace, Place, store
  <2>2. PICK m \in Message :
          /\ message[m].text = "none"
          /\ message' = [message EXCEPT ![m] = [text |-> "requested", guest |-> GuestOf(s), host |-> None]]
    BY <1>5 DEF Post
  <2>3. \A n \in Message : IF n = m THEN message'[n].guest = GuestOf(s) ELSE message'[n] = message[n]
    BY <1>1, <2>2 DEF TypeOK
  <2> QED
    BY <2>1, <2>2, <2>3
<1>6. CASE RememberRequest(s) \/ ForgetRequest(s)
  <2>1. GuestOf(s) # g
    BY <1>3, <1>6 DEF RememberRequest, ForgetRequest, At, DrivePlace, OwnPlace, Place
  <2> QED
    BY <1>6, <2>1 DEF RememberRequest, ForgetRequest, store
<1>7. CASE Edit(s)
  <2>1. GuestOf(s) # g /\ task[s].msg \in Message /\ message[task[s].msg].guest = GuestOf(s)
    BY <1>1, <1>3, <1>7 DEF Edit, At, DrivePlace, OwnPlace, Place, Tasked, GuestOf
  <2>2. /\ \A m \in Message \ {task[s].msg} : message'[m] = message[m]
        /\ message'[task[s].msg].guest = message[task[s].msg].guest
    BY <1>1, <1>7, <2>1, EditStep
  <2>3. pending' = pending /\ sessions' = sessions
    BY <1>7 DEF Edit, store
  <2> QED
    BY <2>1, <2>2, <2>3
<1>8. CASE CreateSession(s) \/ TellHost(s) \/ TellGuest(s) \/ DeleteSession(s)
  <2>1. GuestOf(s) # g /\ message' = message
    BY <1>3, <1>8
       DEF CreateSession, TellHost, TellGuest, DeleteSession, At, DrivePlace, OwnPlace, Place
  <2>2. \A h \in User \ {g} : <<g, h>> # DriveOf(s) /\ <<g, h>> \in DOMAIN sessions
    BY <1>1, <2>1, Keys DEF DriveOf, TypeOK
  <2> QED
    BY <1>8, <2>1, <2>2 DEF CreateSession, TellHost, TellGuest, DeleteSession, Conclude, store
<1>9. CASE FindId(s)
  <2>1. \A h \in User \ {g} : <<g, h>> # <<task[s].user>> /\ <<g, h>> \in DOMAIN sessions
    BY <1>1, Keys DEF TypeOK
  <2> QED
    BY <1>9, <2>1 DEF FindId, Reuse, Generate, store
<1>10. CASE FetchGuest(s) \/ Rate(s) \/ SendId(s)
  BY <1>10 DEF FetchGuest, Rate, SendId, store
<1> QED
  BY <1>5, <1>6, <1>7, <1>8, <1>9, <1>10 DEF Handle

(* The only handler of a guest. *)
LEMMA OneHandler ==
  ASSUME Typed, Unique, NEW g \in Guest, Orderly(<<"drive", g>>), NEW s \in Slot, About(s, g)
  PROVE  \A r \in Slot \ {s} : ~About(r, g)
BY DEF Unique, Orderly, About, Running

LEMMA AloneBefore ==
  ASSUME NEW g \in Guest, GuestAgrees(g), NEW s \in Slot, \A r \in Slot \ {s} : ~About(r, g)
  PROVE  /\ OneOf(g)
         /\ About(s, g) => HandlerOK(task[s], g)
         /\ \A h \in Hosts(g) : (\E m \in Offers(g) : message[m].host = h) \/ Starts(s, g)
         /\ \A m \in Offers(g) : message[m].host \in Hosts(g) \/ Ends(s, g, m)
<1>1. GuestOK(g) /\ (About(s, g) => HandlerOK(task[s], g))
  BY DEF GuestAgrees
<1>2. \A r \in Slot \ {s} : ~Starts(r, g) /\ \A m \in Message : ~Ends(r, g, m)
  BY DEF Starts, Ends
<1>3. \A h \in Hosts(g) : (\E m \in Offers(g) : message[m].host = h) \/ Starts(s, g)
  BY <1>1, <1>2 DEF GuestOK, HostsOffered
<1>4. \A m \in Offers(g) : message[m].host \in Hosts(g) \/ Ends(s, g, m)
  BY <1>1, <1>2 DEF GuestOK, OffersHosted, Offers
<1> QED
  BY <1>1, <1>3, <1>4 DEF GuestOK

LEMMA AloneAfter ==
  ASSUME NEW g \in Guest, NEW s \in Slot, \A r \in Slot \ {s} : ~About(r, g)', OneOf(g)',
         task'[s] # None => HandlerOK(task[s], g)',
         \A h \in Hosts(g)' : (\E m \in Offers(g)' : message'[m].host = h) \/ Starts(s, g)',
         \A m \in Offers(g)' : message'[m].host \in Hosts(g)' \/ Ends(s, g, m)'
  PROVE  GuestAgrees(g)'
<1>1. HostsOffered(g)' /\ OffersHosted(g)'
  BY DEF HostsOffered, OffersHosted
<1>2. \A r \in Slot : About(r, g)' => HandlerOK(task[r], g)'
  BY DEF About
<1> QED
  BY <1>1, <1>2 DEF GuestAgrees, GuestOK

(* Handlers of the guest itself, one after another. *)
LEMMA RequestAgrees ==
  ASSUME Typed, NEW g \in Guest, GuestAgrees(g), NEW s \in Slot, About(s, g), Goes(s),
         \A r \in Slot \ {s} : ~About(r, g), Post(s) \/ RememberRequest(s) \/ ForgetRequest(s)
  PROVE  GuestAgrees(g)'
<1>1. /\ TypeOK /\ s \in Running /\ task[s] # None /\ GuestOf(s) = g
      /\ \A r \in Slot \ {s} : ~About(r, g)'
  BY AboutMessage DEF Typed, About, Running, Goes, Others
<1>2. /\ OneOf(g) /\ HandlerOK(task[s], g)
      /\ \A h \in Hosts(g) : (\E m \in Offers(g) : message[m].host = h) \/ Starts(s, g)
      /\ \A m \in Offers(g) : message[m].host \in Hosts(g) \/ Ends(s, g, m)
  BY AloneBefore
<1>3. CASE Post(s)
  <2>1. PICK m \in Message :
          /\ message[m].text = "none"
          /\ message' = [message EXCEPT ![m] = [text |-> "requested", guest |-> GuestOf(s), host |-> None]]
    BY <1>3 DEF Post
  <2>2. /\ \A n \in Message \ {m} : message'[n] = message[n]
        /\ message'[m].text = "requested" /\ message'[m].guest = g
    BY <1>1, <2>1 DEF TypeOK
  <2>3. pending' = pending /\ sessions' = sessions /\ task'[s].at = "posted"
    BY <1>1, <1>3, PauseStep DEF Post, store, Place
  <2>4. g \notin pending /\ Hosts(g) = {} /\ Offers(g) = {}
    BY <1>2, <1>3 DEF HandlerOK, Post, At
  <2>5. Hosts(g)' = {} /\ Offers(g)' = {} /\ m \in Requests(g)'
    BY <2>1, <2>2, <2>3, <2>4 DEF Hosts, Offers, Requests, Endable, Open
  <2>6. OneOf(g)' /\ HandlerOK(task[s], g)'
    BY <2>3, <2>4, <2>5 DEF OneOf, HandlerOK, DrivePlace, Accepting, Delivering
  <2> QED
    BY <1>1, <2>5, <2>6, AloneAfter
<1>4. CASE RememberRequest(s)
  <2>1. /\ Hosts(g) = {} /\ Offers(g) = {} /\ Requests(g) # {}
    BY <1>2, <1>4 DEF HandlerOK, RememberRequest, At
  <2>2. sessions' = sessions /\ message' = message /\ task'[s] = None
    BY <1>1, <1>4, EndStep DEF RememberRequest, store
  <2>3. Hosts(g)' = {} /\ Offers(g)' = {} /\ Requests(g)' # {}
    BY <2>1, <2>2 DEF Hosts, Offers, Requests
  <2>4. OneOf(g)'
    BY <2>3 DEF OneOf
  <2> QED
    BY <1>1, <2>2, <2>3, <2>4, AloneAfter
<1>5. CASE ForgetRequest(s)
  <2>1. /\ Keeps(s) /\ task'[s].at = "edit" /\ task'[s].becomes = "cancelled"
        /\ sessions' = sessions /\ message' = message /\ g \notin pending'
    BY <1>1, <1>5, EditToStep DEF ForgetRequest, store, Text
  <2>2. Hosts(g)' = Hosts(g) /\ Offers(g)' = Offers(g)
    BY <2>1 DEF Hosts, Offers
  <2>3. /\ task[s].saw \in Open /\ message[task[s].msg].text = task[s].saw
        /\ ~Starts(s, g) /\ \A m \in Message : ~Ends(s, g, m)
    BY <1>2, <1>5
       DEF HandlerOK, ForgetRequest, At, Starts, Ends, Delivering, DrivePlace, OwnPlace, Place
  <2>4. OneOf(g)'
    BY <1>2, <2>1, <2>2 DEF OneOf
  <2>5. HandlerOK(task[s], g)'
    BY <2>1, <2>3 DEF HandlerOK, Keeps, Accepting, Delivering
  <2>6. /\ \A h \in Hosts(g)' : \E m \in Offers(g)' : message'[m].host = h
        /\ \A m \in Offers(g)' : message'[m].host \in Hosts(g)'
    BY <1>2, <2>1, <2>2, <2>3 DEF Offers
  <2> QED
    BY <1>1, <2>4, <2>5, <2>6, AloneAfter
<1> QED
  BY <1>3, <1>4, <1>5

LEMMA EditAgrees ==
  ASSUME Typed, NEW g \in Guest, GuestAgrees(g), NEW s \in Slot, About(s, g), Goes(s),
         \A r \in Slot \ {s} : ~About(r, g), Edit(s)
  PROVE  GuestAgrees(g)'
<1>1. /\ TypeOK /\ s \in Running /\ task[s] # None
      /\ \A r \in Slot \ {s} : ~About(r, g)'
  BY DEF Typed, About, Running, Goes, Others
<1>2. /\ OneOf(g) /\ HandlerOK(task[s], g)
      /\ \A h \in Hosts(g) : (\E m \in Offers(g) : message[m].host = h) \/ Starts(s, g)
      /\ \A m \in Offers(g) : message[m].host \in Hosts(g) \/ Ends(s, g, m)
  BY AloneBefore
<1>3. PICK k \in Message : k = task[s].msg /\ message[k].guest = g
  BY AboutMessage DEF Edit, At, DrivePlace, OwnPlace, Place
<1>4. PICK becomes \in Text : becomes = task[s].becomes /\ becomes \notin {"none", "requested"}
  BY <1>1, RunningTasks, AboutMessage DEF Task, Tasked, Edit, At
<1>5. /\ \A m \in Message \ {k} : message'[m] = message[m]
      /\ message'[k].text = becomes /\ message'[k].guest = g
      /\ message'[k].host = IF becomes = "driving" THEN task[s].user ELSE message[k].host
  BY <1>1, <1>3, <1>4, EditStep
<1>6. pending' = pending /\ sessions' = sessions /\ task'[s] = None
  BY <1>1, EndStep DEF Edit, store
<1>7. Hosts(g)' = Hosts(g)
  BY <1>6 DEF Hosts
<1>8. /\ message[k].text = task[s].saw
      /\ becomes \in {"cancelled", "undelivered", "driving"} => g \notin pending /\ task[s].saw \in Open
      /\ becomes = "driving" => Hosts(g) = {task[s].user} /\ Offers(g) = {}
      /\ becomes = "rated" => task[s].saw = "driving"
      /\ becomes \in {"over", "over and rated"} =>
           task[s].saw = "over" \/ (task[s].saw \in Endable /\ Hosts(g) = {})
  BY <1>2, <1>3, <1>4 DEF HandlerOK, Edit, At, DrivePlace, OwnPlace, Place
<1>9. g \in pending => Requests(g) \subseteq Requests(g)'
  BY <1>5, <1>8, <1>4 DEF Requests, Open, Endable, Text
<1>10. SUFFICES /\ \A m1, m2 \in Offers(g)' : m1 = m2
                /\ \A h \in Hosts(g)' : \E m \in Offers(g)' : message'[m].host = h
                /\ \A m \in Offers(g)' : message'[m].host \in Hosts(g)'
  <2>1. OneOf(g)'
    BY <1>2, <1>6, <1>7, <1>9, <1>10 DEF OneOf
  <2> QED
    BY <1>1, <1>6, <1>10, <2>1, AloneAfter
<1>11. /\ becomes # "driving" => ~Starts(s, g)
       /\ becomes \notin {"over", "over and rated"} => \A m \in Message : ~Ends(s, g, m)
       /\ \A m \in Message : Ends(s, g, m) => m = k
  BY <1>3, <1>4 DEF Starts, Ends, Edit, At, Delivering
<1>12. CASE becomes \in {"cancelled", "undelivered"} \/ task[s].saw = "over"
  <2>1. k \notin Offers(g) /\ k \notin Offers(g)' /\ becomes # "driving"
    BY <1>4, <1>5, <1>8, <1>12 DEF Offers, Endable, Open, Text
  <2>2. Offers(g)' = Offers(g)
    BY <1>5, <2>1 DEF Offers
  <2>3. \A m \in Offers(g) : message'[m] = message[m] /\ m # k /\ m \in Message
    BY <1>5, <2>1 DEF Offers
  <2>4. ~Starts(s, g) /\ \A m \in Offers(g) : ~Ends(s, g, m)
    BY <1>11, <2>1, <2>3
  <2>5. /\ \A h \in Hosts(g) : \E m \in Offers(g) : message[m].host = h
        /\ \A m \in Offers(g) : message[m].host \in Hosts(g)
    BY <1>2, <2>4
  <2>6. \A m1, m2 \in Offers(g) : m1 = m2
    BY <1>2 DEF OneOf
  <2> QED
    BY <1>7, <2>2, <2>3, <2>5, <2>6
<1>13. CASE becomes = "driving"
  <2>1. Offers(g)' = {k} /\ message'[k].host = task[s].user
    BY <1>5, <1>8, <1>13 DEF Offers, Endable
  <2> QED
    BY <1>7, <1>8, <1>13, <2>1
<1>14. CASE becomes = "rated"
  <2>1. Offers(g)' = Offers(g) /\ \A m \in Message : message'[m].host = message[m].host
    BY <1>3, <1>5, <1>8, <1>14 DEF Offers, Endable
  <2>2. Offers(g) \subseteq Message
    BY DEF Offers
  <2>3. /\ \A h \in Hosts(g) : \E m \in Offers(g) : message[m].host = h
        /\ \A m \in Offers(g) : message[m].host \in Hosts(g)
    BY <1>2, <1>11, <1>14, <2>2
  <2>4. \A m1, m2 \in Offers(g) : m1 = m2
    BY <1>2 DEF OneOf
  <2> QED
    BY <1>7, <2>1, <2>2, <2>3, <2>4
<1>15. CASE becomes \in {"over", "over and rated"} /\ task[s].saw \in Endable /\ Hosts(g) = {}
  <2>1. k \in Offers(g) /\ k \notin Offers(g)'
    BY <1>3, <1>5, <1>8, <1>15 DEF Offers, Endable
  <2>2. Offers(g)' \subseteq Offers(g)
    BY <1>5, <2>1 DEF Offers
  <2>3. Offers(g)' = {}
    BY <1>2, <2>1, <2>2 DEF OneOf
  <2> QED
    BY <1>7, <1>15, <2>3
<1> QED
  BY <1>4, <1>8, <1>12, <1>13, <1>14, <1>15 DEF Text

LEMMA AcceptAgrees ==
  ASSUME Typed, NEW g \in Guest, GuestAgrees(g), NEW s \in Slot, About(s, g), Goes(s),
         \A r \in Slot \ {s} : ~About(r, g),
         CreateSession(s) \/ FetchGuest(s) \/ TellHost(s) \/ TellGuest(s)
  PROVE  GuestAgrees(g)'
<1>1. /\ TypeOK /\ s \in Running /\ task[s] # None /\ Tasked(task[s]) /\ GuestOf(s) = g
      /\ \A r \in Slot \ {s} : ~About(r, g)'
      /\ task[s].user \in User
  BY AboutMessage, RunningTasks DEF Typed, About, Running, Goes, Others, Task
<1>2. OneOf(g) /\ HandlerOK(task[s], g)
  BY AloneBefore
<1>3. task[s].at \in Accepting
  BY DEF CreateSession, FetchGuest, TellHost, TellGuest, At, Accepting
<1>4. PICK k \in Message : k = task[s].msg /\ message[k].text = task[s].saw /\ task[s].saw \in Open
  BY <1>1, <1>2, <1>3, AboutMessage DEF HandlerOK, Accepting, DrivePlace, OwnPlace, Place
<1>5. message' = message /\ Offers(g)' = Offers(g) /\ Offers(g) = {}
  BY <1>2, <1>3 DEF CreateSession, FetchGuest, TellHost, TellGuest, HandlerOK, Accepting, Delivering, Offers
<1>6. DriveOf(s) = <<g, task[s].user>> /\ task[s].user # g /\ DriveOf(s) \in DOMAIN sessions
      /\ \A h \in User \ {g} : <<g, h>> \in DOMAIN sessions
      /\ \A v \in User \ {g} : <<g, v>> = DriveOf(s) <=> v = task[s].user
  BY <1>1, <1>3, Keys DEF DriveOf, GuestOf, Tasked, TypeOK
<1>7. ASSUME g \notin pending', Hosts(g)' = {task[s].user},
             \/ Keeps(s) /\ task'[s].at \in Delivering
             \/ Keeps(s) /\ task'[s].at = "edit" /\ task'[s].becomes = "driving"
      PROVE  GuestAgrees(g)'
  <2>1. Keeps(s) /\ task'[s] # None /\ task'[s].msg = k /\ task'[s].saw = task[s].saw
        /\ task'[s].user = task[s].user
    BY <1>4, <1>7 DEF Keeps
  <2>2. OneOf(g)'
    BY <1>5, <1>7 DEF OneOf
  <2>3. HandlerOK(task[s], g)'
    BY <1>4, <1>5, <1>7, <2>1 DEF HandlerOK, Delivering, Accepting
  <2>4. Starts(s, g)'
    <3>1. About(s, g)'
      BY <2>1 DEF About, Keeps
    <3> QED
      BY <1>7, <3>1 DEF Starts
  <2> QED
    BY <1>1, <1>5, <2>2, <2>3, <2>4, AloneAfter
<1>8. ASSUME g \notin pending', Hosts(g)' = {}, Keeps(s),
             task'[s].at = "edit", task'[s].becomes = "undelivered"
      PROVE  GuestAgrees(g)'
  <2>1. task'[s].msg = k /\ task'[s].saw = task[s].saw
    BY <1>4, <1>8 DEF Keeps
  <2>2. OneOf(g)'
    BY <1>5, <1>8 DEF OneOf
  <2>3. HandlerOK(task[s], g)'
    BY <1>4, <1>5, <1>8, <2>1 DEF HandlerOK, Delivering, Accepting
  <2> QED
    BY <1>1, <1>5, <1>8, <2>2, <2>3, AloneAfter
<1>9. CASE CreateSession(s)
  <2>1. g \in pending /\ Hosts(g) = {}
    BY <1>2, <1>9 DEF CreateSession, At, HandlerOK, OneOf
  <2>2. sessions[DriveOf(s)] = None
    BY <1>1, <1>6, <2>1 DEF Hosts
  <2>3. /\ sessions' = [sessions EXCEPT ![DriveOf(s)] = issued']
        /\ pending' = pending \ {GuestOf(s)} /\ PauseWith(s, "fetch", issued')
        /\ issued' \in Id
    BY <1>1, <1>9, <2>2, TestDriveAssumption DEF CreateSession, TypeOK, Id
  <2>4. Keeps(s) /\ task'[s].at = "fetch"
    BY <1>1, <2>3, PauseWithStep DEF Place
  <2>5. Hosts(g)' = {task[s].user}
    BY <1>1, <1>6, <2>1, <2>3, TestDriveAssumption DEF Hosts
  <2> QED
    BY <1>1, <1>7, <2>3, <2>4, <2>5 DEF Delivering
<1>10. CASE FetchGuest(s) \/ TellHost(s) \/ TellGuest(s)
  <2>1. g \notin pending' /\ Hosts(g) = {task[s].user}
    BY <1>2, <1>10 DEF FetchGuest, TellHost, TellGuest, At, HandlerOK, Delivering
  <2>2. ASSUME sessions' = sessions, NEW place \in Delivering, NEW failed \in BOOLEAN,
               task' = [task EXCEPT ![s].at = place, ![s].failed = failed]
        PROVE  GuestAgrees(g)'
    <3>1. Keeps(s) /\ task'[s].at = place
      BY <1>1, <2>2, FailStep DEF Delivering, Place
    <3>2. Hosts(g)' = Hosts(g)
      BY <2>2 DEF Hosts
    <3> QED
      BY <1>7, <2>1, <3>1, <3>2
  <2>3. ASSUME NEW failed \in BOOLEAN, Conclude(s, failed) PROVE GuestAgrees(g)'
    <3>1. Keeps(s) /\ task'[s].at = "edit" /\ task'[s].becomes = IF failed THEN "undelivered" ELSE "driving"
      BY <1>1, <2>3, EditToStep DEF Conclude, Text
    <3>2. CASE failed
      <4>1. Hosts(g)' = {}
        BY <1>6, <2>1, <2>3, <3>2 DEF Conclude, Hosts
      <4> QED
        BY <1>8, <2>1, <3>1, <3>2, <4>1
    <3>3. CASE ~failed
      <4>1. Hosts(g)' = Hosts(g)
        BY <2>3, <3>3 DEF Conclude, Hosts
      <4> QED
        BY <1>7, <2>1, <3>1, <3>3, <4>1
    <3> QED
      BY <3>2, <3>3
  <2>4. CASE FetchGuest(s)
    BY <2>2, <2>4 DEF FetchGuest, Delivering, store
  <2>5. CASE TellHost(s)
    BY <2>2, <2>3, <2>5 DEF TellHost, Delivering
  <2>6. CASE TellGuest(s)
    <3>1. PICK sent \in BOOLEAN : Conclude(s, task[s].failed \/ ~sent)
      BY <2>6 DEF TellGuest
    <3>2. (task[s].failed \/ ~sent) \in BOOLEAN
      OBVIOUS
    <3> QED
      BY <2>3, <3>1, <3>2
  <2> QED
    BY <1>10, <2>4, <2>5, <2>6
<1> QED
  BY <1>9, <1>10

LEMMA EndAgrees ==
  ASSUME Typed, NEW g \in Guest, GuestAgrees(g), NEW s \in Slot, About(s, g), Goes(s),
         \A r \in Slot \ {s} : ~About(r, g), DeleteSession(s) \/ Rate(s)
  PROVE  GuestAgrees(g)'
<1>1. /\ TypeOK /\ s \in Running /\ task[s] # None /\ Tasked(task[s]) /\ GuestOf(s) = g
      /\ \A r \in Slot \ {s} : ~About(r, g)'
  BY AboutMessage DEF Typed, About, Running, Goes, Others
<1>2. /\ OneOf(g) /\ HandlerOK(task[s], g)
      /\ \A h \in Hosts(g) : (\E m \in Offers(g) : message[m].host = h) \/ Starts(s, g)
      /\ \A m \in Offers(g) : message[m].host \in Hosts(g) \/ Ends(s, g, m)
  BY AloneBefore
<1>3. PICK k \in Message : k = task[s].msg /\ message[k].text = task[s].saw /\ message[k].guest = g
  BY <1>1, <1>2, AboutMessage DEF DeleteSession, Rate, At, HandlerOK, DrivePlace, OwnPlace, Place
<1>4. ~Starts(s, g) /\ \A m \in Message : ~Ends(s, g, m)
  BY DEF DeleteSession, Rate, At, Starts, Ends, Delivering
<1>5. /\ \A h \in Hosts(g) : \E m \in Offers(g) : message[m].host = h
      /\ \A m \in Offers(g) : message[m].host \in Hosts(g)
      /\ message' = message /\ Offers(g)' = Offers(g) /\ Requests(g)' = Requests(g)
      /\ Offers(g) \subseteq Message /\ pending' = pending
      /\ \A m1, m2 \in Offers(g) : m1 = m2
  BY <1>2, <1>4 DEF DeleteSession, Rate, Offers, Requests, OneOf
<1>6. CASE Rate(s)
  <2>1. /\ Keeps(s) /\ task'[s].at = "edit" /\ sessions' = sessions
        /\ task'[s].becomes = IF task[s].saw = "over" THEN "over and rated" ELSE "rated"
    BY <1>1, <1>6, EditToStep DEF Rate, Text, store
  <2>2. Hosts(g)' = Hosts(g)
    BY <2>1 DEF Hosts
  <2>3. task[s].saw \in Ratable
    BY <1>2, <1>6 DEF HandlerOK, Rate, At
  <2>4. HandlerOK(task[s], g)'
    BY <1>3, <1>5, <2>1, <2>3 DEF HandlerOK, Keeps, Accepting, Delivering, Ratable
  <2>5. OneOf(g)'
    BY <1>2, <1>5, <2>2 DEF OneOf
  <2> QED
    BY <1>1, <1>5, <2>2, <2>4, <2>5, AloneAfter
<1>7. CASE DeleteSession(s)
  <2>1. /\ Keeps(s) /\ task'[s].at = "edit" /\ task'[s].becomes \in {"over", "over and rated"}
    BY <1>1, <1>7, EditToStep DEF DeleteSession, Text
  <2>2. task[s].saw \in Endable /\ message[k].host = task[s].user
    BY <1>2, <1>3, <1>7 DEF HandlerOK, DeleteSession, At
  <2>3. k \in Offers(g)
    BY <1>3, <2>2 DEF Offers
  <2>4. \A h \in Hosts(g) : h = task[s].user
    BY <1>2, <1>5, <2>2, <2>3 DEF OneOf
  <2>5. Hosts(g)' = {}
    <3>1. \A h \in User \ {g} : <<g, h>> \in DOMAIN sessions
      BY <1>1, Keys DEF TypeOK
    <3>2. \A h \in User \ {g} : sessions'[<<g, h>>] = IF h = task[s].user THEN None ELSE sessions[<<g, h>>]
      BY <1>1, <1>7, <3>1 DEF DeleteSession, DriveOf
    <3> QED
      BY <2>4, <3>2 DEF Hosts
  <2>6. g \notin pending
    BY <1>2, <1>5, <2>2, <2>3 DEF OneOf
  <2>7. OneOf(g)'
    BY <1>5, <2>5, <2>6 DEF OneOf
  <2>8. HandlerOK(task[s], g)'
    BY <1>3, <1>5, <2>1, <2>2, <2>5 DEF HandlerOK, Keeps, Accepting, Delivering
  <2>9. \A m \in Offers(g)' : Ends(s, g, m)'
    <3>1. About(s, g)'
      BY <2>1 DEF About, Keeps
    <3>2. task'[s].msg = k
      BY <1>3, <2>1 DEF Keeps
    <3> QED
      BY <1>5, <2>1, <2>3, <3>1, <3>2 DEF Ends
  <2> QED
    BY <1>1, <2>5, <2>7, <2>8, <2>9, AloneAfter
<1> QED
  BY <1>6, <1>7

(* What a button offers holds when it is clicked and no handler runs. *)
LEMMA ClickAgrees ==
  ASSUME Typed, NEW g \in Guest, GuestAgrees(g), NEW s \in Slot, Click(s), About(s, g)',
         \A r \in Slot : ~About(r, g)
  PROVE  HandlerOK(task[s], g)'
<1>1. TypeOK /\ Begins(s)
  BY ClickStep DEF Typed
<1>2. /\ pending' = pending /\ message' = message
      /\ Hosts(g)' = Hosts(g) /\ Offers(g)' = Offers(g) /\ Requests(g)' = Requests(g)
  BY <1>1 DEF Begins, Hosts, Offers, Requests
<1>3. OneOf(g) /\ \A m \in Offers(g) : message[m].host \in Hosts(g)
  BY DEF GuestAgrees, GuestOK, OffersHosted, Ends
<1>4. ASSUME NEW u \in User, ClickRequest(s, u) PROVE HandlerOK(task[s], g)'
  <2>1. task'[s].about = <<"drive", u>> /\ task'[s].at = "request"
    BY <1>1, <1>4, BeginStep, TestDriveAssumption DEF ClickRequest, Subject, Place
  <2>2. u = g
    BY <2>1 DEF About
  <2>3. g \notin pending /\ Hosts(g) = {}
    BY <1>4, <2>2, Keys DEF ClickRequest, HasPendingOrActive, Hosts
  <2>4. Offers(g) = {}
    BY <1>3, <2>3
  <2> QED
    BY <1>2, <2>1, <2>3, <2>4 DEF HandlerOK, DrivePlace, Accepting, Delivering
<1>5. ASSUME NEW m \in Message, ClickCancel(s, m) PROVE HandlerOK(task[s], g)'
  <2>1. message[m].guest \in User
    BY <1>5, TestDriveAssumption DEF ClickCancel, Typed, Open
  <2>2. task'[s].at = "cancel" /\ task'[s].msg = m /\ task'[s].saw = message[m].text
    BY <1>1, <1>5, <2>1, BeginStep DEF ClickCancel, Subject, Place
  <2> QED
    BY <1>2, <1>5, <2>2 DEF ClickCancel, HandlerOK, Accepting, Delivering
<1>6. ASSUME NEW h \in User, NEW m \in Message, ClickAccept(s, h, m) PROVE HandlerOK(task[s], g)'
  <2>1. message[m].guest \in User
    BY <1>6, TestDriveAssumption DEF ClickAccept, Typed, Open
  <2>2. /\ task'[s].at = "accept" /\ task'[s].msg = m /\ task'[s].saw = message[m].text
        /\ task'[s].about = <<"drive", message[m].guest>>
    BY <1>1, <1>6, <2>1, BeginStep DEF ClickAccept, Subject, Place
  <2>3. message[m].guest = g
    BY <2>2 DEF About
  <2>4. g \in pending /\ Hosts(g) = {}
    BY <1>3, <1>6, <2>3 DEF ClickAccept, OneOf
  <2>5. Offers(g) = {}
    BY <1>3, <2>4
  <2> QED
    BY <1>2, <1>6, <2>2, <2>4, <2>5 DEF ClickAccept, HandlerOK, Accepting, Delivering
<1>7. ASSUME NEW m \in Message, ClickInvalidate(s, m) PROVE HandlerOK(task[s], g)'
  <2>1. message[m].guest \in User /\ message[m].host \in User
    BY <1>7, TestDriveAssumption DEF ClickInvalidate, Typed, Endable
  <2>2. /\ task'[s].at = "invalidate" /\ task'[s].msg = m /\ task'[s].saw = message[m].text
        /\ task'[s].user = message[m].host
    BY <1>1, <1>7, <2>1, BeginStep DEF ClickInvalidate, Subject, Place
  <2> QED
    BY <1>2, <1>7, <2>2 DEF ClickInvalidate, HandlerOK, Accepting, Delivering
<1>8. ASSUME NEW m \in Message, ClickRate(s, m) PROVE HandlerOK(task[s], g)'
  <2>1. message[m].guest \in User
    BY <1>8, TestDriveAssumption DEF ClickRate, Typed, Ratable
  <2>2. task'[s].at = "rate" /\ task'[s].msg = m /\ task'[s].saw = message[m].text
    BY <1>1, <1>8, <2>1, BeginStep DEF ClickRate, Subject, Place
  <2> QED
    BY <1>2, <1>8, <2>2 DEF ClickRate, HandlerOK, Accepting, Delivering
<1>9. ASSUME NEW u \in Member, AskForId(s, u) PROVE FALSE
  <2>1. task'[s].about = <<"own", u>>
    BY <1>1, <1>9, BeginStep, TestDriveAssumption DEF AskForId, Subject, Place
  <2> QED
    BY <2>1 DEF About
<1> QED
  BY <1>4, <1>5, <1>6, <1>7, <1>8, <1>9, TestDriveAssumption DEF Click

LEMMA GuestsAgreeStep ==
  ASSUME Typed, Unique, GuestsAgree, [Next]_vars
  PROVE  GuestsAgree'
<1> SUFFICES ASSUME NEW g \in Guest, Orderly(<<"drive", g>>)'
             PROVE  GuestAgrees(g)'
  BY DEF GuestsAgree
<1>1. ASSUME Orderly(<<"drive", g>>) PROVE GuestAgrees(g)
  BY <1>1 DEF GuestsAgree
<1>2. ASSUME NEW s \in Slot, Click(s) PROVE GuestAgrees(g)'
  <2>1. Begins(s) /\ Orderly(<<"drive", g>>)
    BY <1>2, ClickStep DEF Begins, Orderly
  <2>2. CASE ~About(s, g)'
    <3>1. Untouched(g)
      BY <2>1, <2>2 DEF Untouched, Begins, Others, About
    <3> QED
      BY <1>1, <2>1, <3>1, UntouchedAgrees
  <2>3. CASE About(s, g)'
    <3>1. \A r \in Slot : ~About(r, g)
      BY <2>1, <2>3 DEF Begins, Orderly, About, Handled, Running
    <3>2. HandlerOK(task[s], g)' /\ GuestAgrees(g)
      BY <1>1, <1>2, <2>1, <2>3, <3>1, ClickAgrees
    <3>3. /\ Hosts(g)' = Hosts(g) /\ Offers(g)' = Offers(g) /\ Requests(g)' = Requests(g)
          /\ pending' = pending /\ message' = message
          /\ \A r \in Slot \ {s} : ~About(r, g)'
      BY <2>1, <3>1 DEF Begins, Hosts, Offers, Requests, About, Others
    <3>4. /\ OneOf(g) /\ ~Starts(s, g) /\ \A m \in Offers(g) : ~Ends(s, g, m)
          /\ \A h \in Hosts(g) : (\E m \in Offers(g) : message[m].host = h) \/ Starts(s, g)
          /\ \A m \in Offers(g) : message[m].host \in Hosts(g) \/ Ends(s, g, m)
      BY <3>1, <3>2, AloneBefore DEF Starts, Ends
    <3>5. OneOf(g)'
      BY <3>3, <3>4 DEF OneOf
    <3> QED
      BY <3>2, <3>3, <3>4, <3>5, AloneAfter
  <2> QED
    BY <2>2, <2>3
<1>3. ASSUME NEW s \in Slot, Handle(s) PROVE GuestAgrees(g)'
  <2>1. Goes(s) /\ Orderly(<<"drive", g>>)
    BY <1>3, HandleGoes DEF history, Orderly
  <2>2. GuestAgrees(g)
    BY <1>1, <2>1
  <2>3. CASE ~About(s, g)
    BY <1>3, <2>2, <2>3, OtherGuestsUntouched, UntouchedAgrees
  <2>4. CASE About(s, g)
    <3>1. \A r \in Slot \ {s} : ~About(r, g)
      BY <2>1, <2>4, OneHandler
    <3>2. ~(FindId(s) \/ SendId(s))
      BY <2>4, AboutMessage DEF FindId, SendId, At, DrivePlace, OwnPlace
    <3> QED
      BY <1>3, <2>1, <2>2, <2>4, <3>1, <3>2, RequestAgrees, EditAgrees, AcceptAgrees, EndAgrees DEF Handle
  <2> QED
    BY <2>3, <2>4
<1>4. ASSUME NEW s \in Slot, Raise(s) PROVE GuestAgrees(g)'
  <2>1. TypeOK /\ s \in Running
    BY <1>4 DEF Typed, Raise, Running
  <2>2. /\ Others(s) /\ task'[s] = None /\ broken' = broken \cup {task[s].about}
        /\ clashed' = clashed /\ pending' = pending /\ sessions' = sessions /\ message' = message
    BY <1>4, <2>1, EndStep DEF Raise, store
  <2>3. ~About(s, g) /\ Orderly(<<"drive", g>>)
    BY <2>2 DEF About, Orderly
  <2>4. Untouched(g)
    BY <2>2, <2>3 DEF Untouched, Others, About
  <2> QED
    BY <1>1, <2>3, <2>4, UntouchedAgrees
<1>5. CASE RestartBot
  <2>1. /\ broken' = broken \cup {task[s].about : s \in Running}
        /\ clashed' = clashed /\ pending' = {} /\ sessions' = sessions /\ message' = message
        /\ \A s \in Slot : task'[s] = None
    BY <1>5 DEF RestartBot, store
  <2>2. Orderly(<<"drive", g>>) /\ \A s \in Slot : ~About(s, g) /\ ~About(s, g)'
    BY <2>1 DEF About, Orderly, Running
  <2>3. GuestOK(g)
    BY <1>1, <2>2 DEF GuestAgrees
  <2>4. Hosts(g)' = Hosts(g) /\ Offers(g)' = Offers(g)
    BY <2>1 DEF Hosts, Offers
  <2>5. \A s \in Slot : ~Starts(s, g) /\ \A m \in Offers(g) : ~Ends(s, g, m)
    BY <2>2 DEF Starts, Ends
  <2>6. /\ \A h \in Hosts(g) : \E m \in Offers(g) : message[m].host = h
        /\ \A m \in Offers(g) : message[m].host \in Hosts(g)
    BY <2>3, <2>5 DEF GuestOK, HostsOffered, OffersHosted
  <2>7. OneOf(g)'
    BY <2>1, <2>3, <2>4 DEF GuestOK, OneOf
  <2>8. HostsOffered(g)' /\ OffersHosted(g)'
    BY <2>1, <2>4, <2>6 DEF HostsOffered, OffersHosted
  <2> QED
    BY <2>2, <2>7, <2>8 DEF GuestAgrees, GuestOK
<1>6. CASE UNCHANGED vars
  <2>1. Untouched(g) /\ Orderly(<<"drive", g>>)
    BY <1>6 DEF vars, store, history, Untouched, About, Orderly
  <2> QED
    BY <1>1, <2>1, UntouchedAgrees
<1> QED
  BY <1>2, <1>3, <1>4, <1>5, <1>6 DEF Next

LEMMA GuestsAgreeInit ==
  ASSUME Init PROVE GuestsAgree
<1> SUFFICES ASSUME NEW g \in Guest PROVE GuestAgrees(g)
  BY DEF GuestsAgree
<1>1. Hosts(g) = {} /\ Offers(g) = {} /\ g \notin pending /\ \A s \in Slot : task[s] = None
  BY Keys DEF Init, Hosts, Offers, Endable
<1>2. GuestOK(g)
  BY <1>1 DEF GuestOK, OneOf, HostsOffered, OffersHosted
<1> QED
  BY <1>1, <1>2 DEF GuestAgrees, About

(* What guests, hosts and messages know of a test drive agrees. *)
LEMMA AgreeingGuests ==
  ASSUME Typed, GuestsAgree
  PROVE  DrivesAgree
<1>1. ASSUME NEW g \in Guest, Settled(g)
      PROVE  /\ g \in pending => Requests(g) # {}
             /\ \A h \in Hosts(g) : \E m \in Offers(g) : message[m].host = h
             /\ \A m \in Offers(g) : message[m].host \in Hosts(g)
  <2>1. GuestAgrees(g) /\ \A s \in Slot : ~About(s, g)
    BY <1>1 DEF GuestsAgree, Settled, Handled, Running, About
  <2>2. \A s \in Slot : ~Starts(s, g) /\ \A m \in Offers(g) : ~Ends(s, g, m)
    BY <2>1 DEF Starts, Ends
  <2> QED
    BY <2>1, <2>2 DEF GuestAgrees, GuestOK, OneOf, HostsOffered, OffersHosted
<1>2. NoDeadEnd
  BY <1>1 DEF NoDeadEnd, Hosts, Offers, Requests
<1>3. StillDriving
  <2> SUFFICES ASSUME NEW m \in Message, message[m].text \in Endable, Settled(message[m].guest)
               PROVE  sessions[<<message[m].guest, message[m].host>>] # None
    BY DEF StillDriving
  <2>1. message[m].guest \in Guest /\ m \in Offers(message[m].guest)
    BY DEF Typed, Offers, Endable
  <2> QED
    BY <1>1, <2>1 DEF Hosts
<1>4. OneDrive
  <2> SUFFICES ASSUME NEW g \in Guest, Orderly(<<"drive", g>>)
               PROVE  Cardinality(Hosts(g)) + (IF g \in pending THEN 1 ELSE 0) <= 1
    BY DEF OneDrive, Hosts
  <2>1. OneOf(g)
    BY DEF GuestsAgree, GuestAgrees, GuestOK
  <2>2. CASE Hosts(g) = {}
    BY <2>2, FS_EmptySet
  <2>3. CASE Hosts(g) # {}
    <3>1. PICK h \in Hosts(g) : \A k \in Hosts(g) : k = h
      BY <2>1, <2>3 DEF OneOf
    <3>2. Hosts(g) = {h}
      BY <3>1
    <3>3. Cardinality(Hosts(g)) = 1
      BY <3>2, FS_Singleton, Zenon
    <3>4. g \notin pending
      BY <2>1, <2>3 DEF OneOf
    <3> QED
      BY <3>3, <3>4
  <2> QED
    BY <2>2, <2>3
<1> QED
  BY <1>2, <1>3, <1>4 DEF DrivesAgree

(* As long as no two handlers about a guest overlap and none of them ends  *)
(* halfway, who is kept from requesting a test drive can be helped by a    *)
(* click, a message that offers to end a test drive is of one that goes    *)
(* on, and a guest has one request or one session: for any number of       *)
(* guests, hosts, messages and handlers of others, and across restarts of  *)
(* the bot that meet none of its handlers.                                 *)
THEOREM DrivesAlwaysAgree == Spec => []DrivesAgree
<1> DEFINE I == Typed /\ Unique /\ GuestsAgree
<1>1. Init => I
  <2> SUFFICES ASSUME Init PROVE Unique
    BY TypedInit, GuestsAgreeInit
  <2> QED
    BY DEF Init, Unique, Running
<1>2. I /\ [Next]_vars => I'
  BY TypedStep, UniqueStep, GuestsAgreeStep
<1>3. I => DrivesAgree
  BY AgreeingGuests
<1> HIDE DEF I
<1> QED
  BY <1>1, <1>2, <1>3, PTL DEF Spec

=============================================================================

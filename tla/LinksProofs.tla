------------------------------ MODULE LinksProofs ------------------------------
(***************************************************************************)
(* Proofs about the two transports, UdpLink and TcpLink: each implements   *)
(* OrderedLink, what it promises the component at its end, for any         *)
(* capacity, any number of messages and connections, and whatever the      *)
(* network does.                                                           *)
(***************************************************************************)
EXTENDS MCLinks, SequenceTheorems, TLAPS

-----------------------------------------------------------------------------
(* Datagrams: the inductive invariant *)

Made == {m \in Message : m.n <= clock}

UdpTyped ==
  /\ clock \in 0 .. MaxMessages
  /\ controls \in Seq(1 .. clock)
  /\ retries \in 0 .. MaxRetries
  /\ buffer \in Seq(Made) /\ queue \in Seq(Made)
  /\ process \in {"control", "queue"}
  /\ wire \subseteq Made
  /\ last \in 0 .. clock /\ applied \in 0 .. clock
  /\ inbox \in Seq(Made) /\ Len(inbox) <= QueueSize
  /\ disturbed \in BOOLEAN

(* What waits for the worker is in order, and no older than what it has    *)
(* handled, until the order was disturbed.                                 *)
InboxOrdered ==
  ~disturbed =>
    /\ \A i \in DOMAIN inbox : applied <= inbox[i].n /\ inbox[i].n <= last
    /\ \A i, j \in DOMAIN inbox : i <= j => inbox[i].n <= inbox[j].n
    /\ applied <= last

UdpInv == UdpTyped /\ FreshControls /\ InboxOrdered

-----------------------------------------------------------------------------
(* What Append and Tail do to the domain and the elements of a sequence. *)
LEMMA Appends ==
  ASSUME NEW S, NEW q \in Seq(S), NEW e \in S
  PROVE  /\ Append(q, e) \in Seq(S) /\ Append(q, e) # <<>>
         /\ Len(q) \in Nat /\ Len(Append(q, e)) = Len(q) + 1
         /\ DOMAIN q = 1 .. Len(q) /\ DOMAIN Append(q, e) = 1 .. (Len(q) + 1)
         /\ \A i \in 1 .. Len(q) : Append(q, e)[i] = q[i] /\ q[i] \in S
         /\ Append(q, e)[Len(q) + 1] = e
BY AppendProperties, LenProperties

LEMMA Tails ==
  ASSUME NEW S, NEW q \in Seq(S), q # <<>>
  PROVE  /\ Tail(q) \in Seq(S) /\ Len(q) \in Nat \ {0} /\ Len(Tail(q)) = Len(q) - 1
         /\ DOMAIN q = 1 .. Len(q) /\ DOMAIN Tail(q) = 1 .. (Len(q) - 1)
         /\ \A i \in 1 .. (Len(q) - 1) : Tail(q)[i] = q[i + 1]
         /\ Head(q) = q[1] /\ \A i \in 1 .. Len(q) : q[i] \in S
BY HeadTailProperties, LenProperties

(* Every element of a sequence over a set is in that set. *)
LEMMA Elements ==
  ASSUME NEW S, NEW q \in Seq(S)
  PROVE  \A i \in DOMAIN q : q[i] \in S
BY LenProperties

(* A sequence over a set is one over every larger set. *)
LEMMA SeqMono == \A S, T : S \subseteq T => Seq(S) \subseteq Seq(T)
OBVIOUS

(* Time goes on, and what was made stays made. *)
LEMMA MadeGrows ==
  ASSUME UdpTyped, clock' = clock + 1, clock < MaxMessages
  PROVE  /\ clock' \in 0 .. MaxMessages /\ Made \subseteq Made'
         /\ controls \in Seq(1 .. clock') /\ buffer \in Seq(Made') /\ queue \in Seq(Made')
         /\ inbox \in Seq(Made') /\ wire \subseteq Made'
         /\ last \in 0 .. clock' /\ applied \in 0 .. clock'
<1>1. clock' \in 0 .. MaxMessages /\ Made \subseteq Made' /\ 1 .. clock \subseteq 1 .. clock'
  BY UdpLinkAssumption DEF UdpTyped, Made, Message
<1> QED
  BY <1>1, SeqMono DEF UdpTyped

(* Every step keeps the types, and makes nothing up. *)
LEMMA UdpTypedStep ==
  ASSUME UdpTyped, Next
  PROVE  UdpTyped'
<1>1. CASE SetControlMessage
  <2>1. clock' = clock + 1 /\ clock < MaxMessages /\ controls' = Append(controls, clock')
    BY <1>1 DEF SetControlMessage
  <2> DEFINE m == [n |-> clock', kind |-> "control"]
  <2>2. m \in Made'
    BY <2>1, UdpLinkAssumption DEF UdpTyped, Made, Message, Kind
  <2>3. controls' \in Seq(1 .. clock')
    BY <2>1, MadeGrows DEF UdpTyped
  <2>4. buffer' \in Seq(Made')
    <3> DEFINE kept == IF Len(buffer) = Capacity THEN Tail(buffer) ELSE buffer
    <3>1. buffer' = Append(kept, m)
      BY <1>1 DEF SetControlMessage
    <3>2. kept \in Seq(Made')
      <4>1. buffer \in Seq(Made') /\ (Len(buffer) = Capacity => buffer # <<>>)
        BY <2>1, MadeGrows, UdpLinkAssumption
      <4> QED
        BY <4>1, Tails
    <3> HIDE DEF kept, m
    <3> QED
      BY <2>2, <3>1, <3>2, Appends
  <2> QED
    BY <1>1, <2>1, <2>3, <2>4, MadeGrows DEF SetControlMessage, UdpTyped, receiver
<1>2. ASSUME NEW kind \in Kind \ {"control"}, AddMessage(kind) PROVE UdpTyped'
  <2>1. clock' = clock + 1 /\ clock < MaxMessages
    BY <1>2 DEF AddMessage
  <2>2. [n |-> clock', kind |-> kind] \in Made'
    BY <2>1, UdpLinkAssumption DEF UdpTyped, Made, Message
  <2>3. queue' \in Seq(Made')
    BY <1>2, <2>1, <2>2, MadeGrows DEF AddMessage
  <2> QED
    BY <1>2, <2>1, <2>3, MadeGrows DEF AddMessage, UdpTyped, receiver
<1>3. ASSUME NEW n \in 1 .. MaxMessages, Retry(n) PROVE UdpTyped'
  <2>1. [n |-> n, kind |-> "exempt"] \in Made
    BY <1>3 DEF Retry, Made, Message, Kind
  <2>2. Made' = Made
    BY <1>3 DEF Retry, Made
  <2> QED
    BY <1>3, <2>1, <2>2, UdpLinkAssumption DEF Retry, UdpTyped, receiver
<1>4. CASE Process
  <2>1. Made' = Made
    BY <1>4 DEF Process, SendControl, SendQueued, Made
  <2>2. CASE SendControl
    <3>1. CASE buffer = <<>>
      BY <2>1, <2>2, <3>1 DEF SendControl, UdpTyped, receiver
    <3>2. CASE buffer # <<>>
      <4>1. Tail(buffer) \in Seq(Made) /\ Head(buffer) \in Made
        BY <3>2, HeadTailProperties DEF UdpTyped
      <4> QED
        BY <2>1, <2>2, <3>2, <4>1 DEF SendControl, UdpTyped, receiver
    <3> QED
      BY <3>1, <3>2
  <2>3. CASE SendQueued
    <3>1. CASE queue = <<>>
      BY <2>1, <2>3, <3>1 DEF SendQueued, UdpTyped, receiver
    <3>2. CASE queue # <<>>
      <4>1. Tail(queue) \in Seq(Made) /\ Head(queue) \in Made
        BY <3>2, HeadTailProperties DEF UdpTyped
      <4> QED
        BY <2>1, <2>3, <3>2, <4>1 DEF SendQueued, UdpTyped, receiver
    <3> QED
      BY <3>1, <3>2
  <2> QED
    BY <1>4, <2>2, <2>3 DEF Process
<1>5. ASSUME NEW m \in Message, Network(m) PROVE UdpTyped'
  <2>1. Made' = Made
    BY <1>5 DEF Network, Lose, Accept, Skip, Made
  <2>2. CASE Lose(m) \/ Skip(m)
    BY <2>1, <2>2 DEF Lose, Skip, UdpTyped, transmitter, receiver
  <2>3. CASE Accept(m)
    <3>1. m \in Made /\ m.n \in 1 .. clock
      BY <2>3 DEF Accept, UdpTyped, Made, Message
    <3>2. inbox' \in Seq(Made) /\ Len(inbox') <= QueueSize
      BY <2>3, <3>1, UdpLinkAssumption DEF Accept, UdpTyped
    <3> QED
      BY <2>1, <2>3, <3>1, <3>2 DEF Accept, UdpTyped, transmitter
  <2> QED
    BY <1>5, <2>2, <2>3 DEF Network
<1>6. CASE Handle
  <2>1. Made' = Made
    BY <1>6 DEF Handle, Made
  <2>2. Head(inbox).n \in 1 .. clock
    BY <1>6 DEF Handle, UdpTyped, Made, Message
  <2> QED
    BY <1>6, <2>1, <2>2, UdpLinkAssumption DEF Handle, UdpTyped, transmitter
<1>7. CASE NewReceiver
  <2>1. Made' = Made
    BY <1>7 DEF NewReceiver, Made
  <2> QED
    BY <1>7, <2>1, UdpLinkAssumption DEF NewReceiver, UdpTyped, transmitter
<1> QED
  BY <1>1, <1>2, <1>3, <1>4, <1>5, <1>6, <1>7 DEF Next

(* A full buffer gives up its oldest control for the newest. *)
LEMMA FreshStep ==
  ASSUME UdpTyped, FreshControls, Next
  PROVE  FreshControls'
<1>1. CASE SetControlMessage
  <2> DEFINE m == [n |-> clock', kind |-> "control"]
  <2> DEFINE kept == IF Len(buffer) = Capacity THEN Tail(buffer) ELSE buffer
             d == Len(controls) - Len(kept)
  <2>1. buffer' = Append(kept, m) /\ controls' = Append(controls, clock') /\ m.n = clock'
        /\ clock' \in 1 .. clock' /\ controls \in Seq(1 .. clock') /\ m \in [n : Nat, kind : {"control"}]
    BY <1>1, MadeGrows DEF SetControlMessage, UdpTyped
  <2>2. /\ Len(controls) \in Nat /\ Len(controls') = Len(controls) + 1
        /\ \A i \in 1 .. Len(controls) : controls'[i] = controls[i]
        /\ controls'[Len(controls) + 1] = clock'
    BY <2>1, Appends
  <2>3. /\ kept \in Seq(Made) /\ Len(kept) <= Capacity - 1 /\ Len(kept) <= Len(controls) /\ Len(kept) \in Nat
        /\ \A i \in 1 .. Len(kept) : kept[i].n = controls[d + i]
    <3>1. CASE Len(buffer) = Capacity
      <4>1. buffer # <<>>
        BY <3>1, UdpLinkAssumption
      <4>2. /\ Tail(buffer) \in Seq(Made) /\ Len(buffer) \in Nat \ {0} /\ Len(Tail(buffer)) = Len(buffer) - 1
            /\ DOMAIN buffer = 1 .. Len(buffer)
            /\ \A i \in 1 .. (Len(buffer) - 1) : Tail(buffer)[i] = buffer[i + 1]
        BY <4>1, Tails DEF UdpTyped
      <4>3. \A i \in 1 .. (Len(buffer) - 1) : i + 1 \in DOMAIN buffer
        BY <4>2
      <4>4. \A i \in 1 .. (Len(buffer) - 1) :
              Tail(buffer)[i].n = controls[Len(controls) - Len(buffer) + (i + 1)]
        BY <4>2, <4>3 DEF FreshControls
      <4>5. kept = Tail(buffer) /\ Len(buffer) <= Len(controls)
        BY <3>1 DEF FreshControls
      <4> HIDE DEF kept, d
      <4>6. Len(kept) = Len(buffer) - 1 /\ kept \in Seq(Made)
        BY <4>2, <4>5
      <4>7. /\ Len(kept) <= Capacity - 1 /\ Len(kept) <= Len(controls) /\ Len(kept) \in Nat
            /\ 1 .. Len(kept) = 1 .. (Len(buffer) - 1)
        <5>1. Len(buffer) \in Nat \ {0} /\ Capacity = Len(buffer)
          BY <3>1, <4>2
        <5>2. Len(buffer) <= Len(controls) /\ Len(controls) \in Nat
          BY <2>2, <4>5
        <5> QED
          BY ONLY <4>6, <5>1, <5>2
      <4>8. \A i \in 1 .. (Len(buffer) - 1) : kept[i].n = controls[d + i]
        <5> SUFFICES ASSUME NEW i \in 1 .. (Len(buffer) - 1)
                     PROVE  kept[i].n = controls[d + i]
          OBVIOUS
        <5>1. kept[i].n = controls[Len(controls) - Len(buffer) + (i + 1)]
          BY <4>4, <4>5
        <5>2. d = Len(controls) - Len(kept)
          BY DEF d
        <5>3. Len(controls) - Len(buffer) + (i + 1) = d + i
          BY ONLY <2>2, <4>2, <4>6, <5>2, i \in 1 .. (Len(buffer) - 1)
        <5> QED
          BY <5>1, <5>3
      <4> QED
        BY <4>6, <4>7, <4>8
    <3>2. CASE Len(buffer) # Capacity
      <4>1. buffer \in Seq(Made) /\ Len(buffer) \in Nat /\ DOMAIN buffer = 1 .. Len(buffer)
        BY LenProperties DEF UdpTyped
      <4>2. /\ Len(buffer) <= Capacity /\ Len(buffer) <= Len(controls)
            /\ \A i \in DOMAIN buffer : buffer[i].n = controls[Len(controls) - Len(buffer) + i]
        BY DEF FreshControls
      <4>3. kept = buffer
        BY <3>2
      <4> HIDE DEF kept
      <4>4. Len(buffer) <= Capacity - 1
        <5>1. Len(buffer) <= Capacity /\ Len(buffer) # Capacity /\ Len(buffer) \in Nat
          BY <3>2, <4>1, <4>2
        <5>2. Capacity \in Nat
          BY UdpLinkAssumption
        <5> QED
          BY ONLY <5>1, <5>2
      <4>5. \A i \in 1 .. Len(buffer) : buffer[i].n = controls[d + i]
        BY <4>1, <4>2, <4>3
      <4> QED
        BY <4>1, <4>2, <4>3, <4>4, <4>5, Zenon
    <3> QED
      BY <3>1, <3>2
  <2> HIDE DEF kept, m
  <2>4. /\ Len(buffer') = Len(kept) + 1 /\ DOMAIN buffer' = 1 .. (Len(kept) + 1)
        /\ \A i \in 1 .. Len(kept) : buffer'[i] = kept[i]
        /\ buffer'[Len(kept) + 1] = m
    <3>1. m \in Made'
      BY <1>1, <2>1, UdpLinkAssumption DEF m, SetControlMessage, UdpTyped, Made, Message, Kind
    <3>2. kept \in Seq(Made')
      BY <1>1, <2>3, MadeGrows, SeqMono DEF SetControlMessage
    <3> QED
      BY <2>1, <3>1, <3>2, Appends
  <2>5. \A i \in 1 .. (Len(kept) + 1) :
          buffer'[i].n = controls'[Len(controls') - Len(buffer') + i]
    <3> SUFFICES ASSUME NEW i \in 1 .. (Len(kept) + 1)
                 PROVE  buffer'[i].n = controls'[d + i]
      BY <2>2, <2>3, <2>4
    <3>1. CASE i = Len(kept) + 1
      BY <2>1, <2>2, <2>3, <2>4, <3>1
    <3>2. CASE i # Len(kept) + 1
      <4>1. i \in 1 .. Len(kept) /\ d + i \in 1 .. Len(controls)
        BY <2>2, <2>3, <3>2
      <4> QED
        BY <2>2, <2>3, <2>4, <4>1
    <3> QED
      BY <3>1, <3>2
  <2>6. Len(buffer') <= Capacity /\ Len(buffer') <= Len(controls')
    BY <2>2, <2>3, <2>4, UdpLinkAssumption
  <2> QED
    BY <2>4, <2>5, <2>6 DEF FreshControls
<1>2. CASE SendControl
  <2>1. CASE buffer = <<>>
    BY <1>2, <2>1 DEF SendControl, FreshControls
  <2>2. CASE buffer # <<>>
    <3>1. /\ buffer' = Tail(buffer) /\ controls' = controls /\ Len(controls) \in Nat
          /\ Len(buffer) \in Nat \ {0} /\ Len(Tail(buffer)) = Len(buffer) - 1
          /\ DOMAIN buffer = 1 .. Len(buffer) /\ DOMAIN Tail(buffer) = 1 .. (Len(buffer) - 1)
          /\ \A i \in 1 .. (Len(buffer) - 1) : Tail(buffer)[i] = buffer[i + 1]
      BY <1>2, <2>2, Tails, LenProperties DEF SendControl, UdpTyped
    <3>2. \A i \in 1 .. (Len(buffer) - 1) :
            i + 1 \in DOMAIN buffer /\ buffer'[i].n = controls[Len(controls) - Len(buffer) + (i + 1)]
      BY <3>1 DEF FreshControls
    <3> QED
      BY <3>1, <3>2, UdpLinkAssumption DEF FreshControls
  <2> QED
    BY <2>1, <2>2
<1>3. CASE UNCHANGED <<controls, buffer>>
  BY <1>3 DEF FreshControls
<1> QED
  BY <1>1, <1>2, <1>3
     DEF Next, AddMessage, Retry, Process, SendQueued, Network, Lose, Accept, Skip, Handle, NewReceiver,
         transmitter

(* The receiver turns away what is older than the newest it has seen. *)
LEMMA InboxStep ==
  ASSUME UdpTyped, InboxOrdered, Next
  PROVE  InboxOrdered'
<1>1. CASE \E m \in Message : Accept(m)
  <2>1. PICK m \in Message : Accept(m)
    BY <1>1
  <2> SUFFICES ASSUME ~disturbed' PROVE InboxOrdered'
    BY DEF InboxOrdered
  <2>2. ~disturbed /\ last <= m.n /\ last' = m.n /\ applied' = applied /\ m.n \in Nat /\ last \in Nat
    <3>1. m.n \in Nat /\ last \in Nat /\ last' = m.n /\ applied' = applied
          /\ disturbed' = (disturbed \/ m.n < last)
      BY <2>1, UdpLinkAssumption DEF Accept, UdpTyped, Message
    <3>2. ~disturbed /\ ~(m.n < last)
      BY <3>1
    <3> QED
      BY <3>1, <3>2
  <2>3. /\ \A i \in DOMAIN inbox : inbox[i].n \in Nat /\ applied <= inbox[i].n /\ inbox[i].n <= last
        /\ \A i, j \in DOMAIN inbox : i <= j => inbox[i].n <= inbox[j].n
        /\ applied <= last /\ applied \in Nat
    BY <2>2 DEF InboxOrdered, UdpTyped, Made, Message
  <2>4. CASE inbox' = inbox
    BY <2>2, <2>3, <2>4 DEF InboxOrdered
  <2>5. CASE inbox' = Append(inbox, m)
    <3>1. m \in Made
      BY <2>1 DEF Accept, UdpTyped
    <3>2. /\ Len(inbox) \in Nat /\ DOMAIN inbox = 1 .. Len(inbox)
          /\ DOMAIN inbox' = 1 .. (Len(inbox) + 1)
          /\ \A i \in 1 .. Len(inbox) : inbox'[i] = inbox[i]
          /\ inbox'[Len(inbox) + 1] = m
      BY <2>5, <3>1, Appends DEF UdpTyped
    <3>3. \A i \in DOMAIN inbox' :
            /\ inbox'[i].n \in Nat /\ applied <= inbox'[i].n /\ inbox'[i].n <= m.n
            /\ i \in 1 .. Len(inbox) \/ inbox'[i].n = m.n
      BY <2>2, <2>3, <3>2
    <3>4. \A i, j \in DOMAIN inbox' : i <= j => inbox'[i].n <= inbox'[j].n
      BY <2>2, <2>3, <3>2, <3>3
    <3> QED
      BY <2>2, <2>3, <3>3, <3>4 DEF InboxOrdered
  <2> QED
    BY <2>1, <2>4, <2>5 DEF Accept
<1>2. CASE Handle
  <2> SUFFICES ASSUME ~disturbed' PROVE InboxOrdered'
    BY DEF InboxOrdered
  <2>1. /\ ~disturbed /\ last' = last /\ inbox' = Tail(inbox) /\ inbox # <<>>
        /\ applied' \in {applied, inbox[1].n}
    BY <1>2 DEF Handle, UdpTyped
  <2>2. /\ \A i \in DOMAIN inbox : inbox[i].n \in Nat /\ applied <= inbox[i].n /\ inbox[i].n <= last
        /\ \A i, j \in DOMAIN inbox : i <= j => inbox[i].n <= inbox[j].n
        /\ applied <= last /\ applied \in Nat
    BY <2>1 DEF InboxOrdered, UdpTyped, Made, Message
  <2>3. /\ Len(inbox) \in Nat \ {0} /\ DOMAIN inbox = 1 .. Len(inbox)
        /\ DOMAIN inbox' = 1 .. (Len(inbox) - 1)
        /\ \A i \in 1 .. (Len(inbox) - 1) : inbox'[i] = inbox[i + 1]
    BY <2>1, Tails DEF UdpTyped
  <2>4. \A i \in DOMAIN inbox' :
          /\ i + 1 \in DOMAIN inbox /\ 1 \in DOMAIN inbox /\ inbox'[i] = inbox[i + 1]
          /\ inbox[1].n <= inbox[i + 1].n /\ applied <= inbox[i + 1].n /\ inbox[i + 1].n <= last
    <3> SUFFICES ASSUME NEW i \in 1 .. (Len(inbox) - 1)
                 PROVE  /\ i + 1 \in 1 .. Len(inbox) /\ 1 \in 1 .. Len(inbox)
                        /\ inbox[1].n <= inbox[i + 1].n
                        /\ applied <= inbox[i + 1].n /\ inbox[i + 1].n <= last
      BY <2>3
    <3>1. i + 1 \in 1 .. Len(inbox) /\ 1 \in 1 .. Len(inbox) /\ 1 <= i + 1
      BY <2>3
    <3> QED
      BY <2>2, <2>3, <3>1
  <2>5. \A i, j \in DOMAIN inbox' : i <= j => inbox'[i].n <= inbox'[j].n
    BY <2>2, <2>3, <2>4
  <2>6. applied' <= last
    BY <2>1, <2>2, <2>3
  <2> QED
    BY <2>1, <2>4, <2>5, <2>6 DEF InboxOrdered
<1>3. CASE NewReceiver
  BY <1>3 DEF NewReceiver, InboxOrdered
<1>4. CASE UNCHANGED receiver
  BY <1>4 DEF receiver, InboxOrdered
<1> QED
  BY <1>1, <1>2, <1>3, <1>4
     DEF Next, SetControlMessage, AddMessage, Retry, Process, SendControl, SendQueued, Network, Lose, Skip

(* Nothing has been made or sent at first. *)
LEMMA UdpInvInit == Init => UdpInv
<1> SUFFICES ASSUME Init PROVE UdpInv
  OBVIOUS
<1>1. <<>> \in Seq(1 .. clock) /\ <<>> \in Seq(Made) /\ Len(<<>>) = 0 /\ DOMAIN <<>> = {}
  OBVIOUS
<1>2. UdpTyped
  <2>1. /\ clock = 0 /\ retries = 0 /\ last = 0 /\ applied = 0 /\ process = "control"
        /\ wire = {} /\ disturbed = FALSE
        /\ controls = <<>> /\ buffer = <<>> /\ queue = <<>> /\ inbox = <<>>
    BY DEF Init
  <2>2. 0 \in 0 .. MaxMessages /\ 0 \in 0 .. MaxRetries /\ 0 \in 0 .. 0 /\ 0 <= QueueSize
    BY UdpLinkAssumption
  <2>3. controls \in Seq(1 .. clock) /\ inbox \in Seq(Made) /\ buffer \in Seq(Made) /\ queue \in Seq(Made)
    BY <1>1, <2>1, Zenon
  <2>4. Len(inbox) <= QueueSize
    BY <1>1, <2>1, <2>2, Zenon
  <2> QED
    BY <2>1, <2>2, <2>3, <2>4 DEF UdpTyped
<1>3. FreshControls
  BY <1>1, UdpLinkAssumption DEF Init, FreshControls
<1>4. InboxOrdered
  BY <1>1 DEF Init, InboxOrdered
<1> QED
  BY <1>2, <1>3, <1>4 DEF UdpInv

(* Each step is one of the link that is promised, or concerns it not. *)
LEMMA UdpStepIsLinkStep ==
  ASSUME UdpInv, Next
  PROVE  [Link!Next]_<<clock, applied, disturbed>>
<1>1. CASE SetControlMessage \/ \E kind \in Kind \ {"control"} : AddMessage(kind)
  BY <1>1 DEF SetControlMessage, AddMessage, receiver, Link!Next, Link!Send
<1>2. CASE \E m \in Message : Accept(m)
  BY <1>2 DEF Accept, UdpInv, UdpTyped, Link!Next, Link!Disturb
<1>3. CASE Handle
  <2>1. CASE Head(inbox).kind = "control"
    <3>1. Head(inbox) = inbox[1] /\ 1 \in DOMAIN inbox /\ inbox[1].n \in 1 .. clock
      BY <1>3 DEF Handle, UdpInv, UdpTyped, Made, Message
    <3>2. ~disturbed => applied <= inbox[1].n
      BY <3>1 DEF UdpInv, InboxOrdered
    <3>3. applied' = inbox[1].n /\ clock' = clock /\ disturbed' = disturbed
      BY <1>3, <2>1, <3>1 DEF Handle
    <3> QED
      BY <3>1, <3>2, <3>3 DEF Link!Next, Link!Deliver, UdpInv, UdpTyped
  <2>2. CASE Head(inbox).kind # "control"
    BY <1>3, <2>2 DEF Handle
  <2> QED
    BY <2>1, <2>2
<1>4. CASE NewReceiver
  BY <1>4 DEF NewReceiver, Link!Next, Link!Disturb
<1>5. CASE UNCHANGED <<clock, receiver>>
  BY <1>5 DEF receiver
<1> QED
  BY <1>1, <1>2, <1>3, <1>4, <1>5
     DEF Next, Retry, Process, SendControl, SendQueued, Network, Lose, Skip

(* The inductive step, with the step of the promised link it is. *)
LEMMA UdpInvStep ==
  ASSUME UdpInv, [LinkNext]_linkVars
  PROVE  UdpInv' /\ [Link!Next]_<<clock, applied, disturbed>>
<1>1. CASE Next
  BY <1>1, UdpTypedStep, FreshStep, InboxStep, UdpStepIsLinkStep DEF UdpInv
<1>2. CASE UNCHANGED vars
  BY <1>2 DEF vars, transmitter, receiver, UdpInv, UdpTyped, Made, FreshControls, InboxOrdered
<1> QED
  BY <1>1, <1>2 DEF LinkNext, linkVars

(* Controls are handled in the order they were made, until a message that  *)
(* is exempt from the order comes late or a receiver is replaced, however  *)
(* datagrams are lost, duplicated and reordered; and the transmitter never *)
(* holds an older control than the newest ones its buffer has room for     *)
(* (UDPTransmitter.process, UDPReceiver.is_valid_message).                 *)
THEOREM ControlsStayInOrder == LinkSpec => ControlsInOrder
<1>1. LinkInit => UdpInv /\ Link!Init
  BY UdpInvInit DEF LinkInit, Init, Link!Init
<1>2. UdpInv /\ [LinkNext]_linkVars => UdpInv' /\ [Link!Next]_<<clock, applied, disturbed>>
  BY UdpInvStep
<1>3. UdpInv => FreshControls
  BY DEF UdpInv
<1> QED
  BY <1>1, <1>2, <1>3, PTL DEF LinkSpec, ControlsInOrder, OrderedControls, Link!Spec

-----------------------------------------------------------------------------
(* The tunnel over TCP: the inductive invariant *)

TcpTyped ==
  /\ tunnel \in {"connect", "bridge", "join", "done"} /\ conn \in 0 .. MaxConns
  /\ tunnel \in {"bridge", "join"} => conn # 0
  /\ reader \in [Tcp!Conn -> {"none", "read", "send", "stuck", "ended"}]
  /\ upSent \in 0 .. MaxUp /\ downSent \in 0 .. MaxDown
  /\ hand \in [Tcp!Conn -> 0 .. downSent] /\ told \in 0 .. downSent /\ heard \in 0 .. upSent
  /\ server \in {"accept", "serve", "join", "done"} /\ serving \in 0 .. conn
  /\ server \in {"serve", "join"} => serving # 0
  /\ writer # "none" => serving # 0
  /\ backlog \in Seq(1 .. conn)
  /\ up \in [Tcp!Conn -> Seq(0 .. upSent)] /\ down \in [Tcp!Conn -> Seq(0 .. downSent)]
  /\ late \in BOOLEAN

(* Messages are numbered in the order they were sent; only the last of     *)
(* those on a connection may be a part of one.                             *)
Rising(q) == \A i, j \in DOMAIN q : i < j => q[i] # 0 /\ (q[j] # 0 => q[i] < q[j])
Whole(q) == \A i \in DOMAIN q : q[i] # 0
Newer(q, m) == \A i \in DOMAIN q : q[i] # 0 => m < q[i]
Before(p, q) == \A i \in DOMAIN p : Newer(q, p[i])

Waits(c) == c = serving \/ \E i \in DOMAIN backlog : backlog[i] = c

(* Connections are accepted in the order they were made. *)
BacklogOrdered ==
  /\ \A i, j \in DOMAIN backlog : i < j => backlog[i] < backlog[j]
  /\ serving # 0 => \A i \in DOMAIN backlog : serving < backlog[i]

(* Nothing is on a connection that is yet to be made, older messages are   *)
(* on older connections, and all that may still be taken are newer than    *)
(* what was heard last.                                                    *)
UpOrdered ==
  /\ \A c \in Tcp!Conn : c > conn => up[c] = <<>>
  /\ \A c \in Tcp!Conn : Rising(up[c])
  /\ \A c \in Tcp!Conn : Waits(c) => Newer(up[c], heard)
  /\ \A c, d \in Tcp!Conn : c < d => Before(up[c], up[d])
  /\ tunnel = "bridge" => Whole(up[conn])

(* Likewise for the other direction, where nothing is sent to a connection *)
(* before it is accepted.                                                  *)
DownOrdered ==
  /\ \A c \in Tcp!Conn : c > conn => down[c] = <<>>
  /\ \A i \in DOMAIN backlog : down[backlog[i]] = <<>>
  /\ \A c \in Tcp!Conn : Rising(down[c])
  /\ writer = "write" => Whole(down[serving])

(* The only inbound thread that runs is the one of the present bridge,     *)
(* unless one has outlived its own.  What it may pass on is newer than     *)
(* what the component was told last.                                       *)
Ahead(c) ==
  /\ reader[c] \in {"read", "send", "stuck"} => c = conn /\ tunnel \in {"bridge", "join"}
  /\ reader[c] = "read" => Newer(down[c], told)
  /\ reader[c] = "send" => told < hand[c] /\ Newer(down[c], hand[c])

ToldOrdered ==
  /\ \A c \in Tcp!Conn : reader[c] = "send" => hand[c] # 0
  /\ ~late => \A c \in Tcp!Conn : Ahead(c)

TcpInv == TcpTyped /\ BacklogOrdered /\ UpOrdered /\ DownOrdered /\ ToldOrdered

-----------------------------------------------------------------------------
(* What may be put at the end of a connection, and what a message taken    *)
(* from its front leaves.                                                  *)
PutOn(way, c, m) == [way EXCEPT ![c] = Append(@, m)]
TakenFrom(way, c) == [way EXCEPT ![c] = Tail(@)]

LEMMA PutAtEnd ==
  ASSUME NEW N \in Nat, NEW M \in Nat, NEW q \in Seq(0 .. N), NEW e \in 0 .. M, e > N \/ e = 0
  PROVE  /\ Rising(q) /\ Whole(q) => Rising(Append(q, e))
         /\ Whole(q) /\ e # 0 => Whole(Append(q, e))
         /\ \A m \in 0 .. N : Newer(q, m) => Newer(Append(q, e), m)
<1> DEFINE a == Append(q, e)
<1>1. /\ q \in Seq(Nat) /\ e \in Nat
  BY SeqMono
<1>2. /\ Len(q) \in Nat /\ DOMAIN q = 1 .. Len(q) /\ DOMAIN a = 1 .. (Len(q) + 1)
      /\ \A i \in 1 .. Len(q) : a[i] = q[i] /\ q[i] \in Nat
      /\ a[Len(q) + 1] = e
  BY <1>1, Appends
<1>3. \A i \in 1 .. Len(q) : q[i] \in 0 .. N
  BY <1>2
<1> HIDE DEF a
<1>4. \A i \in DOMAIN a : (i \in DOMAIN q /\ a[i] = q[i]) \/ (i = Len(q) + 1 /\ a[i] = e)
  BY <1>2
<1>5. ASSUME Rising(q), Whole(q) PROVE Rising(a)
  <2> SUFFICES ASSUME NEW i \in DOMAIN a, NEW j \in DOMAIN a, i < j
               PROVE  a[i] # 0 /\ (a[j] # 0 => a[i] < a[j])
    BY DEF Rising
  <2>1. i \in DOMAIN q /\ a[i] = q[i]
    BY <1>2
  <2>2. a[i] # 0
    BY <1>5, <2>1 DEF Whole
  <2>3. CASE j \in DOMAIN q /\ a[j] = q[j]
    BY <1>5, <2>1, <2>3 DEF Rising
  <2>4. CASE a[j] = e
    BY <1>2, <1>3, <2>1, <2>2, <2>4
  <2> QED
    BY <1>4, <2>3, <2>4
<1>6. ASSUME Whole(q), e # 0 PROVE Whole(a)
  BY <1>4, <1>6 DEF Whole
<1>7. ASSUME NEW m \in 0 .. N, Newer(q, m) PROVE Newer(a, m)
  BY <1>4, <1>7 DEF Newer
<1> QED
  BY <1>5, <1>6, <1>7 DEF a

LEMMA TakeFromFront ==
  ASSUME NEW N \in Nat, NEW q \in Seq(0 .. N), q # <<>>, Rising(q)
  PROVE  /\ Tail(q) \in Seq(0 .. N) /\ Head(q) \in 0 .. N
         /\ 1 \in DOMAIN q /\ Head(q) = q[1]
         /\ Rising(Tail(q)) /\ (Whole(q) => Whole(Tail(q)))
         /\ \A m \in Nat : Newer(q, m) => Newer(Tail(q), m)
         /\ Newer(Tail(q), Head(q))
         /\ q # << 0 >> => Head(q) # 0
         /\ \A i \in DOMAIN Tail(q) : i + 1 \in DOMAIN q /\ Tail(q)[i] = q[i + 1]
<1> DEFINE t == Tail(q)
<1>1. /\ t \in Seq(0 .. N) /\ Len(q) \in Nat \ {0}
      /\ DOMAIN q = 1 .. Len(q) /\ DOMAIN t = 1 .. (Len(q) - 1)
      /\ \A i \in 1 .. (Len(q) - 1) : t[i] = q[i + 1]
      /\ Head(q) = q[1] /\ \A i \in 1 .. Len(q) : q[i] \in 0 .. N
  BY Tails
<1> HIDE DEF t
<1>2. \A i \in DOMAIN t : i + 1 \in DOMAIN q /\ t[i] = q[i + 1] /\ i \in Nat \ {0}
  BY <1>1
<1>3. 1 \in DOMAIN q
  BY <1>1
<1>4. Rising(t)
  BY <1>2 DEF Rising
<1>5. Whole(q) => Whole(t)
  BY <1>2 DEF Whole
<1>6. \A m \in Nat : Newer(q, m) => Newer(t, m)
  BY <1>2 DEF Newer
<1>7. Newer(t, Head(q))
  <2> SUFFICES ASSUME NEW i \in DOMAIN t, t[i] # 0 PROVE q[1] < t[i]
    BY <1>1 DEF Newer
  <2>1. i + 1 \in DOMAIN q /\ t[i] = q[i + 1] /\ 1 < i + 1
    BY <1>2
  <2> QED
    BY <1>3, <2>1 DEF Rising
<1>8. ASSUME q # << 0 >> PROVE Head(q) # 0
  <2>1. CASE Len(q) = 1
    <3>1. q = <<q[1]>>
      BY <2>1
    <3> QED
      BY <1>1, <1>8, <3>1, Zenon
  <2>2. CASE Len(q) # 1
    <3>1. 2 \in DOMAIN q /\ 1 < 2
      BY <1>1, <2>2
    <3> QED
      BY <1>1, <1>3, <3>1 DEF Rising
  <2> QED
    BY <2>1, <2>2
<1> QED
  BY <1>1, <1>2, <1>3, <1>4, <1>5, <1>6, <1>7, <1>8 DEF t

(* An empty connection is in any order. *)
LEMMA EmptyInOrder ==
  ASSUME NEW m
  PROVE  Rising(<<>>) /\ Whole(<<>>) /\ Newer(<<>>, m) /\ Before(<<>>, m)
<1>1. DOMAIN <<>> = {}
  OBVIOUS
<1> QED
  BY <1>1 DEF Rising, Whole, Newer, Before

(* What a send does: to a whole message, and to one that fails. *)
LEMMA ForwardEffect ==
  ASSUME TcpTyped, Tcp!Forward
  PROVE  /\ tunnel = "bridge" /\ conn \in Tcp!Conn
         /\ UNCHANGED <<conn, reader, hand, told, server, serving, backlog, writer, downSent, heard,
                        down, late>>
         /\ \/ /\ upSent < MaxUp /\ upSent' = upSent + 1 /\ tunnel' = tunnel
               /\ up' \in {up, PutOn(up, conn, upSent')}
            \/ /\ upSent' = upSent /\ tunnel' = "join"
               /\ up' \in {up, PutOn(up, conn, 0)}
<1>1. conn \in Tcp!Conn
  BY TcpLinkAssumption DEF Tcp!Forward, TcpTyped, Tcp!Conn
<1>2. UNCHANGED <<conn, reader, hand, told, server, serving, backlog, writer, downSent, heard,
                  down, late>>
  BY DEF Tcp!Forward, Tcp!readerVars, Tcp!serverVars, Tcp!viewerVars
<1> QED
  BY <1>1, <1>2 DEF Tcp!Forward, Tcp!Sent, Tcp!SendFails, Tcp!Leave, Tcp!Partial, PutOn

LEMMA WriteEffect ==
  ASSUME TcpTyped, Tcp!Write
  PROVE  /\ writer = "write" /\ serving \in Tcp!Conn /\ serving # 0
         /\ UNCHANGED <<tunnel, conn, reader, hand, told, server, serving, backlog, heard, up, upSent,
                        late>>
         /\ \/ /\ downSent < MaxDown /\ downSent' = downSent + 1 /\ writer' = writer
               /\ down' \in {down, PutOn(down, serving, downSent')}
            \/ /\ downSent' = downSent /\ writer' = "ended"
               /\ down' \in {down, PutOn(down, serving, 0)}
<1>1. writer = "write" /\ serving \in Tcp!Conn /\ serving # 0
  BY TcpLinkAssumption DEF Tcp!Write, TcpTyped, Tcp!Conn
<1>2. UNCHANGED <<tunnel, conn, reader, hand, told, server, serving, backlog, heard, up, upSent, late>>
  BY DEF Tcp!Write, Tcp!readerVars, Tcp!serverVars, Tcp!tunnelVars
<1> QED
  BY <1>1, <1>2 DEF Tcp!Write, Tcp!Sent, Tcp!SendFails, Tcp!Partial, PutOn

(* Every step of the tunnel keeps the types. *)
LEMMA TcpTypedStep ==
  ASSUME TcpTyped, Tcp!Next
  PROVE  TcpTyped'
<1>1. CASE Tcp!Connect
  <2>1. conn' = conn + 1 /\ conn' \in 1 .. MaxConns /\ 1 .. conn \subseteq 1 .. conn' /\ 0 .. conn \subseteq 0 .. conn'
        /\ conn' \in 1 .. conn'
    BY <1>1, TcpLinkAssumption DEF Tcp!Connect, TcpTyped
  <2>2. backlog' \in Seq(1 .. conn')
    BY <1>1, <2>1, SeqMono, Appends DEF Tcp!Connect, TcpTyped
  <2> QED
    BY <1>1, <2>1, <2>2
       DEF Tcp!Connect, TcpTyped, Tcp!Conn, Tcp!viewerVars, Tcp!network
<1>2. CASE Tcp!Forward
  <2>1. conn \in Tcp!Conn /\ conn # 0
    BY <1>2, ForwardEffect, TcpLinkAssumption DEF Tcp!Conn
  <2>2. /\ upSent' \in 0 .. MaxUp /\ 0 .. upSent \subseteq 0 .. upSent'
        /\ up' \in [Tcp!Conn -> Seq(0 .. upSent')]
    <3>1. /\ upSent' \in 0 .. MaxUp /\ 0 .. upSent \subseteq 0 .. upSent'
          /\ 0 \in 0 .. upSent' /\ upSent' \in 0 .. upSent'
      <4>1. upSent \in 0 .. MaxUp /\ MaxUp \in Nat
        BY TcpLinkAssumption DEF TcpTyped
      <4>2. (upSent < MaxUp /\ upSent' = upSent + 1) \/ upSent' = upSent
        BY <1>2, ForwardEffect
      <4> QED
        BY ONLY <4>1, <4>2
    <3>2. up \in [Tcp!Conn -> Seq(0 .. upSent')]
      BY <3>1, SeqMono DEF TcpTyped
    <3>3. \A m \in 0 .. upSent' : PutOn(up, conn, m) \in [Tcp!Conn -> Seq(0 .. upSent')]
      <4> SUFFICES ASSUME NEW m \in 0 .. upSent'
                   PROVE  PutOn(up, conn, m) \in [Tcp!Conn -> Seq(0 .. upSent')]
        OBVIOUS
      <4>1. Append(up[conn], m) \in Seq(0 .. upSent')
        BY <2>1, <3>2, Appends
      <4> QED
        BY <2>1, <3>2, <4>1 DEF PutOn
    <3> QED
      BY <1>2, ForwardEffect, <3>1, <3>2, <3>3
  <2>3. heard \in 0 .. upSent'
    BY <2>2 DEF TcpTyped
  <2>4. tunnel' \in {"bridge", "join"} /\ UNCHANGED <<conn, reader, hand, told, server, serving,
                                              backlog, writer, downSent, heard, down, late>>
    BY <1>2, ForwardEffect
  <2> QED
    BY <2>1, <2>2, <2>3, <2>4 DEF TcpTyped
<1>3. CASE Tcp!Write
  <2>1. serving \in Tcp!Conn /\ serving # 0
    BY <1>3, WriteEffect
  <2>2. /\ downSent' \in 0 .. MaxDown /\ 0 .. downSent \subseteq 0 .. downSent'
        /\ down' \in [Tcp!Conn -> Seq(0 .. downSent')]
    <3>1. /\ downSent' \in 0 .. MaxDown /\ 0 .. downSent \subseteq 0 .. downSent'
          /\ 0 \in 0 .. downSent' /\ downSent' \in 0 .. downSent'
      <4>1. downSent \in 0 .. MaxDown /\ MaxDown \in Nat
        BY TcpLinkAssumption DEF TcpTyped
      <4>2. (downSent < MaxDown /\ downSent' = downSent + 1) \/ downSent' = downSent
        BY <1>3, WriteEffect
      <4> QED
        BY ONLY <4>1, <4>2
    <3>2. down \in [Tcp!Conn -> Seq(0 .. downSent')]
      BY <3>1, SeqMono DEF TcpTyped
    <3>3. \A m \in 0 .. downSent' : PutOn(down, serving, m) \in [Tcp!Conn -> Seq(0 .. downSent')]
      <4> SUFFICES ASSUME NEW m \in 0 .. downSent'
                   PROVE  PutOn(down, serving, m) \in [Tcp!Conn -> Seq(0 .. downSent')]
        OBVIOUS
      <4>1. Append(down[serving], m) \in Seq(0 .. downSent')
        BY <2>1, <3>2, Appends
      <4> QED
        BY <2>1, <3>2, <4>1 DEF PutOn
    <3> QED
      BY <1>3, WriteEffect, <3>1, <3>2, <3>3
  <2>3. hand \in [Tcp!Conn -> 0 .. downSent'] /\ told \in 0 .. downSent'
    BY <2>2 DEF TcpTyped
  <2>4. UNCHANGED <<tunnel, conn, reader, hand, told, server, serving, backlog, heard, up, upSent, late>>
    BY <1>3, WriteEffect
  <2> QED
    BY <2>1, <2>2, <2>3, <2>4 DEF TcpTyped
<1>4. CASE Tcp!Accept
  <2>1. Tail(backlog) \in Seq(1 .. conn) /\ Head(backlog) \in 1 .. conn
    BY <1>4, HeadTailProperties DEF Tcp!Accept, TcpTyped
  <2>2. Head(backlog) # 0 /\ Head(backlog) \in 0 .. conn
    BY <2>1 DEF TcpTyped
  <2> QED
    BY <1>4, <2>1, <2>2
       DEF Tcp!Accept, TcpTyped, Tcp!tunnelVars, Tcp!readerVars, Tcp!viewerVars, Tcp!network
<1>5. CASE Tcp!Take
  <2>1. serving \in Tcp!Conn /\ up[serving] \in Seq(0 .. upSent) /\ up[serving] # <<>>
    BY <1>5, TcpLinkAssumption DEF Tcp!Take, TcpTyped, Tcp!Conn
  <2>2. Tail(up[serving]) \in Seq(0 .. upSent) /\ Head(up[serving]) \in 0 .. upSent
    BY <2>1, HeadTailProperties
  <2>3. up' \in [Tcp!Conn -> Seq(0 .. upSent)] /\ heard' \in 0 .. upSent
    BY <1>5, <2>1, <2>2 DEF Tcp!Take, TcpTyped
  <2> QED
    BY <1>5, <2>3 DEF Tcp!Take, TcpTyped, Tcp!tunnelVars, Tcp!readerVars, Tcp!serverVars
<1>6. CASE Tcp!StopAccepting
  <2>1. <<>> \in Seq(1 .. conn)
    OBVIOUS
  <2> QED
    BY <1>6, <2>1
       DEF Tcp!StopAccepting, TcpTyped, Tcp!tunnelVars, Tcp!readerVars, Tcp!viewerVars
<1>7. ASSUME NEW c \in Tcp!Conn, Tcp!Read(c) PROVE TcpTyped'
  <2>1. down[c] \in Seq(0 .. downSent) /\ down[c] # <<>>
    BY <1>7 DEF Tcp!Read, TcpTyped
  <2>2. Tail(down[c]) \in Seq(0 .. downSent) /\ Head(down[c]) \in 0 .. downSent
    BY <2>1, HeadTailProperties
  <2>3. /\ down' \in [Tcp!Conn -> Seq(0 .. downSent)] /\ hand' \in [Tcp!Conn -> 0 .. downSent]
        /\ reader' \in [Tcp!Conn -> {"none", "read", "send", "stuck", "ended"}]
    BY <1>7, <2>1, <2>2 DEF Tcp!Read, TcpTyped
  <2> QED
    BY <1>7, <2>3 DEF Tcp!Read, TcpTyped, Tcp!tunnelVars, Tcp!serverVars, Tcp!viewerVars
<1>8. ASSUME NEW c \in Tcp!Conn, Tcp!Deliver(c) PROVE TcpTyped'
  <2>1. /\ told' \in 0 .. downSent
        /\ reader' \in [Tcp!Conn -> {"none", "read", "send", "stuck", "ended"}]
    <3>1. hand[c] \in 0 .. downSent
      BY DEF TcpTyped
    <3>2. told' \in {told, hand[c]} /\ \E r \in {"read", "ended"} : reader' = [reader EXCEPT ![c] = r]
      BY <1>8 DEF Tcp!Deliver
    <3>3. told' \in 0 .. downSent
      BY <3>1, <3>2 DEF TcpTyped
    <3> QED
      BY <3>2, <3>3 DEF TcpTyped
  <2>2. UNCHANGED <<Tcp!tunnelVars, hand, Tcp!serverVars, writer, Tcp!viewerVars, Tcp!network, upSent,
                    late>>
    BY <1>8 DEF Tcp!Deliver
  <2> QED
    BY <2>1, <2>2
       DEF TcpTyped, Tcp!tunnelVars, Tcp!serverVars, Tcp!viewerVars, Tcp!network
<1>9. ASSUME NEW c \in Tcp!Conn, Tcp!EndReader(c) PROVE TcpTyped'
  BY <1>9 DEF Tcp!EndReader, TcpTyped, Tcp!tunnelVars, Tcp!serverVars, Tcp!viewerVars, Tcp!network
<1>10. CASE Tcp!StopBridge \/ Tcp!JoinReader \/ Tcp!StopConnecting
  BY <1>10
     DEF Tcp!StopBridge, Tcp!JoinReader, Tcp!StopConnecting, Tcp!Leave, TcpTyped, Tcp!readerVars,
         Tcp!serverVars, Tcp!viewerVars, Tcp!network
<1>11. CASE Tcp!HangUp \/ Tcp!JoinWriter \/ Tcp!EndWriter
  BY <1>11
     DEF Tcp!HangUp, Tcp!JoinWriter, Tcp!EndWriter, TcpTyped, Tcp!tunnelVars, Tcp!readerVars,
         Tcp!serverVars, Tcp!viewerVars, Tcp!network
<1>12. CASE \/ \E who \in {"tunnel", "server"} : Tcp!Stop(who)
            \/ \E c \in Tcp!Conn : Tcp!Cut(c) \/ Tcp!Keepalive(c)
  BY <1>12
     DEF Tcp!Stop, Tcp!Cut, Tcp!Keepalive, TcpTyped, Tcp!tunnelVars, Tcp!readerVars, Tcp!serverVars,
         Tcp!viewerVars, Tcp!network
<1> QED
  BY <1>1, <1>2, <1>3, <1>4, <1>5, <1>6, <1>7, <1>8, <1>9, <1>10, <1>11, <1>12
     DEF Tcp!Next, Tcp!Tunnel, Tcp!Server, Tcp!Reader

(* A connection that is made is the last of the backlog, one that is       *)
(* accepted was its first.                                                 *)
LEMMA BacklogStep ==
  ASSUME TcpTyped, BacklogOrdered, Tcp!Next
  PROVE  BacklogOrdered'
<1>1. CASE Tcp!Connect
  <2>1. /\ conn \in Nat /\ conn' = conn + 1 /\ serving' = serving /\ serving \in Nat /\ serving <= conn
        /\ backlog' = Append(backlog, conn') /\ backlog \in Seq(1 .. conn)
        /\ backlog \in Seq(Nat) /\ conn' \in Nat
    BY <1>1, SeqMono, TcpLinkAssumption DEF Tcp!Connect, TcpTyped
  <2>2. /\ Len(backlog) \in Nat /\ DOMAIN backlog = 1 .. Len(backlog)
        /\ DOMAIN backlog' = 1 .. (Len(backlog) + 1)
        /\ \A i \in 1 .. Len(backlog) : backlog'[i] = backlog[i]
        /\ backlog'[Len(backlog) + 1] = conn'
    BY <2>1, Appends
  <2>3. \A i \in 1 .. Len(backlog) : backlog[i] \in 1 .. conn
    BY <2>1, <2>2
  <2>4. \A i, j \in DOMAIN backlog' : i < j => backlog'[i] < backlog'[j]
    <3> SUFFICES ASSUME NEW i \in DOMAIN backlog', NEW j \in DOMAIN backlog', i < j
                 PROVE  backlog'[i] < backlog'[j]
      OBVIOUS
    <3>1. i \in DOMAIN backlog /\ backlog'[i] = backlog[i] /\ backlog[i] \in 1 .. conn
      BY <2>2, <2>3
    <3>2. CASE j = Len(backlog) + 1
      BY <2>1, <2>2, <3>1, <3>2
    <3>3. CASE j # Len(backlog) + 1
      <4>1. j \in DOMAIN backlog /\ backlog'[j] = backlog[j]
        BY <2>2, <3>3
      <4> QED
        BY <3>1, <4>1 DEF BacklogOrdered
    <3> QED
      BY <3>2, <3>3
  <2>5. serving # 0 => \A i \in DOMAIN backlog' : serving < backlog'[i]
    <3> SUFFICES ASSUME serving # 0, NEW i \in DOMAIN backlog' PROVE serving < backlog'[i]
      OBVIOUS
    <3>1. CASE i = Len(backlog) + 1
      BY <2>1, <2>2, <3>1
    <3>2. CASE i # Len(backlog) + 1
      <4>1. i \in DOMAIN backlog /\ backlog'[i] = backlog[i]
        BY <2>2, <3>2
      <4> QED
        BY <4>1 DEF BacklogOrdered
    <3> QED
      BY <3>1, <3>2
  <2> QED
    BY <2>1, <2>4, <2>5 DEF BacklogOrdered
<1>2. CASE Tcp!Accept
  <2>1. serving' = Head(backlog) /\ backlog' = Tail(backlog) /\ backlog \in Seq(1 .. conn) /\ backlog # <<>>
    BY <1>2 DEF Tcp!Accept, TcpTyped
  <2>2. /\ Len(backlog) \in Nat \ {0} /\ DOMAIN backlog = 1 .. Len(backlog)
        /\ DOMAIN backlog' = 1 .. (Len(backlog) - 1) /\ Head(backlog) = backlog[1]
        /\ \A i \in 1 .. (Len(backlog) - 1) : backlog'[i] = backlog[i + 1]
    BY <2>1, Tails
  <2>3. \A i \in DOMAIN backlog' : /\ i + 1 \in DOMAIN backlog /\ 1 \in DOMAIN backlog /\ 1 < i + 1
                                   /\ backlog'[i] = backlog[i + 1] /\ i \in Nat
    BY <2>2
  <2> QED
    BY <2>1, <2>2, <2>3 DEF BacklogOrdered
<1>3. CASE Tcp!JoinWriter
  BY <1>3 DEF Tcp!JoinWriter, BacklogOrdered
<1>4. CASE Tcp!StopAccepting
  <2>1. backlog' = <<>> /\ DOMAIN <<>> = {}
    BY <1>4 DEF Tcp!StopAccepting
  <2> QED
    BY <2>1 DEF BacklogOrdered
<1>5. CASE UNCHANGED <<backlog, serving>>
  BY <1>5 DEF BacklogOrdered
<1> QED
  BY <1>1, <1>2, <1>3, <1>4, <1>5
     DEF Tcp!Next, Tcp!Tunnel, Tcp!Server, Tcp!Reader, Tcp!Forward, Tcp!StopBridge, Tcp!JoinReader,
         Tcp!StopConnecting, Tcp!Take, Tcp!HangUp, Tcp!Write, Tcp!EndWriter, Tcp!Read, Tcp!Deliver,
         Tcp!EndReader, Tcp!Stop, Tcp!Cut, Tcp!Keepalive, Tcp!serverVars

(* What the types say of numbers, connections and what is on them. *)
LEMMA OnTheWay ==
  ASSUME TcpTyped
  PROVE  /\ MaxConns \in Nat /\ conn \in Nat /\ serving \in Nat /\ serving <= conn
         /\ upSent \in Nat /\ downSent \in Nat /\ heard \in 0 .. upSent /\ told \in 0 .. downSent
         /\ \A c \in Tcp!Conn : /\ c \in Nat \ {0}
                                /\ up[c] \in Seq(0 .. upSent) /\ down[c] \in Seq(0 .. downSent)
                                /\ \A i \in DOMAIN up[c] : up[c][i] \in 0 .. upSent
         /\ \A i \in DOMAIN backlog : backlog[i] \in Tcp!Conn
<1>1. /\ MaxConns \in Nat /\ conn \in Nat /\ serving \in Nat /\ serving <= conn
      /\ upSent \in Nat /\ downSent \in Nat /\ heard \in 0 .. upSent /\ told \in 0 .. downSent
  BY TcpLinkAssumption DEF TcpTyped
<1>2. ASSUME NEW c \in Tcp!Conn
      PROVE  /\ c \in Nat \ {0}
             /\ up[c] \in Seq(0 .. upSent) /\ down[c] \in Seq(0 .. downSent)
             /\ \A i \in DOMAIN up[c] : up[c][i] \in 0 .. upSent
  <2>1. c \in Nat \ {0}
    BY <1>1 DEF Tcp!Conn
  <2>2. up[c] \in Seq(0 .. upSent) /\ down[c] \in Seq(0 .. downSent)
    BY DEF TcpTyped
  <2>3. \A i \in DOMAIN up[c] : up[c][i] \in 0 .. upSent
    BY <2>2, Elements
  <2> QED
    BY <2>1, <2>2, <2>3
<1>4. \A i \in DOMAIN backlog : backlog[i] \in 1 .. conn
  BY DEF TcpTyped
<1>5. 1 .. conn \subseteq Tcp!Conn
  BY TcpLinkAssumption DEF TcpTyped, Tcp!Conn
<1> QED
  BY <1>1, <1>2, <1>4, <1>5

(* Whom the server may hear next: a connection that is made joins them,    *)
(* nothing else does.                                                      *)
LEMMA ConnectEffect ==
  ASSUME TcpTyped, Tcp!Connect
  PROVE  /\ conn' = conn + 1 /\ conn' \in Tcp!Conn /\ tunnel = "connect" /\ tunnel' = "bridge"
         /\ UNCHANGED <<up, down, heard, told, hand, writer, serving, upSent, downSent, late>>
         /\ reader' = [reader EXCEPT ![conn'] = "read"]
         /\ \A i \in DOMAIN backlog' :
              \/ backlog'[i] = conn'
              \/ i \in DOMAIN backlog /\ backlog'[i] = backlog[i]
<1>1. backlog' = Append(backlog, conn') /\ conn' = conn + 1 /\ backlog \in Seq(1 .. conn)
      /\ conn \in Nat /\ conn < MaxConns
  BY TcpLinkAssumption DEF Tcp!Connect, TcpTyped
<1>2. backlog \in Seq(Nat) /\ conn' \in Nat
  BY <1>1, SeqMono
<1>3. \A i \in DOMAIN backlog' : \/ backlog'[i] = conn'
                                 \/ i \in DOMAIN backlog /\ backlog'[i] = backlog[i]
  BY <1>1, <1>2, Appends
<1> QED
  BY <1>1, <1>3, TcpLinkAssumption DEF Tcp!Connect, Tcp!Conn, Tcp!viewerVars, Tcp!network

(* The one that is accepted leaves the backlog. *)
LEMMA AcceptEffect ==
  ASSUME TcpTyped, Tcp!Accept
  PROVE  /\ UNCHANGED <<tunnel, conn, up, down, heard, upSent, downSent>>
         /\ \E i \in DOMAIN backlog : serving' = backlog[i]
         /\ \A i \in DOMAIN backlog' : i + 1 \in DOMAIN backlog /\ backlog'[i] = backlog[i + 1]
<1>1. backlog' = Tail(backlog) /\ serving' = Head(backlog) /\ backlog \in Seq(1 .. conn) /\ backlog # <<>>
  BY DEF Tcp!Accept, TcpTyped
<1>2. 1 \in DOMAIN backlog /\ Head(backlog) = backlog[1]
      /\ \A i \in DOMAIN Tail(backlog) : i + 1 \in DOMAIN backlog /\ Tail(backlog)[i] = backlog[i + 1]
  BY <1>1, Tails
<1> QED
  BY <1>1, <1>2 DEF Tcp!Accept, Tcp!tunnelVars, Tcp!viewerVars, Tcp!network

(* Upstream: a send puts a newer message at the end of the last           *)
(* connection, a receive takes the oldest that may still be taken.         *)
LEMMA UpStep ==
  ASSUME TcpTyped, BacklogOrdered, UpOrdered, Tcp!Next
  PROVE  UpOrdered'
<1>1. CASE Tcp!Connect
  <2>1. up[conn'] = <<>>
    BY <1>1, ConnectEffect, OnTheWay DEF UpOrdered
  <2>2. \A c \in Tcp!Conn : Waits(c)' => Newer(up[c], heard)
    <3> SUFFICES ASSUME NEW c \in Tcp!Conn, Waits(c)' PROVE Newer(up[c], heard)
      OBVIOUS
    <3>1. c = conn' \/ Waits(c)
      BY <1>1, ConnectEffect DEF Waits
    <3>2. CASE c = conn'
      BY <2>1, <3>2, EmptyInOrder, Zenon
    <3> QED
      BY <3>1, <3>2 DEF UpOrdered
  <2>3. Whole(up[conn'])
    BY <2>1, EmptyInOrder, Zenon
  <2>4. \A c \in Tcp!Conn : c > conn' => up[c] = <<>>
    BY <1>1, ConnectEffect, OnTheWay DEF UpOrdered
  <2>5. up' = up /\ heard' = heard
    BY <1>1, ConnectEffect
  <2> QED
    BY <2>2, <2>3, <2>4, <2>5 DEF UpOrdered
<1>2. CASE Tcp!Forward
  <2>1. /\ tunnel = "bridge" /\ conn \in Tcp!Conn /\ UNCHANGED <<conn, serving, backlog, heard>>
        /\ tunnel' \in {"bridge", "join"} /\ \A c \in Tcp!Conn : Waits(c)' = Waits(c)
    BY <1>2, ForwardEffect DEF Waits
  <2>2. CASE up' = up
    BY <2>1, <2>2 DEF UpOrdered
  <2>3. ASSUME NEW e \in Nat, up' = PutOn(up, conn, e), e > upSent \/ e = 0,
               tunnel' = "bridge" => e # 0
        PROVE  UpOrdered'
    <3> DEFINE a == Append(up[conn], e)
    <3>1. /\ \A c \in Tcp!Conn : c # conn => up'[c] = up[c]
          /\ up'[conn] = a
      BY <2>1, <2>3 DEF PutOn, TcpTyped
    <3>2. /\ Rising(a) /\ (e # 0 => Whole(a))
          /\ \A m \in 0 .. upSent : Newer(up[conn], m) => Newer(a, m)
      <4>1. Rising(up[conn]) /\ Whole(up[conn])
        BY <2>1 DEF UpOrdered
      <4>2. upSent \in Nat /\ up[conn] \in Seq(0 .. upSent)
        BY <2>1, OnTheWay
      <4>3. e \in Nat /\ e \in 0 .. e /\ (e > upSent \/ e = 0)
        BY <2>3
      <4> QED
        BY <4>1, <4>2, <4>3, PutAtEnd
    <3> HIDE DEF a
    <3>3. ASSUME NEW c \in Tcp!Conn, c > conn PROVE up'[c] = <<>>
      <4>1. c # conn
        BY <3>3, OnTheWay
      <4> QED
        BY <3>1, <3>3, <4>1 DEF UpOrdered
    <3>4. \A c \in Tcp!Conn : Rising(up'[c])
      BY <3>1, <3>2 DEF UpOrdered
    <3>5. \A c \in Tcp!Conn : Waits(c) => Newer(up'[c], heard)
      BY <3>1, <3>2, OnTheWay DEF UpOrdered
    <3>6. \A c, d \in Tcp!Conn : c < d => Before(up'[c], up'[d])
      <4> SUFFICES ASSUME NEW c \in Tcp!Conn, NEW d \in Tcp!Conn, c < d
                   PROVE  Before(up'[c], up'[d])
        OBVIOUS
      <4>1. Before(up[c], up[d])
        BY DEF UpOrdered
      <4>2. CASE c # conn /\ d # conn
        BY <3>1, <4>1, <4>2
      <4>3. CASE c = conn
        <5>1. up'[d] = <<>>
          BY <3>3, <4>3
        <5> QED
          BY <5>1, EmptyInOrder DEF Before
      <4>4. CASE d = conn
        <5>1. up'[c] = up[c] /\ up'[d] = a
          BY <2>1, <3>1, <4>4, OnTheWay
        <5>2. \A i \in DOMAIN up[c] : up[c][i] \in 0 .. upSent /\ Newer(up[conn], up[c][i])
          BY <4>1, <4>4, OnTheWay DEF Before
        <5> QED
          BY <3>2, <5>1, <5>2 DEF Before
      <4> QED
        BY <4>2, <4>3, <4>4
    <3>7. tunnel' = "bridge" => Whole(up'[conn])
      BY <2>3, <3>1, <3>2
    <3> QED
      BY <2>1, <3>3, <3>4, <3>5, <3>6, <3>7 DEF UpOrdered
  <2>4. CASE up' = PutOn(up, conn, 0) /\ tunnel' = "join"
    BY <2>3, <2>4
  <2>5. CASE up' = PutOn(up, conn, upSent') /\ upSent' = upSent + 1
    <3>1. upSent' \in Nat /\ upSent' > upSent /\ upSent' # 0
      BY <2>5, OnTheWay
    <3> QED
      BY <2>3, <2>5, <3>1
  <2> QED
    BY <1>2, <2>2, <2>4, <2>5, ForwardEffect
<1>3. CASE Tcp!Take
  <2>1. /\ serving \in Tcp!Conn /\ serving # 0 /\ serving <= conn
        /\ up[serving] \in Seq(0 .. upSent) /\ up[serving] # <<>>
        /\ heard' = Head(up[serving]) /\ up' = TakenFrom(up, serving)
        /\ UNCHANGED <<tunnel, conn, serving, backlog>>
    BY <1>3, TcpLinkAssumption
       DEF Tcp!Take, TcpTyped, Tcp!Conn, TakenFrom, Tcp!tunnelVars, Tcp!serverVars
  <2> DEFINE q == up[serving]
             t == Tail(q)
  <2>2. /\ \A c \in Tcp!Conn : c # serving => up'[c] = up[c]
        /\ up'[serving] = t
    BY <2>1 DEF TakenFrom, TcpTyped
  <2>3. /\ heard' \in Nat /\ 1 \in DOMAIN q /\ heard' = q[1]
        /\ Rising(t) /\ (Whole(q) => Whole(t))
        /\ \A m \in Nat : Newer(q, m) => Newer(t, m)
        /\ Newer(t, heard')
        /\ \A i \in DOMAIN t : i + 1 \in DOMAIN q /\ t[i] = q[i + 1]
    <3>1. Rising(q)
      BY <2>1 DEF UpOrdered
    <3> HIDE DEF q, t
    <3>2. q \in Seq(0 .. upSent) /\ q # <<>> /\ upSent \in Nat /\ heard' = Head(q)
      BY <2>1, OnTheWay DEF q
    <3> QED
      BY <3>1, <3>2, TakeFromFront DEF t
  <2> HIDE DEF t
  <2>4. \A c \in Tcp!Conn : c > conn => up'[c] = <<>>
    BY <2>1, <2>2, OnTheWay DEF UpOrdered
  <2>5. \A c \in Tcp!Conn : Rising(up'[c])
    BY <2>2, <2>3 DEF UpOrdered
  <2>6. \A c \in Tcp!Conn : Waits(c) => Newer(up'[c], heard')
    <3> SUFFICES ASSUME NEW c \in Tcp!Conn, Waits(c), c # serving PROVE Newer(up[c], heard')
      BY <2>2, <2>3
    <3>1. serving < c
      BY <2>1 DEF Waits, BacklogOrdered
    <3>2. Before(up[serving], up[c])
      BY <2>1, <3>1 DEF UpOrdered
    <3> QED
      BY <2>3, <3>2 DEF Before
  <2>7. \A c, d \in Tcp!Conn : c < d => Before(up'[c], up'[d])
    <3> SUFFICES ASSUME NEW c \in Tcp!Conn, NEW d \in Tcp!Conn, c < d
                 PROVE  Before(up'[c], up'[d])
      OBVIOUS
    <3>1. Before(up[c], up[d])
      BY DEF UpOrdered
    <3>2. CASE c # serving /\ d # serving
      BY <2>2, <3>1, <3>2
    <3>3. CASE c = serving
      <4>1. up'[c] = t /\ up'[d] = up[d]
        <5>1. c # d
          BY OnTheWay
        <5> QED
          BY <2>2, <3>3, <5>1
      <4>2. \A i \in DOMAIN q : Newer(up[d], q[i])
        BY <3>1, <3>3 DEF Before
      <4> HIDE DEF q
      <4> QED
        BY <2>3, <4>1, <4>2 DEF Before
    <3>4. CASE d = serving
      <4>1. up'[c] = up[c] /\ up'[d] = t
        <5>1. c # d
          BY OnTheWay
        <5> QED
          BY <2>2, <3>4, <5>1
      <4>2. \A i \in DOMAIN up[c] : up[c][i] \in Nat /\ Newer(q, up[c][i])
        BY <3>1, <3>4, OnTheWay DEF Before
      <4> HIDE DEF q
      <4> QED
        BY <2>3, <4>1, <4>2 DEF Before
    <3> QED
      BY <3>2, <3>3, <3>4
  <2>8. tunnel = "bridge" => Whole(up'[conn])
    <3> SUFFICES ASSUME tunnel = "bridge" PROVE Whole(up'[conn])
      OBVIOUS
    <3>1. conn \in Tcp!Conn /\ Whole(up[conn])
      BY TcpLinkAssumption DEF TcpTyped, UpOrdered, Tcp!Conn
    <3> QED
      BY <2>2, <2>3, <3>1
  <2>9. \A c \in Tcp!Conn : Waits(c)' = Waits(c)
    BY <2>1 DEF Waits
  <2> QED
    BY <2>1, <2>4, <2>5, <2>6, <2>7, <2>8, <2>9 DEF UpOrdered
<1>4. ASSUME UNCHANGED <<conn, up, heard>>, tunnel' = "bridge" => tunnel = "bridge",
             \A c \in Tcp!Conn : Waits(c)' => Waits(c)
      PROVE  UpOrdered'
  BY <1>4 DEF UpOrdered
<1>5. CASE Tcp!Accept
  BY <1>4, <1>5, AcceptEffect DEF Waits
<1>6. CASE Tcp!JoinWriter
  <2>1. \A c \in Tcp!Conn : Waits(c)' => Waits(c)
    BY <1>6, OnTheWay DEF Waits, Tcp!JoinWriter
  <2> QED
    BY <1>4, <1>6, <2>1 DEF Tcp!JoinWriter, Tcp!tunnelVars, Tcp!viewerVars, Tcp!network
<1>7. CASE Tcp!StopAccepting
  <2>1. backlog' = <<>> /\ serving' = serving /\ DOMAIN <<>> = {}
    BY <1>7 DEF Tcp!StopAccepting
  <2> QED
    BY <1>4, <1>7, <2>1 DEF Waits, Tcp!StopAccepting, Tcp!tunnelVars, Tcp!viewerVars
<1>8. ASSUME UNCHANGED <<conn, up, heard, backlog, serving>>, tunnel' = "bridge" => tunnel = "bridge"
      PROVE  UpOrdered'
  BY <1>4, <1>8 DEF Waits
<1>9. CASE Tcp!Write
  BY <1>8, <1>9, WriteEffect
<1> QED
  BY <1>1, <1>2, <1>3, <1>5, <1>6, <1>7, <1>8, <1>9
     DEF Tcp!Next, Tcp!Tunnel, Tcp!Server, Tcp!Reader, Tcp!StopBridge, Tcp!JoinReader, Tcp!Leave,
         Tcp!StopConnecting, Tcp!HangUp, Tcp!EndWriter, Tcp!Read, Tcp!Deliver, Tcp!EndReader, Tcp!Stop,
         Tcp!Cut, Tcp!Keepalive, Tcp!tunnelVars, Tcp!serverVars, Tcp!viewerVars, Tcp!network

(* Downstream: a send puts a newer message at the end of the connection    *)
(* that is served, which is not one of the backlog.                        *)
LEMMA DownStep ==
  ASSUME TcpTyped, BacklogOrdered, DownOrdered, Tcp!Next
  PROVE  DownOrdered'
<1>1. CASE Tcp!Connect
  <2>1. down[conn'] = <<>>
    BY <1>1, ConnectEffect, OnTheWay DEF DownOrdered
  <2>2. \A i \in DOMAIN backlog' : down[backlog'[i]] = <<>>
    BY <1>1, <2>1, ConnectEffect DEF DownOrdered
  <2>3. \A c \in Tcp!Conn : c > conn' => down[c] = <<>>
    BY <1>1, ConnectEffect, OnTheWay DEF DownOrdered
  <2> QED
    BY <1>1, <2>2, <2>3, ConnectEffect DEF DownOrdered
<1>2. CASE Tcp!Accept
  <2>1. serving' \in Tcp!Conn /\ down[serving'] = <<>>
    BY <1>2, AcceptEffect, OnTheWay DEF DownOrdered
  <2>2. Whole(down[serving'])
    BY <2>1, EmptyInOrder, Zenon
  <2>3. \A i \in DOMAIN backlog' : down[backlog'[i]] = <<>>
    BY <1>2, AcceptEffect DEF DownOrdered
  <2> QED
    BY <1>2, <2>2, <2>3, AcceptEffect DEF DownOrdered
<1>3. CASE Tcp!Write
  <2>1. /\ writer = "write" /\ serving \in Tcp!Conn /\ serving # 0 /\ serving <= conn
        /\ UNCHANGED <<conn, serving, backlog>>
    BY <1>3, WriteEffect, OnTheWay
  <2>2. CASE down' = down
    BY <1>3, <2>1, <2>2, WriteEffect DEF DownOrdered
  <2>3. ASSUME NEW e \in Nat, down' = PutOn(down, serving, e), e > downSent \/ e = 0,
               writer' = "write" => e # 0
        PROVE  DownOrdered'
    <3> DEFINE a == Append(down[serving], e)
    <3>1. /\ \A c \in Tcp!Conn : c # serving => down'[c] = down[c]
          /\ down'[serving] = a
      BY <2>1, <2>3 DEF PutOn, TcpTyped
    <3>2. Rising(a) /\ (e # 0 => Whole(a))
      <4>1. Rising(down[serving]) /\ Whole(down[serving])
        BY <2>1 DEF DownOrdered
      <4>2. downSent \in Nat /\ down[serving] \in Seq(0 .. downSent)
        BY <2>1, OnTheWay
      <4>3. e \in Nat /\ e \in 0 .. e /\ (e > downSent \/ e = 0)
        BY <2>3
      <4> QED
        BY <4>1, <4>2, <4>3, PutAtEnd
    <3> HIDE DEF a
    <3>3. ASSUME NEW c \in Tcp!Conn, c > conn PROVE down'[c] = <<>>
      <4>1. c # serving
        BY <2>1, <3>3, OnTheWay
      <4> QED
        BY <3>1, <3>3, <4>1 DEF DownOrdered
    <3>4. ASSUME NEW i \in DOMAIN backlog PROVE down'[backlog[i]] = <<>>
      <4>1. serving < backlog[i] /\ backlog[i] \in Tcp!Conn /\ backlog[i] # serving
        BY <2>1, OnTheWay DEF BacklogOrdered
      <4> QED
        BY <3>1, <4>1 DEF DownOrdered
    <3>5. \A c \in Tcp!Conn : Rising(down'[c])
      BY <3>1, <3>2 DEF DownOrdered
    <3>6. writer' = "write" => Whole(down'[serving])
      BY <2>3, <3>1, <3>2
    <3> QED
      BY <2>1, <3>3, <3>4, <3>5, <3>6 DEF DownOrdered
  <2>4. CASE down' = PutOn(down, serving, 0) /\ writer' = "ended"
    BY <2>3, <2>4
  <2>5. CASE down' = PutOn(down, serving, downSent') /\ downSent' = downSent + 1
    <3>1. downSent' \in Nat /\ downSent' > downSent /\ downSent' # 0
      BY <2>5, OnTheWay
    <3> QED
      BY <2>3, <2>5, <3>1
  <2> QED
    BY <1>3, <2>2, <2>4, <2>5, WriteEffect
<1>4. ASSUME NEW r \in Tcp!Conn, Tcp!Read(r) PROVE DownOrdered'
  <2>1. /\ down[r] # <<>> /\ down[r] \in Seq(0 .. downSent) /\ downSent \in Nat
        /\ down' = TakenFrom(down, r) /\ UNCHANGED <<conn, serving, backlog, writer>>
    BY <1>4, OnTheWay DEF Tcp!Read, TakenFrom, Tcp!tunnelVars, Tcp!serverVars
  <2> DEFINE t == Tail(down[r])
  <2>2. /\ \A c \in Tcp!Conn : c # r => down'[c] = down[c]
        /\ down'[r] = t
    BY <2>1 DEF TakenFrom, TcpTyped
  <2>3. Rising(t) /\ (Whole(down[r]) => Whole(t))
    <3>1. Rising(down[r])
      BY DEF DownOrdered
    <3> QED
      BY <2>1, <3>1, TakeFromFront
  <2> HIDE DEF t
  <2>4. ASSUME NEW c \in Tcp!Conn PROVE down[c] = <<>> => down'[c] = <<>>
    BY <2>1, <2>2
  <2>5. \A c \in Tcp!Conn : Rising(down'[c]) /\ (Whole(down[c]) => Whole(down'[c]))
    BY <2>2, <2>3 DEF DownOrdered
  <2>6. writer = "write" => serving \in Tcp!Conn
    BY OnTheWay, TcpLinkAssumption DEF TcpTyped, Tcp!Conn
  <2> QED
    BY <2>1, <2>4, <2>5, <2>6, OnTheWay DEF DownOrdered
<1>5. ASSUME UNCHANGED <<conn, down, serving>>, writer' = "write" => writer = "write",
             backlog' \in {backlog, <<>>}
      PROVE  DownOrdered'
  <2>1. DOMAIN <<>> = {}
    OBVIOUS
  <2> QED
    BY <1>5, <2>1 DEF DownOrdered
<1>6. CASE Tcp!JoinWriter
  BY <1>6 DEF DownOrdered, Tcp!JoinWriter, Tcp!tunnelVars, Tcp!network
<1>7. CASE Tcp!Forward
  BY <1>5, <1>7, ForwardEffect
<1> QED
  BY <1>1, <1>2, <1>3, <1>4, <1>5, <1>6, <1>7
     DEF Tcp!Next, Tcp!Tunnel, Tcp!Server, Tcp!Reader, Tcp!StopBridge, Tcp!JoinReader,
         Tcp!StopConnecting, Tcp!Take, Tcp!HangUp, Tcp!StopAccepting, Tcp!EndWriter, Tcp!Deliver,
         Tcp!EndReader, Tcp!Stop, Tcp!Cut, Tcp!Keepalive, Tcp!tunnelVars, Tcp!serverVars, Tcp!network

(* The inbound thread that is started is the only one, unless the join of  *)
(* the last gave up.                                                       *)
LEMMA ToldStep ==
  ASSUME TcpTyped, DownOrdered, ToldOrdered, Tcp!Next
  PROVE  ToldOrdered'
<1>1. CASE Tcp!Connect
  <2>1. /\ conn' \in Tcp!Conn /\ tunnel = "connect" /\ tunnel' = "bridge" /\ down[conn'] = <<>>
        /\ \A c \in Tcp!Conn : reader'[c] = IF c = conn' THEN "read" ELSE reader[c]
        /\ UNCHANGED <<hand, told, down, late>>
    <3>1. down[conn'] = <<>>
      BY <1>1, ConnectEffect, OnTheWay DEF DownOrdered
    <3> QED
      BY <1>1, <3>1, ConnectEffect DEF TcpTyped
  <2>2. Newer(down[conn'], told)
    BY <2>1, EmptyInOrder, Zenon
  <2>3. ~late => \A c \in Tcp!Conn : reader[c] \notin {"read", "send", "stuck"}
    BY <2>1 DEF ToldOrdered, Ahead
  <2>4. \A c \in Tcp!Conn : reader'[c] = "send" => hand'[c] # 0
    BY <2>1 DEF ToldOrdered
  <2>5. ASSUME ~late, NEW c \in Tcp!Conn PROVE Ahead(c)'
    <3>1. CASE c = conn'
      BY <2>1, <2>2, <3>1 DEF Ahead
    <3>2. CASE c # conn'
      BY <2>1, <2>3, <2>5, <3>2 DEF Ahead
    <3> QED
      BY <3>1, <3>2
  <2> QED
    BY <2>1, <2>4, <2>5 DEF ToldOrdered
<1>2. CASE Tcp!Write
  <2>1. /\ UNCHANGED <<conn, tunnel, reader, hand, told, late>> /\ serving \in Tcp!Conn
        /\ writer = "write" /\ down[serving] \in Seq(0 .. downSent) /\ downSent \in Nat
        /\ told \in 0 .. downSent /\ \A c \in Tcp!Conn : hand[c] \in 0 .. downSent
    BY <1>2, WriteEffect, OnTheWay DEF TcpTyped
  <2>2. ASSUME NEW c \in Tcp!Conn, NEW m \in 0 .. downSent, Newer(down[c], m)
        PROVE  Newer(down'[c], m)
    <3>1. ASSUME NEW e \in Nat, e > downSent \/ e = 0, down' = PutOn(down, serving, e)
          PROVE  Newer(down'[c], m)
      <4>1. CASE c = serving
        <5>1. down'[c] = Append(down[serving], e)
          BY <2>1, <3>1, <4>1 DEF PutOn, TcpTyped
        <5>2. e \in 0 .. e
          BY <3>1
        <5> QED
          BY <2>1, <2>2, <3>1, <4>1, <5>1, <5>2, PutAtEnd
      <4>2. CASE c # serving
        <5>1. down'[c] = down[c]
          BY <2>1, <3>1, <4>2 DEF PutOn, TcpTyped
        <5> QED
          BY <2>2, <5>1
      <4> QED
        BY <4>1, <4>2
    <3>2. CASE down' = down
      BY <2>2, <3>2
    <3>3. CASE down' = PutOn(down, serving, 0)
      BY <3>1, <3>3
    <3>4. CASE down' = PutOn(down, serving, downSent') /\ downSent' = downSent + 1
      <4>1. downSent' \in Nat /\ downSent' > downSent
        BY <2>1, <3>4
      <4> QED
        BY <3>1, <3>4, <4>1
    <3> QED
      BY <1>2, <3>2, <3>3, <3>4, WriteEffect
  <2>3. ASSUME NEW c \in Tcp!Conn, Ahead(c) PROVE Ahead(c)'
    BY <2>1, <2>2, <2>3 DEF Ahead
  <2> QED
    BY <2>1, <2>3 DEF ToldOrdered
<1>3. ASSUME NEW r \in Tcp!Conn, Tcp!Read(r) PROVE ToldOrdered'
  <2> DEFINE q == down[r]
             m == Head(q)
             t == Tail(q)
  <2>1. /\ UNCHANGED <<conn, tunnel, told, late>> /\ reader[r] = "read"
        /\ reader'[r] = IF m = 0 THEN "stuck" ELSE "send"
        /\ hand'[r] = m /\ down'[r] = t
        /\ \A c \in Tcp!Conn : c # r => /\ reader'[c] = reader[c] /\ hand'[c] = hand[c]
                                        /\ down'[c] = down[c]
    BY <1>3 DEF Tcp!Read, TcpTyped, Tcp!tunnelVars, Tcp!Partial
  <2>2. /\ Newer(t, m) /\ 1 \in DOMAIN q /\ m = q[1]
    <3>1. q \in Seq(0 .. downSent) /\ q # <<>> /\ downSent \in Nat /\ Rising(q)
      BY <1>3, OnTheWay DEF Tcp!Read, DownOrdered
    <3> QED
      BY <3>1, TakeFromFront
  <2> HIDE DEF q, m, t
  <2>3. ASSUME ~late, NEW c \in Tcp!Conn PROVE Ahead(c)'
    <3>1. Ahead(c) /\ Ahead(r)
      BY <2>3 DEF ToldOrdered
    <3>2. CASE c = r
      <4>1. Newer(q, told) /\ r = conn /\ tunnel \in {"bridge", "join"}
        BY <2>1, <3>1 DEF Ahead, q
      <4>2. m # 0 => told < m
        BY <2>2, <4>1 DEF Newer
      <4> QED
        BY <2>1, <2>2, <3>2, <4>1, <4>2 DEF Ahead
    <3>3. CASE c # r
      BY <2>1, <3>1, <3>3 DEF Ahead
    <3> QED
      BY <3>2, <3>3
  <2>4. \A c \in Tcp!Conn : reader'[c] = "send" => hand'[c] # 0
    BY <2>1 DEF ToldOrdered
  <2> QED
    BY <2>1, <2>3, <2>4 DEF ToldOrdered
<1>4. ASSUME NEW r \in Tcp!Conn, Tcp!Deliver(r) PROVE ToldOrdered'
  <2>1. /\ UNCHANGED <<conn, tunnel, hand, down, late>> /\ reader[r] = "send"
        /\ \/ reader'[r] = "read" /\ told' = hand[r]
           \/ reader'[r] = "ended"
        /\ \A c \in Tcp!Conn : c # r => reader'[c] = reader[c]
    BY <1>4 DEF Tcp!Deliver, TcpTyped, Tcp!tunnelVars, Tcp!network
  <2>2. ASSUME ~late, NEW c \in Tcp!Conn PROVE Ahead(c)'
    <3>1. Ahead(c) /\ Ahead(r)
      BY <2>2 DEF ToldOrdered
    <3>2. CASE c = r
      BY <2>1, <3>1, <3>2 DEF Ahead
    <3>3. CASE c # r
      <4>1. reader'[c] \notin {"read", "send", "stuck"}
        BY <2>1, <3>1, <3>3 DEF Ahead
      <4> QED
        BY <4>1 DEF Ahead
    <3> QED
      BY <3>2, <3>3
  <2>3. \A c \in Tcp!Conn : reader'[c] = "send" => hand'[c] # 0
    BY <2>1 DEF ToldOrdered
  <2> QED
    BY <2>1, <2>2, <2>3 DEF ToldOrdered
<1>5. ASSUME NEW r \in Tcp!Conn, Tcp!EndReader(r) PROVE ToldOrdered'
  <2>1. /\ UNCHANGED <<conn, tunnel, hand, told, down, late>> /\ reader'[r] = "ended"
        /\ \A c \in Tcp!Conn : c # r => reader'[c] = reader[c]
    BY <1>5 DEF Tcp!EndReader, TcpTyped, Tcp!tunnelVars, Tcp!network
  <2>2. ASSUME NEW c \in Tcp!Conn, Ahead(c) PROVE Ahead(c)'
    BY <2>1, <2>2 DEF Ahead
  <2>3. \A c \in Tcp!Conn : reader'[c] = "send" => hand'[c] # 0
    BY <2>1 DEF ToldOrdered
  <2> QED
    BY <2>1, <2>2, <2>3 DEF ToldOrdered
<1>6. CASE Tcp!JoinReader
  <2>1. /\ UNCHANGED <<conn, reader, hand, told, down>>
        /\ late' = (late \/ reader[conn] # "ended")
    BY <1>6 DEF Tcp!JoinReader, Tcp!readerVars, Tcp!network
  <2>2. ASSUME ~late', NEW c \in Tcp!Conn PROVE Ahead(c)'
    <3>1. ~late /\ reader[conn] = "ended"
      BY <2>1, <2>2
    <3>2. Ahead(c)
      BY <3>1 DEF ToldOrdered
    <3>3. reader'[c] \notin {"read", "send", "stuck"}
      BY <2>1, <3>1, <3>2 DEF Ahead
    <3> QED
      BY <3>3 DEF Ahead
  <2> QED
    BY <2>1, <2>2 DEF ToldOrdered
<1>7. ASSUME UNCHANGED <<conn, reader, hand, told, down, late>>,
             tunnel \in {"bridge", "join"} => tunnel' \in {"bridge", "join"}
      PROVE  ToldOrdered'
  BY <1>7 DEF ToldOrdered, Ahead
<1>8. CASE Tcp!Forward
  BY <1>7, <1>8, ForwardEffect
<1> QED
  BY <1>1, <1>2, <1>3, <1>4, <1>5, <1>6, <1>7, <1>8
     DEF Tcp!Next, Tcp!Tunnel, Tcp!Server, Tcp!Reader, Tcp!StopBridge, Tcp!Leave, Tcp!StopConnecting,
         Tcp!Accept, Tcp!Take, Tcp!HangUp, Tcp!JoinWriter, Tcp!StopAccepting, Tcp!EndWriter, Tcp!Stop,
         Tcp!Cut, Tcp!Keepalive, Tcp!tunnelVars, Tcp!readerVars, Tcp!network

(* Nothing is under way at first. *)
LEMMA TcpInvInit == Tcp!Init => TcpInv
<1> SUFFICES ASSUME Tcp!Init PROVE TcpInv
  OBVIOUS
<1>1. /\ <<>> \in Seq(1 .. 0) /\ <<>> \in Seq(0 .. 0) /\ DOMAIN <<>> = {}
      /\ 0 \in 0 .. MaxConns /\ 0 \in 0 .. MaxUp /\ 0 \in 0 .. MaxDown /\ 0 \in 0 .. 0
  BY TcpLinkAssumption
<1>2. /\ \A c \in Tcp!Conn : up[c] = <<>> /\ down[c] = <<>> /\ reader[c] = "none"
      /\ conn = 0 /\ backlog = <<>> /\ tunnel = "connect" /\ writer = "none" /\ serving = 0
  BY DEF Tcp!Init
<1>3. TcpTyped
  <2>1. up \in [Tcp!Conn -> Seq(0 .. 0)] /\ down \in [Tcp!Conn -> Seq(0 .. 0)] /\ backlog \in Seq(1 .. 0)
    BY <1>1 DEF Tcp!Init
  <2> QED
    BY <1>1, <2>1 DEF Tcp!Init, TcpTyped
<1>4. BacklogOrdered
  BY <1>1, <1>2 DEF BacklogOrdered
<1>5. UpOrdered
  <2>1. \A c \in Tcp!Conn : Rising(up[c]) /\ Newer(up[c], heard)
    BY <1>2, EmptyInOrder, Zenon
  <2>2. \A c, d \in Tcp!Conn : Before(up[c], up[d])
    BY <1>2, EmptyInOrder, Zenon
  <2> QED
    BY <1>2, <2>1, <2>2 DEF UpOrdered
<1>6. DownOrdered
  <2>1. \A c \in Tcp!Conn : Rising(down[c])
    BY <1>2, EmptyInOrder, Zenon
  <2> QED
    BY <1>1, <1>2, <2>1 DEF DownOrdered
<1>7. ToldOrdered
  BY <1>2 DEF ToldOrdered, Ahead
<1> QED
  BY <1>3, <1>4, <1>5, <1>6, <1>7 DEF TcpInv

(* The viewer's component: what is taken is newer than all it has heard.   *)
LEMMA TakenIsNewer ==
  ASSUME TcpInv, Tcp!Take
  PROVE  heard' \in 1 .. upSent /\ heard < heard' /\ upSent' = upSent
<1> DEFINE q == up[serving]
<1>1. /\ serving \in Tcp!Conn /\ q \notin {<<>>, << 0 >>} /\ heard' = Head(q) /\ upSent' = upSent
  BY TcpLinkAssumption DEF Tcp!Take, TcpInv, TcpTyped, Tcp!Conn, Tcp!Partial
<1>2. /\ Rising(q) /\ Newer(q, heard) /\ q \in Seq(0 .. upSent) /\ upSent \in Nat /\ heard \in Nat
  BY <1>1, OnTheWay DEF TcpInv, UpOrdered, Waits
<1> HIDE DEF q
<1>3. Head(q) \in 0 .. upSent /\ 1 \in DOMAIN q /\ Head(q) = q[1] /\ Head(q) # 0
  <2>1. q # <<>> /\ q # << 0 >>
    BY <1>1
  <2> QED
    BY <1>2, <2>1, TakeFromFront
<1> QED
  BY <1>1, <1>2, <1>3 DEF Newer

(* Upstream, each step is one of the link that is promised. *)
LEMMA TcpStepIsUpLinkStep ==
  ASSUME TcpInv, Tcp!Next
  PROVE  [Tcp!UpLink!Next]_<<upSent, heard, FALSE>>
<1>1. CASE Tcp!Forward
  BY <1>1, ForwardEffect DEF TcpInv, Tcp!UpLink!Next, Tcp!UpLink!Send
<1>2. CASE Tcp!Take
  <2>1. heard \in Nat /\ heard' \in Nat /\ heard' \in 1 .. upSent /\ heard < heard' /\ upSent' = upSent
    BY <1>2, TakenIsNewer, OnTheWay DEF TcpInv
  <2> QED
    BY <2>1 DEF Tcp!UpLink!Next, Tcp!UpLink!Deliver
<1>3. CASE UNCHANGED <<upSent, heard>>
  BY <1>3
<1>4. CASE Tcp!Write
  BY <1>3, <1>4, WriteEffect DEF TcpInv
<1> QED
  BY <1>1, <1>2, <1>3, <1>4
     DEF Tcp!Next, Tcp!Tunnel, Tcp!Server, Tcp!Reader, Tcp!Connect, Tcp!StopBridge, Tcp!JoinReader,
         Tcp!StopConnecting, Tcp!Accept, Tcp!HangUp, Tcp!JoinWriter, Tcp!StopAccepting, Tcp!EndWriter,
         Tcp!Read, Tcp!Deliver, Tcp!EndReader, Tcp!Stop, Tcp!Cut, Tcp!Keepalive, Tcp!viewerVars

(* The streamer's component: what a thread hands on is newer than all it   *)
(* was told, unless the thread has outlived its bridge.                    *)
LEMMA TcpStepIsDownLinkStep ==
  ASSUME TcpInv, Tcp!Next
  PROVE  [Tcp!DownLink!Next]_<<downSent, told, late>>
<1>1. CASE Tcp!Write
  BY <1>1, WriteEffect DEF TcpInv, Tcp!DownLink!Next, Tcp!DownLink!Send
<1>2. ASSUME NEW c \in Tcp!Conn, Tcp!Deliver(c) PROVE [Tcp!DownLink!Next]_<<downSent, told, late>>
  <2>1. /\ reader[c] = "send" /\ UNCHANGED <<downSent, late>> /\ told' \in {told, hand[c]}
    BY <1>2 DEF Tcp!Deliver, Tcp!viewerVars
  <2>2. /\ hand[c] \in 0 .. downSent /\ hand[c] # 0 /\ told \in 0 .. downSent
        /\ downSent \in Nat /\ late \in BOOLEAN
    BY <2>1, OnTheWay DEF TcpInv, TcpTyped, ToldOrdered
  <2>3. ~late => told < hand[c]
    BY <2>1 DEF TcpInv, ToldOrdered, Ahead
  <2>4. hand[c] \in 1 .. downSent /\ (told > hand[c] => late)
    BY <2>2, <2>3
  <2> QED
    BY <2>1, <2>4 DEF Tcp!DownLink!Next, Tcp!DownLink!Deliver
<1>3. CASE Tcp!JoinReader
  <2>1. late' \in {late, TRUE} /\ UNCHANGED <<downSent, told>>
    BY <1>3 DEF Tcp!JoinReader, TcpInv, TcpTyped, Tcp!viewerVars, Tcp!readerVars
  <2> QED
    BY <2>1 DEF Tcp!DownLink!Next, Tcp!DownLink!Disturb
<1>4. CASE UNCHANGED <<downSent, told, late>>
  BY <1>4
<1>5. CASE Tcp!Forward
  BY <1>4, <1>5, ForwardEffect DEF TcpInv
<1> QED
  BY <1>1, <1>2, <1>3, <1>4, <1>5
     DEF Tcp!Next, Tcp!Tunnel, Tcp!Server, Tcp!Reader, Tcp!Connect, Tcp!StopBridge,
         Tcp!StopConnecting, Tcp!Accept, Tcp!Take, Tcp!HangUp, Tcp!JoinWriter, Tcp!StopAccepting,
         Tcp!EndWriter, Tcp!Read, Tcp!EndReader, Tcp!Stop, Tcp!Cut, Tcp!Keepalive, Tcp!viewerVars,
         Tcp!readerVars

(* The inductive step, with the steps of the promised links it is. *)
LEMMA TcpInvStep ==
  ASSUME TcpInv, [LinkNext]_linkVars
  PROVE  /\ TcpInv' /\ [Tcp!UpLink!Next]_<<upSent, heard, FALSE>>
         /\ [Tcp!DownLink!Next]_<<downSent, told, late>>
<1>1. CASE Tcp!Next
  BY <1>1, TcpTypedStep, BacklogStep, UpStep, DownStep, ToldStep, TcpStepIsUpLinkStep,
     TcpStepIsDownLinkStep DEF TcpInv
<1>2. CASE UNCHANGED tcpVars
  BY <1>2 DEF tcpVars, TcpInv, TcpTyped, BacklogOrdered, UpOrdered, Waits, DownOrdered, ToldOrdered, Ahead
<1> QED
  BY <1>1, <1>2 DEF LinkNext, linkVars

(* Over any number of reconnections, cuts and stalls, each component gets  *)
(* the other's messages in the order they were sent, until an inbound      *)
(* thread outlives the two seconds its bridge waits for it (_bridge and    *)
(* _inbound_loop of TcpTunnel.py, _run_channel and _handle_connection of   *)
(* TcpServer.py).                                                          *)
THEOREM MessagesStayInOrder == LinkSpec => InOrder
<1>1. LinkInit => TcpInv /\ Tcp!UpLink!Init /\ Tcp!DownLink!Init
  BY TcpInvInit DEF LinkInit, Tcp!Init, Tcp!UpLink!Init, Tcp!DownLink!Init
<1>2. TcpInv /\ [LinkNext]_linkVars => /\ TcpInv' /\ [Tcp!UpLink!Next]_<<upSent, heard, FALSE>>
                                       /\ [Tcp!DownLink!Next]_<<downSent, told, late>>
  BY TcpInvStep
<1> QED
  BY <1>1, <1>2, PTL DEF LinkSpec, InOrder, Tcp!InOrder, Tcp!UpLink!Spec, Tcp!DownLink!Spec

(* Neither component gets a message twice: what it gets is newer than all  *)
(* it had.                                                                 *)
EachOnce ==
  [][ /\ Tcp!Take => heard < heard'
      /\ \A c \in Tcp!Conn : Tcp!Deliver(c) /\ tunnel # "done" => late \/ told < told' ]_tcpVars

(* A message that is taken from a connection is gone, and those that are   *)
(* still under way, on this and on later connections, are newer            *)
(* (_handle_connection of TcpServer.py, _inbound_loop of TcpTunnel.py).    *)
THEOREM NoMessageTwice == LinkSpec => EachOnce
<1>1. LinkInit => TcpInv
  BY TcpInvInit DEF LinkInit
<1>2. TcpInv /\ [LinkNext]_linkVars => TcpInv'
  BY TcpInvStep
<1>3. ASSUME TcpInv, Tcp!Take PROVE heard < heard'
  BY <1>3, TakenIsNewer
<1>4. ASSUME TcpInv, NEW c \in Tcp!Conn, Tcp!Deliver(c), tunnel # "done" PROVE late \/ told < told'
  BY <1>4 DEF TcpInv, ToldOrdered, Ahead, Tcp!Deliver
<1>5. TcpInv => [ /\ Tcp!Take => heard < heard'
                  /\ \A c \in Tcp!Conn : Tcp!Deliver(c) /\ tunnel # "done" => late \/ told < told' ]_tcpVars
  BY <1>3, <1>4
<1> QED
  BY <1>1, <1>2, <1>5, PTL DEF LinkSpec, EachOnce

=============================================================================

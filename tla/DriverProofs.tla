----------------------------- MODULE DriverProofs -----------------------------
(***************************************************************************)
(* Proofs about what the driver sees and does.  The video: the times that  *)
(* are told of the displayed frame are its own, and it is of the stream    *)
(* that is open, for any size of the buffer, any target and any number of  *)
(* old frames.  The input: keys and axes drive the way they are pressed    *)
(* and moved, for any frictions, steps, intervals and calibrations.  The   *)
(* settings: what is shown, saved and used is the same, however often they *)
(* are edited and applied.                                                 *)
(***************************************************************************)
EXTENDS MCDriver, SequenceTheorems, WellFoundedInduction, TLAPS

-----------------------------------------------------------------------------
(* The inductive invariant *)

(* The times of the frames in the buffer are the last ones there are, in   *)
(* the same order, after k older ones.                                     *)
AlignedBy(f, t, k) ==
  /\ Len(t) = Len(f) + k
  /\ \A i \in 1 .. Len(f) : f[i].n = t[i + k]

(* Older ones are only left where picking the newest drops them.           *)
Aligned ==
  \E k \in Nat : AlignedBy(buffer, stamps, k) /\ (ratio # "newest" => k = 0)

Tidy == ~unpaired => Aligned /\ Paired

(* While nothing plays there are no frames. *)
Blank ==
  ~late /\ phase \notin {"play", "clear"} => frame = None /\ buffer = <<>>

VideoInv == TypeOK /\ Tidy /\ Blank /\ Current

-----------------------------------------------------------------------------
(* What the operations on the deques do *)

LEMMA Lengths ==
  ASSUME NEW S, NEW q \in Seq(S)
  PROVE  /\ Len(q) \in Nat /\ DOMAIN q = 1 .. Len(q)
         /\ \A i \in 1 .. Len(q) : q[i] \in S
         /\ q = <<>> <=> Len(q) = 0
BY LenProperties, EmptySeq

LEMMA Tails ==
  ASSUME NEW S, NEW q \in Seq(S), q # <<>>
  PROVE  /\ Tail(q) \in Seq(S) /\ Len(q) \in Nat \ {0} /\ Len(Tail(q)) = Len(q) - 1
         /\ \A i \in 1 .. (Len(q) - 1) : Tail(q)[i] = q[i + 1]
         /\ Head(q) = q[1] /\ Head(q) \in S
         /\ Last(q) = q[Len(q)] /\ Last(q) \in S
BY HeadTailProperties, LenProperties, EmptySeq DEF Last

LEMMA Appends ==
  ASSUME NEW S, NEW q \in Seq(S), NEW e \in S
  PROVE  /\ Append(q, e) \in Seq(S) /\ Len(q) \in Nat /\ Len(Append(q, e)) = Len(q) + 1
         /\ \A i \in 1 .. Len(q) : Append(q, e)[i] = q[i]
         /\ Append(q, e)[Len(q) + 1] = e
BY AppendProperties, LenProperties

(* A full deque loses its oldest entry. *)
Lost(q) == IF Len(q) = MaxBuffer THEN 1 ELSE 0

LEMMA Pushes ==
  ASSUME NEW S, NEW q \in Seq(S), Len(q) <= MaxBuffer, NEW e \in S
  PROVE  /\ Push(q, e) \in Seq(S) /\ Lost(q) \in {0, 1}
         /\ Len(Push(q, e)) = Len(q) + 1 - Lost(q) /\ Len(Push(q, e)) <= MaxBuffer
         /\ \A i \in 1 .. (Len(q) - Lost(q)) : Push(q, e)[i] = q[i + Lost(q)]
         /\ Push(q, e)[Len(q) + 1 - Lost(q)] = e
<1>1. MaxBuffer \in Nat \ {0} /\ Len(q) \in Nat
  BY VideoAssumption, LenProperties
<1>2. CASE Len(q) = MaxBuffer
  <2>1. q # <<>>
    BY <1>1, <1>2, Lengths
  <2>2. /\ Tail(q) \in Seq(S) /\ Len(Tail(q)) = Len(q) - 1
        /\ \A i \in 1 .. (Len(q) - 1) : Tail(q)[i] = q[i + 1]
    BY <2>1, Tails
  <2>3. Push(q, e) = Append(Tail(q), e)
    BY <1>2 DEF Push
  <2>4. /\ Append(Tail(q), e) \in Seq(S) /\ Len(Append(Tail(q), e)) = Len(q)
        /\ \A i \in 1 .. (Len(q) - 1) : Append(Tail(q), e)[i] = q[i + 1]
        /\ Append(Tail(q), e)[Len(q)] = e
    <3>1. /\ Append(Tail(q), e) \in Seq(S)
          /\ Len(Append(Tail(q), e)) = Len(Tail(q)) + 1
          /\ \A i \in 1 .. Len(Tail(q)) : Append(Tail(q), e)[i] = Tail(q)[i]
          /\ Append(Tail(q), e)[Len(Tail(q)) + 1] = e
      BY <2>2, Appends
    <3>2. Len(Tail(q)) + 1 = Len(q)
      BY <1>1, <2>2
    <3> QED
      BY <2>2, <3>1, <3>2
  <2> QED
    BY <1>1, <1>2, <2>3, <2>4 DEF Lost
<1>3. CASE Len(q) # MaxBuffer
  <2>1. Push(q, e) = Append(q, e) /\ Lost(q) = 0
    BY <1>3 DEF Push, Lost
  <2> QED
    BY <1>1, <1>3, <2>1, Appends
<1> QED
  BY <1>2, <1>3

LEMMA Drops ==
  ASSUME NEW S, NEW q \in Seq(S), NEW k \in 0 .. Len(q)
  PROVE  /\ Drop(q, k) \in Seq(S) /\ Len(Drop(q, k)) = Len(q) - k
         /\ \A i \in 1 .. (Len(q) - k) : Drop(q, k)[i] = q[i + k]
<1>1. Len(q) \in Nat /\ \A i \in 1 .. Len(q) : q[i] \in S
  BY Lengths
<1>2. k + 1 \in Int /\ Len(q) \in Int /\ \A i \in (k + 1) .. Len(q) : q[i] \in S
  BY <1>1
<1>3. /\ Drop(q, k) \in Seq(S)
      /\ Len(Drop(q, k)) = (IF k + 1 <= Len(q) THEN Len(q) - (k + 1) + 1 ELSE 0)
      /\ \A i \in 1 .. (Len(q) - (k + 1) + 1) : Drop(q, k)[i] = q[(k + 1) + i - 1]
  BY <1>2, SubSeqProperties DEF Drop
<1> QED
  BY <1>1, <1>3

LEMMA NumberIsNat ==
  /\ Frames \in Nat \ {0} /\ Number \subseteq Nat
  /\ \A n \in Number : (n + 1) % Frames \in Number
<1>1. Frames \in Nat \ {0} /\ MaxBuffer \in Nat
  BY VideoAssumption DEF Frames
<1>2. \A n \in Nat : n % Frames \in 0 .. Frames - 1
  BY <1>1
<1> QED
  BY <1>1, <1>2 DEF Number

(* A deque that is too short for what is dropped becomes empty. *)
LEMMA DropType ==
  ASSUME NEW S, NEW q \in Seq(S), NEW k \in Nat
  PROVE  Drop(q, k) \in Seq(S) /\ Len(Drop(q, k)) \in Nat /\ Len(Drop(q, k)) <= Len(q)
<1>1. Len(q) \in Nat /\ \A i \in 1 .. Len(q) : q[i] \in S
  BY Lengths
<1>2. k + 1 \in Int /\ Len(q) \in Int /\ \A i \in (k + 1) .. Len(q) : q[i] \in S
  BY <1>1
<1>3. /\ Drop(q, k) \in Seq(S)
      /\ Len(Drop(q, k)) = (IF k + 1 <= Len(q) THEN Len(q) - (k + 1) + 1 ELSE 0)
  BY <1>2, SubSeqProperties DEF Drop
<1> QED
  BY <1>1, <1>3

LEMMA TailIsDrop ==
  ASSUME NEW S, NEW q \in Seq(S), q # <<>>
  PROVE  Drop(q, 1) = Tail(q)
<1>1. /\ Tail(q) \in Seq(S) /\ Len(q) \in Nat \ {0} /\ Len(Tail(q)) = Len(q) - 1
      /\ \A i \in 1 .. (Len(q) - 1) : Tail(q)[i] = q[i + 1]
  BY Tails
<1>2. 1 \in 0 .. Len(q)
  BY <1>1
<1>3. /\ Drop(q, 1) \in Seq(S) /\ Len(Drop(q, 1)) = Len(q) - 1
      /\ \A i \in 1 .. (Len(q) - 1) : Drop(q, 1)[i] = q[i + 1]
  BY <1>2, Drops
<1> QED
  BY <1>1, <1>3, SeqEqual

-----------------------------------------------------------------------------
(* What they keep of the pairs *)

LEMMA AlignedHead ==
  ASSUME NEW f \in Seq(Frame), NEW t \in Seq(Number), AlignedBy(f, t, 0), f # <<>>
  PROVE  t # <<>> /\ Head(t) = Head(f).n /\ AlignedBy(Tail(f), Tail(t), 0)
<1>1. Len(f) \in Nat \ {0} /\ Len(t) = Len(f) /\ \A i \in 1 .. Len(f) : f[i].n = t[i]
  BY Lengths DEF AlignedBy
<1>2. t # <<>>
  BY <1>1, Lengths
<1>3. /\ Head(f) = f[1] /\ Head(t) = t[1]
      /\ Len(Tail(f)) = Len(f) - 1 /\ Len(Tail(t)) = Len(t) - 1
      /\ \A i \in 1 .. (Len(f) - 1) : Tail(f)[i] = f[i + 1]
      /\ \A i \in 1 .. (Len(t) - 1) : Tail(t)[i] = t[i + 1]
  BY <1>2, Tails
<1>4. ASSUME NEW i \in 1 .. (Len(f) - 1)
      PROVE  Tail(f)[i].n = Tail(t)[i + 0]
  BY <1>1, <1>3
<1> QED
  BY <1>1, <1>2, <1>3, <1>4 DEF AlignedBy

LEMMA AlignedLast ==
  ASSUME NEW f \in Seq(Frame), NEW t \in Seq(Number), NEW k \in Nat, AlignedBy(f, t, k), f # <<>>
  PROVE  t # <<>> /\ Last(t) = Last(f).n
<1>1. Len(f) \in Nat \ {0} /\ Len(t) = Len(f) + k /\ \A i \in 1 .. Len(f) : f[i].n = t[i + k]
  BY Lengths DEF AlignedBy
<1>2. t # <<>>
  BY <1>1, Lengths
<1>3. Last(f) = f[Len(f)] /\ Last(t) = t[Len(t)]
  BY <1>2, Tails
<1> QED
  BY <1>1, <1>2, <1>3

LEMMA AlignedDrop ==
  ASSUME NEW f \in Seq(Frame), NEW t \in Seq(Number), AlignedBy(f, t, 0), NEW j \in 0 .. Len(f)
  PROVE  AlignedBy(Drop(f, j), Drop(t, j), 0)
<1>1. Len(f) \in Nat /\ Len(t) = Len(f) /\ \A i \in 1 .. Len(f) : f[i].n = t[i]
  BY Lengths DEF AlignedBy
<1>2. /\ Len(Drop(f, j)) = Len(f) - j /\ Len(Drop(t, j)) = Len(f) - j
      /\ \A i \in 1 .. (Len(f) - j) : Drop(f, j)[i] = f[i + j] /\ Drop(t, j)[i] = t[i + j]
  <2>1. /\ Len(Drop(f, j)) = Len(f) - j
        /\ \A i \in 1 .. (Len(f) - j) : Drop(f, j)[i] = f[i + j]
    BY Drops
  <2>2. j \in 0 .. Len(t)
    BY <1>1
  <2>3. /\ Len(Drop(t, j)) = Len(t) - j
        /\ \A i \in 1 .. (Len(t) - j) : Drop(t, j)[i] = t[i + j]
    BY <2>2, Drops
  <2> QED
    BY <1>1, <2>1, <2>3
<1>3. ASSUME NEW i \in 1 .. (Len(f) - j)
      PROVE  Drop(f, j)[i].n = Drop(t, j)[i + 0]
  <2> DEFINE a == i + j
  <2>1. a \in 1 .. Len(f) /\ i + 0 = i
    BY <1>1
  <2>2. Drop(f, j)[i] = f[a] /\ Drop(t, j)[i] = t[a]
    BY <1>2
  <2> HIDE DEF a
  <2> QED
    BY <1>1, <2>1, <2>2
<1> QED
  BY <1>1, <1>2, <1>3 DEF AlignedBy

(* The older times are lost first. *)
LEMMA AlignedPush ==
  ASSUME NEW f \in Seq(Frame), NEW t \in Seq(Number), NEW k \in Nat, AlignedBy(f, t, k),
         Len(f) <= MaxBuffer, Len(t) <= MaxBuffer, NEW e \in Frame
  PROVE  LET j == k + Lost(f) - Lost(t)
         IN j \in Nat /\ (k = 0 => j = 0) /\ AlignedBy(Push(f, e), Push(t, e.n), j)
<1> DEFINE j == k + Lost(f) - Lost(t)
           g == Push(f, e)
           u == Push(t, e.n)
<1>1. e.n \in Number /\ Len(f) \in Nat /\ Len(t) \in Nat /\ MaxBuffer \in Nat
  BY VideoAssumption, Lengths DEF Frame
<1>2. Len(t) = Len(f) + k /\ \A i \in 1 .. Len(f) : f[i].n = t[i + k]
  BY DEF AlignedBy
<1>3. j \in Nat /\ (k = 0 => j = 0) /\ Lost(f) \in {0, 1} /\ Lost(t) \in {0, 1}
  BY <1>1, <1>2 DEF Lost
<1>4. /\ Len(g) = Len(f) + 1 - Lost(f)
      /\ \A i \in 1 .. (Len(f) - Lost(f)) : g[i] = f[i + Lost(f)]
      /\ g[Len(f) + 1 - Lost(f)] = e
  BY Pushes
<1>5. /\ Len(u) = Len(t) + 1 - Lost(t)
      /\ \A i \in 1 .. (Len(t) - Lost(t)) : u[i] = t[i + Lost(t)]
      /\ u[Len(t) + 1 - Lost(t)] = e.n
  BY <1>1, Pushes
<1> HIDE DEF g, u
<1>6. ASSUME NEW i \in 1 .. (Len(f) - Lost(f))
      PROVE  g[i].n = u[i + j]
  <2> DEFINE a == i + Lost(f)
             b == i + j
  <2>1. a \in 1 .. Len(f) /\ b \in 1 .. (Len(t) - Lost(t)) /\ b + Lost(t) = a + k
    <3>1. i \in Nat \ {0} /\ i + Lost(f) <= Len(f) /\ Lost(f) \in Int /\ Lost(t) \in Int
      BY <1>1, <1>3
    <3>2. a \in 1 .. Len(f)
      BY <1>1, <1>3, <3>1
    <3>3. b + Lost(t) = a + k
      BY <3>1
    <3>4. b \in Nat \ {0}
      BY <1>3, <3>1
    <3>5. b + Lost(t) <= Len(t)
      BY <1>1, <1>2, <3>2, <3>3
    <3> QED
      BY <1>1, <3>1, <3>2, <3>3, <3>4, <3>5
  <2>2. g[i] = f[a]
    BY <1>4
  <2> HIDE DEF a, j
  <2>3. f[a].n = t[a + k]
    BY <1>2, <2>1
  <2> HIDE DEF b
  <2>4. u[b] = t[b + Lost(t)]
    BY <1>5, <2>1
  <2> QED
    BY <2>1, <2>2, <2>3, <2>4 DEF b
<1>7. Len(f) + 1 - Lost(f) + j = Len(t) + 1 - Lost(t)
  <2>1. Len(t) = Len(f) + k /\ Lost(f) \in Int /\ Lost(t) \in Int /\ j = k + Lost(f) - Lost(t)
    BY <1>2, <1>3
  <2> QED
    BY ONLY <1>1, <2>1, k \in Nat
<1>8. \A i \in 1 .. (Len(f) + 1 - Lost(f)) :
        i \in 1 .. (Len(f) - Lost(f)) \/ i = Len(f) + 1 - Lost(f)
  BY <1>1, <1>3
<1>9. Len(u) = Len(g) + j
  BY <1>4, <1>5, <1>7
<1>10. \A i \in 1 .. Len(g) : g[i].n = u[i + j]
  BY <1>4, <1>5, <1>6, <1>7, <1>8
<1> QED
  BY <1>3, <1>9, <1>10 DEF AlignedBy, g, u

-----------------------------------------------------------------------------
(* What picking a frame does *)

(* Which frames an adaptive ratio skips. *)
Skipped == IF Len(buffer) > Target + 1 THEN Len(buffer) - Target - 1 ELSE 0

LEMMA SkippedIsPart ==
  ASSUME TypeOK, buffer # <<>>
  PROVE  /\ Skipped \in 0 .. Len(buffer) /\ Len(buffer) - Skipped > 0
         /\ Drop(buffer, Skipped) \in Seq(Frame) /\ Drop(buffer, Skipped) # <<>>
<1>1. Len(buffer) \in Nat \ {0} /\ Target \in Nat
  BY Lengths, VideoAssumption DEF TypeOK
<1>2. Skipped \in 0 .. Len(buffer) /\ Len(buffer) - Skipped > 0
  BY <1>1 DEF Skipped
<1>3. Drop(buffer, Skipped) \in Seq(Frame) /\ Len(Drop(buffer, Skipped)) = Len(buffer) - Skipped
  BY <1>2, Drops DEF TypeOK
<1>4. Drop(buffer, Skipped) # <<>>
  BY <1>2, <1>3, Lengths
<1> QED
  BY <1>2, <1>3, <1>4

(* Some of the frames of the buffer. *)
From(q) == \A i \in DOMAIN q : \E j \in DOMAIN buffer : q[i] = buffer[j]

LEMMA TailFrom ==
  ASSUME NEW q \in Seq(Frame), q # <<>>, From(q), Len(q) <= MaxBuffer
  PROVE  /\ Head(q) \in Frame /\ \E j \in DOMAIN buffer : Head(q) = buffer[j]
         /\ Tail(q) \in Seq(Frame) /\ From(Tail(q)) /\ Len(Tail(q)) <= MaxBuffer
<1>1. MaxBuffer \in Nat
  BY VideoAssumption
<1>2. /\ Tail(q) \in Seq(Frame) /\ Len(q) \in Nat \ {0} /\ Len(Tail(q)) = Len(q) - 1
      /\ \A i \in 1 .. (Len(q) - 1) : Tail(q)[i] = q[i + 1]
      /\ Head(q) = q[1] /\ Head(q) \in Frame
  BY Tails
<1>3. DOMAIN q = 1 .. Len(q) /\ DOMAIN Tail(q) = 1 .. (Len(q) - 1)
  BY <1>2, Lengths
<1>4. 1 \in DOMAIN q /\ \A i \in DOMAIN Tail(q) : i + 1 \in DOMAIN q /\ Tail(q)[i] = q[i + 1]
  BY <1>2, <1>3
<1>5. From(Tail(q)) /\ \E j \in DOMAIN buffer : Head(q) = buffer[j]
  BY <1>2, <1>4 DEF From
<1> QED
  BY <1>1, <1>2, <1>5

LEMMA Times ==
  ASSUME NEW t \in Seq(Number), Len(t) <= MaxBuffer
  PROVE  /\ t # <<>> => /\ Head(t) \in Number /\ Last(t) \in Number
                        /\ Tail(t) \in Seq(Number) /\ Len(Tail(t)) <= MaxBuffer
         /\ \A k \in Nat : Drop(t, k) \in Seq(Number) /\ Len(Drop(t, k)) <= MaxBuffer
<1>1. MaxBuffer \in Nat /\ Len(t) \in Nat
  BY VideoAssumption, Lengths
<1>2. ASSUME NEW k \in Nat
      PROVE  Drop(t, k) \in Seq(Number) /\ Len(Drop(t, k)) <= MaxBuffer
  BY <1>1, DropType
<1>3. ASSUME t # <<>>
      PROVE  /\ Head(t) \in Number /\ Last(t) \in Number
             /\ Tail(t) \in Seq(Number) /\ Len(Tail(t)) <= MaxBuffer
  BY <1>1, <1>3, Tails
<1> QED
  BY <1>2, <1>3

(* What is left in the buffer and what is shown were in it. *)
LEMMA Picked ==
  ASSUME TypeOK, GetFrame
  PROVE  /\ frame' \in Frame /\ \E j \in DOMAIN buffer : frame' = buffer[j]
         /\ buffer' \in Seq(Frame) /\ From(buffer') /\ Len(buffer') <= MaxBuffer
         /\ stamps' \in Seq(Number) /\ Len(stamps') <= MaxBuffer
         /\ stamp' \in Number \cup {None}
<1>1. /\ buffer \in Seq(Frame) /\ buffer # <<>> /\ Len(buffer) <= MaxBuffer
      /\ stamps \in Seq(Number) /\ Len(stamps) <= MaxBuffer
      /\ stamp \in Number \cup {None} /\ ratio \in {"oldest", "newest", "adaptive"}
      /\ MaxBuffer \in Nat \ {0}
  BY VideoAssumption DEF TypeOK, GetFrame
<1>2. From(buffer) /\ <<>> \in Seq(Frame) /\ <<>> \in Seq(Number)
      /\ Len(<<>>) <= MaxBuffer /\ From(<<>>)
  BY <1>1, EmptySeq DEF From
<1>3. CASE ratio = "oldest"
  <2>1. PickOldest
    BY <1>3 DEF GetFrame
  <2>2. stamps' \in Seq(Number) /\ Len(stamps') <= MaxBuffer /\ stamp' \in Number \cup {None}
    BY <1>1, <1>2, <2>1, Times DEF PickOldest
  <2> QED
    BY <1>1, <1>2, <2>1, <2>2, TailFrom DEF PickOldest
<1>4. CASE ratio = "newest"
  <2>1. PickNewest
    BY <1>4 DEF GetFrame
  <2>2. stamps' \in Seq(Number) /\ Len(stamps') <= MaxBuffer /\ stamp' \in Number \cup {None}
    BY <1>1, <1>2, <2>1, Times DEF PickNewest
  <2>3. Last(buffer) = buffer[Len(buffer)] /\ Last(buffer) \in Frame /\ Len(buffer) \in DOMAIN buffer
    BY <1>1, Tails, Lengths
  <2> QED
    BY <1>1, <1>2, <2>1, <2>2, <2>3 DEF PickNewest
<1>5. CASE ratio = "adaptive"
  <2> DEFINE frames == Drop(buffer, Skipped)
             times == Drop(stamps, Skipped)
  <2>1. /\ frame' = Head(frames) /\ buffer' = Tail(frames)
        /\ stamp' = IF times = <<>> THEN stamp ELSE Head(times)
        /\ stamps' = Drop(times, 1)
    BY <1>5 DEF GetFrame, PickAdaptive, Skipped
  <2>2. Skipped \in 0 .. Len(buffer) /\ Skipped \in Nat /\ Len(buffer) \in Nat
        /\ frames \in Seq(Frame) /\ frames # <<>>
    BY <1>1, SkippedIsPart, Lengths
  <2>3. times \in Seq(Number) /\ Len(times) <= MaxBuffer
    BY <1>1, <2>2, Times
  <2>4. Len(frames) = Len(buffer) - Skipped
        /\ \A i \in 1 .. (Len(buffer) - Skipped) : frames[i] = buffer[i + Skipped]
    BY <1>1, <2>2, Drops
  <2>5. DOMAIN frames = 1 .. Len(frames) /\ DOMAIN buffer = 1 .. Len(buffer)
    BY <1>1, <2>2, Lengths
  <2> HIDE DEF frames, times
  <2>6. Len(frames) <= MaxBuffer
    BY <1>1, <2>2, <2>4
  <2>7. From(frames)
    <3>1. ASSUME NEW i \in DOMAIN frames
          PROVE  i + Skipped \in DOMAIN buffer /\ frames[i] = buffer[i + Skipped]
      BY <2>2, <2>4, <2>5
    <3> QED
      BY <3>1 DEF From
  <2>8. stamps' \in Seq(Number) /\ Len(stamps') <= MaxBuffer /\ stamp' \in Number \cup {None}
    BY <1>1, <2>1, <2>3, Times
  <2> QED
    BY <2>1, <2>2, <2>6, <2>7, <2>8, TailFrom
<1> QED
  BY <1>1, <1>3, <1>4, <1>5

(* The time that is taken is that of the frame, and the rest stays paired. *)
LEMMA PickedTidy ==
  ASSUME TypeOK, GetFrame, Aligned
  PROVE  Aligned' /\ stamp' = frame'.n
<1>1. /\ buffer \in Seq(Frame) /\ buffer # <<>> /\ stamps \in Seq(Number) /\ ratio' = ratio
      /\ ratio \in {"oldest", "newest", "adaptive"}
  BY DEF TypeOK, GetFrame
<1>2. PICK k \in Nat : AlignedBy(buffer, stamps, k) /\ (ratio # "newest" => k = 0)
  BY DEF Aligned
<1>3. CASE ratio = "oldest"
  <2>1. PickOldest
    BY <1>3 DEF GetFrame
  <2>2. stamps # <<>> /\ Head(stamps) = Head(buffer).n /\ AlignedBy(Tail(buffer), Tail(stamps), 0)
    BY <1>1, <1>2, <1>3, AlignedHead
  <2>3. AlignedBy(buffer', stamps', 0) /\ stamp' = frame'.n
    BY <2>1, <2>2 DEF PickOldest
  <2> QED
    BY <2>3 DEF Aligned
<1>4. CASE ratio = "newest"
  <2>1. PickNewest
    BY <1>4 DEF GetFrame
  <2>2. stamps # <<>> /\ Last(stamps) = Last(buffer).n
    BY <1>1, <1>2, AlignedLast
  <2>3. stamp' = frame'.n /\ buffer' = <<>> /\ stamps' = <<>>
    BY <2>1, <2>2 DEF PickNewest
  <2>4. AlignedBy(<<>>, <<>>, 0)
    BY EmptySeq DEF AlignedBy
  <2> QED
    BY <2>3, <2>4 DEF Aligned
<1>5. CASE ratio = "adaptive"
  <2> DEFINE frames == Drop(buffer, Skipped)
             times == Drop(stamps, Skipped)
  <2>1. /\ frame' = Head(frames) /\ buffer' = Tail(frames)
        /\ stamp' = IF times = <<>> THEN stamp ELSE Head(times)
        /\ stamps' = Drop(times, 1)
    BY <1>5 DEF GetFrame, PickAdaptive, Skipped
  <2>2. /\ Skipped \in 0 .. Len(buffer) /\ Skipped \in Nat
        /\ frames \in Seq(Frame) /\ frames # <<>>
    BY <1>1, SkippedIsPart, Lengths
  <2>3. AlignedBy(frames, times, 0) /\ times \in Seq(Number)
    BY <1>1, <1>2, <1>5, <2>2, AlignedDrop, DropType
  <2>4. times # <<>> /\ Head(times) = Head(frames).n /\ AlignedBy(Tail(frames), Tail(times), 0)
    BY <2>2, <2>3, AlignedHead
  <2>5. Drop(times, 1) = Tail(times)
    BY <2>3, <2>4, TailIsDrop
  <2> HIDE DEF frames, times
  <2>6. AlignedBy(buffer', stamps', 0) /\ stamp' = frame'.n
    BY <2>1, <2>4, <2>5
  <2> QED
    BY <2>6 DEF Aligned
<1> QED
  BY <1>1, <1>3, <1>4, <1>5

-----------------------------------------------------------------------------
(* The other operations on the frames *)

(* A frame of an earlier stream is the same frame. *)
LEMMA Reopened ==
  ASSUME TypeOK, Open
  PROVE  /\ buffer' \in Seq(Frame) /\ Len(buffer') = Len(buffer)
         /\ \A i \in 1 .. Len(buffer) : buffer'[i].n = buffer[i].n
         /\ frame' \in Frame \cup {None}
         /\ frame' # None => frame # None /\ frame'.n = frame.n
<1>1. ASSUME NEW f \in Frame
      PROVE  Outdated(f) \in Frame /\ Outdated(f).n = f.n
  BY DEF Outdated, Frame
<1>2. /\ buffer \in Seq(Frame) /\ Len(buffer) \in Nat /\ DOMAIN buffer = 1 .. Len(buffer)
      /\ \A i \in 1 .. Len(buffer) : buffer[i] \in Frame
      /\ frame \in Frame \cup {None} /\ frame' = Outdated(frame)
      /\ buffer' = [i \in DOMAIN buffer |-> Outdated(buffer[i])]
  BY Lengths DEF TypeOK, Open
<1>3. buffer' \in [1 .. Len(buffer) -> Frame]
      /\ \A i \in 1 .. Len(buffer) : buffer'[i].n = buffer[i].n
  BY <1>1, <1>2
<1>4. buffer' \in Seq(Frame) /\ Len(buffer') = Len(buffer)
  <2>1. buffer' \in Seq(Frame)
    BY <1>2, <1>3, SeqDef
  <2>2. DOMAIN buffer' = 1 .. Len(buffer') /\ DOMAIN buffer' = 1 .. Len(buffer) /\ Len(buffer') \in Nat
    BY <1>3, <2>1, Lengths
  <2> QED
    BY <1>2, <2>1, <2>2
<1>5. Outdated(None) = None
  BY DEF Outdated
<1> QED
  BY <1>1, <1>2, <1>3, <1>4, <1>5

(* A new frame comes last, and so does its time. *)
LEMMA Updated ==
  ASSUME TypeOK, Update
  PROVE  /\ next' \in Number
         /\ buffer' \in Seq(Frame) /\ Len(buffer') <= MaxBuffer
         /\ stamps' \in Seq(Number) /\ Len(stamps') <= MaxBuffer
         /\ Aligned /\ ratio' = ratio => Aligned'
         /\ (\A i \in DOMAIN buffer : buffer[i].current)
              => \A i \in DOMAIN buffer' : buffer'[i].current
<1> DEFINE e == [n |-> next, current |-> TRUE]
<1>1. /\ buffer \in Seq(Frame) /\ Len(buffer) <= MaxBuffer
      /\ stamps \in Seq(Number) /\ Len(stamps) <= MaxBuffer
      /\ next \in Number /\ e \in Frame /\ e.n = next /\ e.current
  BY DEF TypeOK, Frame
<1>2. buffer' = Push(buffer, e) /\ stamps' = Push(stamps, e.n) /\ next' = (next + 1) % Frames
  BY DEF Update
<1> HIDE DEF e
<1>3. next' \in Number
  BY <1>1, <1>2, NumberIsNat
<1>4. /\ buffer' \in Seq(Frame) /\ Lost(buffer) \in {0, 1}
      /\ Len(buffer') = Len(buffer) + 1 - Lost(buffer) /\ Len(buffer') <= MaxBuffer
      /\ \A i \in 1 .. (Len(buffer) - Lost(buffer)) : buffer'[i] = buffer[i + Lost(buffer)]
      /\ buffer'[Len(buffer) + 1 - Lost(buffer)] = e
  <2>1. /\ Push(buffer, e) \in Seq(Frame) /\ Lost(buffer) \in {0, 1}
        /\ Len(Push(buffer, e)) = Len(buffer) + 1 - Lost(buffer) /\ Len(Push(buffer, e)) <= MaxBuffer
        /\ \A i \in 1 .. (Len(buffer) - Lost(buffer)) : Push(buffer, e)[i] = buffer[i + Lost(buffer)]
        /\ Push(buffer, e)[Len(buffer) + 1 - Lost(buffer)] = e
    BY <1>1, Pushes
  <2> QED
    BY <1>2, <2>1
<1>5. stamps' \in Seq(Number) /\ Len(stamps') <= MaxBuffer
  BY <1>1, <1>2, Pushes
<1>6. ASSUME Aligned, ratio' = ratio
      PROVE  Aligned'
  <2>1. PICK k \in Nat : AlignedBy(buffer, stamps, k) /\ (ratio # "newest" => k = 0)
    BY <1>6 DEF Aligned
  <2>2. PICK j \in Nat : (k = 0 => j = 0) /\ AlignedBy(buffer', stamps', j)
    BY <1>1, <1>2, <2>1, AlignedPush
  <2> QED
    BY <1>6, <2>1, <2>2 DEF Aligned
<1>7. ASSUME \A i \in DOMAIN buffer : buffer[i].current, NEW i \in DOMAIN buffer'
      PROVE  buffer'[i].current
  <2>1. /\ DOMAIN buffer = 1 .. Len(buffer) /\ DOMAIN buffer' = 1 .. Len(buffer')
        /\ Len(buffer) \in Nat /\ Len(buffer') \in Nat
    BY <1>1, <1>4, Lengths
  <2>2. \/ i \in 1 .. (Len(buffer) - Lost(buffer)) /\ i + Lost(buffer) \in DOMAIN buffer
        \/ i = Len(buffer) + 1 - Lost(buffer)
    BY <1>4, <2>1
  <2> QED
    BY <1>1, <1>4, <1>7, <2>2
<1> QED
  BY <1>3, <1>4, <1>5, <1>6, <1>7

(* Cleared frames leave their times behind. *)
LEMMA ClearedTidy ==
  ASSUME TypeOK, Aligned, ~unpaired', Clear, stamps' = stamps, ratio' = ratio
  PROVE  Aligned'
<1>1. PICK k \in Nat : AlignedBy(buffer, stamps, k) /\ (ratio # "newest" => k = 0)
  BY DEF Aligned
<1>2. buffer' = <<>> /\ (ratio # "newest" => buffer = <<>>)
  BY DEF Clear
<1>3. Len(stamps) \in Nat /\ Len(buffer) \in Nat /\ Len(<<>>) = 0
      /\ buffer = <<>> <=> Len(buffer) = 0
  BY Lengths, EmptySeq DEF TypeOK
<1>4. Len(stamps) = Len(buffer) + k
  BY <1>1 DEF AlignedBy
<1>5. AlignedBy(<<>>, stamps, Len(stamps))
  BY <1>3 DEF AlignedBy
<1>6. ratio # "newest" => Len(stamps) = 0
  BY <1>1, <1>2, <1>3, <1>4
<1> QED
  BY <1>2, <1>3, <1>5, <1>6 DEF Aligned

-----------------------------------------------------------------------------
(* The invariant, one conjunct at a time *)

LEMMA TypeInit == Init => TypeOK
<1> SUFFICES ASSUME Init
             PROVE  TypeOK
  OBVIOUS
<1>1. <<>> \in Seq(Frame) /\ <<>> \in Seq(Number) /\ Len(<<>>) = 0
  BY EmptySeq
<1>2. 0 \in Number /\ MaxBuffer \in Nat /\ 0 \in 0 .. MaxOld + 1
  BY VideoAssumption, NumberIsNat DEF Number
<1>3. buffer = <<>> /\ stamps = <<>> /\ old = 0 /\ next = 0 /\ frame = None /\ stamp = None
  BY DEF Init
<1>4. buffer \in Seq(Frame) /\ Len(buffer) = 0 /\ stamps \in Seq(Number) /\ Len(stamps) = 0
  BY <1>1, <1>3, Zenon
<1>5. /\ Len(buffer) <= MaxBuffer /\ Len(stamps) <= MaxBuffer
      /\ old \in 0 .. MaxOld + 1 /\ next \in Number
  BY <1>2, <1>3, <1>4
<1>6. /\ backend \in {"pyav", "proxy", "gst"} /\ ratio \in {"oldest", "newest", "adaptive"}
      /\ phase \in {"new", "open", "play", "clear", "end", "done"}
      /\ running \in BOOLEAN /\ asked \in BOOLEAN
      /\ streaming \in BOOLEAN /\ behind \in BOOLEAN /\ latest \in BOOLEAN
      /\ frame \in Frame \cup {None} /\ stamp \in Number \cup {None}
      /\ forward \in Port \cup {None} /\ sdp \in Port \cup {None} /\ listening \in Port \cup {None}
      /\ lost \in BOOLEAN /\ late \in BOOLEAN /\ unpaired \in BOOLEAN
  BY DEF Init
<1> QED
  BY <1>4, <1>5, <1>6 DEF TypeOK

(* The types of the frames and of everything else. *)
FramesTyped ==
  /\ buffer \in Seq(Frame) /\ Len(buffer) <= MaxBuffer
  /\ stamps \in Seq(Number) /\ Len(stamps) <= MaxBuffer
  /\ frame \in Frame \cup {None} /\ stamp \in Number \cup {None}

RestTyped ==
  /\ backend \in {"pyav", "proxy", "gst"} /\ ratio \in {"oldest", "newest", "adaptive"}
  /\ phase \in {"new", "open", "play", "clear", "end", "done"}
  /\ running \in BOOLEAN /\ asked \in BOOLEAN
  /\ streaming \in BOOLEAN /\ behind \in BOOLEAN /\ latest \in BOOLEAN
  /\ old \in 0 .. MaxOld + 1 /\ next \in Number
  /\ forward \in Port \cup {None} /\ sdp \in Port \cup {None} /\ listening \in Port \cup {None}
  /\ lost \in BOOLEAN /\ late \in BOOLEAN /\ unpaired \in BOOLEAN

LEMMA Typed == TypeOK <=> FramesTyped /\ RestTyped
  BY DEF TypeOK, FramesTyped, RestTyped

LEMMA FramesTypedStep ==
  ASSUME TypeOK, [Next]_vars
  PROVE  FramesTyped'
<1>1. CASE UNCHANGED picture
  <2>1. buffer' = buffer /\ stamps' = stamps /\ frame' = frame /\ stamp' = stamp
    BY <1>1 DEF picture
  <2> QED
    BY <2>1 DEF TypeOK, FramesTyped
<1>2. CASE GetFrame
  BY <1>2, Picked DEF FramesTyped
<1>3. CASE Open
  <2>1. stamps' = stamps /\ stamp' = stamp
    BY <1>3 DEF Open
  <2> QED
    BY <1>3, <2>1, Reopened DEF TypeOK, FramesTyped
<1>4. CASE Decode \/ LateSample
  <2>1. Update /\ frame' = frame /\ stamp' = stamp
    BY <1>4 DEF Decode, LateSample
  <2> QED
    BY <2>1, Updated DEF TypeOK, FramesTyped
<1>5. CASE CheckTimeout \/ ClearFrames
  <2>1. buffer' = <<>> /\ frame' = None /\ stamps' = stamps /\ stamp' = stamp
    BY <1>5 DEF CheckTimeout, ClearFrames, Clear
  <2>2. buffer' \in Seq(Frame) /\ Len(buffer') = 0
    BY <2>1, EmptySeq, Zenon
  <2>3. Len(buffer') <= MaxBuffer
    BY <2>2, VideoAssumption
  <2> QED
    BY <2>1, <2>2, <2>3 DEF TypeOK, FramesTyped
<1> QED
  BY <1>1, <1>2, <1>3, <1>4, <1>5
     DEF Next, vars, StartSending, StopSending, Stop, Run, OpenFails, DropOld, StreamEnds,
         CloseStream, Leave

LEMMA RestTypedStep ==
  ASSUME TypeOK, [Next]_vars
  PROVE  RestTyped'
<1>1. RestTyped /\ MaxOld \in Nat
  BY Typed, VideoAssumption
<1>2. CASE UNCHANGED vars
  BY <1>1, <1>2 DEF RestTyped, vars, stream, ports, history
<1>3. CASE StartSending
  <2>1. streaming' \in BOOLEAN /\ behind' \in BOOLEAN
    BY <1>1, <1>3, Zenon DEF RestTyped, StartSending
  <2>2. UNCHANGED <<backend, ratio, phase, running, asked, latest, old, next, ports, history>>
    BY <1>3 DEF StartSending
  <2> QED
    BY <1>1, <2>1, <2>2 DEF RestTyped, ports, history
<1>14. CASE StopSending
  <2>1. streaming' \in BOOLEAN
    BY <1>14, Zenon DEF StopSending
  <2>2. UNCHANGED <<backend, ratio, phase, running, asked, behind, latest, old, next, ports, history>>
    BY <1>14 DEF StopSending
  <2> QED
    BY <1>1, <2>1, <2>2 DEF RestTyped, ports, history
<1>4. CASE Stop
  <2>1. asked' \in BOOLEAN /\ running' \in BOOLEAN /\ lost' \in BOOLEAN
    BY <1>4, Zenon DEF Stop
  <2>2. UNCHANGED <<backend, ratio, phase, stream, ports, late, unpaired>>
    BY <1>4 DEF Stop
  <2> QED
    BY <1>1, <2>1, <2>2 DEF RestTyped, stream, ports
<1>5. CASE GetFrame
  BY <1>1, <1>5 DEF RestTyped, GetFrame, stream, ports, history
<1>6. CASE Run
  BY <1>1, <1>6 DEF RestTyped, Run, stream, history
<1>7. CASE Open
  <2>1. /\ phase' = "play" /\ latest' = FALSE /\ behind' = FALSE /\ old' = 0 /\ listening' = sdp
        /\ UNCHANGED <<backend, ratio, running, asked, streaming, next, forward, sdp, history>>
    BY <1>7 DEF Open
  <2>2. old' \in 0 .. MaxOld + 1
    BY <1>1, <2>1
  <2> QED
    BY <1>1, <2>1, <2>2 DEF RestTyped, history
<1>8. CASE OpenFails
  BY <1>1, <1>8 DEF RestTyped, OpenFails, RefreshLocalPort, stream, history
<1>9. CASE Decode
  <2>1. next' \in Number
    BY <1>9, Updated DEF Decode
  <2> QED
    BY <1>1, <1>9, <2>1 DEF RestTyped, Decode, ports, history
<1>10. CASE DropOld
  BY <1>1, <1>10 DEF RestTyped, DropOld, ports, history
<1>11. CASE StreamEnds \/ CloseStream \/ Leave
  BY <1>1, <1>11 DEF RestTyped, StreamEnds, CloseStream, Leave, stream, ports, history
<1>12. CASE CheckTimeout \/ ClearFrames
  BY <1>1, <1>12 DEF RestTyped, CheckTimeout, ClearFrames, Clear, stream, ports
<1>13. CASE LateSample
  <2>1. next' \in Number
    BY <1>13, Updated DEF LateSample
  <2> QED
    BY <1>1, <1>13, <2>1 DEF RestTyped, LateSample, ports
<1> QED
  BY <1>2, <1>3, <1>4, <1>5, <1>6, <1>7, <1>8, <1>9, <1>10, <1>11, <1>12, <1>13, <1>14 DEF Next

LEMMA TypeStep == TypeOK /\ [Next]_vars => TypeOK'
  BY FramesTypedStep, RestTypedStep, Typed, PTL

LEMMA TidyStep ==
  ASSUME TypeOK, Tidy, [Next]_vars
  PROVE  Tidy'
<1> SUFFICES ASSUME ~unpaired'
             PROVE  Aligned' /\ Paired'
  BY DEF Tidy
<1>1. ~unpaired /\ ratio' = ratio
  <2>1. CASE CheckTimeout \/ ClearFrames
    BY <2>1 DEF CheckTimeout, ClearFrames, Clear
  <2>2. CASE ~(CheckTimeout \/ ClearFrames)
    <3>1. unpaired' = unpaired /\ ratio' = ratio
      BY <2>2 DEF Next, vars, history, StartSending, StopSending, Stop, GetFrame, Run, Open, OpenFails,
                  Decode, DropOld, StreamEnds, LateSample, CloseStream, Leave
    <3> QED
      BY <3>1
  <2> QED
    BY <2>1, <2>2
<1>2. Aligned /\ Paired
  BY <1>1 DEF Tidy
<1>3. CASE UNCHANGED picture
  BY <1>1, <1>2, <1>3 DEF Aligned, Paired, picture
<1>4. CASE GetFrame
  BY <1>2, <1>4, PickedTidy DEF Paired
<1>5. CASE Open
  <2>1. /\ Len(buffer') = Len(buffer) /\ stamps' = stamps /\ stamp' = stamp
        /\ \A i \in 1 .. Len(buffer) : buffer'[i].n = buffer[i].n
        /\ frame' # None => frame # None /\ frame'.n = frame.n
    BY <1>5, Reopened DEF Open
  <2> QED
    BY <1>1, <1>2, <2>1 DEF Aligned, AlignedBy, Paired
<1>6. CASE Decode \/ LateSample
  <2>1. Update /\ frame' = frame /\ stamp' = stamp
    BY <1>6 DEF Decode, LateSample
  <2> QED
    BY <1>1, <1>2, <2>1, Updated DEF Paired
<1>7. CASE CheckTimeout \/ ClearFrames
  <2>1. Clear /\ stamps' = stamps /\ frame' = None
    BY <1>7 DEF CheckTimeout, ClearFrames, Clear
  <2> QED
    BY <1>1, <1>2, <2>1, ClearedTidy DEF Paired
<1> QED
  BY <1>3, <1>4, <1>5, <1>6, <1>7
     DEF Next, vars, StartSending, StopSending, Stop, Run, OpenFails, DropOld, StreamEnds,
         CloseStream, Leave

LEMMA BlankStep ==
  ASSUME TypeOK, Blank, [Next]_vars
  PROVE  Blank'
<1> SUFFICES ASSUME ~late', phase' \notin {"play", "clear"}
             PROVE  frame' = None /\ buffer' = <<>>
  BY DEF Blank
<1>1. CASE ClearFrames \/ CheckTimeout
  BY <1>1 DEF ClearFrames, CheckTimeout, Clear
<1>2. CASE ~(ClearFrames \/ CheckTimeout)
  <2>1. /\ ~late /\ phase \notin {"play", "clear"} /\ UNCHANGED <<frame, buffer>>
        \/ GetFrame
    BY <1>2 DEF Next, vars, picture, history, StartSending, StopSending, Stop, Run, Open, OpenFails,
                Decode, DropOld, StreamEnds, LateSample, CloseStream, Leave, Playing
  <2>2. CASE GetFrame
    BY <2>2 DEF Blank, GetFrame, history
  <2> QED
    BY <2>1, <2>2 DEF Blank
<1> QED
  BY <1>1, <1>2

LEMMA CurrentStep ==
  ASSUME TypeOK, Blank, Current, [Next]_vars
  PROVE  Current'
<1> SUFFICES ASSUME ~late'
             PROVE  /\ frame' # None => frame'.current
                    /\ \A i \in DOMAIN buffer' : buffer'[i].current
  BY DEF Current
<1>1. ~late
  BY DEF Next, vars, history, StartSending, StopSending, Stop, GetFrame, Run, Open, OpenFails, Decode,
         DropOld, StreamEnds, CheckTimeout, ClearFrames, LateSample, CloseStream, Leave, Clear
<1>2. /\ frame # None => frame.current
      /\ \A i \in DOMAIN buffer : buffer[i].current
  BY <1>1 DEF Current
<1>3. CASE UNCHANGED <<frame, buffer>>
  BY <1>2, <1>3
<1>4. CASE GetFrame
  BY <1>2, <1>4, Picked DEF From
<1>5. CASE Open
  <2>1. frame = None /\ buffer = <<>>
    BY <1>1, <1>5 DEF Blank, Open
  <2>2. frame' = None
    BY <1>5, <2>1 DEF Open, Outdated
  <2>3. DOMAIN buffer' = {}
    BY <1>5, <2>1, EmptySeq DEF Open
  <2> QED
    BY <2>2, <2>3
<1>6. CASE Decode
  BY <1>2, <1>6, Updated DEF Decode
<1>7. CASE CheckTimeout \/ ClearFrames
  <2>1. frame' = None /\ buffer' = <<>>
    BY <1>7 DEF CheckTimeout, ClearFrames, Clear
  <2>2. DOMAIN buffer' = {}
    BY <2>1, EmptySeq
  <2> QED
    BY <2>1, <2>2
<1>8. ~LateSample
  BY DEF LateSample
<1> QED
  BY <1>3, <1>4, <1>5, <1>6, <1>7, <1>8
     DEF Next, vars, picture, StartSending, StopSending, Stop, Run, OpenFails, DropOld, StreamEnds,
         CloseStream, Leave

LEMMA VideoInit == Init => VideoInv
<1> SUFFICES ASSUME Init
             PROVE  VideoInv
  OBVIOUS
<1>1. Len(<<>>) = 0 /\ DOMAIN <<>> = {}
  BY EmptySeq
<1>2. buffer = <<>> /\ stamps = <<>> /\ frame = None
  BY DEF Init
<1>3. AlignedBy(<<>>, <<>>, 0)
  BY <1>1 DEF AlignedBy
<1>4. Tidy
  BY <1>2, <1>3 DEF Tidy, Aligned, Paired
<1>5. Blank /\ Current
  BY <1>1, <1>2 DEF Blank, Current
<1> QED
  BY <1>4, <1>5, TypeInit DEF VideoInv

LEMMA VideoStep == VideoInv /\ [Next]_vars => VideoInv'
  BY TypeStep, TidyStep, BlankStep, CurrentStep DEF VideoInv

-----------------------------------------------------------------------------
(* Arithmetic of keys and axes *)

LEMMA MaxOfTwo ==
  ASSUME NEW a \in Int, NEW b \in Int
  PROVE  /\ Drive!Max({a, b}) = IF a >= b THEN a ELSE b
         /\ Drive!Min({a, b}) = IF a <= b THEN a ELSE b
BY DEF Drive!Max, Drive!Min

LEMMA Clamped ==
  ASSUME NEW v \in Int, NEW lo \in Int, NEW hi \in Int, lo <= hi
  PROVE  Drive!Clamp(v, lo, hi) = IF v > hi THEN hi ELSE IF v < lo THEN lo ELSE v
<1>1. Drive!Min({hi, v}) = (IF hi <= v THEN hi ELSE v) /\ Drive!Min({hi, v}) \in Int
  BY MaxOfTwo
<1>2. Drive!Max({lo, Drive!Min({hi, v})}) =
        IF lo >= Drive!Min({hi, v}) THEN lo ELSE Drive!Min({hi, v})
  BY <1>1, MaxOfTwo
<1> QED
  BY <1>1, <1>2 DEF Drive!Clamp

(* A part of a whole, in hundredths *)
LEMMA Share ==
  ASSUME NEW whole \in Nat \ {0}, NEW x \in 0 .. whole
  PROVE  /\ (x * 100) \div whole \in 0 .. 100
         /\ x = whole => (x * 100) \div whole = 100
         /\ x = 0 => (x * 100) \div whole = 0
<1> DEFINE q == (x * 100) \div whole
<1>1. q \in Int /\ whole * q <= x * 100 /\ x * 100 < whole * q + whole
  OBVIOUS
<1>2. q >= 0
  <2> SUFFICES ASSUME q <= -1
               PROVE  FALSE
    BY <1>1
  <2>1. whole * q <= whole * (-1)
    BY <1>1
  <2> QED
    BY <1>1, <2>1
<1>3. q <= 100
  <2> SUFFICES ASSUME q >= 101
               PROVE  FALSE
    BY <1>1
  <2>1. whole * q >= whole * 101
    BY <1>1
  <2> QED
    BY <1>1, <2>1
<1> QED
  BY <1>1, <1>2, <1>3

-----------------------------------------------------------------------------
(* The sum of the intervals between taps *)

Interval == MinTapInterval .. MaxInterval

LEMMA Least ==
  ASSUME NEW T \in SUBSET Nat, T # {}
  PROVE  \E x \in T : \A y \in T : x <= y
<1> DEFINE R == OpToRel(<, Nat)
<1>1. R = {ss \in Nat \X Nat : ss[1] < ss[2]}
  BY DEF OpToRel
<1>2. IsWellFoundedOn(R, Nat)
  BY NatLessThanWellFounded
<1>3. \A x, y \in Nat : <<y, x>> \in R <=> y < x
  BY <1>1
<1> HIDE DEF R
<1>4. PICK x \in T : \A y \in T : ~(<<y, x>> \in R)
  BY <1>2, WFMin
<1>5. ASSUME NEW y \in T
      PROVE  x <= y
  <2>1. x \in Nat /\ y \in Nat
    OBVIOUS
  <2>2. ~(y < x)
    BY <1>3, <1>4, <2>1
  <2> QED
    BY <2>1, <2>2
<1> QED
  BY <1>4, <1>5

(* What holds of 0 and of a number if it holds of the one before holds of  *)
(* all: else there were a least of which it does not.                      *)
LEMMA UpTo ==
  ASSUME NEW n \in Nat, NEW Good, 0 \in Good,
         \A m \in 1 .. n : m - 1 \in Good => m \in Good
  PROVE  \A m \in 0 .. n : m \in Good
<1> DEFINE Bad == {m \in 0 .. n : m \notin Good}
<1> SUFFICES ASSUME Bad # {}
             PROVE  FALSE
  OBVIOUS
<1>1. PICK m \in Bad : \A k \in Bad : m <= k
  <2>1. Bad \in SUBSET Nat
    OBVIOUS
  <2> QED
    BY <2>1, Least
<1>2. m \in 1 .. n /\ m - 1 \in 0 .. n /\ m - 1 \notin Bad
  BY <1>1
<1> QED
  BY <1>1, <1>2

PartialSum(list, m) ==
  \E f \in [0 .. m -> Int] : f[0] = 0 /\ \A i \in 1 .. m : f[i] = f[i - 1] + list[i]

LEMMA SumsExist ==
  ASSUME NEW list \in Seq(Interval)
  PROVE  PartialSum(list, Len(list))
<1>1. Len(list) \in Nat /\ \A i \in 1 .. Len(list) : list[i] \in Int
  BY Lengths, DriveAssumption DEF Interval
<1> DEFINE Good == {m \in 0 .. Len(list) : PartialSum(list, m)}
<1>2. 0 \in Good
  <2> DEFINE f == [i \in 0 .. 0 |-> 0]
  <2>1. f \in [0 .. 0 -> Int] /\ f[0] = 0 /\ \A i \in 1 .. 0 : f[i] = f[i - 1] + list[i]
    OBVIOUS
  <2> HIDE DEF f
  <2>2. PartialSum(list, 0)
    BY <2>1 DEF PartialSum
  <2> QED
    BY <1>1, <2>2
<1>3. ASSUME NEW m \in 1 .. Len(list), m - 1 \in Good
      PROVE  m \in Good
  <2>1. PICK f \in [0 .. (m - 1) -> Int] :
          f[0] = 0 /\ \A i \in 1 .. (m - 1) : f[i] = f[i - 1] + list[i]
    BY <1>3 DEF PartialSum
  <2> DEFINE g == [i \in 0 .. m |-> IF i = m THEN f[m - 1] + list[m] ELSE f[i]]
  <2>2. \A i \in 0 .. m : i = m \/ i \in 0 .. (m - 1)
    BY <1>1
  <2>3. g \in [0 .. m -> Int]
    BY <1>1, <2>1, <2>2
  <2>4. g[0] = 0 /\ \A i \in 1 .. m : g[i] = g[i - 1] + list[i]
    BY <1>1, <2>1, <2>2
  <2> HIDE DEF g
  <2>5. PartialSum(list, m)
    BY <2>3, <2>4 DEF PartialSum
  <2> QED
    BY <1>1, <2>5
<1> HIDE DEF Good
<1>4. Len(list) \in Good
  <2>1. \A m \in 0 .. Len(list) : m \in Good
    BY <1>1, <1>2, <1>3, UpTo
  <2> QED
    BY <1>1, <2>1
<1> QED
  BY <1>4 DEF Good

LEMMA SumsOf ==
  ASSUME NEW list \in Seq(Interval)
  PROVE  /\ Drive!Sums(list)[0] = 0
         /\ \A n \in 1 .. Len(list) :
              Drive!Sums(list)[n] = Drive!Sums(list)[n - 1] + list[n]
<1>1. Len(list) \in Nat
  BY LenProperties
<1>2. PICK f \in [0 .. Len(list) -> Int] :
        f[0] = 0 /\ \A i \in 1 .. Len(list) : f[i] = f[i - 1] + list[i]
  BY SumsExist DEF PartialSum
<1>3. f = [n \in 0 .. Len(list) |-> IF n = 0 THEN 0 ELSE f[n - 1] + list[n]]
  BY <1>1, <1>2
<1>4. Drive!Sums(list) =
        [n \in 0 .. Len(list) |-> IF n = 0 THEN 0 ELSE Drive!Sums(list)[n - 1] + list[n]]
  BY <1>3 DEF Drive!Sums
<1> QED
  BY <1>1, <1>4

LEMMA Smoothed ==
  ASSUME NEW list \in Seq(Interval)
  PROVE  /\ Drive!_smoothed(list) \in Nat
         /\ Drive!_smoothed(list) >= Len(list) * MinTapInterval
<1>1. Len(list) \in Nat /\ \A i \in 1 .. Len(list) : list[i] \in Nat /\ list[i] >= MinTapInterval
  BY Lengths, DriveAssumption DEF Interval
<1> DEFINE Good == {m \in 0 .. Len(list) :
                      Drive!Sums(list)[m] \in Nat /\ Drive!Sums(list)[m] >= m * MinTapInterval}
<1>2. 0 \in Good
  BY <1>1, SumsOf, DriveAssumption
<1>3. ASSUME NEW m \in 1 .. Len(list), m - 1 \in Good
      PROVE  m \in Good
  <2>1. Drive!Sums(list)[m] = Drive!Sums(list)[m - 1] + list[m]
    BY SumsOf
  <2>2. m * MinTapInterval = (m - 1) * MinTapInterval + MinTapInterval
    BY DriveAssumption
  <2>3. (m - 1) * MinTapInterval \in Nat
    BY DriveAssumption
  <2> QED
    BY <1>1, <1>3, <2>1, <2>2, <2>3, DriveAssumption
<1> HIDE DEF Good
<1>4. \A m \in 0 .. Len(list) : m \in Good
  BY <1>1, <1>2, <1>3, UpTo
<1>5. Len(list) \in Good
  BY <1>1, <1>4
<1> QED
  BY <1>5 DEF Good, Drive!_smoothed

(* A tap moves by friction at most, and forward when it comes as early as  *)
(* a tap can.                                                              *)
LEMMA TapMoves ==
  ASSUME NEW list \in Seq(Interval), Len(list) = Window, NEW actual \in Nat
  PROVE  /\ Drive!TapStep(list, actual) \in -Friction .. Friction
         /\ actual <= MinTapInterval => Drive!TapStep(list, actual) >= 0
<1> DEFINE sum == Drive!_smoothed(list)
           product == Friction * (sum - Window * actual)
           quotient == product \div sum
<1>1. sum \in Nat /\ sum >= Window * MinTapInterval
  BY Smoothed
<1>2. sum # 0
  <2>1. Window * MinTapInterval >= Window * 1
    BY DriveAssumption
  <2> QED
    BY <1>1, <2>1, DriveAssumption
<1> HIDE DEF sum
<1>3. product \in Int
  BY <1>1, DriveAssumption
<1>4. quotient \in Int
  BY <1>1, <1>2, <1>3
<1>5. ASSUME actual <= MinTapInterval
      PROVE  quotient >= 0
  <2>1. Window * actual <= Window * MinTapInterval
    BY <1>5, DriveAssumption
  <2>2. Window * actual \in Nat
    BY DriveAssumption
  <2>3. sum - Window * actual \in Nat
    BY <1>1, <2>1, <2>2, DriveAssumption
  <2>4. product \in Nat
    BY <2>3, DriveAssumption
  <2> HIDE DEF product
  <2> QED
    BY <1>1, <1>2, <2>4
<1>6. Drive!TapStep(list, actual) = Drive!Clamp(quotient, -Friction, Friction)
  BY DEF Drive!TapStep, sum
<1> HIDE DEF quotient
<1>7. -Friction \in Int /\ Friction \in Int /\ -Friction <= Friction /\ Friction >= 0
  BY DriveAssumption
<1>8. Drive!TapStep(list, actual) =
        IF quotient > Friction THEN Friction ELSE IF quotient < -Friction THEN -Friction ELSE quotient
  BY <1>4, <1>6, <1>7, Clamped
<1> QED
  BY <1>4, <1>5, <1>7, <1>8

(* A key that is held moves by friction at least. *)
LEMMA HoldMoves ==
  ASSUME NEW frames \in Nat
  PROVE  Drive!_hold_step(frames) \in Int /\ Drive!_hold_step(frames) >= Friction
<1>1. Drive!Min({frames, HoldRamp}) \in Nat
  <2>1. frames \in Int /\ HoldRamp \in Int /\ HoldRamp \in Nat
    BY DriveAssumption
  <2>2. Drive!Min({frames, HoldRamp}) = IF frames <= HoldRamp THEN frames ELSE HoldRamp
    BY <2>1, MaxOfTwo
  <2> QED
    BY <2>1, <2>2
<1>2. (MaxStep - Friction) * Drive!Min({frames, HoldRamp}) \in Nat
  BY <1>1, DriveAssumption
<1>3. ASSUME NEW p \in Nat
      PROVE  p \div HoldRamp \in Nat
  BY DriveAssumption
<1>4. ((MaxStep - Friction) * Drive!Min({frames, HoldRamp})) \div HoldRamp \in Nat
  BY <1>2, <1>3
<1> QED
  BY <1>4, DriveAssumption DEF Drive!_hold_step

-----------------------------------------------------------------------------
(* Keys *)

KeysTyped ==
  /\ value \in -MaxVal .. MaxVal /\ cooldown \in 0 .. Cooldown /\ since \in 0 .. MaxInterval
  /\ last \in {-1, 0, 1} /\ held \in 0 .. HoldRamp /\ released \in 0 .. Drive!Decay
  /\ intervals \in Seq(Interval) /\ Len(intervals) = Window

(* A value against the direction of its key is that of one late tap, and   *)
(* nothing has been read since then.                                       *)
Facing ==
  /\ down # 0 => down = last
  /\ last = 0 => value = 0
  /\ last = 1 => value >= -Friction
  /\ last = -1 => value <= Friction
Against == (last = 1 /\ value < 0) \/ (last = -1 /\ value > 0)
Recent == Against => cooldown = Cooldown - since

(* What is left of the full range after n frames of falling back *)
Remaining(n) == MaxVal - n * (Friction * Centering)
Falling ==
  /\ released < Cooldown => cooldown <= Cooldown - released
  /\ released >= Cooldown =>
       /\ cooldown = 0
       /\ value = 0 \/ (value <= Remaining(released - Cooldown) /\ -value <= Remaining(released - Cooldown))

KeysInv == KeysTyped /\ Facing /\ Recent /\ Falling

KeyFacts == <<value, cooldown, since, last, intervals, held, down, released>>

LEMMA DecayIsEnough ==
  /\ Drive!Decay \in Nat /\ Drive!Decay > Cooldown
  /\ Remaining(Drive!Decay - Cooldown) < 0
<1> DEFINE fall == Friction * Centering
           whole == MaxVal \div fall
<1>1. fall \in Nat \ {0}
  <2>1. Friction * Centering >= Friction * 1
    BY DriveAssumption
  <2> QED
    BY <2>1, DriveAssumption
<1>2. Drive!Decay = Cooldown + 1 + whole
  BY DEF Drive!Decay
<1>3. Remaining(Drive!Decay - Cooldown) = MaxVal - (Drive!Decay - Cooldown) * fall
  BY DEF Remaining
<1> HIDE DEF fall
<1>4. whole \in Nat /\ MaxVal < fall * whole + fall
  BY <1>1, DriveAssumption
<1> HIDE DEF whole
<1>5. Drive!Decay - Cooldown = whole + 1
  BY <1>2, <1>4, DriveAssumption
<1>6. (whole + 1) * fall = fall * whole + fall
  BY <1>1, <1>4
<1>7. fall * whole \in Nat
  BY <1>1, <1>4
<1> QED
  BY <1>1, <1>2, <1>3, <1>4, <1>5, <1>6, <1>7, DriveAssumption

(* One frame more takes away as much as a value falls back by. *)
LEMMA RemainingFalls ==
  ASSUME NEW n \in Nat
  PROVE  /\ Remaining(0) = MaxVal /\ Remaining(n) \in Int
         /\ Remaining(n + 1) = Remaining(n) - Friction * Centering
<1>1. Friction * Centering \in Nat
  BY DriveAssumption
<1> DEFINE fall == Friction * Centering
<1>2. Remaining(n) = MaxVal - n * fall /\ Remaining(n + 1) = MaxVal - (n + 1) * fall
      /\ Remaining(0) = MaxVal - 0 * fall
  BY DEF Remaining
<1> HIDE DEF fall
<1>3. fall \in Nat
  BY <1>1 DEF fall
<1>4. (n + 1) * fall = n * fall + fall /\ n * fall \in Nat /\ 0 * fall = 0
  BY <1>3
<1>5. Remaining(n) \in Int /\ Remaining(n + 1) = Remaining(n) - fall /\ Remaining(0) = MaxVal
  BY <1>2, <1>3, <1>4, DriveAssumption
<1> QED
  BY <1>5 DEF fall

LEMMA NewKeys ==
  ASSUME value' = 0, cooldown' = 0, since' = HoldInterval, last' = 0, held' = 0, down' = 0,
         released' = 0, intervals' = [i \in 1 .. Window |-> HoldInterval]
  PROVE  KeysInv'
<1>1. HoldInterval \in Interval /\ HoldInterval \in 0 .. MaxInterval
  BY DriveAssumption DEF Interval
<1>2. intervals' \in Seq(Interval) /\ Len(intervals') = Window
  <2>1. intervals' \in [1 .. Window -> Interval]
    BY <1>1
  <2>2. intervals' \in Seq(Interval)
    BY <2>1, SeqDef, DriveAssumption
  <2>3. DOMAIN intervals' = 1 .. Len(intervals') /\ Len(intervals') \in Nat
        /\ DOMAIN intervals' = 1 .. Window
    BY <2>1, <2>2, Lengths
  <2> QED
    BY <2>2, <2>3, DriveAssumption
<1>3. KeysTyped'
  BY <1>1, <1>2, DecayIsEnough, DriveAssumption DEF KeysTyped
<1> QED
  BY <1>3, RemainingFalls, DriveAssumption DEF KeysInv, Facing, Recent, Against, Falling

(* What an update starts from, for a key that is pressed *)
LEMMA TurnedKeys ==
  ASSUME KeysInv, NEW d \in {-1, 1}
  PROVE  LET h == Drive!Turned(d)
         IN  /\ h.value \in -MaxVal .. MaxVal /\ h.since \in 0 .. MaxInterval /\ h.held \in 0 .. HoldRamp
             /\ d = 1 => h.value >= -Friction
             /\ d = -1 => h.value <= Friction
             /\ h.since > Cooldown => (d = 1 => h.value >= 0) /\ (d = -1 => h.value <= 0)
<1>1. CASE d = last
  <2>1. Drive!Turned(d) = [value |-> value, since |-> since, held |-> held]
    BY <1>1 DEF Drive!Turned
  <2> QED
    BY <1>1, <2>1, DriveAssumption DEF KeysInv, KeysTyped, Facing, Recent, Against
<1>2. CASE d # last
  <2>1. Drive!Turned(d) = [value |-> 0, since |-> HoldInterval, held |-> 0]
    BY <1>2 DEF Drive!Turned
  <2> QED
    BY <2>1, DriveAssumption
<1> QED
  BY <1>1, <1>2

LEMMA TapKeeps ==
  ASSUME KeysInv, NEW d \in {-1, 1}, Drive!Tap(d), down' = d, released' = 0
  PROVE  KeysInv'
<1> DEFINE h == Drive!Turned(d)
           list == Append(Tail(intervals), h.since)
           step == Drive!TapStep(list, h.since)
<1>1. /\ h.value \in -MaxVal .. MaxVal /\ h.since \in 0 .. MaxInterval
      /\ d = 1 => h.value >= -Friction
      /\ d = -1 => h.value <= Friction
      /\ h.since > Cooldown => (d = 1 => h.value >= 0) /\ (d = -1 => h.value <= 0)
  BY TurnedKeys
<1>2. /\ h.since >= MinTapInterval
      /\ intervals' = list /\ value' = Drive!Clamp(h.value + d * step, -MaxVal, MaxVal)
      /\ since' = 0 /\ cooldown' = Cooldown /\ held' = 0 /\ last' = d
  BY DEF Drive!Tap
<1> HIDE DEF h
<1>3. list \in Seq(Interval) /\ Len(list) = Window
  <2>1. intervals \in Seq(Interval) /\ Len(intervals) = Window /\ intervals # <<>>
    BY Lengths, DriveAssumption DEF KeysInv, KeysTyped
  <2>2. Tail(intervals) \in Seq(Interval) /\ Len(Tail(intervals)) = Window - 1
    BY <2>1, Tails
  <2>3. h.since \in Interval
    BY <1>1, <1>2, DriveAssumption DEF Interval
  <2>4. list \in Seq(Interval) /\ Len(list) = Len(Tail(intervals)) + 1
    BY <2>2, <2>3, Appends
  <2> QED
    BY <2>2, <2>4, DriveAssumption
<1> HIDE DEF list
<1>4. step \in -Friction .. Friction /\ (h.since <= MinTapInterval => step >= 0)
  BY <1>1, <1>3, TapMoves
<1> HIDE DEF step
<1>5. /\ h.value + d * step \in Int
      /\ d = 1 => h.value + d * step >= -Friction
      /\ d = -1 => h.value + d * step <= Friction
  <2>1. d * step = IF d = 1 THEN step ELSE -step
    BY <1>4, DriveAssumption
  <2>2. h.since <= MinTapInterval \/ h.since > Cooldown
    BY <1>1, DriveAssumption
  <2> QED
    BY <1>1, <1>4, <2>1, <2>2, DriveAssumption
<1>6. value' = IF h.value + d * step > MaxVal THEN MaxVal
               ELSE IF h.value + d * step < -MaxVal THEN -MaxVal ELSE h.value + d * step
  BY <1>2, <1>5, Clamped, DriveAssumption
<1>7. /\ value' \in -MaxVal .. MaxVal
      /\ d = 1 => value' >= -Friction
      /\ d = -1 => value' <= Friction
  BY <1>5, <1>6, DriveAssumption
<1>8. KeysTyped'
  BY <1>2, <1>3, <1>7, DecayIsEnough, DriveAssumption DEF KeysTyped
<1>9. Remaining(0) = MaxVal
  BY RemainingFalls
<1> QED
  BY <1>2, <1>7, <1>8, <1>9, DriveAssumption DEF KeysInv, Facing, Recent, Falling

LEMMA HoldKeeps ==
  ASSUME KeysInv, NEW d \in {-1, 1}, Drive!Hold(d), down' = d, released' = 0
  PROVE  KeysInv'
<1> DEFINE h == Drive!Turned(d)
           step == Drive!_hold_step(h.held + 1)
<1>1. /\ h.value \in -MaxVal .. MaxVal /\ h.since \in 0 .. MaxInterval /\ h.held \in 0 .. HoldRamp
      /\ d = 1 => h.value >= -Friction
      /\ d = -1 => h.value <= Friction
  BY TurnedKeys
<1>2. /\ held' = Drive!Min({h.held + 1, HoldRamp})
      /\ value' = Drive!Clamp(h.value + d * step, -MaxVal, MaxVal)
      /\ since' = h.since /\ cooldown' = Cooldown /\ last' = d /\ intervals' = intervals
  BY DEF Drive!Hold
<1> HIDE DEF h
<1>3. h.held + 1 \in Nat /\ HoldRamp \in Nat
  BY <1>1, DriveAssumption
<1>4. step \in Int /\ step >= Friction
  BY <1>3, HoldMoves
<1> HIDE DEF step
<1>5. /\ h.value + d * step \in Int
      /\ d = 1 => h.value + d * step >= 0
      /\ d = -1 => h.value + d * step <= 0
  <2>1. d * step = IF d = 1 THEN step ELSE -step
    BY <1>4, DriveAssumption
  <2> QED
    BY <1>1, <1>4, <2>1, DriveAssumption
<1>6. value' = IF h.value + d * step > MaxVal THEN MaxVal
               ELSE IF h.value + d * step < -MaxVal THEN -MaxVal ELSE h.value + d * step
  BY <1>2, <1>5, Clamped, DriveAssumption
<1>7. /\ value' \in -MaxVal .. MaxVal
      /\ d = 1 => value' >= 0
      /\ d = -1 => value' <= 0
  BY <1>5, <1>6, DriveAssumption
<1>8. held' \in 0 .. HoldRamp
  <2>1. h.held + 1 \in Int /\ HoldRamp \in Int
    BY <1>3
  <2>2. Drive!Min({h.held + 1, HoldRamp}) = IF h.held + 1 <= HoldRamp THEN h.held + 1 ELSE HoldRamp
    BY <2>1, MaxOfTwo
  <2> QED
    BY <1>2, <1>3, <2>2
<1>9. KeysTyped'
  BY <1>1, <1>2, <1>7, <1>8, DecayIsEnough, DriveAssumption DEF KeysInv, KeysTyped
<1>10. Remaining(0) = MaxVal
  BY RemainingFalls
<1> QED
  BY <1>2, <1>7, <1>9, <1>10, DriveAssumption DEF KeysInv, Facing, Recent, Against, Falling

LEMMA LetGoKeeps ==
  ASSUME KeysInv, Drive!LetGo(0), down' = 0,
         released' = Drive!Min({released + 1, Drive!Decay})
  PROVE  KeysInv'
<1> DEFINE fall == Friction * Centering
<1>1. fall \in Nat /\ fall >= Friction
  <2>1. Friction * Centering >= Friction * 1
    BY DriveAssumption
  <2> QED
    BY <2>1, DriveAssumption
<1>2. /\ since' = Drive!Min({since + 1, MaxInterval}) /\ held' = 0
      /\ last' = last /\ intervals' = intervals
      /\ cooldown > 0 => cooldown' = cooldown - 1 /\ value' = value
      /\ ~(cooldown > 0) =>
           /\ value' = IF value > 0 THEN Drive!Max({0, value - fall})
                                    ELSE Drive!Min({0, value + fall})
           /\ cooldown' = cooldown
  BY DEF Drive!LetGo
<1>3. /\ value \in -MaxVal .. MaxVal /\ cooldown \in 0 .. Cooldown /\ since \in 0 .. MaxInterval
      /\ last \in {-1, 0, 1} /\ released \in 0 .. Drive!Decay /\ Drive!Decay \in Nat
  BY DecayIsEnough DEF KeysInv, KeysTyped
<1> HIDE DEF fall
<1>4. since' = IF since + 1 <= MaxInterval THEN since + 1 ELSE MaxInterval
  <2>1. since + 1 \in Int /\ MaxInterval \in Int
    BY <1>3, DriveAssumption
  <2> QED
    BY <1>2, <2>1, MaxOfTwo
<1>5. released' = IF released + 1 <= Drive!Decay THEN released + 1 ELSE Drive!Decay
  <2>1. released + 1 \in Int /\ Drive!Decay \in Int
    BY <1>3
  <2>2. Drive!Min({released + 1, Drive!Decay}) =
          IF released + 1 <= Drive!Decay THEN released + 1 ELSE Drive!Decay
    BY <2>1, MaxOfTwo
  <2> QED
    BY <2>2
<1>6. ~(cooldown > 0) =>
        value' = IF value > 0 THEN IF value >= fall THEN value - fall ELSE 0
                 ELSE IF value <= -fall THEN value + fall ELSE 0
  <2>1. value - fall \in Int /\ value + fall \in Int /\ 0 \in Int
    BY <1>1, <1>3, DriveAssumption
  <2>2. /\ Drive!Max({0, value - fall}) = IF 0 >= value - fall THEN 0 ELSE value - fall
        /\ Drive!Min({0, value + fall}) = IF 0 <= value + fall THEN 0 ELSE value + fall
    BY <2>1, MaxOfTwo
  <2> QED
    BY <1>1, <1>2, <1>3, <2>1, <2>2, DriveAssumption
<1>7. KeysTyped'
  <2>1. value' \in -MaxVal .. MaxVal
    BY <1>1, <1>2, <1>3, <1>6, DriveAssumption
  <2>2. cooldown' \in 0 .. Cooldown
    BY <1>2, <1>3, DriveAssumption
  <2>3. since' \in 0 .. MaxInterval /\ held' \in 0 .. HoldRamp
    BY <1>2, <1>3, <1>4, DriveAssumption
  <2>4. released' \in 0 .. Drive!Decay
    BY <1>3, <1>5, DecayIsEnough
  <2> QED
    BY <1>2, <2>1, <2>2, <2>3, <2>4 DEF KeysInv, KeysTyped
<1>8. Facing'
  BY <1>1, <1>2, <1>3, <1>6, DriveAssumption DEF KeysInv, Facing
<1>9. Recent'
  <2> SUFFICES ASSUME Against'
               PROVE  cooldown' = Cooldown - since'
    BY DEF Recent
  <2>1. cooldown > 0 /\ Against
    BY <1>1, <1>2, <1>3, <1>6, DriveAssumption DEF KeysInv, Facing, Against
  <2>2. cooldown = Cooldown - since
    BY <2>1 DEF KeysInv, Recent
  <2>3. since + 1 <= MaxInterval
    BY <1>3, <2>1, <2>2, DriveAssumption
  <2> QED
    BY <1>2, <1>3, <1>4, <2>1, <2>2, <2>3, DriveAssumption
<1>10. Falling'
  <2>1. Drive!Decay \in Nat /\ Drive!Decay > Cooldown /\ Remaining(Drive!Decay - Cooldown) < 0
    BY DecayIsEnough
  <2>2. CASE released < Cooldown
    <3>1. released' = released + 1 /\ cooldown <= Cooldown - released
      BY <1>3, <1>5, <2>1, <2>2, DriveAssumption DEF KeysInv, Falling
    <3>2. released' < Cooldown => cooldown' <= Cooldown - released'
      BY <1>2, <1>3, <3>1, DriveAssumption
    <3>3. released' >= Cooldown => cooldown' = 0 /\ released' - Cooldown = 0
      BY <1>2, <1>3, <2>2, <3>1, DriveAssumption
    <3>4. Remaining(0) = MaxVal /\ value' \in -MaxVal .. MaxVal
      BY <1>7, RemainingFalls DEF KeysTyped
    <3> QED
      BY <3>2, <3>3, <3>4, DriveAssumption DEF Falling
  <2>3. CASE released >= Cooldown
    <3> DEFINE n == released - Cooldown
    <3>1. n \in Nat
      BY <1>3, <2>3, DriveAssumption
    <3>2. /\ cooldown = 0
          /\ value = 0 \/ (value <= Remaining(n) /\ -value <= Remaining(n))
      BY <2>3 DEF KeysInv, Falling
    <3>3. Remaining(n) \in Int /\ Remaining(n + 1) = Remaining(n) - fall
      BY <3>1, RemainingFalls DEF fall
    <3>4. value' = 0 \/ (value' <= Remaining(n + 1) /\ -value' <= Remaining(n + 1))
      BY <1>1, <1>3, <1>6, <3>2, <3>3, DriveAssumption
    <3>5. CASE released + 1 <= Drive!Decay
      <4>1. released' = released + 1 /\ released' - Cooldown = n + 1
        BY <1>3, <1>5, <3>5, DriveAssumption
      <4> QED
        BY <1>2, <1>3, <2>3, <3>2, <3>4, <4>1, DriveAssumption DEF Falling
    <3>6. CASE ~(released + 1 <= Drive!Decay)
      <4>1. released' = Drive!Decay
        BY <1>5, <3>6
      <4>2. released = Drive!Decay /\ Remaining(n) < 0
        BY <1>3, <2>1, <3>6
      <4>3. value = 0
        BY <1>3, <3>2, <3>3, <4>2, DriveAssumption
      <4>4. value' = 0 /\ cooldown' = 0
        BY <1>1, <1>2, <1>3, <1>6, <3>2, <4>3
      <4> QED
        BY <2>1, <4>1, <4>4, DriveAssumption DEF Falling
    <3> QED
      BY <3>5, <3>6
  <2> QED
    BY <1>3, <2>2, <2>3, DriveAssumption
<1> QED
  BY <1>7, <1>8, <1>9, <1>10 DEF KeysInv

-----------------------------------------------------------------------------
(* Axes *)

Calibrated ==
  /\ calibration.min \in Int /\ calibration.max \in Int /\ calibration.center \in Int
  /\ calibration.invert \in BOOLEAN /\ calibration.deadband \in 0 .. 99
  /\ calibration.min < calibration.max
  /\ calibration.min <= calibration.center /\ calibration.center <= calibration.max

PadInv ==
  /\ Calibrated
  /\ axes \in [Drive!Axis -> Int]
  /\ output.throttle \in -100 .. 100 /\ output.steering \in -100 .. 100

LEMMA Quieted ==
  ASSUME NEW v \in -100 .. 100, NEW d \in 0 .. 99
  PROVE  /\ Drive!Deadband(v, d) \in -100 .. 100
         /\ v = 0 => Drive!Deadband(v, d) = 0
         /\ v = 100 => Drive!Deadband(v, d) = 100
         /\ v >= 0 => Drive!Deadband(v, d) >= 0
<1> DEFINE rest == Drive!Abs(v) - d
           part100 == (rest * 100) \div (100 - d)
<1>1. Drive!Abs(v) = (IF v < 0 THEN -v ELSE v) /\ Drive!Full = 100
  BY DEF Drive!Abs, Drive!Full
<1>2. 100 - d \in Nat \ {0} /\ rest \in Int /\ rest <= 100 - d
  BY <1>1
<1>3. rest >= 0 => /\ part100 \in 0 .. 100
                   /\ rest = 100 - d => part100 = 100
                   /\ rest = 0 => part100 = 0
  <2> HIDE DEF rest
  <2> SUFFICES ASSUME rest >= 0
               PROVE  /\ part100 \in 0 .. 100
                      /\ rest = 100 - d => part100 = 100
                      /\ rest = 0 => part100 = 0
    OBVIOUS
  <2>1. rest \in 0 .. (100 - d)
    BY <1>2
  <2> QED
    BY <1>2, <2>1, Share
<1>4. Drive!Deadband(v, d) =
        IF rest < 0 THEN 0 ELSE (IF v > 0 THEN 1 ELSE -1) * part100
  BY <1>1 DEF Drive!Deadband
<1>5. v = 0 /\ rest >= 0 => rest = 0
  BY <1>1
<1>6. v = 100 => rest = 100 - d /\ rest >= 0
  BY <1>1
<1>7. v >= 0 /\ v # 0 => v > 0
  OBVIOUS
<1> HIDE DEF rest, part100
<1> QED
  BY <1>2, <1>3, <1>4, <1>5, <1>6, <1>7

LEMMA Remapped ==
  ASSUME NEW from \in Int, NEW to \in Int, NEW raw \in Int, from # to,
         (from <= raw /\ raw <= to) \/ (to <= raw /\ raw <= from)
  PROVE  /\ Drive!_remap(raw, from, to) \in 0 .. 100
         /\ raw = from => Drive!_remap(raw, from, to) = 0
         /\ raw = to => Drive!_remap(raw, from, to) = 100
<1> DEFINE x == Drive!Abs(raw - from)
           whole == Drive!Abs(to - from)
<1>1. whole \in Nat \ {0} /\ x \in 0 .. whole /\ (raw = from => x = 0) /\ (raw = to => x = whole)
  BY DEF Drive!Abs
<1>2. Drive!_remap(raw, from, to) = (x * 100) \div whole
  BY DEF Drive!_remap, Drive!Full
<1> HIDE DEF x, whole
<1> QED
  BY <1>1, <1>2, Share

LEMMA ReadOneSided ==
  ASSUME Calibrated, NEW raw \in Int
  PROVE  /\ Drive!OneSided(raw) \in 0 .. 100
         /\ raw = (IF calibration.invert THEN calibration.max ELSE calibration.min)
              => Drive!OneSided(raw) = 0
         /\ raw = Drive!End => Drive!OneSided(raw) = 100
<1> DEFINE c == calibration
           v == Drive!Clamp(raw, c.min, c.max)
           r == IF c.invert THEN Drive!_remap(v, c.max, c.min) ELSE Drive!_remap(v, c.min, c.max)
<1>1. v = (IF raw > c.max THEN c.max ELSE IF raw < c.min THEN c.min ELSE raw)
  BY Clamped DEF Calibrated
<1>2. v \in Int /\ c.min <= v /\ v <= c.max /\ (raw \in {c.min, c.max} => v = raw)
  BY <1>1 DEF Calibrated
<1> HIDE DEF v
<1>3. /\ r \in 0 .. 100
      /\ raw = (IF c.invert THEN c.max ELSE c.min) => r = 0
      /\ raw = (IF c.invert THEN c.min ELSE c.max) => r = 100
  <2> DEFINE lo == c.min
             hi == c.max
  <2>1. lo \in Int /\ hi \in Int /\ v \in Int /\ lo # hi /\ hi # lo /\ lo <= v /\ v <= hi
    BY <1>2 DEF Calibrated
  <2> HIDE DEF lo, hi
  <2>2. /\ Drive!_remap(v, lo, hi) \in 0 .. 100
        /\ v = lo => Drive!_remap(v, lo, hi) = 0
        /\ v = hi => Drive!_remap(v, lo, hi) = 100
    BY <2>1, Remapped
  <2>3. /\ Drive!_remap(v, hi, lo) \in 0 .. 100
        /\ v = hi => Drive!_remap(v, hi, lo) = 0
        /\ v = lo => Drive!_remap(v, hi, lo) = 100
    BY <2>1, Remapped
  <2> QED
    BY <1>2, <2>2, <2>3 DEF lo, hi
<1>4. Drive!OneSided(raw) = Drive!Deadband(r, c.deadband)
  BY DEF Drive!OneSided, v
<1> HIDE DEF r
<1>5. r \in -100 .. 100 /\ c.deadband \in 0 .. 99
  BY <1>3 DEF Calibrated
<1>6. /\ Drive!Deadband(r, c.deadband) \in -100 .. 100
      /\ r = 0 => Drive!Deadband(r, c.deadband) = 0
      /\ r = 100 => Drive!Deadband(r, c.deadband) = 100
      /\ r >= 0 => Drive!Deadband(r, c.deadband) >= 0
  BY <1>5, Quieted
<1> QED
  BY <1>3, <1>4, <1>6 DEF Drive!End

LEMMA ReadCentered ==
  ASSUME Calibrated, NEW raw \in Int
  PROVE  /\ Drive!Centered(raw) \in -100 .. 100
         /\ raw = calibration.center => Drive!Centered(raw) = 0
         /\ raw = Drive!End /\ raw # calibration.center => Drive!Centered(raw) = 100
<1> DEFINE c == calibration
           v == Drive!Clamp(raw, c.min, c.max)
           r == Drive!_remap_centered(v, c)
           s == IF c.invert THEN -r ELSE r
<1>1. v = (IF raw > c.max THEN c.max ELSE IF raw < c.min THEN c.min ELSE raw)
  BY Clamped DEF Calibrated
<1>2. v \in Int /\ c.min <= v /\ v <= c.max /\ (raw \in {c.min, c.center, c.max} => v = raw)
  BY <1>1 DEF Calibrated
<1> HIDE DEF v
<1>3. /\ r \in -100 .. 100
      /\ v = c.center => r = 0
      /\ v = c.max /\ v # c.center => r = 100
      /\ v = c.min /\ v # c.center => r = -100
  <2>1. CASE v < c.center
    <3> DEFINE x == v - c.min
               whole == c.center - c.min
    <3>1. whole \in Nat \ {0} /\ x \in 0 .. whole /\ (v = c.min => x = 0) /\ v # c.max
      BY <1>2, <2>1 DEF Calibrated
    <3>2. r = ((x * 100) \div whole) - 100
      <4>1. v < c.center /\ c.center # c.min
        BY <1>2, <2>1 DEF Calibrated
      <4> HIDE DEF c
      <4> QED
        BY <4>1 DEF Drive!_remap_centered, Drive!Full
    <3> HIDE DEF x, whole, r
    <3>3. (x * 100) \div whole \in 0 .. 100 /\ (x = 0 => (x * 100) \div whole = 0)
      BY <3>1, Share
    <3> QED
      BY <2>1, <3>1, <3>2, <3>3 DEF Calibrated
  <2>2. CASE v >= c.center /\ c.max # c.center
    <3> DEFINE x == v - c.center
               whole == c.max - c.center
    <3>1. /\ whole \in Nat \ {0} /\ x \in 0 .. whole
          /\ v = c.center => x = 0
          /\ v = c.max => x = whole
          /\ v # c.center => v # c.min
      BY <1>2, <2>2 DEF Calibrated
    <3>2. r = (x * 100) \div whole
      BY <1>2, <2>2, <3>1 DEF Drive!_remap_centered, Drive!Full, Calibrated
    <3> HIDE DEF x, whole, r
    <3>3. /\ (x * 100) \div whole \in 0 .. 100
          /\ x = 0 => (x * 100) \div whole = 0
          /\ x = whole => (x * 100) \div whole = 100
      BY <3>1, Share
    <3> QED
      BY <3>1, <3>2, <3>3
  <2>3. CASE v >= c.center /\ c.max = c.center
    <3>1. r = 0 /\ v = c.center
      BY <1>2, <2>3 DEF Drive!_remap_centered, Calibrated
    <3> HIDE DEF r
    <3> QED
      BY <3>1
  <2> HIDE DEF r
  <2> QED
    BY <1>2, <2>1, <2>2, <2>3 DEF Calibrated
<1>4. Drive!Centered(raw) = Drive!Deadband(s, c.deadband)
  BY DEF Drive!Centered, v
<1> HIDE DEF r
<1>5. /\ s \in -100 .. 100 /\ c.deadband \in 0 .. 99
      /\ raw = c.center => s = 0
      /\ raw = Drive!End /\ raw # c.center => s = 100
  BY <1>2, <1>3 DEF Calibrated, Drive!End
<1> HIDE DEF s
<1>6. /\ Drive!Deadband(s, c.deadband) \in -100 .. 100
      /\ s = 0 => Drive!Deadband(s, c.deadband) = 0
      /\ s = 100 => Drive!Deadband(s, c.deadband) = 100
  BY <1>5, Quieted
<1> QED
  BY <1>4, <1>5, <1>6

LEMMA Inputs ==
  ASSUME PadInv
  PROVE  LET pad == Drive!read_inputs(axes)
         IN  /\ pad["steering"] \in -100 .. 100
             /\ pad["throttle"] \in 0 .. 100 /\ pad["brake"] \in 0 .. 100
             /\ \A a \in Drive!Axis :
                  /\ axes[a] = Drive!Rest[a] => pad[a] = 0
                  /\ axes[a] = Drive!End /\ Drive!End # Drive!Rest[a] => pad[a] = 100
<1>1. /\ \A a \in Drive!Axis : axes[a] \in Int
      /\ Calibrated
      /\ Drive!Axis = {"steering", "throttle", "brake"}
  BY DEF PadInv, Drive!Axis
<1>2. \A a \in Drive!Axis :
        Drive!read_inputs(axes)[a] =
          IF a = "steering" THEN Drive!Centered(axes[a]) ELSE Drive!OneSided(axes[a])
  BY DEF Drive!read_inputs
<1>3. \A a \in Drive!Axis :
        Drive!Rest[a] = IF a = "steering" THEN calibration.center
                        ELSE IF calibration.invert THEN calibration.max ELSE calibration.min
  BY DEF Drive!Rest
<1>4. \A a \in Drive!Axis :
        /\ Drive!Centered(axes[a]) \in -100 .. 100
        /\ axes[a] = calibration.center => Drive!Centered(axes[a]) = 0
        /\ axes[a] = Drive!End /\ axes[a] # calibration.center => Drive!Centered(axes[a]) = 100
  BY <1>1, ReadCentered
<1>5. \A a \in Drive!Axis :
        /\ Drive!OneSided(axes[a]) \in 0 .. 100
        /\ axes[a] = (IF calibration.invert THEN calibration.max ELSE calibration.min)
             => Drive!OneSided(axes[a]) = 0
        /\ axes[a] = Drive!End => Drive!OneSided(axes[a]) = 100
  BY <1>1, ReadOneSided
<1> QED
  BY <1>1, <1>2, <1>3, <1>4, <1>5

-----------------------------------------------------------------------------
(* The input that is sent *)

DriveInv == KeysInv /\ PadInv

LEMMA DriveInit == Drive!Init => DriveInv
<1> SUFFICES ASSUME Drive!Init
             PROVE  DriveInv
  OBVIOUS
<1>1. KeysInv
  <2>1. HoldInterval \in Interval /\ HoldInterval \in 0 .. MaxInterval
    BY DriveAssumption DEF Interval
  <2>2. intervals \in Seq(Interval) /\ Len(intervals) = Window
    <3>1. intervals \in [1 .. Window -> Interval]
      BY <2>1 DEF Drive!Init
    <3>2. intervals \in Seq(Interval)
      BY <3>1, SeqDef, DriveAssumption
    <3>3. DOMAIN intervals = 1 .. Len(intervals) /\ Len(intervals) \in Nat
      BY <3>2, Lengths
    <3>4. DOMAIN intervals = 1 .. Window /\ Window \in Nat
      BY <3>1, DriveAssumption
    <3>5. 1 .. Len(intervals) = 1 .. Window
      BY <3>3, <3>4
    <3>6. Len(intervals) = Window
      <4> DEFINE n == Len(intervals)
      <4> HIDE DEF n
      <4>1. n \in Nat /\ Window \in Nat /\ 1 .. n = 1 .. Window
        BY <3>3, <3>4, <3>5 DEF n
      <4>2. n \in 1 .. n \/ n = 0
        BY <4>1
      <4>3. Window \in 1 .. Window \/ Window = 0
        BY <4>1
      <4>4. n = Window
        BY <4>1, <4>2, <4>3
      <4> QED
        BY <4>4 DEF n
    <3> QED
      BY <3>2, <3>6
  <2>3. /\ value = 0 /\ cooldown = 0 /\ since = HoldInterval /\ last = 0 /\ held = 0
        /\ down = 0 /\ released = 0
    BY DEF Drive!Init
  <2>4. KeysTyped
    BY <2>1, <2>2, <2>3, DecayIsEnough, DriveAssumption DEF KeysTyped
  <2> QED
    BY <2>3, <2>4, DriveAssumption DEF KeysInv, Facing, Recent, Against, Falling
<1>2. PadInv
  <2>1. calibration \in Drive!Calibration /\ Drive!Sound(calibration)
    BY DEF Drive!Init
  <2>2. Calibrated
    BY <2>1, DriveAssumption DEF Drive!Calibration, Drive!Sound, Calibrated
  <2>3. axes \in [Drive!Axis -> Int]
    BY <2>2 DEF Drive!Init, Calibrated
  <2>4. output.throttle = 0 /\ output.steering = 0
    BY DEF Drive!Init
  <2> QED
    BY <2>2, <2>3, <2>4 DEF PadInv
<1> QED
  BY <1>1, <1>2 DEF DriveInv

LEMMA KeysRest ==
  ASSUME KeysInv, UNCHANGED KeyFacts
  PROVE  KeysInv'
<1>1. /\ value' = value /\ cooldown' = cooldown /\ since' = since /\ last' = last
      /\ intervals' = intervals /\ held' = held /\ down' = down /\ released' = released
  BY DEF KeyFacts
<1> QED
  BY <1>1 DEF KeysInv, KeysTyped, Facing, Recent, Against, Falling

LEMMA UpdateKeeps ==
  ASSUME KeysInv, NEW d \in Drive!Direction, Drive!update(d)
  PROVE  KeysInv'
<1>1. /\ Drive!Tap(d) \/ Drive!Hold(d) \/ Drive!LetGo(d)
      /\ down' = d
      /\ released' = IF d = 0 THEN Drive!Min({released + 1, Drive!Decay}) ELSE 0
      /\ d \in {-1, 0, 1}
  BY DEF Drive!update, Drive!Direction
<1>2. CASE Drive!Tap(d)
  <2>1. d \in {-1, 1} /\ released' = 0
    BY <1>1, <1>2 DEF Drive!Tap
  <2> QED
    BY <1>1, <1>2, <2>1, TapKeeps
<1>3. CASE Drive!Hold(d)
  <2>1. d \in {-1, 1} /\ released' = 0
    BY <1>1, <1>3 DEF Drive!Hold
  <2> QED
    BY <1>1, <1>3, <2>1, HoldKeeps
<1>4. CASE Drive!LetGo(d)
  <2>1. d = 0
    BY <1>4 DEF Drive!LetGo
  <2> QED
    BY <1>1, <1>4, <2>1, LetGoKeeps
<1> QED
  BY <1>1, <1>2, <1>3, <1>4

LEMMA NewHandlers ==
  ASSUME Drive!_setup_key_handlers
  PROVE  KeysInv'
<1>1. /\ value' = 0 /\ cooldown' = 0 /\ since' = HoldInterval /\ last' = 0 /\ held' = 0
      /\ down' = 0 /\ released' = 0 /\ intervals' = [i \in 1 .. Window |-> HoldInterval]
  BY DEF Drive!_setup_key_handlers, Drive!Becomes, Drive!NewHandler
<1> QED
  BY <1>1, NewKeys

LEMMA DriveStep == DriveInv /\ [Drive!Next]_(Drive!vars) => DriveInv'
<1> SUFFICES ASSUME DriveInv, [Drive!Next]_(Drive!vars)
             PROVE  DriveInv'
  OBVIOUS
<1> USE DEF DriveInv
<1>1. ASSUME NEW d \in Drive!Direction, Drive!Frame(d)
      PROVE  DriveInv'
  <2>1. calibration' = calibration /\ axes' = axes
    BY <1>1 DEF Drive!Frame, Drive!gamepad
  <2>2. KeysInv'
    <3>1. CASE menu
      <4>1. UNCHANGED KeyFacts
        BY <1>1, <3>1 DEF Drive!Frame, Drive!handler, KeyFacts
      <4> QED
        BY <4>1, KeysRest
    <3>2. CASE ~menu
      <4>1. Drive!update(d)
        BY <1>1, <3>2 DEF Drive!Frame
      <4> QED
        BY <4>1, UpdateKeeps
    <3> QED
      BY <3>1, <3>2
  <2>3. output'.throttle \in -100 .. 100 /\ output'.steering \in -100 .. 100
    <3> DEFINE pad == Drive!read_inputs(axes)
    <3>1. CASE menu
      BY <1>1, <3>1 DEF Drive!Frame
    <3>2. CASE ~menu /\ device = "gamepad"
      <4>1. output' = [throttle |-> pad["throttle"] - pad["brake"], steering |-> pad["steering"]]
        BY <1>1, <3>2 DEF Drive!Frame
      <4>2. /\ pad["steering"] \in -100 .. 100
            /\ pad["throttle"] \in 0 .. 100 /\ pad["brake"] \in 0 .. 100
        BY Inputs
      <4> HIDE DEF pad
      <4> QED
        BY <4>1, <4>2
    <3>3. CASE ~menu /\ device # "gamepad"
      <4>1. output' = [throttle |-> value', steering |-> 0]
        BY <1>1, <3>3 DEF Drive!Frame
      <4>2. value' \in -MaxVal .. MaxVal
        BY <2>2 DEF KeysInv, KeysTyped
      <4> QED
        BY <4>1, <4>2, DriveAssumption
    <3> QED
      BY <3>1, <3>2, <3>3
  <2>4. PadInv'
    BY <2>1, <2>3 DEF PadInv, Calibrated
  <2> QED
    BY <2>2, <2>4
<1>2. ASSUME NEW a \in Drive!Axis, Drive!Move(a)
      PROVE  DriveInv'
  <2>1. UNCHANGED KeyFacts /\ calibration' = calibration /\ output' = output
    BY <1>2 DEF Drive!Move, Drive!handler, KeyFacts
  <2>2. axes' \in [Drive!Axis -> Int]
    BY <1>2, DriveAssumption DEF Drive!Move, PadInv
  <2> QED
    BY <2>1, <2>2, KeysRest DEF PadInv, Calibrated
<1>3. ASSUME KeysInv', UNCHANGED <<calibration, axes, output>>
      PROVE  DriveInv'
  BY <1>3 DEF PadInv, Calibrated
<1>4. CASE Drive!OpenMenu
  <2>1. UNCHANGED KeyFacts /\ UNCHANGED <<calibration, axes, output>>
    BY <1>4 DEF Drive!OpenMenu, Drive!handler, Drive!gamepad, KeyFacts
  <2> QED
    BY <1>3, <2>1, KeysRest
<1>5. CASE Drive!CloseMenu
  <2>1. /\ UNCHANGED <<calibration, axes, output>>
        /\ Drive!_setup_key_handlers \/ UNCHANGED KeyFacts
    BY <1>5 DEF Drive!CloseMenu, Drive!handler, Drive!gamepad, KeyFacts
  <2> QED
    BY <1>3, <2>1, KeysRest, NewHandlers
<1>6. CASE Drive!ApplyLater
  <2>1. UNCHANGED <<calibration, axes, output>> /\ Drive!_setup_key_handlers
    BY <1>6 DEF Drive!ApplyLater, Drive!gamepad
  <2> QED
    BY <1>3, <2>1, NewHandlers
<1>7. CASE UNCHANGED Drive!vars
  <2>1. UNCHANGED KeyFacts /\ UNCHANGED <<calibration, axes, output>>
    BY <1>7 DEF Drive!vars, Drive!handler, Drive!gamepad, KeyFacts
  <2> QED
    BY <1>3, <2>1, KeysRest
<1> QED
  BY <1>1, <1>2, <1>4, <1>5, <1>6, <1>7 DEF Drive!Next

LEMMA DriveMeans == DriveInv => DriveObeyed
<1> SUFFICES ASSUME DriveInv
             PROVE  DriveObeyed
  OBVIOUS
<1>1. down # 0 => down * value >= -Friction
  <2> SUFFICES ASSUME down # 0
               PROVE  down * value >= -Friction
    OBVIOUS
  <2>1. down = last /\ last \in {-1, 1} /\ value \in Int
    BY DriveAssumption DEF DriveInv, KeysInv, KeysTyped, Facing
  <2>2. down * value = IF last = 1 THEN value ELSE -value
    BY <2>1
  <2> QED
    BY <2>1, <2>2, DriveAssumption DEF DriveInv, KeysInv, Facing
<1>2. released = Drive!Decay => value = 0
  <2> SUFFICES ASSUME released = Drive!Decay
               PROVE  value = 0
    OBVIOUS
  <2>1. Drive!Decay - Cooldown \in Nat /\ Drive!Decay >= Cooldown /\ Remaining(Drive!Decay - Cooldown) < 0
    BY DecayIsEnough, DriveAssumption
  <2>2. Remaining(Drive!Decay - Cooldown) \in Int
    BY <2>1, RemainingFalls
  <2> QED
    BY <2>1, <2>2, DriveAssumption DEF DriveInv, KeysInv, KeysTyped, Falling
<1>3. Drive!KeysObeyed
  BY <1>1, <1>2 DEF Drive!KeysObeyed
<1>4. Drive!PadObeyed
  <2>1. PadInv /\ Drive!Full = 100
    BY DEF DriveInv, Drive!Full
  <2>2. \A v \in {output.throttle, output.steering} : v \in -Drive!Full .. Drive!Full
    BY <2>1 DEF PadInv
  <2>3. \A a \in Drive!Axis :
          /\ axes[a] = Drive!Rest[a] => Drive!read_inputs(axes)[a] = 0
          /\ axes[a] = Drive!End /\ Drive!End # Drive!Rest[a] =>
               Drive!read_inputs(axes)[a] = Drive!Full
    BY <2>1, Inputs
  <2> QED
    BY <2>2, <2>3 DEF Drive!PadObeyed
<1> QED
  BY <1>3, <1>4 DEF DriveObeyed

-----------------------------------------------------------------------------
(* Settings *)

Content ==
  {c \in [Set!Field -> Ids \cup BOOLEAN] : \A f \in Set!Field : c[f] \in Set!Values(f)}

SettingsTyped ==
  /\ file \in Content /\ current \in Content /\ tabs \in Content
  /\ applied \in Content /\ network \in Content
  /\ visible \in BOOLEAN /\ connected \in BOOLEAN /\ complete \in BOOLEAN
  /\ tab \in Set!Tabs /\ used \in [Set!Copied -> BOOLEAN]

SameReach(c, d) == Set!Reaches(c) = Set!Reaches(d)

(* A patient user has one restart at a time, and while it is under way the *)
(* file is what it is for.                                                 *)
Stage ==
  \/ pending = None /\ restarts = <<>> /\ ~complete /\ SameReach(network, applied)
  \/ pending = file /\ restarts = <<file>> /\ ~complete /\ connected
  \/ pending = file /\ restarts = <<>> /\ complete /\ connected /\ SameReach(network, file)

Hidden ==
  ~visible => /\ current = file
              /\ ~Set!Busy => /\ \A f \in Set!Copied : used[f] = file[f]
                              /\ SameReach(network, file)

(* Keys go into the settings as they are mapped. *)
KeysShown ==
  visible => /\ tabs["keys"] = current["keys"]
             /\ Set!Busy => current["keys"] = file["keys"]

SettingsInv == SettingsTyped /\ Stage /\ Hidden /\ KeysShown

SettingsFacts == <<file, current, applied, tabs, used, network, connected, visible, tab, pending,
                   restarts, complete>>

(* A user who waits for a restart, a relay whose ID is not cleared, and a  *)
(* value for no settings that is none of them *)
Waiting == Patient /\ NoId \notin Ids /\ None \notin [Set!Field -> Ids \cup BOOLEAN]

LEMMA FieldsAre ==
  /\ Set!Field = {"fullscreen", "info", "keys", "widgets", "transport", "ports", "enabled",
                  "spectator", "id", "ttl", "timing"}
  /\ Set!Copied \subseteq Set!Field /\ "id" \notin Set!Copied
  /\ \A p \in Set!Tabs : Set!Fields(p) \subseteq Set!Field
<1>1. /\ Set!Field = {"fullscreen", "info", "keys", "widgets", "transport", "ports", "enabled",
                      "spectator", "id", "ttl", "timing"}
      /\ Set!Copied \subseteq Set!Field /\ "id" \notin Set!Copied
  BY DEF Set!Field, Set!GeneralFields, Set!InputFields, Set!OsdFields, Set!NetworkFields,
         Set!FrequencyFields, Set!Copied
<1>2. ASSUME NEW p \in Set!Tabs
      PROVE  Set!Fields(p) \subseteq Set!Field
  BY DEF Set!Fields, Set!Tabs, Set!Field
<1> QED
  BY <1>1, <1>2

LEMMA ContentHas ==
  ASSUME NEW c \in Content
  PROVE  /\ c \in [Set!Field -> Ids \cup BOOLEAN]
         /\ c["enabled"] \in BOOLEAN /\ c["spectator"] \in BOOLEAN /\ c["id"] \in Ids
         /\ \A f \in Set!Copied : c[f] \in BOOLEAN
BY FieldsAre DEF Content, Set!Values

LEMMA ContentChanges ==
  ASSUME NEW c \in Content, NEW f \in Set!Field, NEW v \in Set!Values(f)
  PROVE  /\ [c EXCEPT ![f] = v] \in Content
         /\ \A g \in Set!Field : [c EXCEPT ![f] = v][g] = IF g = f THEN v ELSE c[g]
<1>1. v \in Ids \cup BOOLEAN /\ c \in [Set!Field -> Ids \cup BOOLEAN]
      /\ \A g \in Set!Field : c[g] \in Set!Values(g)
  BY DEF Set!Values, Content
<1>2. /\ [c EXCEPT ![f] = v] \in [Set!Field -> Ids \cup BOOLEAN]
      /\ \A g \in Set!Field : [c EXCEPT ![f] = v][g] = IF g = f THEN v ELSE c[g]
  BY <1>1
<1> QED
  BY <1>1, <1>2 DEF Content

LEMMA ContentMixed ==
  ASSUME NEW c \in Content, NEW d \in Content, NEW F
  PROVE  [f \in Set!Field |-> IF f \in F THEN c[f] ELSE d[f]] \in Content
BY DEF Content

(* What needs no restart changes nothing that the network is set up with. *)
LEMMA NothingToRestart ==
  ASSUME Waiting, NEW new \in Content, applied \in Content, ~Set!NeedsRestart(new)
  PROVE  SameReach(applied, new)
<1>1. /\ applied["ports"] = new["ports"] /\ applied["transport"] = new["transport"]
      /\ ~Set!_needs_relay_restart(new)
  BY DEF Set!NeedsRestart, Set!_transport_changed
<1>2. /\ applied["id"] # NoId /\ new["id"] # NoId
      /\ applied["enabled"] \in BOOLEAN /\ new["enabled"] \in BOOLEAN
  BY ContentHas DEF Waiting
<1>3. /\ applied["enabled"] = new["enabled"]
      /\ new["enabled"] => applied["id"] = new["id"] /\ applied["spectator"] = new["spectator"]
  BY <1>1, <1>2 DEF Set!_needs_relay_restart
<1>4. CASE new["enabled"]
  BY <1>1, <1>3, <1>4 DEF SameReach, Set!Reaches, Set!Relayed
<1>5. CASE ~new["enabled"]
  BY <1>1, <1>2, <1>3, <1>5 DEF SameReach, Set!Reaches, Set!Relayed
<1> QED
  BY <1>4, <1>5

(* Of the display nothing is told to the network. *)
LEMMA ReachKept ==
  ASSUME NEW c \in Content, NEW v \in BOOLEAN
  PROVE  SameReach(c, [c EXCEPT !["fullscreen"] = v])
<1>1. v \in Set!Values("fullscreen") /\ "fullscreen" \in Set!Field
  BY FieldsAre DEF Set!Values
<1> DEFINE d == [c EXCEPT !["fullscreen"] = v]
<1>2. d["ports"] = c["ports"] /\ d["transport"] = c["transport"] /\ d["enabled"] = c["enabled"]
      /\ d["spectator"] = c["spectator"] /\ d["id"] = c["id"]
  BY <1>1, ContentChanges, FieldsAre
<1> HIDE DEF d
<1>3. SameReach(c, d)
  BY <1>2 DEF SameReach, Set!Reaches, Set!Relayed
<1> QED
  BY <1>3 DEF d

LEMMA SettingsInit == Set!Init => SettingsInv
<1> SUFFICES ASSUME Set!Init
             PROVE  SettingsInv
  OBVIOUS
<1>1. file \in Content
  <2>1. PICK i \in Ids, e \in BOOLEAN :
          file = [f \in Set!Field |-> IF f = "id" THEN i ELSE f = "enabled" /\ e]
    BY DEF Set!Init
  <2>2. \A f \in Set!Field : file[f] \in Set!Values(f)
    BY <2>1 DEF Set!Values
  <2>3. file \in [Set!Field -> Ids \cup BOOLEAN]
    BY <2>1
  <2> QED
    BY <2>2, <2>3 DEF Content
<1>2. /\ current = file /\ applied = file /\ tabs = file /\ network = file
      /\ used = [f \in Set!Copied |-> file[f]]
      /\ connected = FALSE /\ visible = FALSE /\ tab = "General"
      /\ pending = None /\ restarts = <<>> /\ complete = FALSE
  BY DEF Set!Init
<1>3. used \in [Set!Copied -> BOOLEAN]
  BY <1>1, <1>2, ContentHas
<1>4. SettingsTyped
  BY <1>1, <1>2, <1>3 DEF SettingsTyped, Set!Tabs
<1> QED
  BY <1>2, <1>4 DEF SettingsInv, Stage, Hidden, KeysShown, SameReach

LEMMA SettingsRest == SettingsInv /\ UNCHANGED SettingsFacts => SettingsInv'
  BY DEF SettingsInv, SettingsFacts, SettingsTyped, Stage, Hidden, KeysShown, SameReach, Set!Busy,
         Set!Reaches, Set!Relayed

(* With a patient user, a restart that is not noticed holds settings. *)
LEMMA BusyOrNot ==
  ASSUME Waiting, SettingsInv
  PROVE  /\ file # None
         /\ ~Set!Busy => pending = None /\ restarts = <<>> /\ ~complete /\ SameReach(network, applied)
         /\ Set!Busy => pending = file /\ connected
                        /\ \/ restarts = <<file>> /\ ~complete
                           \/ restarts = <<>> /\ complete /\ SameReach(network, file)
         /\ Set!Waits => ~Set!Busy
<1>1. file # None
  BY ContentHas DEF Waiting, SettingsInv, SettingsTyped
<1>2. <<file>> # <<>>
  OBVIOUS
<1> QED
  BY <1>1, <1>2 DEF SettingsInv, Stage, Set!Busy, Set!Waits, Waiting

LEMMA Edited ==
  ASSUME SettingsInv, NEW f \in Set!Field, NEW v \in Set!Values(f), Set!Edit(f, v),
         f = "keys" => ~Set!Busy
  PROVE  SettingsInv'
<1>1. /\ visible /\ tabs' = [tabs EXCEPT ![f] = v]
      /\ UNCHANGED <<file, applied, network, visible, tab, connected, pending, restarts, complete>>
      /\ current' = [current EXCEPT ![f] = v] \/ (f # "keys" /\ current' = current)
      /\ used' = used \/ (f = "widgets" /\ used' = [used EXCEPT ![f] = v])
  BY DEF Set!Edit, Set!restarting
<1>2. SettingsTyped
  BY DEF SettingsInv
<1>3. /\ tabs' \in Content /\ current' \in Content
      /\ tabs'["keys"] = IF f = "keys" THEN v ELSE tabs["keys"]
      /\ current'["keys"] = IF f = "keys" THEN v ELSE current["keys"]
  <2>1. "keys" \in Set!Field /\ tabs \in Content /\ current \in Content
    BY <1>2, FieldsAre DEF SettingsTyped
  <2>2. /\ [tabs EXCEPT ![f] = v] \in Content
        /\ [tabs EXCEPT ![f] = v]["keys"] = IF f = "keys" THEN v ELSE tabs["keys"]
    BY <2>1, ContentChanges
  <2>3. /\ [current EXCEPT ![f] = v] \in Content
        /\ [current EXCEPT ![f] = v]["keys"] = IF f = "keys" THEN v ELSE current["keys"]
    BY <2>1, ContentChanges
  <2>4. tabs' \in Content /\ tabs'["keys"] = IF f = "keys" THEN v ELSE tabs["keys"]
    BY <1>1, <2>2
  <2>5. CASE current' = [current EXCEPT ![f] = v]
    BY <2>3, <2>4, <2>5
  <2>6. CASE f # "keys" /\ current' = current
    BY <2>1, <2>4, <2>6
  <2> QED
    BY <1>1, <2>5, <2>6
<1>4. used' \in [Set!Copied -> BOOLEAN]
  BY <1>1, <1>2 DEF SettingsTyped, Set!Values
<1>5. SettingsTyped'
  BY <1>1, <1>2, <1>3, <1>4 DEF SettingsTyped
<1>6. (Set!Busy)' <=> Set!Busy
  BY <1>1 DEF Set!Busy
<1>7. Stage'
  BY <1>1 DEF SettingsInv, Stage, SameReach, Set!Reaches, Set!Relayed
<1>8. KeysShown'
  BY <1>1, <1>3, <1>6 DEF SettingsInv, KeysShown
<1> QED
  BY <1>1, <1>5, <1>7, <1>8 DEF SettingsInv, Hidden

LEMMA WidgetKeeps ==
  ASSUME Waiting, SettingsInv, Set!Widget
  PROVE  SettingsInv'
<1>1. \A b : (~b) \in BOOLEAN
  OBVIOUS
<1>2. ASSUME NEW f \in Set!Field \ {"id", "keys"}, Set!Edit(f, ~tabs[f])
      PROVE  SettingsInv'
  BY <1>1, <1>2, Edited DEF Set!Values
<1>3. CASE Set!KeyMapping("keys")
  <2>1. "keys" \in Set!Field /\ (~tabs["keys"]) \in Set!Values("keys")
    BY <1>1, FieldsAre DEF Set!Values
  <2> QED
    BY <1>3, <2>1, Edited, BusyOrNot DEF Set!KeyMapping
<1>4. CASE Set!TextInput("id")
  <2>1. PICK v \in Set!Values("id") : Set!Edit("id", v)
    BY <1>4 DEF Set!TextInput
  <2> QED
    BY <2>1, Edited, FieldsAre
<1> QED
  BY <1>2, <1>3, <1>4, FieldsAre
     DEF Set!Widget, Set!GeneralTab, Set!InputTab, Set!OsdTab, Set!NetworkTab, Set!FrequenciesTab,
         Set!Checkbox, Set!NumberInput, Set!Select

LEMMA SaveKeeps ==
  ASSUME Waiting, SettingsInv, Set!Save
  PROVE  SettingsInv' /\ \A f \in Set!Fields(tab) : file'[f] = tabs[f]
<1> DEFINE F == Set!Fields(tab) \ {"keys"}
           saved == [f \in Set!Field |-> IF f \in F THEN tabs[f] ELSE current[f]]
<1>1. /\ visible /\ Set!Waits /\ current' = saved /\ file' = saved
      /\ UNCHANGED <<applied, visible, tab, tabs, used, network, connected, pending, restarts, complete>>
  BY DEF Set!Save, Set!save, Set!restarting
<1>2. SettingsTyped /\ ~Set!Busy /\ pending = None /\ restarts = <<>> /\ ~complete
      /\ SameReach(network, applied)
  BY <1>1, BusyOrNot DEF SettingsInv
<1>3. saved \in Content
  BY <1>2, ContentMixed DEF SettingsTyped
<1>4. \A f \in Set!Field : saved[f] = IF f \in F THEN tabs[f] ELSE current[f]
  OBVIOUS
<1>5. "keys" \in Set!Field /\ Set!Fields(tab) \subseteq Set!Field
  BY <1>2, FieldsAre DEF SettingsTyped
<1>6. tabs["keys"] = current["keys"] /\ saved["keys"] = current["keys"]
  BY <1>1, <1>4, <1>5 DEF SettingsInv, KeysShown
<1>7. \A f \in Set!Fields(tab) : saved[f] = tabs[f]
  BY <1>4, <1>5, <1>6
<1> HIDE DEF saved, F
<1>8. SettingsTyped'
  BY <1>1, <1>2, <1>3 DEF SettingsTyped
<1>9. Stage'
  BY <1>1, <1>2 DEF Stage, SameReach, Set!Reaches, Set!Relayed
<1>10. KeysShown'
  BY <1>1, <1>6 DEF KeysShown
<1> QED
  BY <1>1, <1>7, <1>8, <1>9, <1>10 DEF SettingsInv, Hidden

(* All of the program goes by settings that are applied. *)
LEMMA Applied ==
  ASSUME NEW new \in Content, new = file, file' = file, current' = file, applied' = file,
         used' = [f \in Set!Copied |-> file[f]], SameReach(network', file), network' \in Content,
         pending' = None, restarts' = <<>>, ~complete', complete' \in BOOLEAN,
         UNCHANGED connected, connected \in BOOLEAN, visible' \in BOOLEAN, tab' \in Set!Tabs,
         tabs' \in Content, visible' => tabs'["keys"] = file["keys"]
  PROVE  SettingsInv'
<1>1. used' \in [Set!Copied -> BOOLEAN] /\ \A f \in Set!Copied : used'[f] = file[f]
  BY ContentHas
<1>2. SettingsTyped'
  BY <1>1 DEF SettingsTyped
<1>3. ~(Set!Busy)'
  BY DEF Set!Busy
<1>4. SameReach(network, applied)' /\ SameReach(network, file)'
  BY DEF SameReach, Set!Reaches, Set!Relayed
<1>5. Stage'
  BY <1>4 DEF Stage
<1> QED
  BY <1>1, <1>2, <1>3, <1>4, <1>5 DEF SettingsInv, Hidden, KeysShown

LEMMA LeaveKeeps ==
  ASSUME Waiting, SettingsInv, Set!Leave
  PROVE  SettingsInv'
<1>1. /\ visible' = FALSE /\ tab' = "General" /\ current' = file /\ tabs' = file
      /\ Set!Waits /\ Set!update_settings(file) /\ UNCHANGED <<file, connected>>
  BY DEF Set!Leave, Set!load
<1>2. SettingsTyped /\ ~Set!Busy /\ pending = None /\ restarts = <<>> /\ ~complete
      /\ SameReach(network, applied) /\ tab' \in Set!Tabs
  BY <1>1, BusyOrNot DEF SettingsInv, Set!Tabs
<1>3. CASE connected /\ Set!NeedsRestart(file)
  <2>1. /\ pending' = file /\ restarts' = <<file>> /\ UNCHANGED <<applied, network, complete>>
        /\ used' = [used EXCEPT !["fullscreen"] = file["fullscreen"]]
    BY <1>1, <1>2, <1>3 DEF Set!update_settings, Set!set_fullscreen
  <2>2. used' \in [Set!Copied -> BOOLEAN]
    BY <1>2, <2>1, ContentHas DEF SettingsTyped, Set!Copied
  <2>3. SettingsTyped'
    BY <1>1, <1>2, <2>1, <2>2 DEF SettingsTyped
  <2>4. Stage' /\ (Set!Busy)'
    <3>1. <<file>> # <<>>
      OBVIOUS
    <3> QED
      BY <1>1, <1>2, <1>3, <2>1, <3>1 DEF Stage, Set!Busy
  <2> QED
    BY <1>1, <2>3, <2>4 DEF SettingsInv, Hidden, KeysShown
<1>4. CASE ~(connected /\ Set!NeedsRestart(file))
  <2>1. /\ applied' = file /\ used' = [f \in Set!Copied |-> file[f]]
        /\ network' = IF connected THEN network ELSE file
        /\ UNCHANGED <<pending, restarts, complete>>
    BY <1>1, <1>4 DEF Set!update_settings, Set!apply_settings, Set!restarting
  <2>2. SameReach(network', file) /\ network' \in Content
    <3>1. connected => SameReach(applied, file)
      BY <1>2, <1>4, NothingToRestart DEF SettingsTyped
    <3> QED
      BY <1>2, <2>1, <3>1 DEF SameReach, SettingsTyped
  <2> QED
    BY <1>1, <1>2, <2>1, <2>2, Applied DEF SettingsTyped
<1> QED
  BY <1>3, <1>4

LEMMA NoticedKeeps ==
  ASSUME Waiting, SettingsInv, Set!check_network_restart_complete
  PROVE  SettingsInv'
<1>1. /\ complete /\ complete' = FALSE
      /\ UNCHANGED <<file, visible, tab, tabs, restarts, connected>>
  BY DEF Set!check_network_restart_complete
<1>2. /\ SettingsTyped /\ pending = file /\ file # None /\ connected /\ restarts = <<>>
      /\ SameReach(network, file) /\ Set!Busy
  BY <1>1, BusyOrNot DEF SettingsInv, Set!Busy
<1>3. Set!apply_settings(file) /\ pending' = None
  BY <1>2 DEF Set!check_network_restart_complete
<1>4. /\ current' = file /\ applied' = file /\ used' = [f \in Set!Copied |-> file[f]]
      /\ network' = network
  BY <1>2, <1>3 DEF Set!apply_settings
<1>5. visible => tabs["keys"] = file["keys"]
  BY <1>2 DEF SettingsInv, KeysShown
<1> QED
  BY <1>1, <1>2, <1>3, <1>4, <1>5, Applied DEF SettingsTyped

LEMMA RestartedKeeps ==
  ASSUME Waiting, SettingsInv, Set!RestartEnds
  PROVE  SettingsInv'
<1>1. PICK i \in DOMAIN restarts :
        /\ network' = restarts[i]
        /\ used' = [used EXCEPT !["ttl"] = restarts[i]["ttl"]]
        /\ restarts' = Set!RemoveAt(restarts, i) /\ complete' = TRUE
        /\ UNCHANGED <<file, current, applied, visible, tab, tabs, connected, pending>>
  BY DEF Set!RestartEnds, Set!objects, Set!menu
<1>2. restarts = <<file>> /\ pending = file /\ connected /\ SettingsTyped /\ Set!Busy
  <2>1. DOMAIN <<>> = {}
    BY EmptySeq
  <2>2. restarts # <<>>
    BY <1>1, <2>1
  <2> QED
    BY <2>2, BusyOrNot DEF SettingsInv, Set!Busy
<1>3. i = 1 /\ restarts[i] = file
  BY <1>2
<1>4. restarts' = <<>>
  BY <1>1, <1>2, <1>3 DEF Set!RemoveAt
<1>5. used' \in [Set!Copied -> BOOLEAN]
  BY <1>1, <1>2, <1>3, ContentHas DEF SettingsTyped, Set!Copied
<1>6. SettingsTyped'
  BY <1>1, <1>2, <1>3, <1>5 DEF SettingsTyped
<1>7. Stage' /\ (Set!Busy)'
  BY <1>1, <1>2, <1>3, <1>4 DEF Stage, SameReach, Set!Busy, Set!Reaches, Set!Relayed
<1> QED
  BY <1>1, <1>2, <1>6, <1>7 DEF SettingsInv, Hidden, KeysShown

LEMMA ToggleKeeps ==
  ASSUME Waiting, SettingsInv, Set!_on_toggle_fullscreen
  PROVE  SettingsInv'
<1> DEFINE v == ~used["fullscreen"]
           now == [current EXCEPT !["fullscreen"] = v]
<1>1. /\ Set!Waits /\ used' = [used EXCEPT !["fullscreen"] = v] /\ current' = now /\ file' = now
      /\ tabs' = now
      /\ UNCHANGED <<applied, visible, tab, network, connected, pending, restarts, complete>>
  BY DEF Set!_on_toggle_fullscreen, Set!set_fullscreen, Set!save, Set!Shown, Set!restarting
<1>2. SettingsTyped /\ ~Set!Busy /\ pending = None /\ restarts = <<>> /\ ~complete
      /\ SameReach(network, applied)
  BY <1>1, BusyOrNot DEF SettingsInv
<1>3. v \in BOOLEAN /\ "fullscreen" \in Set!Field /\ v \in Set!Values("fullscreen")
  BY FieldsAre DEF Set!Values
<1> HIDE DEF v
<1>4. /\ now \in Content /\ SameReach(current, now)
      /\ \A f \in Set!Field : now[f] = IF f = "fullscreen" THEN v ELSE current[f]
  BY <1>2, <1>3, ContentChanges, ReachKept DEF SettingsTyped
<1> HIDE DEF now
<1>5. /\ used' \in [Set!Copied -> BOOLEAN]
      /\ \A f \in Set!Copied : used'[f] = IF f = "fullscreen" THEN v ELSE used[f]
  BY <1>1, <1>2, <1>3 DEF SettingsTyped
<1>6. SettingsTyped'
  BY <1>1, <1>2, <1>4, <1>5 DEF SettingsTyped
<1>7. Stage'
  BY <1>1, <1>2 DEF Stage, SameReach, Set!Reaches, Set!Relayed
<1>8. ASSUME ~visible
      PROVE  (\A f \in Set!Copied : used'[f] = now[f]) /\ SameReach(network, now)
  BY <1>2, <1>4, <1>5, <1>8, FieldsAre DEF SettingsInv, Hidden, SameReach
<1>9. Hidden'
  BY <1>1, <1>8 DEF Hidden, SameReach, Set!Reaches, Set!Relayed
<1> QED
  BY <1>1, <1>6, <1>7, <1>9 DEF SettingsInv, KeysShown

LEMMA ShowKeeps ==
  ASSUME Waiting, SettingsInv, Set!Show \/ Set!Connect \/ Set!ChooseTab
  PROVE  SettingsInv'
<1>1. UNCHANGED <<file, current, applied, network, used, pending, restarts, complete>>
  BY DEF Set!Show, Set!Connect, Set!ChooseTab, Set!objects, Set!using, Set!restarting, Set!menu
<1>2. /\ tab' \in Set!Tabs /\ visible' \in BOOLEAN /\ connected' \in BOOLEAN /\ tabs' \in Content
      /\ connected => connected'
      /\ ~visible' => ~visible
      /\ visible' => \/ visible /\ tabs' = tabs
                     \/ ~visible /\ tabs' = current
  <2>1. SettingsTyped
    BY DEF SettingsInv
  <2>2. CASE Set!Show
    <3>1. ~visible /\ visible' = TRUE /\ tabs' = current /\ UNCHANGED <<tab, connected>>
      BY <2>2 DEF Set!Show, Set!Shown
    <3> QED
      BY <2>1, <3>1 DEF SettingsTyped
  <2>3. CASE Set!Connect
    <3>1. ~connected /\ connected' = TRUE /\ UNCHANGED <<tab, visible, tabs>>
      BY <2>3 DEF Set!Connect, Set!menu
    <3> QED
      BY <2>1, <3>1 DEF SettingsTyped
  <2>4. CASE Set!ChooseTab
    <3>1. tab' \in Set!Tabs /\ UNCHANGED <<connected, visible, tabs>>
      BY <2>4 DEF Set!ChooseTab
    <3> QED
      BY <2>1, <3>1 DEF SettingsTyped
  <2> QED
    BY <2>2, <2>3, <2>4
<1>3. (Set!Busy)' <=> Set!Busy
  BY <1>1 DEF Set!Busy
<1>4. SettingsTyped'
  BY <1>1, <1>2 DEF SettingsInv, SettingsTyped
<1>5. Stage'
  BY <1>1, <1>2 DEF SettingsInv, Stage, SameReach, Set!Reaches, Set!Relayed
<1>6. Hidden' /\ KeysShown'
  BY <1>1, <1>2, <1>3 DEF SettingsInv, Hidden, KeysShown, SameReach, Set!Reaches, Set!Relayed
<1> QED
  BY <1>4, <1>5, <1>6 DEF SettingsInv

LEMMA SettingsStep == Waiting /\ SettingsInv /\ [Set!Next]_(Set!vars) => SettingsInv'
<1>1. UNCHANGED Set!vars => UNCHANGED SettingsFacts
  BY DEF Set!vars, Set!objects, Set!menu, Set!using, Set!restarting, SettingsFacts
<1> QED
  BY <1>1, SettingsRest, WidgetKeeps, SaveKeeps, LeaveKeeps, NoticedKeeps, RestartedKeeps,
     ToggleKeeps, ShowKeeps
     DEF Set!Next

LEMMA SettingsMean ==
  ASSUME Waiting, SettingsInv
  PROVE  /\ Set!InStep
         /\ [Set!Next]_(Set!vars) => [~visible /\ visible' => tabs' = file']_(Set!vars)
         /\ [Set!Next]_(Set!vars) =>
              [Set!Save => \A f \in Set!Fields(tab) : file'[f] = tabs[f]]_(Set!vars)
<1>1. Set!InStep
  BY DEF Set!InStep, SettingsInv, Hidden, SameReach
<1>2. ASSUME Set!Next, ~visible, visible'
      PROVE  tabs' = file'
  <2>1. Set!Show
    BY <1>2 DEF Set!Next, Set!Connect, Set!ChooseTab, Set!Save, Set!Leave, Set!_on_toggle_fullscreen,
         Set!RestartEnds, Set!check_network_restart_complete, Set!menu, Set!Widget, Set!GeneralTab,
         Set!InputTab, Set!OsdTab, Set!NetworkTab, Set!FrequenciesTab, Set!Checkbox,
         Set!NumberInput, Set!Select, Set!TextInput, Set!KeyMapping, Set!Edit
  <2> QED
    BY <1>2, <2>1 DEF Set!Show, Set!Shown, Set!objects, SettingsInv, Hidden
<1>3. Set!Save => \A f \in Set!Fields(tab) : file'[f] = tabs[f]
  BY SaveKeeps
<1> QED
  BY <1>1, <1>2, <1>3

-----------------------------------------------------------------------------
(* One part at a time is a step of that part *)

LEMMA DriverVideo == DriverSpec => Init /\ [][Next]_vars
<1>1. DriverInit => Init
  BY DEF DriverInit
<1>2. [DriverNext]_driverVars => [Next]_vars
  <2>1. CASE UNCHANGED driverVars
    BY <2>1 DEF driverVars
  <2>2. CASE DriverNext
    BY <2>2 DEF DriverNext
  <2> QED
    BY <2>1, <2>2
<1> QED
  BY <1>1, <1>2, PTL DEF DriverSpec

LEMMA DriverInput == DriverSpec => Drive!Init /\ [][Drive!Next]_(Drive!vars)
<1>1. DriverInit => Drive!Init
  BY DEF DriverInit
<1>2. UNCHANGED inputVars => UNCHANGED Drive!vars
  BY DEF inputVars, Drive!vars, Drive!handler, Drive!gamepad
<1>3. [DriverNext]_driverVars => [Drive!Next]_(Drive!vars)
  <2>1. CASE UNCHANGED driverVars
    BY <1>2, <2>1 DEF driverVars
  <2>2. CASE DriverNext
    BY <1>2, <2>2 DEF DriverNext
  <2> QED
    BY <2>1, <2>2
<1> QED
  BY <1>1, <1>3, PTL DEF DriverSpec

LEMMA DriverSettings == DriverSpec => Set!Init /\ [][Set!Next]_(Set!vars)
<1>1. DriverInit => Set!Init
  BY DEF DriverInit
<1>2. UNCHANGED settingsVars => UNCHANGED Set!vars
  BY DEF settingsVars, Set!vars, Set!objects, Set!menu, Set!using, Set!restarting
<1>3. [DriverNext]_driverVars => [Set!Next]_(Set!vars)
  <2>1. CASE UNCHANGED driverVars
    BY <1>2, <2>1 DEF driverVars
  <2>2. CASE DriverNext
    BY <1>2, <2>2 DEF DriverNext
  <2> QED
    BY <2>1, <2>2
<1> QED
  BY <1>1, <1>3, PTL DEF DriverSpec

-----------------------------------------------------------------------------
(* Every variable of a receiver keeps its type, for any size of its buffer *)
(* and any backend (Receiver.py, ReceiverGst.py, ReceiverPyAV.py).         *)
THEOREM VideoTypeCorrect == DriverSpec => []TypeOK
<1>1. VideoInv => TypeOK
  BY DEF VideoInv
<1> QED
  BY <1>1, VideoInit, VideoStep, DriverVideo, PTL

(* The times that get_frame takes for the frame it returns are those of    *)
(* that frame, until frames are cleared without their times while older    *)
(* frames than the newest may be picked; and unless a sample slips in      *)
(* while the pipeline stops, no frame outlives its stream, whatever the    *)
(* order of frames, picks, timeouts and reconnections.                     *)
THEOREM FramesAreOwn == DriverSpec => []FramesOwn
<1>1. VideoInv => FramesOwn
  BY DEF VideoInv, FramesOwn, Tidy, Paired
<1> QED
  BY <1>1, VideoInit, VideoStep, DriverVideo, PTL

(* However a key is tapped, held and exchanged for the other, it never     *)
(* drives the other way by more than the step of one tap, and the value is *)
(* back at zero in a bounded number of frames once it is let go (update of *)
(* KeyAxisHandler.py); what an axis sends stays in its range, an axis at   *)
(* rest sends nothing and one at its end all of it, for any calibration    *)
(* (read_inputs of GamepadController.py).                                  *)
THEOREM InputObeyed == DriverSpec => []DriveObeyed
BY DriveInit, DriveStep, DriveMeans, DriverInput, PTL

(* With the menu left and no restart under way every part of the viewer    *)
(* goes by the file; the menu opens with what is in the file, and what a   *)
(* tab shows is what it saves, however often settings are edited, saved,   *)
(* left and applied and the network is restarted for them (InStep,         *)
(* ShownIsSaved and SavedIsShown of MenuSettings, about                    *)
(* SettingsController.py and Menu.py).                                     *)
THEOREM SettingsFollowed ==
  ASSUME Waiting
  PROVE  DriverSpec => []Set!InStep /\ Set!ShownIsSaved /\ Set!SavedIsShown
<1>1. DriverSpec => []SettingsInv
  BY SettingsInit, SettingsStep, DriverSettings, PTL
<1>2. SettingsInv => Set!InStep
  BY SettingsMean
<1>3. SettingsInv /\ [Set!Next]_(Set!vars) =>
        [~visible /\ visible' => tabs' = file']_(Set!vars)
  BY SettingsMean
<1>4. SettingsInv /\ [Set!Next]_(Set!vars) =>
        [Set!Save => \A f \in Set!Fields(tab) : file'[f] = tabs[f]]_(Set!vars)
  BY SettingsMean
<1> QED
  BY <1>1, <1>2, <1>3, <1>4, DriverSettings, PTL DEF Set!ShownIsSaved, Set!SavedIsShown

=============================================================================

-------------------------- MODULE IpcSessionProofs --------------------------
(***************************************************************************)
(* Proofs about IpcSession, for every client, every size of the socket and *)
(* of the broadcast channel, and every number of events and requests.      *)
(***************************************************************************)
EXTENDS IpcSession, Lemmas

---------------------------------------------------------------------------
(* Streams of pieces                                                       *)

\* t is s without its first d pieces.
Sheds(t, s, d) ==
    /\ d \in Nat /\ Len(t) + d = Len(s)
    /\ \A i \in 1 .. Len(t) : t[i] = s[i + d]

\* t is s with the frame of m after it.
Grows(t, s, m) ==
    /\ Len(t) = Len(s) + 2
    /\ \A i \in 1 .. Len(s) : t[i] = s[i]
    /\ t[Len(s) + 1] = [part |-> "len", msg |-> m]
    /\ t[Len(s) + 2] = [part |-> "body", msg |-> m]

\* The first d pieces of s are a message, or what is left of it.
Leads(d, s, m) ==
    /\ d \in {1, 2} /\ d <= Len(s)
    /\ s[d] = [part |-> "body", msg |-> m]
    /\ d = 2 => s[1] = [part |-> "len", msg |-> m]

\* A piece, and what two streams are together.
LEMMA PieceOf ==
    ASSUME NEW s \in Seq(Pieces), NEW i \in DOMAIN s
    PROVE  s[i] \in Pieces /\ s[i].part \in {"len", "body"} /\ s[i].msg \in Messages
<1>1. s[i] \in Pieces
  OBVIOUS
<1> QED
  BY <1>1 DEF Pieces

LEMMA Joined ==
    ASSUME NEW s \in Seq(Pieces), NEW o \in Seq(Pieces)
    PROVE  /\ s \o o \in Seq(Pieces) /\ Len(s) \in Nat /\ Len(o) \in Nat
           /\ Len(s \o o) = Len(s) + Len(o) /\ DOMAIN (s \o o) = 1 .. Len(s) + Len(o)
           /\ \A i \in 1 .. Len(s) : (s \o o)[i] = s[i]
           /\ \A i \in 1 .. Len(o) : (s \o o)[Len(s) + i] = o[i]
  OBVIOUS

LEMMA FrameOf ==
    ASSUME NEW m \in Messages
    PROVE  /\ Frame(m) \in Seq(Pieces) /\ Len(Frame(m)) = 2 /\ Frame(m) # <<>>
           /\ Frame(m)[1] = [part |-> "len", msg |-> m]
           /\ Frame(m)[2] = [part |-> "body", msg |-> m]
  BY DEF Frame, Pieces

\* A piece that moves from the writer into the socket changes nothing.
LEMMA PieceMoves ==
    ASSUME NEW s \in Seq(Pieces), NEW o \in Seq(Pieces), o # <<>>
    PROVE  /\ Append(s, Head(o)) \in Seq(Pieces) /\ Tail(o) \in Seq(Pieces)
           /\ Append(s, Head(o)) \o Tail(o) = s \o o
<1> DEFINE h == Head(o)
           r == Tail(o)
           a == Append(s, h)
<1>1. /\ h = o[1] /\ h \in Pieces /\ r \in Seq(Pieces)
      /\ Len(o) \in Nat \ {0} /\ Len(r) = Len(o) - 1
      /\ \A i \in 1 .. Len(o) - 1 : r[i] = o[i + 1]
  BY TailOf
<1> HIDE DEF h, r
<1>2. /\ a \in Seq(Pieces) /\ Len(s) \in Nat /\ Len(a) = Len(s) + 1
      /\ \A i \in 1 .. Len(s) : a[i] = s[i]
      /\ a[Len(s) + 1] = h
  BY <1>1, AppendOf
<1> HIDE DEF a
<1>3. /\ a \o r \in Seq(Pieces) /\ s \o o \in Seq(Pieces)
      /\ Len(a \o r) = Len(s) + Len(o) /\ Len(s \o o) = Len(s) + Len(o)
  <2>1. a \o r \in Seq(Pieces) /\ Len(a \o r) = Len(a) + Len(r)
    BY <1>1, <1>2, Joined
  <2>2. s \o o \in Seq(Pieces) /\ Len(s \o o) = Len(s) + Len(o)
    BY Joined
  <2> QED BY <1>1, <1>2, <2>1, <2>2
<1>4. ASSUME NEW i \in 1 .. Len(s) + Len(o) PROVE (a \o r)[i] = (s \o o)[i]
  <2>1. CASE i <= Len(s)
    <3>1. i \in 1 .. Len(s) /\ i \in 1 .. Len(a)
      BY <1>2, <2>1
    <3>2. (a \o r)[i] = a[i] /\ (s \o o)[i] = s[i]
      BY <1>1, <1>2, <3>1, Joined
    <3> QED BY <1>2, <3>1, <3>2
  <2>2. CASE i = Len(s) + 1
    <3>1. i \in 1 .. Len(a) /\ 1 \in 1 .. Len(o)
      BY <1>1, <1>2, <2>2
    <3>2. (a \o r)[i] = a[i] /\ (s \o o)[Len(s) + 1] = o[1]
      BY <1>1, <1>2, <3>1, Joined
    <3> QED BY <1>1, <1>2, <2>2, <3>2
  <2>3. CASE i > Len(s) + 1
    <3> DEFINE k == i - (Len(s) + 1)
    <3>1. k \in 1 .. Len(o) - 1 /\ i = Len(a) + k /\ i = Len(s) + (k + 1) /\ k + 1 \in 1 .. Len(o)
      BY <1>1, <1>2, <2>3
    <3>2. (a \o r)[Len(a) + k] = r[k]
      BY <1>1, <1>2, <3>1, Joined
    <3>3. (s \o o)[Len(s) + (k + 1)] = o[k + 1]
      BY <3>1, Joined
    <3> QED BY <1>1, <3>1, <3>2, <3>3
  <2>4. i \in Nat /\ Len(s) \in Nat
    BY <1>1, <1>2
  <2>5. i <= Len(s) \/ i = Len(s) + 1 \/ i > Len(s) + 1
    BY <2>4
  <2> QED BY <2>1, <2>2, <2>3, <2>5
<1>5. a \o r = s \o o
  <2> DEFINE x == a \o r
             y == s \o o
  <2>1. x \in Seq(Pieces) /\ y \in Seq(Pieces) /\ Len(x) = Len(y) /\ \A i \in 1 .. Len(x) : x[i] = y[i]
    BY <1>3, <1>4
  <2> HIDE DEF x, y
  <2>2. x = y
    BY <2>1
  <2> QED BY <2>2 DEF x, y
<1> QED
  BY <1>1, <1>2, <1>5 DEF a, h, r

\* A frame that is to be written goes to the end of the stream.
LEMMA FrameGrows ==
    ASSUME NEW s \in Seq(Pieces), NEW m \in Messages
    PROVE  /\ s \o Frame(m) \in Seq(Pieces)
           /\ Grows(s \o Frame(m), s \o <<>>, m)
<1>1. s \o <<>> = s
  OBVIOUS
<1> DEFINE f == Frame(m)
<1>2. f \in Seq(Pieces) /\ Len(f) = 2 /\ 1 \in 1 .. Len(f) /\ 2 \in 1 .. Len(f)
      /\ f[1] = [part |-> "len", msg |-> m] /\ f[2] = [part |-> "body", msg |-> m]
  BY FrameOf
<1> HIDE DEF f
<1>3. /\ s \o f \in Seq(Pieces) /\ Len(s) \in Nat /\ Len(s \o f) = Len(s) + 2
      /\ \A i \in 1 .. Len(s) : (s \o f)[i] = s[i]
      /\ (s \o f)[Len(s) + 1] = f[1] /\ (s \o f)[Len(s) + 2] = f[2]
  <2>1. /\ s \o f \in Seq(Pieces) /\ Len(s) \in Nat /\ Len(s \o f) = Len(s) + Len(f)
        /\ \A i \in 1 .. Len(s) : (s \o f)[i] = s[i]
    BY <1>2, Joined
  <2>2. (s \o f)[Len(s) + 1] = f[1] /\ (s \o f)[Len(s) + 2] = f[2]
    BY <1>2, Joined
  <2> QED BY <1>2, <2>1, <2>2
<1> QED
  BY <1>1, <1>2, <1>3 DEF Grows, f

\* What reading and leaving make of a stream.
LEMMA TailSlices ==
    ASSUME NEW s \in Seq(Pieces), NEW o \in Seq(Pieces), s # <<>>
    PROVE  /\ Tail(s) \in Seq(Pieces) /\ Sheds(Tail(s) \o o, s \o o, 1)
           /\ Len(Tail(s)) \in Nat /\ Len(Tail(s)) = Len(s) - 1
<1> DEFINE r == Tail(s)
<1>1. /\ r \in Seq(Pieces) /\ Len(s) \in Nat \ {0} /\ Len(r) = Len(s) - 1
      /\ \A i \in 1 .. Len(s) - 1 : r[i] = s[i + 1]
  BY TailOf
<1> HIDE DEF r
<1>2. Len(r \o o) = Len(r) + Len(o) /\ Len(s \o o) = Len(s) + Len(o) /\ Len(o) \in Nat
  BY <1>1, Joined
<1>3. ASSUME NEW i \in 1 .. Len(r \o o) PROVE (r \o o)[i] = (s \o o)[i + 1]
  <2>1. CASE i <= Len(r)
    <3>1. i \in 1 .. Len(r) /\ i + 1 \in 1 .. Len(s)
      BY <1>1, <1>2, <2>1
    <3> QED BY <1>1, <3>1, Joined
  <2>2. CASE i > Len(r)
    <3> DEFINE k == i - Len(r)
    <3>1. k \in 1 .. Len(o) /\ i = Len(r) + k /\ i + 1 = Len(s) + k
      BY <1>1, <1>2, <2>2
    <3>2. (r \o o)[Len(r) + k] = o[k] /\ (s \o o)[Len(s) + k] = o[k]
      BY <1>1, <3>1, Joined
    <3> QED BY <3>1, <3>2
  <2> QED BY <1>1, <1>2, <2>1, <2>2
<1>4. Len(r \o o) + 1 = Len(s \o o) /\ 1 \in Nat
  BY <1>1, <1>2
<1> QED
  BY <1>1, <1>3, <1>4 DEF Sheds, r

LEMMA ShedsFramed ==
    ASSUME NEW s \in Seq(Pieces), NEW t \in Seq(Pieces), NEW d, Sheds(t, s, d), Framed(s)
    PROVE  Framed(t)
<1>1. d \in Nat /\ Len(t) \in Nat /\ Len(s) \in Nat /\ Len(t) + d = Len(s) /\ DOMAIN t = 1 .. Len(t)
  BY DEF Sheds
<1>2. ASSUME NEW i \in 1 .. Len(t)
      PROVE  IF t[i].part = "len"
             THEN i < Len(t) /\ t[i + 1] = [part |-> "body", msg |-> t[i].msg]
             ELSE i > 1 => t[i - 1] = [part |-> "len", msg |-> t[i].msg]
  <2>1. i + d \in 1 .. Len(s) /\ i \in Nat /\ t[i] = s[i + d]
    BY <1>1 DEF Sheds
  <2>2. IF s[i + d].part = "len"
        THEN i + d < Len(s) /\ s[(i + d) + 1] = [part |-> "body", msg |-> s[i + d].msg]
        ELSE i + d > 1 => s[(i + d) - 1] = [part |-> "len", msg |-> s[i + d].msg]
    BY <2>1 DEF Framed
  <2>3. CASE t[i].part = "len"
    <3>1. i + d < Len(s) /\ s[(i + d) + 1] = [part |-> "body", msg |-> t[i].msg]
      BY <2>1, <2>2, <2>3
    <3>2. i < Len(t) /\ i + 1 \in 1 .. Len(t) /\ (i + 1) + d = (i + d) + 1
      BY <1>1, <2>1, <3>1
    <3>3. t[i + 1] = s[(i + 1) + d]
      BY <3>2 DEF Sheds
    <3> QED BY <2>3, <3>1, <3>2, <3>3
  <2>4. CASE t[i].part # "len" /\ i > 1
    <3>1. i - 1 \in 1 .. Len(t) /\ (i - 1) + d = (i + d) - 1 /\ i + d > 1
      BY <1>1, <2>1, <2>4
    <3>2. t[i - 1] = s[(i - 1) + d]
      BY <3>1 DEF Sheds
    <3>3. s[(i + d) - 1] = [part |-> "len", msg |-> t[i].msg]
      BY <2>1, <2>2, <2>4, <3>1
    <3> QED BY <2>4, <3>1, <3>2, <3>3
  <2> QED BY <2>3, <2>4
<1> QED
  BY <1>1, <1>2 DEF Framed

\* A frame written behind what is aligned leaves it aligned.
LEMMA GrowsAligned ==
    ASSUME NEW s \in Seq(Pieces), NEW t \in Seq(Pieces), NEW m, Grows(t, s, m),
           NEW held \in HeldStates, NEW dropped, Aligned(held, s, dropped)
    PROVE  Aligned(held, t, dropped)
<1> DEFINE n == Len(s)
<1>1. n \in Nat /\ Len(t) = n + 2 /\ DOMAIN t = 1 .. n + 2 /\ DOMAIN s = 1 .. n
      /\ \A i \in 1 .. n : t[i] = s[i]
  BY DEF Grows
<1>2. t[n + 1] = [part |-> "len", msg |-> m] /\ t[n + 2] = [part |-> "body", msg |-> m]
  BY DEF Grows
<1>3. Framed(s)
  BY DEF Aligned
<1> HIDE DEF n
<1>4. ASSUME NEW i \in 1 .. n + 2
      PROVE  IF t[i].part = "len"
             THEN i < Len(t) /\ t[i + 1] = [part |-> "body", msg |-> t[i].msg]
             ELSE i > 1 => t[i - 1] = [part |-> "len", msg |-> t[i].msg]
  <2>1. CASE i \in 1 .. n
    <3>1. IF s[i].part = "len"
          THEN i < n /\ s[i + 1] = [part |-> "body", msg |-> s[i].msg]
          ELSE i > 1 => s[i - 1] = [part |-> "len", msg |-> s[i].msg]
      BY <1>1, <1>3, <2>1 DEF Framed, n
    <3>2. i < n => i + 1 \in 1 .. n
      BY <1>1, <2>1
    <3>3. i > 1 => i - 1 \in 1 .. n
      BY <1>1, <2>1
    <3>4. t[i] = s[i] /\ (i < n => t[i + 1] = s[i + 1] /\ i < Len(t)) /\ (i > 1 => t[i - 1] = s[i - 1])
      BY <1>1, <2>1, <3>2, <3>3
    <3> QED BY <3>1, <3>4
  <2>2. CASE i = n + 1
    <3>1. i < Len(t) /\ i + 1 = n + 2
      BY <1>1, <2>2
    <3> QED BY <1>2, <2>2, <3>1
  <2>3. CASE i = n + 2
    <3>1. i - 1 = n + 1
      BY <1>1, <2>3
    <3> QED BY <1>2, <2>3, <3>1
  <2> QED BY <1>1, <2>1, <2>2, <2>3
<1>5. Framed(t)
  BY <1>1, <1>4 DEF Framed
<1>6. t # <<>>
  BY <1>1
<1>7. WholeFrames(s) <=> WholeFrames(t)
  <2>1. CASE s = <<>>
    <3>1. n = 0
      BY <2>1 DEF n
    <3> QED BY <1>2, <2>1, <3>1 DEF WholeFrames
  <2>2. CASE s # <<>>
    <3>1. n # 0
      BY <2>2 DEF n
    <3>2. 1 \in 1 .. n
      BY <1>1, <3>1
    <3> QED BY <1>1, <1>6, <2>2, <3>2 DEF WholeFrames
  <2> QED BY <2>1, <2>2
<1> QED
  BY <1>5, <1>7 DEF Aligned

\* The first body of a stream is a message, whole or without its length.
LEMMA BodyLeads ==
    ASSUME NEW s \in Seq(Pieces), Framed(s), s # <<>>
    PROVE  \E d \in {1, 2} : /\ Leads(d, s, s[1].msg)
                             /\ s[1].part = "len" <=> d = 2
<1>1. Len(s) \in Nat \ {0} /\ DOMAIN s = 1 .. Len(s)
  BY TailOf
<1>2. 1 \in DOMAIN s /\ 1 \in 1 .. Len(s)
  BY <1>1
<1>3. s[1] \in Pieces
  BY <1>2
<1>4. CASE s[1].part = "len"
  <2>1. 1 < Len(s) /\ s[1 + 1] = [part |-> "body", msg |-> s[1].msg]
    BY <1>2, <1>4 DEF Framed
  <2>2. 2 <= Len(s) /\ s[2] = [part |-> "body", msg |-> s[1].msg]
    BY <1>1, <2>1
  <2>3. s[1] = [part |-> "len", msg |-> s[1].msg]
    BY <1>3, <1>4 DEF Pieces
  <2> QED BY <1>4, <2>2, <2>3 DEF Leads
<1>5. CASE s[1].part # "len"
  <2>1. s[1] = [part |-> "body", msg |-> s[1].msg]
    BY <1>3, <1>5 DEF Pieces
  <2>2. 1 <= Len(s)
    BY <1>1
  <2> QED BY <1>5, <2>1, <2>2 DEF Leads
<1> QED
  BY <1>4, <1>5

\* What is left when a whole message is gone starts with a length.
LEMMA FramesLeft ==
    ASSUME NEW s \in Seq(Pieces), NEW t \in Seq(Pieces), NEW d, NEW m,
           Framed(s), Leads(d, s, m), Sheds(t, s, d)
    PROVE  WholeFrames(t)
<1> SUFFICES ASSUME t # <<>>, t[1].part # "len" PROVE FALSE
  BY DEF WholeFrames
<1>1. d \in {1, 2} /\ Len(t) + d = Len(s) /\ Len(t) \in Nat \ {0} /\ Len(s) \in Nat
  BY TailOf DEF Sheds, Leads
<1>2. 1 \in 1 .. Len(t) /\ 1 + d \in DOMAIN s /\ 1 + d > 1 /\ (1 + d) - 1 = d
  BY <1>1
<1>3. t[1] = s[1 + d]
  BY <1>2 DEF Sheds
<1>4. IF s[1 + d].part = "len"
      THEN 1 + d < Len(s) /\ s[(1 + d) + 1] = [part |-> "body", msg |-> s[1 + d].msg]
      ELSE 1 + d > 1 => s[(1 + d) - 1] = [part |-> "len", msg |-> s[1 + d].msg]
  BY <1>2 DEF Framed
<1>5. s[d] = [part |-> "len", msg |-> s[1 + d].msg]
  BY <1>2, <1>3, <1>4
<1> QED
  BY <1>5 DEF Leads

\* A read that completes takes the first message, and what is left is whole.
LEMMA ReadTakes ==
    ASSUME NEW w \in Seq(Pieces), NEW o \in Seq(Pieces), NEW held, NEW dropped,
           Aligned(held, w \o o, dropped), Completes(held, w)
    PROVE  /\ Rest(held, w) \in Seq(Pieces) /\ Len(Rest(held, w)) <= Len(w)
           /\ w # <<>> /\ w[1].msg \in Messages /\ w[1] = (w \o o)[1]
           /\ \E d \in {1, 2} : /\ Leads(d, w \o o, w[1].msg)
                                /\ Sheds(Rest(held, w) \o o, w \o o, d)
           /\ \A any : Aligned("none", Rest(held, w) \o o, any)
<1> DEFINE S == w \o o
           R == Rest(held, w)
           T == R \o o
<1>1. w # <<>> /\ Len(w) \in Nat \ {0}
  BY TailOf DEF Completes
<1>2. 1 \in 1 .. Len(w) /\ 1 \in DOMAIN w
  BY <1>1
<1>3. S \in Seq(Pieces) /\ S[1] = w[1] /\ Len(S) = Len(w) + Len(o) /\ Len(o) \in Nat
  BY <1>2, Joined
<1>4. S # <<>> /\ w[1].msg \in Messages
  <2>1. Len(S) # 0
    BY <1>1, <1>3
  <2> QED BY <1>2, <2>1, PieceOf
<1>5. Framed(S)
  BY DEF Aligned
<1>6. PICK d \in {1, 2} : Leads(d, S, w[1].msg) /\ (w[1].part = "len" <=> d = 2)
  <2> HIDE DEF S
  <2> QED BY <1>3, <1>4, <1>5, BodyLeads
<1>7. R \in Seq(Pieces) /\ Len(R) <= Len(w) /\ Sheds(T, S, d)
  <2>1. Tail(w) \in Seq(Pieces) /\ Sheds(Tail(w) \o o, S, 1) /\ Len(Tail(w)) = Len(w) - 1
    BY <1>1, TailSlices
  <2>2. CASE held = "len"
    <3>1. R = Tail(w)
      BY <2>2 DEF Rest
    <3>2. d = 1
      BY <1>3, <1>4, <1>6, <2>2 DEF Aligned, WholeFrames
    <3>3. Len(w) - 1 <= Len(w)
      BY <1>1
    <3> QED BY <2>1, <3>1, <3>2, <3>3
  <2>3. CASE held # "len"
    <3>1. R = Tail(Tail(w)) /\ Len(w) > 1 /\ d = 2
      BY <1>6, <2>3 DEF Rest, Completes
    <3>3. Tail(w) # <<>>
      <4> DEFINE u == Tail(w)
      <4>1. u \in Seq(Pieces) /\ Len(u) = Len(w) - 1
        BY <2>1
      <4> HIDE DEF u
      <4>2. u # <<>>
        BY <1>1, <3>1, <4>1
      <4> QED BY <4>2 DEF u
    <3>4. R \in Seq(Pieces) /\ Sheds(T, Tail(w) \o o, 1) /\ Len(R) = Len(Tail(w)) - 1
      BY <2>1, <3>1, <3>3, TailSlices
    <3>5. Len(R) <= Len(w)
      BY <1>1, <2>1, <3>4
    <3>6. Sheds(T, S, 2)
      <4> DEFINE U == Tail(w) \o o
      <4>1. U \in Seq(Pieces) /\ T \in Seq(Pieces)
        BY <2>1, <3>4, Joined
      <4>2. /\ Len(U) + 1 = Len(S) /\ Len(T) + 1 = Len(U)
            /\ \A i \in 1 .. Len(U) : U[i] = S[i + 1]
            /\ \A i \in 1 .. Len(T) : T[i] = U[i + 1]
        BY <2>1, <3>4 DEF Sheds
      <4> HIDE DEF U, T, S
      <4>3. Len(T) \in Nat /\ Len(U) \in Nat /\ Len(S) \in Nat
        BY <1>3, <4>1
      <4>4. ASSUME NEW i \in 1 .. Len(T) PROVE T[i] = S[i + 2]
        <5>1. i + 1 \in 1 .. Len(U) /\ (i + 1) + 1 = i + 2
          BY <4>2, <4>3
        <5> QED BY <4>2, <5>1
      <4>5. Len(T) + 2 = Len(S)
        BY <4>2, <4>3
      <4> QED BY <4>4, <4>5 DEF Sheds
    <3> QED BY <3>1, <3>4, <3>5, <3>6
  <2> QED BY <2>2, <2>3
<1>8. T \in Seq(Pieces)
  BY <1>7, Joined
<1>9. Framed(T) /\ WholeFrames(T)
  <2> HIDE DEF T, S, R
  <2> QED BY <1>3, <1>5, <1>6, <1>7, <1>8, ShedsFramed, FramesLeft
<1>10. \A any : Aligned("none", T, any)
  BY <1>9 DEF Aligned
<1> QED
  BY <1>1, <1>3, <1>4, <1>6, <1>7, <1>10

\* A read that consumes and waits takes one piece: a length, or a short body that
\* a dropped read has left without its length.
LEMMA ReadConsumes ==
    ASSUME NEW w \in Seq(Pieces), NEW o \in Seq(Pieces), NEW held, NEW dropped,
           Aligned(held, w \o o, dropped), Consumes(held, w)
    PROVE  /\ Sheds(<<>> \o o, w \o o, 1) /\ w # <<>>
           /\ Aligned(Held(w), <<>> \o o, dropped)
           /\ \/ (w \o o)[1].part = "len"
              \/ dropped /\ (w \o o)[1].part = "body" /\ Short((w \o o)[1].msg)
           /\ Held(w) \in HeldStates
<1> DEFINE S == w \o o
<1>1. held = "none" /\ Len(w) = 1 /\ (w[1].part = "len" \/ Short(w[1].msg)) /\ w # <<>>
  <2>1. held = "none" /\ Len(w) = 1 /\ (w[1].part = "len" \/ Short(w[1].msg))
    BY DEF Consumes
  <2>2. Len(w) # 0
    BY <2>1
  <2>3. w # <<>>
    BY <2>2
  <2> QED BY <2>1, <2>3
<1>2. Tail(w) = <<>>
  <2> DEFINE u == Tail(w)
  <2>1. u \in Seq(Pieces) /\ Len(u) = 0
    BY <1>1, TailSlices
  <2> HIDE DEF u
  <2>2. u = <<>>
    BY <2>1
  <2> QED BY <2>2 DEF u
<1>3. Sheds(<<>> \o o, S, 1)
  BY <1>1, <1>2, TailSlices
<1>4. <<>> \o o = o
  OBVIOUS
<1>5. S \in Seq(Pieces) /\ S[1] = w[1] /\ Len(S) = 1 + Len(o) /\ Len(o) \in Nat
  <2>1. 1 \in 1 .. Len(w) /\ Len(w) = 1
    BY <1>1
  <2>2. Len(w \o o) = Len(w) + Len(o) /\ w \o o \in Seq(Pieces) /\ Len(o) \in Nat
    BY Joined
  <2>3. (w \o o)[1] = w[1]
    BY <2>1, Joined
  <2> QED BY <2>1, <2>2, <2>3
<1>6. Framed(S) /\ Framed(o)
  <2>1. Framed(S)
    BY DEF Aligned
  <2> HIDE DEF S
  <2> QED BY <1>3, <1>4, <1>5, <2>1, ShedsFramed
<1>7. \A i \in 1 .. Len(o) : o[i] = S[i + 1]
  BY <1>3, <1>4 DEF Sheds
<1>8. 1 \in DOMAIN S /\ S # <<>> /\ S[1].part \in {"len", "body"}
  <2>1. Len(S) >= 1 /\ DOMAIN S = 1 .. Len(S)
    BY <1>5
  <2>2. 1 \in DOMAIN S /\ Len(S) # 0
    BY <1>5, <2>1
  <2> HIDE DEF S
  <2> QED BY <1>5, <2>2, PieceOf
<1> HIDE DEF S
<1>9. PICK d \in {1, 2} : Leads(d, S, S[1].msg) /\ (S[1].part = "len" <=> d = 2)
  BY <1>5, <1>6, <1>8, BodyLeads
<1>10. CASE S[1].part = "len"
  <2>1. 2 <= Len(S) /\ S[2].part = "body"
    BY <1>9, <1>10 DEF Leads
  <2>2. 1 \in 1 .. Len(o) /\ Len(o) # 0 /\ 1 + 1 = 2
    BY <1>5, <2>1
  <2>3. ~WholeFrames(o)
    BY <1>7, <2>1, <2>2 DEF WholeFrames
  <2>4. Held(w) = "len"
    BY <1>5, <1>10 DEF Held
  <2> QED BY <1>1, <1>3, <1>4, <1>6, <1>10, <2>3, <2>4 DEF Aligned, S, HeldStates
<1>11. CASE S[1].part = "body"
  <2>1. dropped
    BY <1>1, <1>8, <1>11 DEF Aligned, S, WholeFrames
  <2>2. Leads(1, S, S[1].msg) /\ Sheds(o, S, 1)
    BY <1>3, <1>4, <1>9, <1>11
  <2>3. WholeFrames(o)
    BY <1>5, <1>6, <2>2, FramesLeft
  <2>4. Held(w) = "stray" /\ Short(S[1].msg)
    BY <1>1, <1>5, <1>11 DEF Held
  <2> QED BY <1>1, <1>3, <1>4, <1>6, <1>11, <2>1, <2>3, <2>4 DEF Aligned, S, HeldStates
<1> QED
  BY <1>8, <1>10, <1>11

\* The bodies of what is left, and of what has been added to.
LEMMA BodiesShed ==
    ASSUME NEW s \in Seq(Pieces), NEW t \in Seq(Pieces), NEW d, Sheds(t, s, d), NEW kinds
    PROVE  /\ d \in Nat
           /\ \A i \in Bodies(t, kinds) : i \in Nat \ {0} /\ i + d \in Bodies(s, kinds) /\ t[i] = s[i + d]
           /\ \A i \in Bodies(s, kinds) : i \in Nat /\ (i > d => i - d \in Bodies(t, kinds) /\ t[i - d] = s[i])
<1>1. d \in Nat /\ Len(t) \in Nat /\ Len(s) \in Nat /\ Len(t) + d = Len(s)
      /\ DOMAIN t = 1 .. Len(t) /\ DOMAIN s = 1 .. Len(s)
  BY DEF Sheds
<1>2. \A i \in 1 .. Len(t) : t[i] = s[i + d]
  BY DEF Sheds
<1>3. ASSUME NEW i \in Bodies(t, kinds)
      PROVE  i \in Nat \ {0} /\ i + d \in Bodies(s, kinds) /\ t[i] = s[i + d]
  <2>1. i \in 1 .. Len(t) /\ t[i].part = "body" /\ t[i].msg.kind \in kinds
    BY <1>1 DEF Bodies
  <2>2. i \in Nat \ {0} /\ i + d \in 1 .. Len(s)
    BY <1>1, <2>1
  <2> QED BY <1>1, <1>2, <2>1, <2>2 DEF Bodies
<1>4. ASSUME NEW i \in Bodies(s, kinds), i > d
      PROVE  i - d \in Bodies(t, kinds) /\ t[i - d] = s[i]
  <2>1. i \in 1 .. Len(s) /\ s[i].part = "body" /\ s[i].msg.kind \in kinds
    BY <1>1 DEF Bodies
  <2>2. i - d \in 1 .. Len(t) /\ (i - d) + d = i
    BY <1>1, <1>4, <2>1
  <2>3. t[i - d] = s[i]
    BY <1>2, <2>2
  <2> QED BY <1>1, <2>1, <2>2, <2>3 DEF Bodies
<1>5. \A i \in Bodies(s, kinds) : i \in Nat
  BY <1>1 DEF Bodies
<1> QED
  BY <1>1, <1>3, <1>4, <1>5

LEMMA BodiesLed ==
    ASSUME NEW s \in Seq(Pieces), NEW d, NEW m, Leads(d, s, m), NEW kinds
    PROVE  /\ d \in Nat /\ s[d].msg = m
           /\ \A i \in Bodies(s, kinds) : i \in Nat /\ (i = d \/ i > d)
           /\ d \in Bodies(s, kinds) <=> m.kind \in kinds
<1>1. d \in {1, 2} /\ d <= Len(s) /\ Len(s) \in Nat /\ DOMAIN s = 1 .. Len(s)
  BY DEF Leads
<1>2. d \in DOMAIN s /\ d \in Nat
  <2>1. d \in Nat /\ d >= 1
    BY <1>1
  <2> QED BY <1>1, <2>1
<1>4. s[d].part = "body" /\ s[d].msg = m /\ (d = 2 => s[1].part = "len")
  BY DEF Leads
<1>3. ASSUME NEW i \in Bodies(s, kinds) PROVE i \in Nat /\ (i = d \/ i > d)
  <2>1. i \in 1 .. Len(s) /\ s[i].part = "body"
    BY <1>1 DEF Bodies
  <2>2. d = 2 => i # 1
    BY <1>4, <2>1
  <2>3. d = 1 \/ d = 2
    BY <1>1
  <2>4. i \in Nat /\ i >= 1
    BY <1>1, <2>1
  <2> QED BY <2>2, <2>3, <2>4
<1>5. d \in Bodies(s, kinds) <=> m.kind \in kinds
  BY <1>2, <1>4 DEF Bodies
<1> QED
  BY <1>2, <1>3, <1>4, <1>5

LEMMA BodiesGrow ==
    ASSUME NEW s \in Seq(Pieces), NEW t \in Seq(Pieces), NEW m, Grows(t, s, m), NEW kinds
    PROVE  /\ Len(s) \in Nat
           /\ \A i \in Bodies(s, kinds) : i \in 1 .. Len(s) /\ i \in Bodies(t, kinds) /\ t[i] = s[i]
           /\ \A i \in Bodies(t, kinds) : \/ i \in Bodies(s, kinds)
                                          \/ i = Len(s) + 2 /\ m.kind \in kinds
           /\ m.kind \in kinds => Len(s) + 2 \in Bodies(t, kinds)
           /\ t[Len(s) + 2].msg = m
<1> DEFINE n == Len(s)
<1>1. n \in Nat /\ Len(t) = n + 2 /\ DOMAIN t = 1 .. n + 2 /\ DOMAIN s = 1 .. n
      /\ \A i \in 1 .. n : t[i] = s[i]
  BY DEF Grows
<1>0. t[n + 1].part = "len" /\ t[n + 2].part = "body" /\ t[n + 2].msg = m
  BY DEF Grows
<1> HIDE DEF n
<1>2. ASSUME NEW i \in Bodies(s, kinds) PROVE i \in 1 .. n /\ i \in Bodies(t, kinds) /\ t[i] = s[i]
  <2>1. i \in 1 .. n /\ s[i].part = "body" /\ s[i].msg.kind \in kinds
    BY <1>1 DEF Bodies
  <2>2. i \in 1 .. n + 2
    BY <1>1, <2>1
  <2> QED BY <1>1, <2>1, <2>2 DEF Bodies
<1>3. ASSUME NEW i \in Bodies(t, kinds) PROVE i \in Bodies(s, kinds) \/ (i = n + 2 /\ m.kind \in kinds)
  <2>1. i \in 1 .. n + 2 /\ t[i].part = "body" /\ t[i].msg.kind \in kinds
    BY <1>1 DEF Bodies
  <2>2. i # n + 1
    BY <1>0, <2>1
  <2>3. i \in 1 .. n \/ i = n + 2
    BY <1>1, <2>1, <2>2
  <2>4. CASE i \in 1 .. n
    <3>1. i \in DOMAIN s /\ t[i] = s[i]
      BY <1>1, <2>4
    <3>2. i \in Bodies(s, kinds)
      BY <2>1, <3>1 DEF Bodies
    <3> QED BY <3>2
  <2>5. CASE i = n + 2
    BY <1>0, <2>1, <2>5
  <2> QED BY <2>3, <2>4, <2>5
<1>4. n + 2 \in DOMAIN t
  BY <1>1
<1>5. m.kind \in kinds => n + 2 \in Bodies(t, kinds)
  BY <1>0, <1>4 DEF Bodies
<1> QED
  BY <1>0, <1>1, <1>2, <1>3, <1>5 DEF n

\* The bodies of some kinds in t are those in s, d places further on.
Alike(t, s, kinds) ==
    \E d \in Nat :
        /\ \A i \in Bodies(t, kinds) : i + d \in Bodies(s, kinds) /\ t[i] = s[i + d]
        /\ \A i \in Bodies(s, kinds) : i - d \in Bodies(t, kinds) /\ t[i - d] = s[i]

LEMMA AlikeStays ==
    ASSUME NEW s \in Seq(Pieces), NEW kinds
    PROVE  Alike(s, s, kinds)
<1>1. \A i \in Bodies(s, kinds) : i \in Nat
  BY DEF Bodies
<1>2. \A i \in Bodies(s, kinds) : i + 0 = i /\ i - 0 = i
  BY <1>1
<1>3. /\ \A i \in Bodies(s, kinds) : i + 0 \in Bodies(s, kinds) /\ s[i] = s[i + 0]
      /\ \A i \in Bodies(s, kinds) : i - 0 \in Bodies(s, kinds) /\ s[i - 0] = s[i]
  BY <1>2
<1> QED
  BY <1>3 DEF Alike

LEMMA AlikeGrows ==
    ASSUME NEW s \in Seq(Pieces), NEW t \in Seq(Pieces), NEW m, Grows(t, s, m),
           NEW kinds, m.kind \notin kinds
    PROVE  Alike(t, s, kinds)
<1>1. /\ \A i \in Bodies(s, kinds) : i \in 1 .. Len(s) /\ i \in Bodies(t, kinds) /\ t[i] = s[i]
      /\ \A i \in Bodies(t, kinds) : i \in Bodies(s, kinds)
  BY BodiesGrow
<1>2. \A i \in Bodies(s, kinds) : i + 0 = i /\ i - 0 = i
  BY <1>1
<1>3. /\ \A i \in Bodies(t, kinds) : i + 0 \in Bodies(s, kinds) /\ t[i] = s[i + 0]
      /\ \A i \in Bodies(s, kinds) : i - 0 \in Bodies(t, kinds) /\ t[i - 0] = s[i]
  BY <1>1, <1>2
<1> QED
  BY <1>3 DEF Alike

LEMMA AlikeTakes ==
    ASSUME NEW s \in Seq(Pieces), NEW t \in Seq(Pieces), NEW d, NEW m,
           Leads(d, s, m), Sheds(t, s, d), NEW kinds, m.kind \notin kinds
    PROVE  Alike(t, s, kinds)
<1>1. d \in Nat /\ d \notin Bodies(s, kinds) /\ \A i \in Bodies(s, kinds) : i = d \/ i > d
  BY BodiesLed
<1>2. \A i \in Bodies(s, kinds) : i > d
  BY <1>1
<1>3. /\ \A i \in Bodies(t, kinds) : i + d \in Bodies(s, kinds) /\ t[i] = s[i + d]
      /\ \A i \in Bodies(s, kinds) : i - d \in Bodies(t, kinds) /\ t[i - d] = s[i]
  BY <1>2, BodiesShed
<1> QED
  BY <1>1, <1>3 DEF Alike

LEMMA AlikeConsumes ==
    ASSUME NEW s \in Seq(Pieces), NEW t \in Seq(Pieces), Sheds(t, s, 1),
           NEW kinds, s[1].part = "len" \/ s[1].msg.kind \notin kinds
    PROVE  Alike(t, s, kinds)
<1>1. \A i \in Bodies(s, kinds) : i \in 1 .. Len(s) /\ i # 1
  BY DEF Bodies
<1>2. \A i \in Bodies(s, kinds) : i > 1
  <2> TAKE i \in Bodies(s, kinds)
  <2>1. i \in 1 .. Len(s) /\ i # 1
    BY <1>1
  <2> QED BY <2>1
<1>3. /\ \A i \in Bodies(t, kinds) : i + 1 \in Bodies(s, kinds) /\ t[i] = s[i + 1]
      /\ \A i \in Bodies(s, kinds) : i - 1 \in Bodies(t, kinds) /\ t[i - 1] = s[i]
  BY <1>2, BodiesShed
<1> QED
  BY <1>3 DEF Alike

---------------------------------------------------------------------------
(* What a step does to the two streams                                     *)

LEMMA MessagesAre ==
    ASSUME NEW n \in Nat
    PROVE  /\ \A k \in Requests \cup {"subscribe", "unsubscribe"} : Request(k) \in Messages
           /\ \A k \in AnswerKinds \cup {"Hello"} : Reply(k, n) \in Messages
           /\ Event(n) \in Messages
  BY DEF Messages, Request, Reply, Event, AnswerKinds

LEMMA StreamTypes ==
    ASSUME TypeOK
    PROVE  /\ d2c \in Seq(Pieces) /\ d_out \in Seq(Pieces) /\ ToClient \in Seq(Pieces)
           /\ c2d \in Seq(Pieces) /\ c_out \in Seq(Pieces) /\ ToDaemon \in Seq(Pieces)
           /\ d_held \in HeldStates /\ c_held \in HeldStates
<1>1. d2c \in Seq(Pieces) /\ d_out \in Seq(Pieces) /\ c2d \in Seq(Pieces) /\ c_out \in Seq(Pieces)
      /\ d_held \in HeldStates /\ c_held \in HeldStates
  BY DEF TypeOK
<1>2. ToClient \in Seq(Pieces) /\ ToDaemon \in Seq(Pieces)
  BY <1>1, Joined DEF ToClient, ToDaemon
<1> QED
  BY <1>1, <1>2

\* The handler reads a whole request, and starts a write.
LEMMA DaemonTakes ==
    ASSUME IInv, NEW k, Receives(k), c2d' = Rest(d_held, c2d), c_out' = c_out
    PROVE  /\ c2d' \in Seq(Pieces) /\ Len(c2d') <= Len(c2d) /\ ToDaemon' \in Seq(Pieces)
           /\ \E d \in {1, 2} : Leads(d, ToDaemon, Request(k)) /\ Sheds(ToDaemon', ToDaemon, d)
           /\ \A any : Aligned("none", ToDaemon', any)
<1>1. c2d \in Seq(Pieces) /\ c_out \in Seq(Pieces)
  BY StreamTypes DEF IInv
<1>2. Completes(d_held, c2d) /\ c2d[1].msg = Request(k)
  BY DEF Receives
<1>3. Aligned(d_held, c2d \o c_out, torn)
  BY DEF IInv, Receives, DaemonReads, ToDaemon
<1>4. /\ Rest(d_held, c2d) \in Seq(Pieces) /\ Len(Rest(d_held, c2d)) <= Len(c2d)
      /\ \E d \in {1, 2} : /\ Leads(d, c2d \o c_out, c2d[1].msg)
                           /\ Sheds(Rest(d_held, c2d) \o c_out, c2d \o c_out, d)
      /\ \A any : Aligned("none", Rest(d_held, c2d) \o c_out, any)
  BY <1>1, <1>2, <1>3, ReadTakes
<1>5. ToDaemon = c2d \o c_out /\ ToDaemon' = Rest(d_held, c2d) \o c_out
  BY DEF ToDaemon
<1>6. ToDaemon' \in Seq(Pieces)
  BY <1>1, <1>4, <1>5, Joined
<1> QED
  BY <1>2, <1>4, <1>5, <1>6

LEMMA DaemonSends ==
    ASSUME IInv, NEW m \in Messages, d_out = <<>>, d_out' = Frame(m), d2c' = d2c
    PROVE  /\ ToClient' \in Seq(Pieces) /\ Grows(ToClient', ToClient, m)
           /\ d_out' \in Seq(Pieces) /\ Len(d_out') = 2 /\ d_out' # <<>>
<1>1. d2c \in Seq(Pieces)
  BY StreamTypes DEF IInv
<1>2. ToClient = d2c \o <<>> /\ ToClient' = d2c \o Frame(m)
  BY DEF ToClient
<1>3. d2c \o Frame(m) \in Seq(Pieces) /\ Grows(d2c \o Frame(m), d2c \o <<>>, m)
  BY <1>1, FrameGrows
<1> QED
  BY <1>2, <1>3, FrameOf

\* The client likewise.
LEMMA ClientTakes ==
    ASSUME IInv, client # "gone", Completes(c_held, d2c),
           d2c' = Rest(c_held, d2c), d_out' = d_out
    PROVE  /\ d2c' \in Seq(Pieces) /\ Len(d2c') <= Len(d2c) /\ ToClient' \in Seq(Pieces)
           /\ d2c[1].msg \in Messages
           /\ \E d \in {1, 2} : Leads(d, ToClient, d2c[1].msg) /\ Sheds(ToClient', ToClient, d)
           /\ \A any : Aligned("none", ToClient', any)
<1>1. d2c \in Seq(Pieces) /\ d_out \in Seq(Pieces)
  BY StreamTypes DEF IInv
<1>2. Aligned(c_held, d2c \o d_out, torn)
  BY DEF IInv, ToClient
<1>3. /\ Rest(c_held, d2c) \in Seq(Pieces) /\ Len(Rest(c_held, d2c)) <= Len(d2c)
      /\ d2c[1].msg \in Messages
      /\ \E d \in {1, 2} : /\ Leads(d, d2c \o d_out, d2c[1].msg)
                           /\ Sheds(Rest(c_held, d2c) \o d_out, d2c \o d_out, d)
      /\ \A any : Aligned("none", Rest(c_held, d2c) \o d_out, any)
  BY <1>1, <1>2, ReadTakes
<1>4. ToClient = d2c \o d_out /\ ToClient' = Rest(c_held, d2c) \o d_out
  BY DEF ToClient
<1>5. ToClient' \in Seq(Pieces)
  BY <1>1, <1>3, <1>4, Joined
<1> QED
  BY <1>3, <1>4, <1>5

LEMMA ClientSends ==
    ASSUME IInv, NEW m \in Messages, c_out = <<>>, c_out' = Frame(m), c2d' = c2d
    PROVE  /\ ToDaemon' \in Seq(Pieces) /\ Grows(ToDaemon', ToDaemon, m)
           /\ c_out' \in Seq(Pieces) /\ Len(c_out') = 2 /\ c_out' # <<>>
<1>1. c2d \in Seq(Pieces)
  BY StreamTypes DEF IInv
<1>2. ToDaemon = c2d \o <<>> /\ ToDaemon' = c2d \o Frame(m)
  BY DEF ToDaemon
<1>3. c2d \o Frame(m) \in Seq(Pieces) /\ Grows(c2d \o Frame(m), c2d \o <<>>, m)
  BY <1>1, FrameGrows
<1> QED
  BY <1>2, <1>3, FrameOf

\* The steps that leave alone what is on its way to the client, to the daemon.
ClientStill ==
    \/ Publish \/ OthersChange \/ DaemonWrites \/ DaemonConsumes \/ DaemonMisreads
    \/ SubscribeAgain \/ Unsubscribe \/ RecvLagged \/ ClientWrites
    \/ \E v \in {"Live", "Rules", "Stats"} : SwitchTo(v)
    \/ \E r \in Requests \cup Others : Ask(r)
    \/ Idle \/ StartEdit \/ EndEdit
DaemonStill ==
    \/ Publish \/ OthersChange \/ DaemonWrites \/ RecvEvent \/ RecvLagged
    \/ ClientWrites \/ ClientConsumes \/ GetsAck \/ GetsEvent
    \/ \E k \in {"Rules", "Stats", "Error"} : GetsAnswer(k)
    \/ Idle \/ StartEdit

\* The steps in which the client leaves.
Leaves == ClientMisreads \/ ClientLosesDaemon \/ GetsRefusal \/ Quit \/ EditFails

LEMMA StillClient ==
    ASSUME IInv, ClientStill
    PROVE  ToClient' = ToClient
<1>1. d2c \in Seq(Pieces) /\ d_out \in Seq(Pieces)
  BY StreamTypes DEF IInv
<1>2. CASE DaemonWrites
  BY <1>1, <1>2, PieceMoves DEF DaemonWrites, ToClient, tui
<1>3. CASE \/ Publish \/ OthersChange \/ DaemonConsumes \/ ClientWrites \/ SubscribeAgain
           \/ RecvLagged
  BY <1>3 DEF Publish, OthersChange, DaemonConsumes, ClientWrites, SubscribeAgain, RecvLagged,
     DropsRead, wire, daemon, tui, ToClient
<1>4. CASE DaemonMisreads \/ Unsubscribe
  BY <1>4 DEF DaemonMisreads, Unsubscribe, Receives, DaemonReads, DaemonEnds, tui, ToClient
<1>5. CASE \E v \in {"Live", "Rules", "Stats"} : SwitchTo(v)
  BY <1>5 DEF SwitchTo, AtSelect, wire, daemon, ToClient
<1>6. CASE \E r \in Requests \cup Others : Ask(r)
  BY <1>6 DEF Ask, AtSelect, wire, daemon, ToClient
<1>7. CASE Idle \/ StartEdit \/ EndEdit
  BY <1>7 DEF Idle, StartEdit, EndEdit, AtSelect, wire, daemon, ToClient
<1> QED
  BY <1>2, <1>3, <1>4, <1>5, <1>6, <1>7 DEF ClientStill

LEMMA StillDaemon ==
    ASSUME IInv, DaemonStill
    PROVE  ToDaemon' = ToDaemon
<1>1. c2d \in Seq(Pieces) /\ c_out \in Seq(Pieces)
  BY StreamTypes DEF IInv
<1>2. CASE ClientWrites
  BY <1>1, <1>2, PieceMoves DEF ClientWrites, ToDaemon
<1>3. CASE Publish \/ OthersChange \/ DaemonWrites \/ RecvEvent \/ RecvLagged
  BY <1>3 DEF Publish, OthersChange, DaemonWrites, RecvEvent, RecvLagged, DropsRead, wire, tui,
     ToDaemon
<1>4. CASE ClientConsumes
  BY <1>4 DEF ClientConsumes, ToDaemon
<1>5. CASE GetsAck \/ GetsEvent
  BY <1>5 DEF GetsAck, GetsEvent, Taken, ToDaemon
<1>6. CASE \E k \in {"Rules", "Stats", "Error"} : GetsAnswer(k)
  BY <1>6 DEF GetsAnswer, Taken, ToDaemon
<1>7. CASE Idle \/ StartEdit
  BY <1>7 DEF Idle, StartEdit, AtSelect, wire, ToDaemon
<1> QED
  BY <1>2, <1>3, <1>4, <1>5, <1>6, <1>7 DEF DaemonStill

\* A client that leaves has nothing to write, or nobody to write to.
LEMMA LeavingClient ==
    ASSUME IInv, Leaves
    PROVE  /\ client' = "gone" /\ c_out' = <<>> /\ c_held' = "none" /\ d2c' = <<>>
           /\ UNCHANGED <<c2d, daemon, published, view, shown, rows, requests, changes, history>>
           /\ disk' \in {disk, disk + 1}
           /\ handler # "end" => ToDaemon' = ToDaemon
<1>1. CASE ClientMisreads \/ ClientLosesDaemon
  BY <1>1 DEF ClientMisreads, ClientLosesDaemon, ClientReads, ClientLeaves, daemon, ToDaemon
<1>2. CASE GetsRefusal \/ Quit
  BY <1>2 DEF GetsRefusal, Quit, Gets, ClientLeaves, daemon, ToDaemon
<1>3. CASE EditFails
  <2>1. c_out = <<>>
    BY <1>3 DEF EditFails, IInv, Writing
  <2> QED BY <1>3, <2>1 DEF EditFails, ClientLeaves, ToDaemon
<1> QED
  BY <1>1, <1>2, <1>3 DEF Leaves

\* Each step is one of these.
LEMMA Steps ==
    ASSUME Next
    PROVE  \/ Publish \/ OthersChange \/ DaemonWrites \/ DaemonConsumes \/ DaemonMisreads
           \/ DaemonLosesClient
           \/ \E k \in Requests \cup {"subscribe", "unsubscribe"} :
                 FirstRequest(k) \/ AnswerQuery(k) \/ ChangeRules(k)
           \/ SubscribeAgain \/ Unsubscribe \/ RecvEvent \/ RecvLagged
           \/ ClientWrites \/ ClientConsumes \/ Leaves
           \/ GetsHello \/ GetsAck \/ GetsEvent \/ GetsOk
           \/ \E k \in {"Rules", "Stats", "Error"} : GetsAnswer(k)
           \/ \E v \in {"Live", "Rules", "Stats"} : SwitchTo(v)
           \/ \E r \in Requests \cup Others : Ask(r)
           \/ Idle \/ StartEdit \/ EndEdit
  BY DEF Next, Daemon, Client, User, Leaves

\* Who has left does not come back.
LEMMA NoReturn ==
    ASSUME IInv, Next
    PROVE  /\ client' # "gone" => client # "gone"
           /\ handler' # "end" => handler # "end"
<1>1. CASE \/ Publish \/ OthersChange \/ DaemonConsumes \/ SubscribeAgain \/ RecvEvent
           \/ RecvLagged
  BY <1>1 DEF Publish, OthersChange, DaemonConsumes, DaemonReads, SubscribeAgain, RecvEvent,
     RecvLagged, DropsRead, tui, daemon
<1>2. CASE DaemonWrites
  BY <1>2 DEF DaemonWrites, tui, IInv, Writing
<1>3. CASE DaemonMisreads \/ Unsubscribe \/ DaemonLosesClient
  BY <1>3 DEF DaemonMisreads, Unsubscribe, DaemonLosesClient, DaemonEnds, tui
<1>4. CASE \E k \in Requests \cup {"subscribe", "unsubscribe"} :
              FirstRequest(k) \/ AnswerQuery(k) \/ ChangeRules(k)
  BY <1>4 DEF FirstRequest, AnswerQuery, ChangeRules, Answer, tui
<1>5. CASE ClientWrites \/ ClientConsumes
  BY <1>5 DEF ClientWrites, ClientConsumes, daemon
<1>6. CASE Leaves
  BY <1>6 DEF Leaves, ClientMisreads, ClientLosesDaemon, GetsRefusal, Quit, EditFails,
     ClientLeaves, daemon
<1>7. CASE GetsHello \/ GetsAck \/ GetsEvent \/ GetsOk
  BY <1>7 DEF GetsHello, GetsAck, GetsEvent, GetsOk, Gets, Taken, daemon
<1>8. CASE \E k \in {"Rules", "Stats", "Error"} : GetsAnswer(k)
  BY <1>8 DEF GetsAnswer, Gets, Taken, daemon
<1>9. CASE \E v \in {"Live", "Rules", "Stats"} : SwitchTo(v)
  BY <1>9 DEF SwitchTo, AtSelect, daemon
<1>10. CASE \E r \in Requests \cup Others : Ask(r)
  BY <1>10 DEF Ask, AtSelect, daemon
<1>11. CASE Idle \/ StartEdit \/ EndEdit
  BY <1>11 DEF Idle, StartEdit, EndEdit, AtSelect, daemon
<1> QED
  BY <1>1, <1>2, <1>3, <1>4, <1>5, <1>6, <1>7, <1>8, <1>9, <1>10, <1>11, Steps

\* A read that goes on later, is dropped, or has nothing new to read.
LEMMA AlignedLater ==
    ASSUME NEW s, NEW held \in HeldStates, NEW dropped, Aligned(held, s, dropped),
           NEW now, dropped => now
    PROVE  /\ Aligned(held, s, now)
           /\ (held # "none" => now) => Aligned("none", s, now)
  BY DEF Aligned, HeldStates

\* The client always reads from the start of a message, or has dropped a read.
LEMMA ClientAligned ==
    ASSUME IInv, Next, client' # "gone"
    PROVE  Aligned(c_held', ToClient', torn')
<1>1. client # "gone" /\ Aligned(c_held, ToClient, torn)
  BY NoReturn DEF IInv
<1>2. ToClient \in Seq(Pieces) /\ d2c \in Seq(Pieces) /\ d_out \in Seq(Pieces)
      /\ c_held \in HeldStates /\ c_held \in HeldStates
  BY StreamTypes DEF IInv
<1>3. ASSUME ToClient' = ToClient, c_held' = c_held, torn => torn'
      PROVE  Aligned(c_held', ToClient', torn')
  BY <1>1, <1>2, <1>3, AlignedLater
<1>4. ASSUME NEW m \in Messages, Grows(ToClient', ToClient, m), ToClient' \in Seq(Pieces),
             c_held' = c_held, torn' = torn \/ (torn' = (torn \/ d_held # "none"))
      PROVE  Aligned(c_held', ToClient', torn')
  <2>1. Aligned(c_held, ToClient', torn)
    BY <1>1, <1>2, <1>4, GrowsAligned
  <2>2. torn => torn'
    BY <1>4, Zenon
  <2> QED BY <1>2, <1>4, <2>1, <2>2, AlignedLater
<1>5. CASE ClientStill
  <2>1. ToClient' = ToClient
    BY <1>5, StillClient
  <2>2. CASE \/ Publish \/ OthersChange \/ DaemonWrites \/ DaemonConsumes \/ DaemonMisreads
             \/ SubscribeAgain \/ Unsubscribe \/ ClientWrites \/ EndEdit
    <3>1. c_held' = c_held /\ torn' = torn
      BY <2>2 DEF Publish, OthersChange, DaemonWrites, DaemonConsumes, DaemonMisreads,
         SubscribeAgain, Unsubscribe, ClientWrites, EndEdit, tui, history
    <3> QED BY <1>3, <2>1, <3>1
  <2>3. CASE RecvLagged
    <3>1. c_held' = c_held /\ (torn => torn')
      BY <2>3 DEF RecvLagged, DropsRead, tui
    <3> QED BY <1>3, <2>1, <3>1
  <2>4. CASE \/ \E v \in {"Live", "Rules", "Stats"} : SwitchTo(v)
             \/ \E r \in Requests \cup Others : Ask(r)
             \/ Idle \/ StartEdit
    <3>1. AtSelect
      BY <2>4 DEF SwitchTo, Ask, Idle, StartEdit
    <3>2. c_held' = "none" /\ (torn => torn') /\ (c_held # "none" => torn')
      BY <3>1 DEF AtSelect
    <3>3. Aligned("none", ToClient, torn')
      BY <1>1, <1>2, <3>2, AlignedLater
    <3> QED BY <2>1, <3>2, <3>3
  <2> QED BY <1>5, <2>2, <2>3, <2>4 DEF ClientStill
<1>6. ASSUME NEW k \in Requests \cup {"subscribe", "unsubscribe"},
             FirstRequest(k) \/ AnswerQuery(k) \/ ChangeRules(k)
      PROVE  Aligned(c_held', ToClient', torn')
  <2>1. DaemonReads /\ d2c' = d2c /\ c_held' = c_held /\ torn' = torn
    BY <1>6 DEF FirstRequest, AnswerQuery, ChangeRules, Receives, Answer, tui
  <2>2. \E m \in Messages : d_out' = Frame(m)
    <3>1. 0 \in Nat /\ disk \in Nat
      BY DEF IInv, TypeOK
    <3>2. Reply("Ok", 0) \in Messages /\ Reply("Error", 0) \in Messages /\ Reply("Stats", 0) \in Messages
          /\ Reply("Rules", disk) \in Messages
      BY <3>1, MessagesAre DEF AnswerKinds
    <3> QED BY <1>6, <3>2 DEF FirstRequest, AnswerQuery, ChangeRules, Answer
  <2>3. d_out = <<>>
    BY <2>1 DEF DaemonReads
  <2> QED BY <1>4, <2>1, <2>2, <2>3, DaemonSends
<1>7. CASE RecvEvent
  <2>1. d_out = <<>> /\ d2c' = d2c /\ c_held' = c_held
        /\ torn' = (torn \/ d_held # "none") /\ (d_out' = Frame(Event(rx)) \/ d_out' = d_out)
    BY <1>7 DEF RecvEvent, DropsRead, wire, tui
  <2>2. Event(rx) \in Messages
    <3>1. rx \in Nat
      BY DEF IInv, TypeOK
    <3> QED BY <3>1, MessagesAre
  <2>3. CASE d_out' = d_out
    BY <1>3, <2>1, <2>3 DEF ToClient
  <2>4. CASE d_out' = Frame(Event(rx))
    BY <1>4, <2>1, <2>2, <2>4, DaemonSends
  <2> QED BY <2>1, <2>3, <2>4
<1>8. CASE ClientConsumes
  <2>1. Consumes(c_held, d2c) /\ c_held' = Held(d2c) /\ d2c' = <<>> /\ d_out' = d_out /\ torn' = torn
    BY <1>8 DEF ClientConsumes, daemon, history
  <2>2. Aligned(Held(d2c), <<>> \o d_out, torn)
    BY <1>1, <1>2, <2>1, ReadConsumes DEF ToClient
  <2> QED BY <2>1, <2>2 DEF ToClient
<1>9. ASSUME NEW st \in {"hello", "ack", "run"}, NEW k, Gets(st, k), Taken
      PROVE  Aligned(c_held', ToClient', torn')
  <2>1. Completes(c_held, d2c) /\ d2c' = Rest(c_held, d2c) /\ d_out' = d_out /\ c_held' = "none"
    BY <1>9 DEF Gets, Taken, daemon
  <2> QED BY <1>1, <2>1, ClientTakes
<1>10. CASE \/ GetsHello \/ GetsAck \/ GetsEvent \/ GetsOk
            \/ \E k \in {"Rules", "Stats", "Error"} : GetsAnswer(k)
  BY <1>9, <1>10 DEF GetsHello, GetsAck, GetsEvent, GetsOk, GetsAnswer
<1>11. ~DaemonLosesClient /\ ~Leaves
  BY <1>1, LeavingClient DEF DaemonLosesClient
<1> QED
  BY <1>5, <1>6, <1>7, <1>8, <1>10, <1>11, Steps DEF ClientStill

\* The handler likewise, as long as it runs.
LEMMA DaemonAligned ==
    ASSUME IInv, Next, handler' # "end"
    PROVE  Aligned(d_held', ToDaemon', torn')
<1>1. handler # "end" /\ Aligned(d_held, ToDaemon, torn)
  BY NoReturn DEF IInv
<1>2. ToDaemon \in Seq(Pieces) /\ c2d \in Seq(Pieces) /\ c_out \in Seq(Pieces)
      /\ d_held \in HeldStates
  BY StreamTypes DEF IInv
<1>3. ASSUME ToDaemon' = ToDaemon, d_held' = d_held, torn => torn'
      PROVE  Aligned(d_held', ToDaemon', torn')
  BY <1>1, <1>2, <1>3, AlignedLater
<1>4. ASSUME NEW r \in Requests \cup {"subscribe", "unsubscribe"}, c_out' = Frame(Request(r)),
             c_out = <<>>, c2d' = c2d, d_held' = d_held, torn => torn'
      PROVE  Aligned(d_held', ToDaemon', torn')
  <2>1. Request(r) \in Messages
    BY MessagesAre, 0 \in Nat
  <2>2. ToDaemon' \in Seq(Pieces) /\ Grows(ToDaemon', ToDaemon, Request(r))
    BY <1>4, <2>1, ClientSends
  <2>3. Aligned(d_held, ToDaemon', torn)
    BY <1>1, <1>2, <2>1, <2>2, GrowsAligned
  <2> QED BY <1>2, <1>4, <2>3, AlignedLater
<1>5. CASE DaemonStill
  <2>1. ToDaemon' = ToDaemon
    BY <1>5, StillDaemon
  <2>2. CASE Publish \/ OthersChange \/ DaemonWrites \/ ClientWrites \/ ClientConsumes
    <3>1. d_held' = d_held /\ torn' = torn
      BY <2>2 DEF Publish, OthersChange, DaemonWrites, ClientWrites, ClientConsumes, daemon, history
    <3> QED BY <1>3, <2>1, <3>1
  <2>3. CASE \/ GetsAck \/ GetsEvent \/ \E k \in {"Rules", "Stats", "Error"} : GetsAnswer(k)
    <3>1. d_held' = d_held /\ torn' = torn
      BY <2>3 DEF GetsAck, GetsEvent, GetsAnswer, Taken, daemon
    <3> QED BY <1>3, <2>1, <3>1
  <2>4. CASE Idle \/ StartEdit
    <3>1. d_held' = d_held /\ (torn => torn')
      BY <2>4 DEF Idle, StartEdit, AtSelect, daemon
    <3> QED BY <1>3, <2>1, <3>1
  <2>5. CASE RecvEvent \/ RecvLagged
    <3>1. d_held' = "none" /\ (torn => torn') /\ (d_held # "none" => torn')
      BY <2>5 DEF RecvEvent, RecvLagged, DropsRead
    <3>2. Aligned("none", ToDaemon, torn')
      BY <1>1, <1>2, <3>1, AlignedLater
    <3> QED BY <2>1, <3>1, <3>2
  <2> QED BY <1>5, <2>2, <2>3, <2>4, <2>5 DEF DaemonStill
<1>6. ASSUME NEW k, Receives(k), c2d' = Rest(d_held, c2d), d_held' = "none", c_out' = c_out
      PROVE  Aligned(d_held', ToDaemon', torn')
  BY <1>6, DaemonTakes
<1>7. CASE SubscribeAgain \/ \E k \in Requests \cup {"subscribe", "unsubscribe"} :
              FirstRequest(k) \/ AnswerQuery(k) \/ ChangeRules(k)
  BY <1>6, <1>7 DEF SubscribeAgain, FirstRequest, AnswerQuery, ChangeRules, Answer, tui
<1>8. CASE DaemonConsumes
  <2>1. Consumes(d_held, c2d) /\ d_held' = Held(c2d) /\ c2d' = <<>> /\ c_out' = c_out /\ torn' = torn
    BY <1>8 DEF DaemonConsumes, tui, history
  <2>2. Aligned(Held(c2d), <<>> \o c_out, torn)
    BY <1>1, <1>2, <2>1, ReadConsumes DEF ToDaemon
  <2> QED BY <2>1, <2>2 DEF ToDaemon
<1>9. CASE Leaves
  <2>1. ToDaemon' = ToDaemon /\ d_held' = d_held /\ torn' = torn
    BY <1>1, <1>9, LeavingClient DEF daemon, history
  <2> QED BY <1>3, <2>1
<1>10. CASE GetsHello
  <2>1. c_out = <<>> /\ c2d' = c2d /\ d_held' = d_held /\ torn' = torn
        /\ \E r \in Firsts : c_out' = Frame(Request(r))
    BY <1>10 DEF GetsHello, Gets, Taken, daemon
  <2> QED BY <1>4, <2>1, ClientsAssumption
<1>11. CASE GetsOk
  <2>1. c_out = <<>> /\ c2d' = c2d /\ d_held' = d_held /\ torn' = torn
        /\ (c_out' = Frame(Request("list")) \/ c_out' = c_out)
    BY <1>11 DEF GetsOk, Gets, Taken, daemon
  <2>2. CASE c_out' = c_out
    BY <1>3, <2>1, <2>2 DEF ToDaemon
  <2>3. CASE c_out' = Frame(Request("list"))
    BY <1>4, <2>1, <2>3 DEF Requests
  <2> QED BY <2>1, <2>2, <2>3
<1>12. CASE \/ \E v \in {"Live", "Rules", "Stats"} : SwitchTo(v)
            \/ \E r \in Requests \cup Others : Ask(r)
            \/ EndEdit
  <2>1. c_out = <<>>
    BY <1>12 DEF SwitchTo, Ask, EndEdit, AtSelect, IInv, Writing
  <2>2. AtSelect \/ EndEdit
    BY <1>12 DEF SwitchTo, Ask
  <2>5. c2d' = c2d /\ d_held' = d_held
    BY <2>2 DEF EndEdit, AtSelect, wire, daemon
  <2>6. torn => torn'
    <3>1. torn' = torn \/ torn' = (torn \/ c_held # "none")
      BY <2>2, Zenon DEF EndEdit, AtSelect
    <3> QED BY <3>1, Zenon
  <2>3. c_out' = c_out \/ \E r \in Requests \cup {"subscribe", "unsubscribe"} : c_out' = Frame(Request(r))
    BY <1>12, ClientsAssumption DEF SwitchTo, Ask, EndEdit, Sends, Requests
  <2>4. CASE c_out' = c_out
    BY <1>3, <2>4, <2>5, <2>6 DEF ToDaemon
  <2> QED BY <1>4, <2>1, <2>3, <2>4, <2>5, <2>6
<1>13. ~DaemonLosesClient /\ ~DaemonMisreads /\ ~Unsubscribe
  BY DEF DaemonLosesClient, DaemonMisreads, Unsubscribe, DaemonEnds
<1> QED
  BY <1>5, <1>7, <1>8, <1>9, <1>10, <1>11, <1>12, <1>13, Steps DEF DaemonStill

---------------------------------------------------------------------------
(* Events and lists on their way                                           *)

\* The client is sent m, or has taken it; or a read has consumed one piece.
Sent(m) == ToClient' \in Seq(Pieces) /\ m \in Messages /\ Grows(ToClient', ToClient, m)
Took(m) ==
    /\ ToClient' \in Seq(Pieces) /\ m \in Messages
    /\ \E d \in {1, 2} : Leads(d, ToClient, m) /\ Sheds(ToClient', ToClient, d)
Consumed ==
    /\ ToClient' \in Seq(Pieces) /\ Sheds(ToClient', ToClient, 1)
    /\ \/ ToClient[1].part = "len"
       \/ torn /\ ToClient[1].part = "body" /\ Short(ToClient[1].msg)

LEMMA ClientStream ==
    ASSUME IInv, ToClient' = ToClient \/ (\E m \in Messages : Sent(m) \/ Took(m)) \/ Consumed
    PROVE  ToClient' \in Seq(Pieces)
  BY StreamTypes DEF IInv, Sent, Took, Consumed

LEMMA AlikeStream ==
    ASSUME IInv, NEW kinds,
           \/ ToClient' = ToClient
           \/ Consumed /\ kinds \subseteq {"Rules", "Stats", "Error", "Event"}
           \/ \E m \in Messages : (Sent(m) \/ Took(m)) /\ m.kind \notin kinds
    PROVE  Alike(ToClient', ToClient, kinds)
<1>1. ToClient \in Seq(Pieces)
  BY StreamTypes DEF IInv
<1>2. CASE ToClient' = ToClient
  BY <1>1, <1>2, AlikeStays
<1>3. CASE Consumed /\ kinds \subseteq {"Rules", "Stats", "Error", "Event"}
  <2>1. ToClient[1].part = "len" \/ ToClient[1].msg.kind \notin kinds
    BY <1>3 DEF Consumed, Short
  <2> QED BY <1>1, <1>3, <2>1, AlikeConsumes DEF Consumed
<1>4. ASSUME NEW m \in Messages, Sent(m) \/ Took(m), m.kind \notin kinds
      PROVE  Alike(ToClient', ToClient, kinds)
  <2>1. CASE Sent(m)
    BY <1>1, <1>4, <2>1, AlikeGrows DEF Sent
  <2>2. CASE Took(m)
    BY <1>1, <1>4, <2>2, AlikeTakes DEF Took
  <2> QED BY <1>4, <2>1, <2>2
<1> QED
  BY <1>2, <1>3, <1>4

\* What each kind of step does to it.
LEMMA Answering ==
    ASSUME IInv, NEW k \in Requests \cup {"subscribe", "unsubscribe"},
           FirstRequest(k) \/ AnswerQuery(k) \/ ChangeRules(k)
    PROVE  /\ FirstRequest(k) => Sent(Reply("Ok", 0)) \/ Sent(Reply("Error", 0))
           /\ AnswerQuery(k) => \/ k = "list" /\ Sent(Reply("Rules", disk))
                                \/ k = "stats" /\ Sent(Reply("Stats", 0))
           /\ ChangeRules(k) => \/ Sent(Reply("Ok", 0)) /\ disk' = disk + 1 /\ written' = disk'
                                \/ /\ Sent(Reply("Error", 0)) /\ disk' \in {disk, disk + 1}
                                   /\ written' = written
<1>1. d_out = <<>> /\ d2c' = d2c
  BY DEF FirstRequest, AnswerQuery, ChangeRules, Receives, DaemonReads, Answer
<1>2. ASSUME NEW m \in Messages, d_out' = Frame(m) PROVE Sent(m)
  BY <1>1, <1>2, DaemonSends DEF Sent
<1>3. Reply("Ok", 0) \in Messages /\ Reply("Error", 0) \in Messages /\ Reply("Stats", 0) \in Messages
      /\ Reply("Rules", disk) \in Messages
  <2>1. 0 \in Nat /\ disk \in Nat
    BY DEF IInv, TypeOK
  <2> QED BY <2>1, MessagesAre DEF AnswerKinds
<1>4. FirstRequest(k) => Sent(Reply("Ok", 0)) \/ Sent(Reply("Error", 0))
  BY <1>2, <1>3 DEF FirstRequest, Answer
<1>5. AnswerQuery(k) => \/ k = "list" /\ Sent(Reply("Rules", disk))
                        \/ k = "stats" /\ Sent(Reply("Stats", 0))
  BY <1>2, <1>3 DEF AnswerQuery, Answer
<1>6. ChangeRules(k) => \/ Sent(Reply("Ok", 0)) /\ disk' = disk + 1 /\ written' = disk'
                        \/ /\ Sent(Reply("Error", 0)) /\ disk' \in {disk, disk + 1}
                           /\ written' = written
  BY <1>2, <1>3 DEF ChangeRules, Answer
<1> QED
  BY <1>4, <1>5, <1>6

LEMMA Broadcasting ==
    ASSUME IInv, RecvEvent
    PROVE  /\ rx' = rx + 1 /\ Event(rx).kind = "Event" /\ Event(rx).n = rx
           /\ \/ Sent(Event(rx)) /\ skipped' = skipped
              \/ ToClient' = ToClient /\ skipped' = skipped \cup {rx}
<1>1. d_out = <<>> /\ d2c' = d2c /\ rx' = rx + 1
      /\ \/ d_out' = Frame(Event(rx)) /\ skipped' = skipped
         \/ d_out' = d_out /\ skipped' = skipped \cup {rx}
  BY DEF RecvEvent, DropsRead, wire
<1>2. rx \in Nat
  BY DEF IInv, TypeOK
<1>3. Event(rx) \in Messages
  BY <1>2, MessagesAre
<1>4. CASE d_out' = Frame(Event(rx)) /\ skipped' = skipped
  BY <1>1, <1>3, <1>4, DaemonSends DEF Sent, Event
<1>5. CASE d_out' = d_out /\ skipped' = skipped \cup {rx}
  BY <1>1, <1>5 DEF ToClient, Event
<1> QED
  BY <1>1, <1>4, <1>5

LEMMA Taking ==
    ASSUME IInv, NEW st \in {"hello", "ack", "run"}, NEW k, Gets(st, k), Taken
    PROVE  Took(d2c[1].msg) /\ d2c[1].msg.kind = k
<1>1. client # "gone" /\ Completes(c_held, d2c) /\ d2c' = Rest(c_held, d2c) /\ d_out' = d_out
      /\ d2c[1].msg.kind = k
  BY DEF Gets, Taken, daemon
<1> QED
  BY <1>1, ClientTakes DEF Took

LEMMA Consuming ==
    ASSUME IInv, ClientConsumes
    PROVE  Consumed
<1>1. d2c \in Seq(Pieces) /\ d_out \in Seq(Pieces) /\ ToClient = d2c \o d_out
  BY StreamTypes DEF IInv, ToClient
<1>2. Consumes(c_held, d2c) /\ d2c' = <<>> /\ d_out' = d_out /\ client # "gone"
  BY DEF ClientConsumes, ClientReads, daemon
<1>3. Aligned(c_held, d2c \o d_out, torn)
  BY <1>1, <1>2 DEF IInv
<1>4. /\ Sheds(<<>> \o d_out, d2c \o d_out, 1)
      /\ \/ (d2c \o d_out)[1].part = "len"
         \/ torn /\ (d2c \o d_out)[1].part = "body" /\ Short((d2c \o d_out)[1].msg)
  BY <1>1, <1>2, <1>3, ReadConsumes
<1>5. ToClient' = <<>> \o d_out /\ <<>> \o d_out = d_out
  BY <1>1, <1>2 DEF ToClient
<1> QED
  BY <1>1, <1>4, <1>5 DEF Consumed

\* Types of what the events are about.
LEMMA EventTypes ==
    ASSUME TypeOK
    PROVE  /\ rx \in Nat \ {0} /\ published \in Nat /\ LagCap \in Nat \ {0} /\ MaxEvents \in Nat
           /\ rows \in Seq(1 .. MaxEvents) /\ Len(rows) \in Nat /\ DOMAIN rows = 1 .. Len(rows)
           /\ \A k \in 1 .. Len(rows) : rows[k] \in 1 .. MaxEvents
           /\ \A i \in DOMAIN ToClient : ToClient[i].msg.n \in Nat
           /\ DOMAIN ToClient \subseteq Nat
<1>1. rx \in 1 .. MaxEvents + 1 /\ MaxEvents \in Nat /\ published \in 0 .. MaxEvents
      /\ LagCap \in Nat \ {0}
  BY RoomAssumption DEF TypeOK
<1>2. rows \in Seq(1 .. MaxEvents)
  BY DEF TypeOK
<1>3. Len(rows) \in Nat /\ DOMAIN rows = 1 .. Len(rows)
      /\ \A k \in 1 .. Len(rows) : rows[k] \in 1 .. MaxEvents
  BY <1>2, ElementsOf
<1>4. ToClient \in Seq(Pieces)
  BY StreamTypes
<1>5. \A i \in DOMAIN ToClient : ToClient[i].msg.n \in Nat
  BY <1>4, PieceOf DEF Messages
<1>6. DOMAIN ToClient \subseteq Nat
  BY <1>4
<1>7. rx \in Nat \ {0} /\ published \in Nat
  BY <1>1
<1> QED
  BY <1>1, <1>2, <1>3, <1>5, <1>6, <1>7

\* When the receiver passes only events it skips, the rest stays as it was.
LEMMA EventsPass ==
    ASSUME TypeOK, EventsComing, EventsInOrder,
           Alike(ToClient', ToClient, {"Event"}), ToClient' \in Seq(Pieces), rows' = rows,
           rx' \in Nat, rx <= rx', skipped \subseteq skipped', skipped' \subseteq 1 .. rx' - 1,
           \A e \in 1 .. rx' - 1 : e >= rx => e \in skipped'
    PROVE  EventsComing' /\ EventsInOrder'
<1> DEFINE A == Bodies(ToClient, {"Event"})
           B == Bodies(ToClient, {"Event"})'
           s == ToClient
           t == ToClient'
<1>1. PICK d \in Nat : /\ \A i \in B : i + d \in A /\ t[i] = s[i + d]
                       /\ \A i \in A : i - d \in B /\ t[i - d] = s[i]
  BY DEF Alike
<1>2. rx \in Nat \ {0} /\ DOMAIN rows \subseteq Nat /\ (\A k \in DOMAIN rows : rows[k] \in Nat)
      /\ (\A i \in A : s[i].msg.n \in Nat) /\ A \subseteq Nat
  BY EventTypes DEF Bodies
<1>3. /\ \A k \in DOMAIN rows : rows[k] < rx
      /\ \A i \in A : s[i].msg.n \in 1 .. rx - 1 /\ \A k \in DOMAIN rows : rows[k] < s[i].msg.n
      /\ \A i, j \in A : i < j => s[i].msg.n < s[j].msg.n
      /\ \A e \in 1 .. rx - 1 : \/ e \in skipped \/ \E k \in DOMAIN rows : rows[k] = e
                                \/ \E i \in A : s[i].msg.n = e
  BY DEF EventsComing
<1>5. B \subseteq Nat
  BY DEF Bodies
<1> HIDE DEF A, B, s, t
<1>6. \A k \in DOMAIN rows : rows[k] < rx'
  BY <1>2, <1>3
<1>7. ASSUME NEW i \in B
      PROVE  t[i].msg.n \in 1 .. rx' - 1 /\ \A k \in DOMAIN rows : rows[k] < t[i].msg.n
  <2>1. i + d \in A /\ t[i] = s[i + d]
    BY <1>1
  <2>2. s[i + d].msg.n \in 1 .. rx - 1 /\ \A k \in DOMAIN rows : rows[k] < s[i + d].msg.n
    BY <1>3, <2>1
  <2>3. s[i + d].msg.n \in 1 .. rx' - 1
    BY <1>2, <2>2
  <2> QED BY <2>1, <2>2, <2>3
<1>8. ASSUME NEW i \in B, NEW j \in B, i < j
      PROVE  t[i].msg.n < t[j].msg.n
  <2>1. i + d \in A /\ t[i] = s[i + d] /\ j + d \in A /\ t[j] = s[j + d]
    BY <1>1
  <2>2. i + d < j + d
    BY <1>5, <1>8
  <2> QED BY <1>3, <2>1, <2>2
<1>9. ASSUME NEW e \in 1 .. rx' - 1
      PROVE  \/ e \in skipped' \/ \E k \in DOMAIN rows : rows[k] = e
             \/ \E i \in B : t[i].msg.n = e
  <2>1. CASE e >= rx
    BY <2>1
  <2>2. CASE e < rx
    <3>1. e \in 1 .. rx - 1
      BY <1>2, <2>2
    <3>2. CASE \E i \in A : s[i].msg.n = e
      <4>1. PICK i \in A : s[i].msg.n = e
        BY <3>2
      <4>2. i - d \in B /\ t[i - d] = s[i]
        BY <1>1
      <4> QED BY <4>1, <4>2
    <3> QED BY <1>3, <3>1, <3>2
  <2> QED BY <1>2, <2>1, <2>2
<1>10. EventsComing'
  BY <1>6, <1>7, <1>8, <1>9 DEF EventsComing, B, t
<1>11. EventsInOrder'
  BY DEF EventsInOrder
<1> QED
  BY <1>10, <1>11

\* The event the receiver returns goes behind those on their way.
LEMMA EventSent ==
    ASSUME IInv, EventsComing, RecvEvent, Sent(Event(rx)), skipped' = skipped
    PROVE  EventsComing' /\ EventsInOrder'
<1> DEFINE A == Bodies(ToClient, {"Event"})
           B == Bodies(ToClient, {"Event"})'
           s == ToClient
           t == ToClient'
           z == Len(s) + 2
<1>1. rows' = rows /\ rx' = rx + 1 /\ Event(rx).n = rx /\ Event(rx).kind = "Event"
  BY Broadcasting DEF RecvEvent, DropsRead, tui
<1>2. s \in Seq(Pieces) /\ t \in Seq(Pieces) /\ Grows(t, s, Event(rx))
  BY StreamTypes DEF IInv, Sent
<1>3. /\ Len(s) \in Nat
      /\ \A i \in A : i \in 1 .. Len(s) /\ i \in B /\ t[i] = s[i]
      /\ \A i \in B : i \in A \/ i = z
      /\ z \in B /\ t[z].msg = Event(rx)
  BY <1>1, <1>2, BodiesGrow
<1>4. /\ rx \in Nat \ {0} /\ DOMAIN rows \subseteq Nat /\ (\A k \in DOMAIN rows : rows[k] \in Nat)
      /\ (\A i \in A : s[i].msg.n \in Nat)
  BY EventTypes DEF IInv, Bodies
<1>5. /\ skipped \subseteq 1 .. rx - 1
      /\ \A k \in DOMAIN rows : rows[k] < rx
      /\ \A i \in A : s[i].msg.n \in 1 .. rx - 1 /\ \A k \in DOMAIN rows : rows[k] < s[i].msg.n
      /\ \A i, j \in A : i < j => s[i].msg.n < s[j].msg.n
      /\ \A e \in 1 .. rx - 1 : \/ e \in skipped \/ \E k \in DOMAIN rows : rows[k] = e
                                \/ \E i \in A : s[i].msg.n = e
  BY DEF EventsComing
<1>6. t[z].msg.n = rx /\ z \in Nat
  BY <1>1, <1>3
<1> HIDE DEF A, B, s, t, z
<1>7. skipped' \subseteq 1 .. rx' - 1 /\ \A k \in DOMAIN rows : rows[k] < rx'
  BY <1>1, <1>4, <1>5
<1>8. ASSUME NEW i \in B
      PROVE  t[i].msg.n \in 1 .. rx' - 1 /\ \A k \in DOMAIN rows : rows[k] < t[i].msg.n
  <2>1. CASE i \in A
    <3>1. t[i] = s[i] /\ s[i].msg.n \in 1 .. rx - 1
      BY <1>3, <1>5, <2>1
    <3>2. s[i].msg.n \in 1 .. rx' - 1
      BY <1>1, <1>4, <3>1
    <3> QED BY <1>5, <2>1, <3>1, <3>2
  <2>2. CASE i = z
    BY <1>1, <1>4, <1>5, <1>6, <2>2
  <2> QED BY <1>3, <2>1, <2>2
<1>9. ASSUME NEW i \in B, NEW j \in B, i < j
      PROVE  t[i].msg.n < t[j].msg.n
  <2>1. i \in A
    <3>1. CASE i = z
      <4>1. j = z \/ j \in 1 .. Len(s)
        BY <1>3
      <4>2. ~(j > z)
        BY <1>3, <1>6, <4>1 DEF z
      <4> QED BY <1>9, <3>1, <4>2
    <3> QED BY <1>3, <3>1
  <2>2. CASE j \in A
    BY <1>3, <1>5, <1>9, <2>1, <2>2
  <2>3. CASE j = z
    <3>1. t[i] = s[i] /\ s[i].msg.n \in 1 .. rx - 1 /\ t[j].msg.n = rx
      BY <1>3, <1>5, <1>6, <2>1, <2>3
    <3>2. s[i].msg.n < rx
      BY <1>4, <3>1
    <3> QED BY <3>1, <3>2
  <2> QED BY <1>3, <2>2, <2>3
<1>10. ASSUME NEW e \in 1 .. rx' - 1
       PROVE  \/ e \in skipped' \/ \E k \in DOMAIN rows : rows[k] = e
              \/ \E i \in B : t[i].msg.n = e
  <2>1. CASE e = rx
    BY <1>3, <1>6, <2>1
  <2>2. CASE e # rx
    <3>1. e \in 1 .. rx - 1
      BY <1>1, <1>4, <2>2
    <3> QED BY <1>3, <1>5, <3>1
  <2> QED BY <2>1, <2>2
<1>11. EventsComing'
  BY <1>1, <1>7, <1>8, <1>9, <1>10 DEF EventsComing, B, t
<1>12. EventsInOrder'
  BY <1>1 DEF EventsInOrder, IInv
<1> QED
  BY <1>11, <1>12

\* The event the client takes is the first on its way: the next of the Live view.
LEMMA EventTaken ==
    ASSUME IInv, EventsComing, NEW m, Took(m), m.kind = "Event",
           rows' = Append(rows, m.n), rx' = rx, skipped' = skipped
    PROVE  /\ EventsComing' /\ EventsInOrder'
           /\ m.n \in 1 .. rx - 1
<1> DEFINE A == Bodies(ToClient, {"Event"})
           B == Bodies(ToClient, {"Event"})'
           s == ToClient
           t == ToClient'
           n == Len(rows)
<1>1. s \in Seq(Pieces) /\ t \in Seq(Pieces)
  BY StreamTypes DEF IInv, Took
<1>2. PICK d \in {1, 2} : Leads(d, s, m) /\ Sheds(t, s, d)
  BY DEF Took
<1>3. /\ d \in Nat /\ d \in A /\ s[d].msg = m
      /\ \A i \in A : i \in Nat /\ (i = d \/ i > d)
      /\ \A i \in B : i \in Nat \ {0} /\ i + d \in A /\ t[i] = s[i + d]
      /\ \A i \in A : i > d => i - d \in B /\ t[i - d] = s[i]
  <2>1. /\ d \in Nat /\ s[d].msg = m
        /\ \A i \in A : i \in Nat /\ (i = d \/ i > d)
        /\ d \in A <=> m.kind \in {"Event"}
    BY <1>1, <1>2, BodiesLed
  <2>2. /\ \A i \in B : i \in Nat \ {0} /\ i + d \in A /\ t[i] = s[i + d]
        /\ \A i \in A : i > d => i - d \in B /\ t[i - d] = s[i]
    BY <1>1, <1>2, BodiesShed
  <2> QED BY <2>1, <2>2
<1>4. /\ rx \in Nat \ {0} /\ n \in Nat /\ DOMAIN rows = 1 .. n
      /\ (\A k \in 1 .. n : rows[k] \in Nat \ {0}) /\ (\A i \in A : s[i].msg.n \in Nat)
      /\ rows \in Seq(Nat)
  <2>1. /\ rx \in Nat \ {0} /\ n \in Nat /\ DOMAIN rows = 1 .. n
        /\ \A k \in 1 .. n : rows[k] \in 1 .. MaxEvents
        /\ \A i \in A : s[i].msg.n \in Nat
        /\ rows \in Seq(1 .. MaxEvents)
    BY EventTypes DEF IInv, Bodies
  <2> QED BY <2>1
<1>5. /\ skipped \subseteq 1 .. rx - 1
      /\ \A k \in 1 .. n : rows[k] < rx
      /\ \A i \in A : s[i].msg.n \in 1 .. rx - 1 /\ \A k \in 1 .. n : rows[k] < s[i].msg.n
      /\ \A i, j \in A : i < j => s[i].msg.n < s[j].msg.n
      /\ \A e \in 1 .. rx - 1 : \/ e \in skipped \/ \E k \in 1 .. n : rows[k] = e
                                \/ \E i \in A : s[i].msg.n = e
  BY <1>4 DEF EventsComing
<1>6. m.n \in Nat /\ m.n \in 1 .. rx - 1 /\ \A k \in 1 .. n : rows[k] < m.n
  BY <1>3, <1>4, <1>5
<1>7. /\ rows' \in Seq(Nat) /\ Len(rows') = n + 1 /\ DOMAIN rows' = 1 .. n + 1
      /\ \A k \in 1 .. n : rows'[k] = rows[k]
      /\ rows'[n + 1] = m.n
  <2>1. /\ rows' \in Seq(Nat) /\ Len(rows') = n + 1
        /\ \A k \in 1 .. n : rows'[k] = rows[k]
        /\ rows'[n + 1] = m.n
    BY <1>4, <1>6, AppendOf
  <2> QED BY <1>4, <2>1, ElementsOf
<1> HIDE DEF A, B, s, t, n
<1>8. \A k \in 1 .. n + 1 : k \in 1 .. n \/ k = n + 1
  BY <1>4
<1>9. ASSUME NEW k \in 1 .. n + 1 PROVE rows'[k] <= m.n /\ rows'[k] \in Nat \ {0}
  BY <1>4, <1>6, <1>7, <1>8
<1>10. ASSUME NEW e \in 1 .. m.n
       PROVE  e \in skipped \/ \E k \in 1 .. n + 1 : rows'[k] = e
  <2>1. CASE e = m.n
    <3>1. n + 1 \in 1 .. n + 1
      BY <1>4
    <3> QED BY <1>7, <2>1, <3>1
  <2>2. CASE e # m.n
    <3>1. e \in 1 .. rx - 1 /\ e < m.n
      BY <1>4, <1>6, <2>2
    <3>2. ~ \E i \in A : s[i].msg.n = e
      <4> SUFFICES ASSUME NEW i \in A, s[i].msg.n = e PROVE FALSE
        OBVIOUS
      <4>1. s[i].msg = m \/ m.n < s[i].msg.n
        BY <1>3, <1>5
      <4> QED BY <1>6, <3>1, <4>1
    <3>3. e \in skipped \/ \E k \in 1 .. n : rows[k] = e
      BY <1>5, <3>1, <3>2
    <3>4. \A k \in 1 .. n : k \in 1 .. n + 1 /\ rows'[k] = rows[k]
      BY <1>4, <1>7
    <3> QED BY <3>3, <3>4
  <2> QED BY <2>1, <2>2
<1>11. \A k \in DOMAIN rows' : rows'[k] < rx'
  <2>1. m.n < rx
    BY <1>4, <1>6
  <2> QED BY <1>4, <1>6, <1>7, <1>9, <2>1
<1>12. ASSUME NEW i \in B
       PROVE  t[i].msg.n \in 1 .. rx - 1 /\ \A k \in DOMAIN rows' : rows'[k] < t[i].msg.n
  <2>1. i + d \in A /\ t[i] = s[i + d] /\ d < i + d
    BY <1>3
  <2>2. m.n < s[i + d].msg.n /\ s[i + d].msg.n \in Nat
    BY <1>3, <1>4, <1>5, <2>1
  <2>3. ASSUME NEW k \in DOMAIN rows' PROVE rows'[k] < t[i].msg.n
    <3>1. rows'[k] <= m.n /\ rows'[k] \in Nat
      BY <1>7, <1>9
    <3> QED BY <1>6, <2>1, <2>2, <3>1
  <2> QED BY <1>5, <2>1, <2>3
<1>13. ASSUME NEW i \in B, NEW j \in B, i < j
       PROVE  t[i].msg.n < t[j].msg.n
  <2>1. i + d \in A /\ t[i] = s[i + d] /\ j + d \in A /\ t[j] = s[j + d] /\ i + d < j + d
    BY <1>3, <1>13
  <2> QED BY <1>5, <2>1
<1>14. ASSUME NEW e \in 1 .. rx - 1
       PROVE  \/ e \in skipped \/ \E k \in DOMAIN rows' : rows'[k] = e
              \/ \E i \in B : t[i].msg.n = e
  <2>1. CASE e <= m.n
    <3>1. e \in 1 .. m.n
      BY <1>4, <1>6, <2>1
    <3> QED BY <1>7, <1>10, <3>1
  <2>2. CASE e > m.n
    <3>1. CASE \E k \in 1 .. n : rows[k] = e
      BY <1>4, <1>6, <2>2, <3>1
    <3>2. CASE \E i \in A : s[i].msg.n = e
      <4>1. PICK i \in A : s[i].msg.n = e
        BY <3>2
      <4>2. i # d
        BY <1>3, <1>6, <2>2, <4>1
      <4>3. i - d \in B /\ t[i - d] = s[i]
        BY <1>3, <4>2
      <4> QED BY <4>1, <4>3
    <3> QED BY <1>5, <3>1, <3>2
  <2> QED BY <1>4, <1>6, <2>1, <2>2
<1>15. EventsComing'
  BY <1>5, <1>11, <1>12, <1>13, <1>14 DEF EventsComing, B, t
<1>16. ASSUME NEW i \in 1 .. Len(rows'), NEW j \in 1 .. Len(rows'), i < j
       PROVE  rows'[i] < rows'[j]
  <2>1. i \in 1 .. n
    BY <1>4, <1>7, <1>16
  <2>2. CASE j \in 1 .. n
    <3>1. \A a, b \in 1 .. n : a < b => rows[a] < rows[b]
      BY DEF IInv, EventsInOrder, n
    <3> QED BY <1>7, <1>16, <2>1, <2>2, <3>1
  <2>3. CASE j = n + 1
    BY <1>6, <1>7, <2>1, <2>3
  <2> QED BY <1>7, <1>8, <2>2, <2>3
<1>17. ASSUME NEW i \in 1 .. Len(rows'), NEW e \in 1 .. rows'[i]
       PROVE  e \in skipped \/ \E j \in 1 .. i : rows'[j] = e
  <2>1. CASE i \in 1 .. n
    <3>1. e \in 1 .. rows[i]
      BY <1>7, <2>1
    <3>2. e \in skipped \/ \E j \in 1 .. i : rows[j] = e
      BY <2>1, <3>1 DEF IInv, EventsInOrder, n
    <3>3. \A j \in 1 .. i : rows'[j] = rows[j]
      BY <1>4, <1>7, <2>1
    <3> QED BY <3>2, <3>3
  <2>2. CASE i = n + 1
    BY <1>7, <1>10, <2>2
  <2> QED BY <1>7, <1>8, <2>1, <2>2
<1>18. EventsInOrder'
  BY <1>16, <1>17 DEF EventsInOrder
<1> QED
  BY <1>6, <1>15, <1>18

\* Only GetsEvent adds a row; the handler's steps pass, or skip, the next events.
LEMMA RowsStay ==
    ASSUME IInv, Next, ~GetsEvent
    PROVE  rows' = rows
<1>1. CASE \/ Publish \/ OthersChange \/ DaemonWrites \/ DaemonConsumes \/ DaemonMisreads
           \/ DaemonLosesClient \/ SubscribeAgain \/ Unsubscribe \/ RecvEvent \/ RecvLagged
           \/ \E k \in Requests \cup {"subscribe", "unsubscribe"} :
                 FirstRequest(k) \/ AnswerQuery(k) \/ ChangeRules(k)
  BY <1>1 DEF Publish, OthersChange, DaemonWrites, DaemonConsumes, DaemonMisreads,
     DaemonLosesClient, SubscribeAgain, Unsubscribe, RecvEvent, RecvLagged, DropsRead,
     FirstRequest, AnswerQuery, ChangeRules, Answer, tui
<1>2. CASE ClientWrites \/ ClientConsumes \/ GetsHello \/ GetsAck \/ GetsOk
           \/ \E k \in {"Rules", "Stats", "Error"} : GetsAnswer(k)
  BY <1>2 DEF ClientWrites, ClientConsumes, GetsHello, GetsAck, GetsOk, GetsAnswer
<1>3. CASE Leaves
  BY <1>3, LeavingClient
<1>4. CASE \/ \E v \in {"Live", "Rules", "Stats"} : SwitchTo(v)
           \/ \E r \in Requests \cup Others : Ask(r)
           \/ Idle \/ StartEdit \/ EndEdit
  BY <1>4 DEF SwitchTo, Ask, Idle, StartEdit, EndEdit, AtSelect
<1> QED
  BY <1>1, <1>2, <1>3, <1>4, Steps

LEMMA ReceiverStays ==
    ASSUME IInv, Next, ~DaemonWrites, ~RecvEvent, ~RecvLagged
    PROVE  rx' = rx /\ skipped' = skipped
<1>1. CASE \/ Publish \/ OthersChange \/ DaemonConsumes \/ DaemonMisreads
           \/ DaemonLosesClient \/ SubscribeAgain \/ Unsubscribe
           \/ \E k \in Requests \cup {"subscribe", "unsubscribe"} :
                 FirstRequest(k) \/ AnswerQuery(k) \/ ChangeRules(k)
  BY <1>1 DEF Publish, OthersChange, DaemonConsumes, DaemonMisreads,
     DaemonLosesClient, SubscribeAgain, Unsubscribe,
     FirstRequest, AnswerQuery, ChangeRules, Answer, daemon, history
<1>2. CASE ClientWrites \/ ClientConsumes \/ GetsHello \/ GetsAck \/ GetsOk \/ GetsEvent
           \/ \E k \in {"Rules", "Stats", "Error"} : GetsAnswer(k)
  BY <1>2 DEF ClientWrites, ClientConsumes, GetsHello, GetsAck, GetsOk, GetsEvent, GetsAnswer,
     Taken, daemon, history
<1>3. CASE Leaves
  BY <1>3, LeavingClient DEF daemon, history
<1>4. CASE \/ \E v \in {"Live", "Rules", "Stats"} : SwitchTo(v)
           \/ \E r \in Requests \cup Others : Ask(r)
           \/ Idle \/ StartEdit \/ EndEdit
  BY <1>4 DEF SwitchTo, Ask, Idle, StartEdit, EndEdit, AtSelect, daemon
<1> QED
  BY <1>1, <1>2, <1>3, <1>4, Steps

\* The handler subscribes before any event is on its way.
LEMMA ReceiverGoesOn ==
    ASSUME IInv, EventsComing, DaemonWrites \/ RecvLagged \/ (RecvEvent /\ skipped' = skipped \cup {rx})
    PROVE  /\ rx' \in Nat /\ rx <= rx'
           /\ rx' <= published + 1 \/ rx' = rx
           /\ skipped \subseteq skipped' /\ skipped' \subseteq 1 .. rx' - 1
           /\ \A e \in 1 .. rx' - 1 : e >= rx => e \in skipped'
<1>1. rx \in Nat \ {0} /\ published \in Nat /\ LagCap \in Nat \ {0}
  BY EventTypes DEF IInv
<1>2. skipped \subseteq 1 .. rx - 1
  BY DEF EventsComing
<1>3. CASE DaemonWrites /\ handler = "ok" /\ Len(d_out) = 1
  <2>1. rx' = published + 1 /\ skipped' = 1 .. published /\ rx = 1
    BY <1>3 DEF DaemonWrites, IInv, Writing
  <2> QED BY <1>1, <1>2, <2>1
<1>4. CASE DaemonWrites /\ ~(handler = "ok" /\ Len(d_out) = 1)
  <2>1. rx' = rx /\ skipped' = skipped
    BY <1>4 DEF DaemonWrites
  <2> QED BY <1>1, <1>2, <2>1
<1>5. CASE RecvLagged
  <2>1. /\ rx' = published - LagCap + 1 /\ skipped' = skipped \cup (rx .. published - LagCap)
        /\ published - rx >= LagCap
    BY <1>5 DEF RecvLagged, Lags
  <2> QED BY <1>1, <1>2, <2>1
<1>6. CASE RecvEvent /\ skipped' = skipped \cup {rx}
  <2>1. rx' = rx + 1 /\ rx <= published
    BY <1>6 DEF RecvEvent, DropsRead
  <2> QED BY <1>1, <1>2, <1>6, <2>1
<1> QED
  BY <1>3, <1>4, <1>5, <1>6

\* The inductive step of EventsInOrder.
LEMMA EventsStep ==
    ASSUME IInv, Next
    PROVE  /\ EventsInOrder'
           /\ client' # "gone" => EventsComing'
<1>1. CASE client # "gone"
  <2>0. EventsComing /\ EventsInOrder /\ TypeOK
    BY <1>1 DEF IInv
  <2>1. ASSUME Alike(ToClient', ToClient, {"Event"}), ToClient' \in Seq(Pieces), ~GetsEvent,
               RecvEvent => skipped' = skipped \cup {rx}
        PROVE  EventsComing' /\ EventsInOrder'
    <3>1. rows' = rows
      BY <2>1, RowsStay
    <3>2. /\ rx' \in Nat /\ rx <= rx' /\ skipped \subseteq skipped' /\ skipped' \subseteq 1 .. rx' - 1
          /\ \A e \in 1 .. rx' - 1 : e >= rx => e \in skipped'
      <4>1. rx \in Nat \ {0} /\ skipped \subseteq 1 .. rx - 1
        BY <2>0, EventTypes DEF EventsComing
      <4>2. CASE DaemonWrites \/ RecvLagged \/ RecvEvent
        BY <2>0, <2>1, <4>2, <4>1, ReceiverGoesOn
      <4>3. CASE ~(DaemonWrites \/ RecvLagged \/ RecvEvent)
        <5>1. rx' = rx /\ skipped' = skipped
          BY <4>3, ReceiverStays
        <5> QED BY <4>1, <5>1
      <4> QED BY <4>2, <4>3
    <3> QED BY <2>0, <2>1, <3>1, <3>2, EventsPass
  <2>2. ASSUME \/ ToClient' = ToClient \/ Consumed
               \/ \E m \in Messages : (Sent(m) \/ Took(m)) /\ m.kind # "Event",
               ~GetsEvent, RecvEvent => skipped' = skipped \cup {rx}
        PROVE  EventsComing' /\ EventsInOrder'
    <3>1. Alike(ToClient', ToClient, {"Event"})
      BY <2>2, AlikeStream
    <3>2. ToClient' \in Seq(Pieces)
      BY <2>2, ClientStream
    <3> QED BY <2>1, <2>2, <3>1, <3>2
  <2>3. CASE RecvEvent
    <3>1. CASE Sent(Event(rx)) /\ skipped' = skipped
      BY <2>0, <2>3, <3>1, EventSent
    <3>2. CASE ToClient' = ToClient /\ skipped' = skipped \cup {rx}
      <4>1. ~GetsEvent
        <5>1. rx' = rx + 1 /\ rx \in Nat
          BY <2>0, <2>3, Broadcasting, EventTypes
        <5> QED BY <5>1 DEF GetsEvent, Taken, daemon
      <4> QED BY <2>2, <3>2, <4>1
    <3> QED BY <2>3, <3>1, <3>2, Broadcasting
  <2>4. CASE GetsEvent
    <3>1. Took(d2c[1].msg) /\ d2c[1].msg.kind = "Event"
      BY <2>4, Taking DEF GetsEvent
    <3>2. rows' = Append(rows, d2c[1].msg.n) /\ rx' = rx /\ skipped' = skipped
      BY <2>4 DEF GetsEvent, Taken, daemon
    <3> QED BY <2>0, <3>1, <3>2, EventTaken
  <2>5. CASE ~RecvEvent /\ ~GetsEvent /\ ClientStill
    BY <2>2, <2>5, StillClient
  <2>6. CASE ~RecvEvent /\ ~GetsEvent /\ ClientConsumes
    BY <2>2, <2>6, Consuming
  <2>7. ASSUME ~RecvEvent, ~GetsEvent, NEW k \in Requests \cup {"subscribe", "unsubscribe"},
               FirstRequest(k) \/ AnswerQuery(k) \/ ChangeRules(k)
        PROVE  EventsComing' /\ EventsInOrder'
    <3>1. \E m \in Messages : Sent(m) /\ m.kind # "Event"
      <4>1. \/ Sent(Reply("Ok", 0)) \/ Sent(Reply("Error", 0)) \/ Sent(Reply("Stats", 0))
            \/ Sent(Reply("Rules", disk))
        BY <2>7, Answering
      <4> QED BY <4>1 DEF Sent, Reply
    <3> QED BY <2>2, <2>7, <3>1
  <2>8. CASE /\ ~RecvEvent /\ ~GetsEvent
             /\ \/ GetsHello \/ GetsAck \/ GetsOk
                \/ \E k \in {"Rules", "Stats", "Error"} : GetsAnswer(k)
    <3>1. \E st \in {"hello", "ack", "run"}, k \in {"Hello", "Ok", "Rules", "Stats", "Error"} :
             Gets(st, k) /\ Taken
      BY <2>8 DEF GetsHello, GetsAck, GetsOk, GetsAnswer
    <3>2. \E m \in Messages : Took(m) /\ m.kind # "Event"
      BY <3>1, Taking DEF Took
    <3> QED BY <2>2, <2>8, <3>2
  <2>9. CASE client' = "gone" /\ (Leaves \/ DaemonLosesClient)
    <3>1. skipped' = skipped /\ rows' = rows
      BY <1>1, <2>9, LeavingClient DEF history, DaemonLosesClient
    <3> QED BY <2>0, <2>9, <3>1 DEF EventsInOrder
  <2>10. (Leaves => client' = "gone") /\ ~DaemonLosesClient
    BY <1>1, LeavingClient DEF DaemonLosesClient
  <2> QED BY <2>3, <2>4, <2>5, <2>6, <2>7, <2>8, <2>9, <2>10, Steps DEF ClientStill
<1>2. CASE client = "gone"
  <2>1. client' = "gone"
    BY <1>2, NoReturn
  <2>2. ~GetsEvent /\ ~DaemonWrites /\ ~RecvEvent /\ ~RecvLagged
    BY <1>2 DEF GetsEvent, Gets, DaemonWrites, RecvEvent, RecvLagged, DropsRead
  <2>3. rows' = rows /\ skipped' = skipped
    BY <2>2, RowsStay, ReceiverStays
  <2> QED BY <2>1, <2>3 DEF IInv, EventsInOrder
<1> QED
  BY <1>1, <1>2

\* The rules directory only moves on, and the list shown changes when one comes.
LEMMA DiskMovesOn ==
    ASSUME IInv, Next
    PROVE  /\ disk \in Nat /\ disk' \in {disk, disk + 1} /\ disk' >= disk
           /\ shown' = shown \/ GetsAnswer("Rules")
<1>0. disk \in Nat
  BY DEF IInv, TypeOK
<1>1. CASE \/ Publish \/ OthersChange \/ DaemonWrites \/ DaemonConsumes \/ DaemonMisreads
           \/ DaemonLosesClient \/ SubscribeAgain \/ Unsubscribe \/ RecvEvent \/ RecvLagged
  BY <1>1, <1>0 DEF Publish, OthersChange, DaemonWrites, DaemonConsumes, DaemonMisreads,
     DaemonLosesClient, SubscribeAgain, Unsubscribe, RecvEvent, RecvLagged, DropsRead, tui
<1>2. CASE \E k \in Requests \cup {"subscribe", "unsubscribe"} :
              FirstRequest(k) \/ AnswerQuery(k) \/ ChangeRules(k)
  BY <1>2, <1>0 DEF FirstRequest, AnswerQuery, ChangeRules, Answer, tui
<1>3. CASE ClientWrites \/ ClientConsumes \/ GetsHello \/ GetsAck \/ GetsOk \/ GetsEvent
           \/ \E k \in {"Rules", "Stats", "Error"} : GetsAnswer(k)
  BY <1>3, <1>0 DEF ClientWrites, ClientConsumes, GetsHello, GetsAck, GetsOk, GetsEvent,
     GetsAnswer, Taken
<1>4. CASE Leaves
  BY <1>4, <1>0, LeavingClient
<1>5. CASE \/ \E v \in {"Live", "Rules", "Stats"} : SwitchTo(v)
           \/ \E r \in Requests \cup Others : Ask(r)
           \/ Idle \/ StartEdit \/ EndEdit
  BY <1>5, <1>0 DEF SwitchTo, Ask, Idle, StartEdit, EndEdit, AtSelect
<1>6. /\ disk \in Nat /\ disk' \in {disk, disk + 1}
      /\ shown' = shown \/ GetsAnswer("Rules")
  BY <1>1, <1>2, <1>3, <1>4, <1>5, Steps
<1>7. disk' >= disk
  BY <1>0, <1>6
<1> QED
  BY <1>6, <1>7

\* Types of what the lists are about.
LEMMA ListTypes ==
    ASSUME IInv, ToClient' \in Seq(Pieces)
    PROVE  /\ disk \in Nat /\ shown \in 0 .. disk
           /\ \A i \in Bodies(ToClient, {"Rules"}) : ToClient[i].msg.n \in Nat
           /\ Bodies(ToClient, {"Rules"}) \subseteq Nat
           /\ Bodies(ToClient, {"Rules"})' \subseteq Nat
<1>1. disk \in Nat /\ shown \in 0 .. disk
  BY DEF IInv, TypeOK
<1>2. ToClient \in Seq(Pieces)
  BY StreamTypes DEF IInv
<1> QED
  BY <1>1, <1>2, PieceOf DEF Bodies, Messages

LEMMA ListsPass ==
    ASSUME IInv, ListsComing, Alike(ToClient', ToClient, {"Rules"}), ToClient' \in Seq(Pieces),
           shown' = shown, disk' \in Nat, disk' >= disk
    PROVE  ListsComing'
<1> DEFINE A == Bodies(ToClient, {"Rules"})
           B == Bodies(ToClient, {"Rules"})'
           s == ToClient
           t == ToClient'
<1>1. PICK d \in Nat : /\ \A i \in B : i + d \in A /\ t[i] = s[i + d]
                       /\ \A i \in A : i - d \in B /\ t[i - d] = s[i]
  BY DEF Alike
<1>2. /\ \A i \in A : s[i].msg.n \in shown .. disk
      /\ \A i, j \in A : i < j => s[i].msg.n <= s[j].msg.n
  BY DEF ListsComing
<1>3. disk \in Nat /\ shown \in 0 .. disk /\ A \subseteq Nat /\ B \subseteq Nat
  BY ListTypes
<1> HIDE DEF A, B, s, t
<1>4. ASSUME NEW i \in B PROVE t[i].msg.n \in shown' .. disk'
  <2>1. t[i] = s[i + d] /\ s[i + d].msg.n \in shown .. disk
    BY <1>1, <1>2
  <2> QED BY <1>3, <2>1
<1>5. ASSUME NEW i \in B, NEW j \in B, i < j PROVE t[i].msg.n <= t[j].msg.n
  <2>1. i + d \in A /\ t[i] = s[i + d] /\ j + d \in A /\ t[j] = s[j + d]
    BY <1>1
  <2>2. i + d < j + d
    BY <1>3, <1>5
  <2> QED BY <1>2, <2>1, <2>2
<1> QED
  BY <1>4, <1>5 DEF ListsComing, B, t

\* A list that is sent is read from the directory as it is.
LEMMA ListSent ==
    ASSUME IInv, ListsComing, Sent(Reply("Rules", disk)), shown' = shown, disk' = disk
    PROVE  ListsComing'
<1> DEFINE A == Bodies(ToClient, {"Rules"})
           B == Bodies(ToClient, {"Rules"})'
           s == ToClient
           t == ToClient'
           z == Len(s) + 2
<1>1. s \in Seq(Pieces) /\ t \in Seq(Pieces) /\ Grows(t, s, Reply("Rules", disk))
  BY StreamTypes DEF IInv, Sent
<1>2. /\ Len(s) \in Nat
      /\ \A i \in A : i \in 1 .. Len(s) /\ i \in B /\ t[i] = s[i]
      /\ \A i \in B : i \in A \/ i = z
      /\ t[z].msg = Reply("Rules", disk)
  BY <1>1, BodiesGrow
<1>3. /\ \A i \in A : s[i].msg.n \in shown .. disk
      /\ \A i, j \in A : i < j => s[i].msg.n <= s[j].msg.n
  BY DEF ListsComing
<1>4. /\ disk \in Nat /\ shown \in 0 .. disk /\ A \subseteq Nat /\ B \subseteq Nat
      /\ \A i \in A : s[i].msg.n \in Nat
  BY <1>1, ListTypes
<1>5. t[z].msg.n = disk
  BY <1>2 DEF Reply
<1> HIDE DEF A, B, s, t
<1>6. ASSUME NEW i \in B PROVE t[i].msg.n \in shown' .. disk'
  BY <1>2, <1>3, <1>4, <1>5
<1>7. ASSUME NEW i \in B, NEW j \in B, i < j PROVE t[i].msg.n <= t[j].msg.n
  <2>1. i \in A
    <3>1. j = z \/ j \in 1 .. Len(s)
      BY <1>2
    <3>2. i # z
      BY <1>2, <1>7, <3>1
    <3> QED BY <1>2, <3>2
  <2>2. t[i] = s[i] /\ s[i].msg.n <= disk /\ s[i].msg.n \in Nat
    <3>1. t[i] = s[i] /\ s[i].msg.n \in shown .. disk /\ s[i].msg.n \in Nat
      BY <1>2, <1>3, <1>4, <2>1
    <3> QED BY <1>4, <3>1
  <2>3. CASE j \in A
    BY <1>2, <1>3, <1>7, <2>1, <2>2, <2>3
  <2>4. CASE j = z
    BY <1>5, <2>2, <2>4
  <2> QED BY <1>2, <2>3, <2>4
<1> QED
  BY <1>6, <1>7 DEF ListsComing, B, t

LEMMA ListTaken ==
    ASSUME IInv, ListsComing, NEW m, Took(m), m.kind = "Rules", shown' = m.n, disk' = disk
    PROVE  ListsComing' /\ m.n \in shown .. disk
<1> DEFINE A == Bodies(ToClient, {"Rules"})
           B == Bodies(ToClient, {"Rules"})'
           s == ToClient
           t == ToClient'
<1>1. s \in Seq(Pieces) /\ t \in Seq(Pieces)
  BY StreamTypes DEF IInv, Took
<1>2. PICK d \in {1, 2} : Leads(d, s, m) /\ Sheds(t, s, d)
  BY DEF Took
<1>3. /\ d \in Nat /\ d \in A /\ s[d].msg = m
      /\ \A i \in B : i \in Nat \ {0} /\ i + d \in A /\ t[i] = s[i + d]
  <2>1. /\ d \in Nat /\ s[d].msg = m
        /\ d \in A <=> m.kind \in {"Rules"}
    BY <1>1, <1>2, BodiesLed
  <2>2. \A i \in B : i \in Nat \ {0} /\ i + d \in A /\ t[i] = s[i + d]
    BY <1>1, <1>2, BodiesShed
  <2> QED BY <2>1, <2>2
<1>4. /\ \A i \in A : s[i].msg.n \in shown .. disk
      /\ \A i, j \in A : i < j => s[i].msg.n <= s[j].msg.n
  BY DEF ListsComing
<1>5. /\ disk \in Nat /\ shown \in 0 .. disk
      /\ \A i \in A : s[i].msg.n \in Nat
  BY <1>1, ListTypes
<1> HIDE DEF A, B, s, t
<1>6. m.n \in Nat /\ m.n \in shown .. disk
  BY <1>3, <1>4, <1>5
<1>7. ASSUME NEW i \in B
      PROVE  t[i].msg.n \in m.n .. disk /\ \A j \in B : i < j => t[i].msg.n <= t[j].msg.n
  <2>1. i + d \in A /\ t[i] = s[i + d] /\ d < i + d
    BY <1>3
  <2>2. m.n <= s[i + d].msg.n /\ s[i + d].msg.n \in shown .. disk /\ s[i + d].msg.n \in Nat
    BY <1>3, <1>4, <1>5, <2>1
  <2>3. \A j \in B : i < j => i + d < j + d /\ j + d \in A /\ t[j] = s[j + d]
    BY <1>3
  <2> QED BY <1>4, <1>5, <1>6, <2>1, <2>2, <2>3
<1> QED
  BY <1>6, <1>7 DEF ListsComing, B, t

LEMMA ListsStep ==
    ASSUME IInv, Next, client' # "gone"
    PROVE  ListsComing'
<1>1. client # "gone" /\ ListsComing
  BY NoReturn DEF IInv
<1>2. disk \in Nat /\ disk' \in Nat /\ disk' >= disk /\ (shown' = shown \/ GetsAnswer("Rules"))
  BY DiskMovesOn
<1>3. ASSUME \/ ToClient' = ToClient \/ Consumed
             \/ \E m \in Messages : (Sent(m) \/ Took(m)) /\ m.kind # "Rules",
             shown' = shown
      PROVE  ListsComing'
  <2>1. Alike(ToClient', ToClient, {"Rules"})
    BY <1>3, AlikeStream
  <2>2. ToClient' \in Seq(Pieces)
    BY <1>3, ClientStream
  <2> QED BY <1>1, <1>2, <1>3, <2>1, <2>2, ListsPass
<1>4. CASE GetsAnswer("Rules")
  <2>1. Took(d2c[1].msg) /\ d2c[1].msg.kind = "Rules"
    BY <1>4, Taking DEF GetsAnswer
  <2>2. shown' = d2c[1].msg.n /\ disk' = disk
    BY <1>4 DEF GetsAnswer, Taken
  <2> QED BY <1>1, <2>1, <2>2, ListTaken
<1>5. ASSUME ~GetsAnswer("Rules"), NEW k \in Requests \cup {"subscribe", "unsubscribe"},
             FirstRequest(k) \/ AnswerQuery(k) \/ ChangeRules(k)
      PROVE  ListsComing'
  <2>1. shown' = shown
    BY <1>2, <1>5
  <2>2. CASE AnswerQuery(k) /\ Sent(Reply("Rules", disk))
    <3>1. disk' = disk
      BY <2>2 DEF AnswerQuery
    <3> QED BY <1>1, <2>1, <2>2, <3>1, ListSent
  <2>3. CASE Sent(Reply("Ok", 0)) \/ Sent(Reply("Error", 0)) \/ Sent(Reply("Stats", 0))
    <3>1. \E m \in Messages : Sent(m) /\ m.kind # "Rules"
      BY <2>3 DEF Sent, Reply
    <3> QED BY <1>3, <2>1, <3>1
  <2> QED BY <1>5, <2>2, <2>3, Answering
<1>6. CASE RecvEvent /\ ~GetsAnswer("Rules")
  <2>1. ToClient' = ToClient \/ \E m \in Messages : Sent(m) /\ m.kind # "Rules"
    BY <1>6, Broadcasting DEF Sent
  <2> QED BY <1>2, <1>3, <1>6, <2>1
<1>7. CASE ClientStill /\ ~GetsAnswer("Rules")
  BY <1>2, <1>3, <1>7, StillClient
<1>8. CASE ClientConsumes /\ ~GetsAnswer("Rules")
  BY <1>2, <1>3, <1>8, Consuming
<1>9. CASE /\ ~GetsAnswer("Rules")
           /\ \/ GetsHello \/ GetsAck \/ GetsOk \/ GetsEvent
              \/ \E k \in {"Rules", "Stats", "Error"} : GetsAnswer(k)
  <2>1. \E st \in {"hello", "ack", "run"}, k \in {"Hello", "Ok", "Event", "Stats", "Error"} :
           Gets(st, k) /\ Taken
    BY <1>9 DEF GetsHello, GetsAck, GetsOk, GetsEvent, GetsAnswer
  <2>2. \E m \in Messages : Took(m) /\ m.kind # "Rules"
    BY <2>1, Taking DEF Took
  <2> QED BY <1>2, <1>3, <1>9, <2>2
<1>10. ~Leaves /\ ~DaemonLosesClient
  BY <1>1, LeavingClient DEF DaemonLosesClient
<1> QED
  BY <1>4, <1>5, <1>6, <1>7, <1>8, <1>9, <1>10, Steps DEF ClientStill

---------------------------------------------------------------------------
(* Types, and who writes when                                              *)

LEMMA WireTypes ==
    ASSUME IInv, Next
    PROVE  /\ c2d' \in Seq(Pieces) /\ Len(c2d') <= RoomToDaemon
           /\ d2c' \in Seq(Pieces) /\ Len(d2c') <= RoomToClient
<1>1. /\ c2d \in Seq(Pieces) /\ Len(c2d) \in Nat /\ Len(c2d) <= RoomToDaemon
      /\ d2c \in Seq(Pieces) /\ Len(d2c) \in Nat /\ Len(d2c) <= RoomToClient
      /\ c_out \in Seq(Pieces) /\ d_out \in Seq(Pieces)
      /\ RoomToDaemon \in Nat \ {0} /\ RoomToClient \in Nat \ {0}
  BY RoomAssumption DEF IInv, TypeOK
<1>2. <<>> \in Seq(Pieces) /\ Len(<<>>) = 0
  OBVIOUS
<1>3. CASE DaemonWrites
  <2>1. d_out # <<>> /\ Len(d2c) < RoomToClient /\ d2c' = Append(d2c, Head(d_out)) /\ c2d' = c2d
    BY <1>3 DEF DaemonWrites, Room
  <2>2. Head(d_out) \in Pieces
    BY <1>1, <2>1, TailOf
  <2>3. d2c' \in Seq(Pieces) /\ Len(d2c') = Len(d2c) + 1
    BY <1>1, <2>1, <2>2, AppendOf
  <2> QED BY <1>1, <2>1, <2>3
<1>4. CASE ClientWrites
  <2>1. c_out # <<>> /\ Len(c2d) < RoomToDaemon /\ c2d' = Append(c2d, Head(c_out)) /\ d2c' = d2c
    BY <1>4 DEF ClientWrites
  <2>2. Head(c_out) \in Pieces
    BY <1>1, <2>1, TailOf
  <2>3. c2d' \in Seq(Pieces) /\ Len(c2d') = Len(c2d) + 1
    BY <1>1, <2>1, <2>2, AppendOf
  <2> QED BY <1>1, <2>1, <2>3
<1>5. ASSUME c2d' = c2d \/ c2d' = <<>>, d2c' = d2c \/ d2c' = <<>>
      PROVE  /\ c2d' \in Seq(Pieces) /\ Len(c2d') <= RoomToDaemon
             /\ d2c' \in Seq(Pieces) /\ Len(d2c') <= RoomToClient
  <2>1. c2d' \in Seq(Pieces) /\ Len(c2d') <= RoomToDaemon
    <3>1. CASE c2d' = c2d
      BY <1>1, <3>1
    <3>2. CASE c2d' = <<>>
      <4>1. 0 <= RoomToDaemon
        BY <1>1
      <4> QED BY <1>2, <3>2, <4>1
    <3> QED BY <1>5, <3>1, <3>2
  <2>2. d2c' \in Seq(Pieces) /\ Len(d2c') <= RoomToClient
    <3>1. CASE d2c' = d2c
      BY <1>1, <3>1
    <3>2. CASE d2c' = <<>>
      <4>1. 0 <= RoomToClient
        BY <1>1
      <4> QED BY <1>2, <3>2, <4>1
    <3> QED BY <1>5, <3>1, <3>2
  <2> QED BY <2>1, <2>2
<1>6. CASE \/ Publish \/ OthersChange \/ DaemonConsumes \/ DaemonMisreads \/ DaemonLosesClient
           \/ Unsubscribe \/ RecvEvent \/ RecvLagged \/ ClientConsumes
  BY <1>5, <1>6 DEF Publish, OthersChange, DaemonConsumes, DaemonMisreads, DaemonLosesClient,
     Unsubscribe, DaemonEnds, RecvEvent, RecvLagged, DropsRead, ClientConsumes, wire
<1>7. CASE Leaves
  BY <1>5, <1>7, LeavingClient
<1>8. CASE \/ \E v \in {"Live", "Rules", "Stats"} : SwitchTo(v)
           \/ \E r \in Requests \cup Others : Ask(r)
           \/ Idle \/ StartEdit \/ EndEdit
  BY <1>5, <1>8 DEF SwitchTo, Ask, Idle, StartEdit, EndEdit, AtSelect, wire
<1>9. ASSUME NEW k, Receives(k), c2d' = Rest(d_held, c2d), c_out' = c_out, d2c' = d2c
      PROVE  /\ c2d' \in Seq(Pieces) /\ Len(c2d') <= RoomToDaemon
             /\ d2c' \in Seq(Pieces) /\ Len(d2c') <= RoomToClient
  <2>1. c2d' \in Seq(Pieces) /\ Len(c2d') <= Len(c2d) /\ Len(c2d') \in Nat
    BY <1>9, DaemonTakes
  <2> QED BY <1>1, <1>9, <2>1
<1>10. CASE SubscribeAgain \/ \E k \in Requests \cup {"subscribe", "unsubscribe"} :
               FirstRequest(k) \/ AnswerQuery(k) \/ ChangeRules(k)
  BY <1>9, <1>10 DEF SubscribeAgain, FirstRequest, AnswerQuery, ChangeRules, Answer, tui
<1>11. ASSUME NEW st \in {"hello", "ack", "run"}, NEW k, Gets(st, k), Taken
       PROVE  /\ c2d' \in Seq(Pieces) /\ Len(c2d') <= RoomToDaemon
              /\ d2c' \in Seq(Pieces) /\ Len(d2c') <= RoomToClient
  <2>1. client # "gone" /\ Completes(c_held, d2c) /\ d2c' = Rest(c_held, d2c) /\ d_out' = d_out
        /\ c2d' = c2d
    BY <1>11 DEF Gets, Taken, daemon
  <2>2. d2c' \in Seq(Pieces) /\ Len(d2c') <= Len(d2c) /\ Len(d2c') \in Nat
    BY <2>1, ClientTakes
  <2> QED BY <1>1, <2>1, <2>2
<1>12. CASE \/ GetsHello \/ GetsAck \/ GetsEvent \/ GetsOk
            \/ \E k \in {"Rules", "Stats", "Error"} : GetsAnswer(k)
  BY <1>11, <1>12 DEF GetsHello, GetsAck, GetsEvent, GetsOk, GetsAnswer
<1> QED
  BY <1>3, <1>4, <1>6, <1>7, <1>8, <1>10, <1>12, Steps

\* What is left of a write of at most a frame.
LEMMA WriteTypes ==
    ASSUME NEW o \in Seq(Pieces), Len(o) <= 2
    PROVE  /\ <<>> \in Seq(Pieces) /\ Len(<<>>) <= 2
           /\ o # <<>> => Tail(o) \in Seq(Pieces) /\ Len(Tail(o)) <= 2 /\ Len(Tail(o)) = Len(o) - 1
                          /\ Len(o) \in Nat \ {0}
           /\ \A m \in Messages : Frame(m) \in Seq(Pieces) /\ Len(Frame(m)) <= 2
<1>1. <<>> \in Seq(Pieces) /\ Len(<<>>) <= 2
  OBVIOUS
<1>2. ASSUME o # <<>>
      PROVE  Tail(o) \in Seq(Pieces) /\ Len(Tail(o)) <= 2 /\ Len(Tail(o)) = Len(o) - 1
             /\ Len(o) \in Nat \ {0}
  <2>1. Tail(o) \in Seq(Pieces) /\ Len(o) \in Nat \ {0} /\ Len(Tail(o)) = Len(o) - 1
    BY <1>2, TailOf
  <2>2. Len(o) - 1 <= 2
    BY <2>1
  <2> QED BY <2>1, <2>2
<1>3. ASSUME NEW m \in Messages PROVE Frame(m) \in Seq(Pieces) /\ Len(Frame(m)) <= 2
  <2>1. Frame(m) \in Seq(Pieces) /\ Len(Frame(m)) = 2
    BY FrameOf, Zenon
  <2> QED BY <2>1
<1> QED
  BY <1>1, <1>2, <1>3

LEMMA DaemonTypes ==
    ASSUME IInv, Next
    PROVE  /\ handler' \in {"hello", "first", "ok", "refuse", "loop", "end"}
           /\ d_out' \in Seq(Pieces) /\ Len(d_out') <= 2 /\ d_held' \in HeldStates
<1>1. /\ handler \in {"hello", "first", "ok", "refuse", "loop", "end"}
      /\ d_out \in Seq(Pieces) /\ Len(d_out) <= 2 /\ d_held \in HeldStates
  BY DEF IInv, TypeOK
<1>2. <<>> \in Seq(Pieces) /\ Len(<<>>) <= 2 /\ "none" \in HeldStates
      /\ \A m \in Messages : Frame(m) \in Seq(Pieces) /\ Len(Frame(m)) <= 2
  BY <1>1, WriteTypes DEF HeldStates
<1>3. CASE DaemonWrites
  <2>1. d_out # <<>> /\ d_out' = Tail(d_out) /\ d_held' = d_held
        /\ (handler' = handler \/ handler' = AfterWrite[handler])
    BY <1>3 DEF DaemonWrites
  <2>2. handler \notin {"first", "end"}
    BY <2>1 DEF IInv, Writing
  <2>3. AfterWrite[handler] \in {"first", "loop", "end"}
    BY <1>1, <2>2 DEF AfterWrite
  <2> QED BY <1>1, <2>1, <2>3, WriteTypes
<1>4. CASE DaemonConsumes
  <2>1. UNCHANGED <<handler, d_out>> /\ d_held' = Held(c2d)
    BY <1>4 DEF DaemonConsumes
  <2> QED BY <1>1, <2>1 DEF Held, HeldStates
<1>5. CASE DaemonMisreads \/ DaemonLosesClient \/ Unsubscribe
  <2>1. handler' = "end" /\ d_out' = <<>> /\ d_held' = "none"
    BY <1>5 DEF DaemonMisreads, DaemonLosesClient, Unsubscribe, DaemonEnds
  <2> QED BY <1>2, <2>1
<1>6. ASSUME NEW k \in Requests \cup {"subscribe", "unsubscribe"},
             FirstRequest(k) \/ AnswerQuery(k) \/ ChangeRules(k)
      PROVE  /\ handler' \in {"hello", "first", "ok", "refuse", "loop", "end"}
             /\ d_out' \in Seq(Pieces) /\ Len(d_out') <= 2 /\ d_held' \in HeldStates
  <2>1. d_held' = "none" /\ (handler' = handler \/ handler' \in {"ok", "refuse"})
    BY <1>6 DEF FirstRequest, AnswerQuery, ChangeRules, Answer
  <2>2. \E m \in Messages : d_out' = Frame(m)
    <3>1. \/ d_out' = Frame(Reply("Ok", 0)) \/ d_out' = Frame(Reply("Error", 0))
          \/ d_out' = Frame(Reply("Stats", 0)) \/ d_out' = Frame(Reply("Rules", disk))
      BY <1>6 DEF FirstRequest, AnswerQuery, ChangeRules, Answer
    <3>2. 0 \in Nat /\ disk \in Nat
      BY DEF IInv, TypeOK
    <3>3. /\ Reply("Ok", 0) \in Messages /\ Reply("Error", 0) \in Messages
          /\ Reply("Stats", 0) \in Messages /\ Reply("Rules", disk) \in Messages
      BY <3>2, MessagesAre DEF AnswerKinds
    <3> QED BY <3>1, <3>3
  <2> QED BY <1>1, <1>2, <2>1, <2>2
<1>7. CASE SubscribeAgain
  BY <1>1, <1>2, <1>7 DEF SubscribeAgain
<1>8. CASE RecvEvent \/ RecvLagged
  <2>1. handler' = handler /\ d_held' = "none" /\ (d_out' = d_out \/ d_out' = Frame(Event(rx)))
    BY <1>8 DEF RecvEvent, RecvLagged, DropsRead
  <2>2. rx \in Nat
    BY DEF IInv, TypeOK
  <2>3. Event(rx) \in Messages
    BY <2>2, MessagesAre
  <2> QED BY <1>1, <1>2, <2>1, <2>3
<1>9. CASE UNCHANGED daemon
  BY <1>1, <1>9 DEF daemon
<1>10. CASE \/ Publish \/ OthersChange \/ ClientWrites \/ ClientConsumes
            \/ GetsHello \/ GetsAck \/ GetsEvent \/ GetsOk
            \/ \E k \in {"Rules", "Stats", "Error"} : GetsAnswer(k)
  BY <1>9, <1>10 DEF Publish, OthersChange, ClientWrites, ClientConsumes, GetsHello, GetsAck,
     GetsEvent, GetsOk, GetsAnswer, Taken
<1>11. CASE \/ \E v \in {"Live", "Rules", "Stats"} : SwitchTo(v)
            \/ \E r \in Requests \cup Others : Ask(r)
            \/ Idle \/ StartEdit \/ EndEdit
  BY <1>9, <1>11 DEF SwitchTo, Ask, Idle, StartEdit, EndEdit, AtSelect
<1>12. CASE Leaves
  BY <1>9, <1>12, LeavingClient
<1> QED
  BY <1>3, <1>4, <1>5, <1>6, <1>7, <1>8, <1>10, <1>11, <1>12, Steps

LEMMA ClientTypes ==
    ASSUME IInv, Next
    PROVE  /\ client' \in {"hello", "ack", "run", "edit", "gone"}
           /\ c_out' \in Seq(Pieces) /\ Len(c_out') <= 2 /\ c_held' \in HeldStates
           /\ view' \in {"Live", "Rules", "Stats"}
<1>1. /\ client \in {"hello", "ack", "run", "edit", "gone"}
      /\ c_out \in Seq(Pieces) /\ Len(c_out) <= 2 /\ c_held \in HeldStates
      /\ view \in {"Live", "Rules", "Stats"}
  BY DEF IInv, TypeOK
<1>2. <<>> \in Seq(Pieces) /\ Len(<<>>) <= 2 /\ "none" \in HeldStates
      /\ \A m \in Messages : Frame(m) \in Seq(Pieces) /\ Len(Frame(m)) <= 2
  BY <1>1, WriteTypes DEF HeldStates
<1>3. ASSUME NEW r \in Requests \cup {"subscribe", "unsubscribe"}, c_out' = Frame(Request(r))
      PROVE  c_out' \in Seq(Pieces) /\ Len(c_out') <= 2
  <2>1. Request(r) \in Messages
    BY MessagesAre, 0 \in Nat
  <2> QED BY <1>2, <1>3, <2>1
<1>4. CASE UNCHANGED tui
  BY <1>1, <1>4 DEF tui
<1>5. CASE \/ Publish \/ OthersChange \/ DaemonWrites \/ DaemonConsumes \/ DaemonMisreads
           \/ DaemonLosesClient \/ SubscribeAgain \/ Unsubscribe \/ RecvEvent \/ RecvLagged
           \/ \E k \in Requests \cup {"subscribe", "unsubscribe"} :
                 FirstRequest(k) \/ AnswerQuery(k) \/ ChangeRules(k)
  BY <1>4, <1>5 DEF Publish, OthersChange, DaemonWrites, DaemonConsumes, DaemonMisreads,
     DaemonLosesClient, SubscribeAgain, Unsubscribe, RecvEvent, RecvLagged, DropsRead,
     FirstRequest, AnswerQuery, ChangeRules, Answer
<1>6. CASE ClientWrites
  <2>1. c_out # <<>> /\ c_out' = Tail(c_out) /\ UNCHANGED <<client, c_held, view>>
    BY <1>6 DEF ClientWrites
  <2> QED BY <1>1, <2>1, WriteTypes
<1>7. CASE ClientConsumes
  <2>1. UNCHANGED <<client, c_out, view>> /\ c_held' = Held(d2c)
    BY <1>7 DEF ClientConsumes
  <2> QED BY <1>1, <2>1 DEF Held, HeldStates
<1>8. CASE Leaves
  <2>1. client' = "gone" /\ c_out' = <<>> /\ c_held' = "none" /\ view' = view
    BY <1>8, LeavingClient
  <2> QED BY <1>1, <1>2, <2>1
<1>9. CASE \/ GetsHello \/ GetsAck \/ GetsEvent \/ GetsOk
           \/ \E k \in {"Rules", "Stats", "Error"} : GetsAnswer(k)
  <2>1. view' = view /\ c_held' = "none" /\ (client' = client \/ client' \in {"ack", "run"})
    BY <1>9 DEF GetsHello, GetsAck, GetsEvent, GetsOk, GetsAnswer, Taken
  <2>2. c_out' = c_out \/ \E r \in Requests \cup {"subscribe", "unsubscribe"} : c_out' = Frame(Request(r))
    BY <1>9, ClientsAssumption DEF GetsHello, GetsAck, GetsEvent, GetsOk, GetsAnswer, Requests
  <2> QED BY <1>1, <1>2, <1>3, <2>1, <2>2
<1>10. CASE \/ \E v \in {"Live", "Rules", "Stats"} : SwitchTo(v)
            \/ \E r \in Requests \cup Others : Ask(r)
            \/ Idle \/ StartEdit \/ EndEdit
  <2>1. view' \in {"Live", "Rules", "Stats"} /\ (c_held' = "none" \/ c_held' = c_held)
        /\ (client' = client \/ client' \in {"edit", "run"})
    BY <1>1, <1>10 DEF SwitchTo, Ask, Idle, StartEdit, EndEdit, AtSelect
  <2>2. c_out' = c_out \/ \E r \in Requests \cup {"subscribe", "unsubscribe"} : c_out' = Frame(Request(r))
    BY <1>10, ClientsAssumption DEF SwitchTo, Ask, Idle, StartEdit, EndEdit, Sends, Requests
  <2> QED BY <1>1, <1>2, <1>3, <2>1, <2>2
<1> QED
  BY <1>5, <1>6, <1>7, <1>8, <1>9, <1>10, Steps

LEMMA UpTo ==
    ASSUME NEW a \in Nat, NEW b \in Nat, a <= b + 1, NEW S, S \subseteq 1 .. a - 1
    PROVE  S \subseteq 1 .. b
<1>1. \A e \in 1 .. a - 1 : e \in 1 .. b
  OBVIOUS
<1> QED
  BY <1>1

LEMMA CounterTypes ==
    ASSUME IInv, Next
    PROVE  /\ published' \in 0 .. MaxEvents /\ rx' \in 1 .. MaxEvents + 1
           /\ requests' \in 0 .. MaxRequests /\ changes' \in 0 .. MaxChanges
           /\ skipped' \in SUBSET (1 .. MaxEvents)
<1>1. /\ published \in 0 .. MaxEvents /\ rx \in 1 .. MaxEvents + 1
      /\ requests \in 0 .. MaxRequests /\ changes \in 0 .. MaxChanges
      /\ skipped \in SUBSET (1 .. MaxEvents)
      /\ MaxEvents \in Nat /\ MaxRequests \in Nat /\ MaxChanges \in Nat /\ LagCap \in Nat \ {0}
  BY RoomAssumption DEF IInv, TypeOK
<1>2. published' \in 0 .. MaxEvents /\ changes' \in 0 .. MaxChanges
  <2>1. CASE Publish \/ OthersChange
    BY <1>1, <2>1 DEF Publish, OthersChange
  <2>2. CASE UNCHANGED <<published, changes>>
    BY <1>1, <2>2
  <2>3. CASE \/ DaemonWrites \/ DaemonConsumes \/ DaemonMisreads
             \/ DaemonLosesClient \/ SubscribeAgain \/ Unsubscribe \/ RecvEvent \/ RecvLagged
             \/ \E k \in Requests \cup {"subscribe", "unsubscribe"} :
                   FirstRequest(k) \/ AnswerQuery(k) \/ ChangeRules(k)
    BY <2>2, <2>3 DEF DaemonWrites, DaemonConsumes, DaemonMisreads,
       DaemonLosesClient, SubscribeAgain, Unsubscribe, RecvEvent, RecvLagged, DropsRead,
       FirstRequest, AnswerQuery, ChangeRules, Answer
  <2>4. CASE ClientWrites \/ ClientConsumes \/ GetsHello \/ GetsAck \/ GetsOk \/ GetsEvent
             \/ \E k \in {"Rules", "Stats", "Error"} : GetsAnswer(k)
    BY <2>2, <2>4 DEF ClientWrites, ClientConsumes, GetsHello, GetsAck, GetsOk, GetsEvent,
       GetsAnswer, Taken
  <2>5. CASE Leaves
    BY <2>2, <2>5, LeavingClient
  <2>6. CASE \/ \E v \in {"Live", "Rules", "Stats"} : SwitchTo(v)
             \/ \E r \in Requests \cup Others : Ask(r)
             \/ Idle \/ StartEdit \/ EndEdit
    BY <2>2, <2>6 DEF SwitchTo, Ask, Idle, StartEdit, EndEdit, AtSelect
  <2> QED BY <2>1, <2>3, <2>4, <2>5, <2>6, Steps
<1>3. requests' \in 0 .. MaxRequests
  <2>1. CASE requests' = requests
    BY <1>1, <2>1
  <2>2. CASE requests' = requests + 1 /\ requests < MaxRequests
    BY <1>1, <2>2
  <2>3. CASE \/ Publish \/ OthersChange \/ DaemonWrites \/ DaemonConsumes \/ DaemonMisreads
             \/ DaemonLosesClient \/ SubscribeAgain \/ Unsubscribe \/ RecvEvent \/ RecvLagged
             \/ \E k \in Requests \cup {"subscribe", "unsubscribe"} :
                   FirstRequest(k) \/ AnswerQuery(k) \/ ChangeRules(k)
    BY <2>1, <2>3 DEF Publish, OthersChange, DaemonWrites, DaemonConsumes, DaemonMisreads,
       DaemonLosesClient, SubscribeAgain, Unsubscribe, RecvEvent, RecvLagged, DropsRead,
       FirstRequest, AnswerQuery, ChangeRules, Answer
  <2>4. CASE ClientWrites \/ ClientConsumes \/ GetsHello \/ GetsAck \/ GetsOk \/ GetsEvent
             \/ \E k \in {"Rules", "Stats", "Error"} : GetsAnswer(k)
    BY <2>1, <2>4 DEF ClientWrites, ClientConsumes, GetsHello, GetsAck, GetsOk, GetsEvent,
       GetsAnswer, Taken
  <2>5. CASE Leaves
    BY <2>1, <2>5, LeavingClient
  <2>6. CASE \/ \E v \in {"Live", "Rules", "Stats"} : SwitchTo(v)
             \/ \E r \in Requests \cup Others : Ask(r)
             \/ Idle \/ StartEdit \/ EndEdit
    BY <2>1, <2>2, <2>6 DEF SwitchTo, Ask, Idle, StartEdit, EndEdit, Sends
  <2> QED BY <2>3, <2>4, <2>5, <2>6, Steps
<1>4. rx' \in 1 .. MaxEvents + 1 /\ skipped' \in SUBSET (1 .. MaxEvents)
  <2>1. CASE DaemonWrites \/ RecvLagged
    <3>1. EventsComing
      BY <2>1 DEF DaemonWrites, RecvLagged, DropsRead, IInv
    <3>2. /\ rx' \in Nat /\ rx <= rx' /\ (rx' <= published + 1 \/ rx' = rx)
          /\ skipped' \subseteq 1 .. rx' - 1
      BY <2>1, <3>1, ReceiverGoesOn
    <3>3. rx' \in 1 .. MaxEvents + 1 /\ MaxEvents \in Nat
      BY <1>1, <3>2
    <3>4. rx' \in Nat /\ MaxEvents \in Nat /\ rx' <= MaxEvents + 1
      BY <3>2, <3>3
    <3>5. skipped' \subseteq 1 .. MaxEvents
      BY <3>2, <3>4, UpTo
    <3> QED BY <3>3, <3>5
  <2>2. CASE RecvEvent
    <3>1. rx' = rx + 1 /\ rx <= published /\ (skipped' = skipped \/ skipped' = skipped \cup {rx})
      BY <2>2 DEF RecvEvent, DropsRead
    <3>2. rx \in 1 .. MaxEvents /\ rx' \in 1 .. MaxEvents + 1
      BY <1>1, <3>1
    <3> QED BY <1>1, <3>1, <3>2
  <2>3. CASE ~DaemonWrites /\ ~RecvLagged /\ ~RecvEvent
    BY <1>1, <2>3, ReceiverStays
  <2> QED BY <2>1, <2>2, <2>3
<1> QED
  BY <1>2, <1>3, <1>4

LEMMA HistoryTypes ==
    ASSUME IInv, Next
    PROVE  /\ rows' \in Seq(1 .. MaxEvents)
           /\ disk' \in Nat /\ shown' \in 0 .. disk' /\ written' \in 1 .. disk'
           /\ owed' \in Seq(Requests) /\ amiss' \in BOOLEAN /\ torn' \in BOOLEAN
<1>1. /\ rows \in Seq(1 .. MaxEvents) /\ disk \in Nat /\ shown \in 0 .. disk /\ written \in 1 .. disk
      /\ owed \in Seq(Requests) /\ rx \in 1 .. MaxEvents + 1 /\ MaxEvents \in Nat
  BY RoomAssumption DEF IInv, TypeOK
<1>2. disk' \in Nat /\ disk' >= disk
  BY <1>1, DiskMovesOn
<1>3. rows' \in Seq(1 .. MaxEvents)
  <2>1. CASE GetsEvent
    <3>1. Took(d2c[1].msg) /\ d2c[1].msg.kind = "Event" /\ client # "gone"
      BY <2>1, Taking DEF GetsEvent, Gets
    <3>2. rows' = Append(rows, d2c[1].msg.n) /\ rx' = rx /\ skipped' = skipped
      BY <2>1 DEF GetsEvent, Taken, daemon
    <3>3. d2c[1].msg.n \in 1 .. rx - 1
      BY <3>1, <3>2, EventTaken DEF IInv
    <3>4. d2c[1].msg.n \in 1 .. MaxEvents
      BY <1>1, <3>3
    <3> QED BY <1>1, <3>2, <3>4, AppendOf
  <2>2. CASE ~GetsEvent
    BY <1>1, <2>2, RowsStay
  <2> QED BY <2>1, <2>2
<1>4. shown' \in 0 .. disk'
  <2>1. CASE GetsAnswer("Rules")
    <3>1. Took(d2c[1].msg) /\ d2c[1].msg.kind = "Rules" /\ client # "gone"
      BY <2>1, Taking DEF GetsAnswer, Gets
    <3>2. shown' = d2c[1].msg.n /\ disk' = disk
      BY <2>1 DEF GetsAnswer, Taken
    <3>3. d2c[1].msg.n \in shown .. disk
      BY <3>1, <3>2, ListTaken DEF IInv
    <3> QED BY <1>1, <3>2, <3>3
  <2>2. CASE shown' = shown
    BY <1>1, <1>2, <2>2
  <2> QED BY <2>1, <2>2, DiskMovesOn
<1>5. written' = written \/ (written' = disk' /\ disk' = disk + 1)
  <2>1. CASE \/ Publish \/ OthersChange \/ DaemonWrites \/ DaemonConsumes \/ DaemonMisreads
             \/ DaemonLosesClient \/ SubscribeAgain \/ Unsubscribe \/ RecvEvent \/ RecvLagged
             \/ \E k \in Requests \cup {"subscribe", "unsubscribe"} :
                   FirstRequest(k) \/ AnswerQuery(k) \/ ChangeRules(k)
    BY <2>1 DEF Publish, OthersChange, DaemonWrites, DaemonConsumes, DaemonMisreads,
       DaemonLosesClient, SubscribeAgain, Unsubscribe, RecvEvent, RecvLagged, DropsRead,
       FirstRequest, AnswerQuery, ChangeRules, Answer, history
  <2>2. CASE ClientWrites \/ ClientConsumes \/ GetsHello \/ GetsAck \/ GetsOk \/ GetsEvent
             \/ \E k \in {"Rules", "Stats", "Error"} : GetsAnswer(k)
    BY <2>2 DEF ClientWrites, ClientConsumes, GetsHello, GetsAck, GetsOk, GetsEvent,
       GetsAnswer, Taken, history
  <2>3. CASE Leaves
    BY <2>3, LeavingClient DEF history
  <2>4. CASE \/ \E v \in {"Live", "Rules", "Stats"} : SwitchTo(v)
             \/ \E r \in Requests \cup Others : Ask(r)
             \/ Idle \/ StartEdit \/ EndEdit
    BY <2>4 DEF SwitchTo, Ask, Idle, StartEdit, EndEdit, AtSelect
  <2> QED BY <2>1, <2>2, <2>3, <2>4, Steps
<1>6. written' \in 1 .. disk'
  BY <1>1, <1>2, <1>5
<1>7. owed' \in Seq(Requests)
  <2>1. CASE owed' = owed
    BY <1>1, <2>1
  <2>2. ASSUME NEW o \in Seq(Requests), NEW r \in Requests PROVE Append(o, r) \in Seq(Requests)
    BY AppendOf
  <2>3. Pending \in Seq(Requests)
    BY <1>1, TailOf DEF Pending
  <2>4. CASE \/ Publish \/ OthersChange \/ DaemonWrites \/ DaemonConsumes \/ DaemonMisreads
             \/ DaemonLosesClient \/ SubscribeAgain \/ Unsubscribe \/ RecvEvent \/ RecvLagged
             \/ \E k \in Requests \cup {"subscribe", "unsubscribe"} :
                   FirstRequest(k) \/ AnswerQuery(k) \/ ChangeRules(k)
    BY <2>1, <2>4 DEF Publish, OthersChange, DaemonWrites, DaemonConsumes, DaemonMisreads,
       DaemonLosesClient, SubscribeAgain, Unsubscribe, RecvEvent, RecvLagged, DropsRead,
       FirstRequest, AnswerQuery, ChangeRules, Answer, history
  <2>5. CASE ClientWrites \/ ClientConsumes \/ GetsHello \/ GetsAck \/ GetsEvent
    BY <2>1, <2>5 DEF ClientWrites, ClientConsumes, GetsHello, GetsAck, GetsEvent, history
  <2>6. CASE \E k \in {"Rules", "Stats", "Error"} : GetsAnswer(k)
    BY <2>3, <2>6 DEF GetsAnswer
  <2>7. CASE GetsOk
    <3>1. owed' = Pending \/ owed' = Append(Pending, "list")
      BY <2>7 DEF GetsOk
    <3> QED BY <2>2, <2>3, <3>1 DEF Requests
  <2>8. CASE Leaves
    BY <2>1, <2>8, LeavingClient DEF history
  <2>9. CASE \/ \E v \in {"Live", "Rules", "Stats"} : SwitchTo(v)
             \/ \E r \in Requests \cup Others : Ask(r)
             \/ Idle \/ StartEdit \/ EndEdit
    <3>1. owed' = owed \/ \E r \in Requests : owed' = Append(owed, r)
      BY <2>9 DEF SwitchTo, Ask, Idle, StartEdit, EndEdit, Sends, Requests
    <3> QED BY <1>1, <2>1, <2>2, <3>1
  <2> QED BY <2>4, <2>5, <2>6, <2>7, <2>8, <2>9, Steps
<1>8. amiss' \in BOOLEAN /\ torn' \in BOOLEAN
  <2>0. amiss \in BOOLEAN /\ torn \in BOOLEAN
    BY Zenon DEF IInv, TypeOK
  <2>1. CASE amiss' = amiss /\ torn' = torn
    BY <2>0, <2>1, Zenon
  <2>2. CASE \/ Publish \/ OthersChange \/ DaemonWrites \/ DaemonConsumes \/ DaemonMisreads
             \/ DaemonLosesClient \/ SubscribeAgain \/ Unsubscribe
             \/ \E k \in Requests \cup {"subscribe", "unsubscribe"} :
                   FirstRequest(k) \/ AnswerQuery(k) \/ ChangeRules(k)
    <3>1. amiss' = amiss /\ torn' = torn
      BY <2>2 DEF Publish, OthersChange, DaemonWrites, DaemonConsumes, DaemonMisreads,
         DaemonLosesClient, SubscribeAgain, Unsubscribe,
         FirstRequest, AnswerQuery, ChangeRules, Answer, history
    <3> QED BY <2>1, <3>1
  <2>3. CASE RecvEvent \/ RecvLagged
    <3>1. DropsRead
      BY <2>3 DEF RecvEvent, RecvLagged
    <3>2. torn' = (torn \/ d_held # "none")
      BY <3>1, Zenon DEF DropsRead
    <3>3. amiss' = amiss
      BY <3>1 DEF DropsRead
    <3> QED BY <2>0, <3>2, <3>3, Zenon
  <2>4. CASE ClientWrites \/ ClientConsumes \/ GetsHello \/ GetsAck \/ GetsEvent
    <3>1. amiss' = amiss /\ torn' = torn
      BY <2>4 DEF ClientWrites, ClientConsumes, GetsHello, GetsAck, GetsEvent, Taken, history
    <3> QED BY <2>1, <3>1
  <2>5. ASSUME NEW k, Fits(k), Taken PROVE amiss' \in BOOLEAN /\ torn' \in BOOLEAN
    <3>1. amiss' = (amiss \/ owed = <<>> \/ k \notin AnswersOf[Head(owed)])
      BY <2>5, Zenon DEF Fits
    <3>2. torn' = torn
      BY <2>5 DEF Taken
    <3> QED BY <2>0, <3>1, <3>2, Zenon
  <2>6. CASE GetsOk \/ \E k \in {"Rules", "Stats", "Error"} : GetsAnswer(k)
    BY <2>5, <2>6 DEF GetsOk, GetsAnswer
  <2>7. CASE Leaves
    BY <2>1, <2>7, LeavingClient DEF history
  <2>8. CASE AtSelect
    <3>1. torn' = (torn \/ c_held # "none")
      BY <2>8, Zenon DEF AtSelect
    <3>2. amiss' = amiss
      BY <2>8 DEF AtSelect
    <3> QED BY <2>0, <3>1, <3>2, Zenon
  <2>9. CASE \/ \E v \in {"Live", "Rules", "Stats"} : SwitchTo(v)
             \/ \E r \in Requests \cup Others : Ask(r)
             \/ Idle \/ StartEdit
    BY <2>8, <2>9 DEF SwitchTo, Ask, Idle, StartEdit
  <2>10. CASE EndEdit
    <3>1. amiss' = amiss /\ torn' = torn
      BY <2>10 DEF EndEdit
    <3> QED BY <2>1, <3>1
  <2> QED BY <2>2, <2>3, <2>4, <2>6, <2>7, <2>9, <2>10, Steps
<1> QED
  BY <1>2, <1>3, <1>4, <1>6, <1>7, <1>8

\* What never left its state is what no step of the other end changes.
LEMMA DaemonKept ==
    ASSUME \/ Publish \/ OthersChange \/ ClientWrites \/ ClientConsumes \/ Leaves
           \/ GetsHello \/ GetsAck \/ GetsEvent \/ GetsOk
           \/ \E k \in {"Rules", "Stats", "Error"} : GetsAnswer(k)
           \/ \E v \in {"Live", "Rules", "Stats"} : SwitchTo(v)
           \/ \E r \in Requests \cup Others : Ask(r)
           \/ Idle \/ StartEdit \/ EndEdit
    PROVE  UNCHANGED daemon
<1>1. CASE \/ Publish \/ OthersChange \/ ClientWrites \/ ClientConsumes \/ Leaves
  BY <1>1 DEF Publish, OthersChange, ClientWrites, ClientConsumes, Leaves, ClientMisreads,
     ClientLosesDaemon, GetsRefusal, Quit, EditFails
<1>2. CASE \/ GetsHello \/ GetsAck \/ GetsEvent \/ GetsOk
           \/ \E k \in {"Rules", "Stats", "Error"} : GetsAnswer(k)
  BY <1>2 DEF GetsHello, GetsAck, GetsEvent, GetsOk, GetsAnswer, Taken
<1>3. CASE \/ \E v \in {"Live", "Rules", "Stats"} : SwitchTo(v)
           \/ \E r \in Requests \cup Others : Ask(r)
           \/ Idle \/ StartEdit \/ EndEdit
  BY <1>3 DEF SwitchTo, Ask, Idle, StartEdit, EndEdit, AtSelect
<1> QED
  BY <1>1, <1>2, <1>3

LEMMA ClientKept ==
    ASSUME \/ Publish \/ OthersChange \/ DaemonWrites \/ DaemonConsumes \/ DaemonMisreads
           \/ DaemonLosesClient \/ SubscribeAgain \/ Unsubscribe \/ RecvEvent \/ RecvLagged
           \/ \E k \in Requests \cup {"subscribe", "unsubscribe"} :
                 FirstRequest(k) \/ AnswerQuery(k) \/ ChangeRules(k)
    PROVE  UNCHANGED tui /\ owed' = owed
  BY DEF Publish, OthersChange, DaemonWrites, DaemonConsumes, DaemonMisreads,
     DaemonLosesClient, SubscribeAgain, Unsubscribe, RecvEvent, RecvLagged, DropsRead,
     FirstRequest, AnswerQuery, ChangeRules, Answer, history

\* A stream of at most one message is empty when the message is taken.
LEMMA LastMessage ==
    ASSUME NEW s \in Seq(Pieces), NEW t \in Seq(Pieces), NEW d, NEW m,
           Framed(s), Leads(d, s, m), Sheds(t, s, d), Len(s) <= 2
    PROVE  t = <<>>
<1>1. d \in {1, 2} /\ Len(t) + d = Len(s) /\ Len(t) \in Nat /\ DOMAIN t = 1 .. Len(t)
  BY DEF Leads, Sheds
<1>2. Len(t) = 0 \/ Len(t) = 1
  BY <1>1
<1>3. CASE Len(t) = 1
  <2>0. Framed(t) /\ WholeFrames(t)
    BY ShedsFramed, FramesLeft
  <2>1. t # <<>> /\ Framed(t) /\ WholeFrames(t)
    <3>1. Len(t) # 0
      BY <1>3
    <3> QED BY <2>0, <3>1
  <2>2. t[1].part = "len" /\ 1 \in DOMAIN t
    BY <1>1, <1>3, <2>1 DEF WholeFrames
  <2>3. 1 < Len(t)
    BY <2>1, <2>2 DEF Framed
  <2> QED BY <1>3, <2>3
<1>4. CASE Len(t) = 0
  BY <1>4
<1> QED
  BY <1>2, <1>3, <1>4

\* A stream that a read takes from is not empty.
LEMMA NotEmpty ==
    ASSUME TypeOK
    PROVE  /\ c2d # <<>> => ToDaemon # <<>>
           /\ d2c # <<>> => ToClient # <<>>
           /\ d_out # <<>> => ToClient # <<>>
           /\ \A held : Completes(held, c2d) => c2d # <<>>
           /\ \A held : Completes(held, d2c) => d2c # <<>>
<1>1. ASSUME NEW a \in Seq(Pieces), NEW b \in Seq(Pieces), a # <<>> \/ b # <<>>
      PROVE  a \o b # <<>>
  <2>1. Len(a \o b) = Len(a) + Len(b) /\ Len(a) \in Nat /\ Len(b) \in Nat
    BY Joined
  <2>2. a # <<>> => Len(a) # 0
    OBVIOUS
  <2>3. b # <<>> => Len(b) # 0
    OBVIOUS
  <2>4. Len(a \o b) # 0
    BY <1>1, <2>1, <2>2, <2>3
  <2> QED BY <2>4
<1>2. ASSUME NEW held, NEW a \in Seq(Pieces), Completes(held, a) PROVE a # <<>>
  BY <1>2 DEF Completes
<1> QED
  BY <1>1, <1>2, StreamTypes DEF ToClient, ToDaemon

\* The inductive step of Writing.
LEMMA WritingStep ==
    ASSUME IInv, Next
    PROVE  Writing'
<1> DEFINE W == /\ handler' \in {"hello", "ok", "refuse"} => d_out' # <<>>
                /\ d_out' # <<>> => handler' \notin {"first", "end"}
                /\ handler' \in {"hello", "first", "ok", "refuse"} => rx' = 1
<1>0. Writing /\ TypeOK
  BY DEF IInv
<1>1. CASE DaemonWrites
  <2>1. /\ d_out # <<>> /\ d_out' = Tail(d_out) /\ d_out \in Seq(Pieces) /\ Len(d_out) <= 2
        /\ handler' = IF Len(d_out) = 1 THEN AfterWrite[handler] ELSE handler
        /\ ~(handler = "ok" /\ Len(d_out) = 1) => rx' = rx
        /\ client # "gone" /\ c_out' = c_out /\ client' = client
    BY <1>0, <1>1 DEF DaemonWrites, TypeOK, tui
  <2>2. Tail(d_out) \in Seq(Pieces) /\ Len(Tail(d_out)) = Len(d_out) - 1 /\ Len(d_out) \in Nat \ {0}
    BY <2>1, WriteTypes
  <2>3. Len(d_out) = 1 => d_out' = <<>>
    <3>1. Len(d_out) = 1 => Len(d_out') = 0
      BY <2>1, <2>2
    <3> QED BY <2>1, <2>2, <3>1
  <2>4. Len(d_out) # 1 => d_out' # <<>>
    <3>1. Len(d_out) # 1 => Len(d_out') # 0
      BY <2>1, <2>2
    <3> QED BY <3>1
  <2>5. handler \in {"hello", "ok", "refuse", "loop"}
    BY <1>0, <2>1 DEF Writing, TypeOK
  <2>6. CASE Len(d_out) = 1
    <3>1. d_out' = <<>> /\ handler' = AfterWrite[handler]
      BY <2>1, <2>3, <2>6
    <3>2. handler' \in {"first", "loop", "end"} /\ (handler' = "first" => handler = "hello")
          /\ (client \in {"run", "edit"} => handler' = "loop")
      BY <1>0, <2>5, <3>1 DEF AfterWrite, Writing
    <3> QED BY <1>0, <2>1, <2>6, <3>1, <3>2 DEF Writing
  <2>7. CASE Len(d_out) # 1
    BY <1>0, <2>1, <2>4, <2>7 DEF Writing
  <2> QED BY <2>6, <2>7
<1>2. ASSUME W, client' = client, c_out' = c_out, handler' = handler \/ handler' = "end"
      PROVE  Writing'
  BY <1>0, <1>2 DEF Writing
<1>3. CASE DaemonConsumes \/ SubscribeAgain
  <2>1. UNCHANGED <<handler, d_out, rx, client, c_out>>
    BY <1>3 DEF DaemonConsumes, SubscribeAgain, tui
  <2> QED BY <1>0, <1>2, <2>1 DEF Writing
<1>4. CASE DaemonMisreads \/ DaemonLosesClient \/ Unsubscribe
  <2>1. handler' = "end" /\ d_out' = <<>> /\ client' = client /\ c_out' = c_out
    BY <1>4 DEF DaemonMisreads, DaemonLosesClient, Unsubscribe, DaemonEnds, tui
  <2> QED BY <1>2, <2>1
<1>5. CASE RecvEvent \/ RecvLagged
  <2>1. handler' = "loop" /\ handler = "loop" /\ client' = client /\ c_out' = c_out
    BY <1>5 DEF RecvEvent, RecvLagged, DropsRead, tui
  <2> QED BY <1>2, <2>1
<1>6. ASSUME NEW k \in Requests \cup {"subscribe", "unsubscribe"},
             FirstRequest(k) \/ AnswerQuery(k) \/ ChangeRules(k)
      PROVE  Writing'
  <2>1. client' = client /\ c_out' = c_out
    BY <1>6, ClientKept DEF tui
  <2>2. CASE AnswerQuery(k) \/ ChangeRules(k)
    <3>1. handler' = "loop" /\ handler = "loop"
      BY <2>2 DEF AnswerQuery, ChangeRules
    <3> QED BY <1>2, <2>1, <3>1
  <2>3. CASE FirstRequest(k)
    <3>1. handler = "first" /\ handler' \in {"ok", "refuse"} /\ rx' = rx
          /\ (d_out' = Frame(Reply("Ok", 0)) \/ d_out' = Frame(Reply("Error", 0)))
      BY <2>3 DEF FirstRequest, Answer
    <3>2. d_out' # <<>>
      <4>1. Reply("Ok", 0) \in Messages /\ Reply("Error", 0) \in Messages
        BY MessagesAre DEF AnswerKinds
      <4> QED BY <3>1, <4>1, FrameOf
    <3> QED BY <1>0, <2>1, <3>1, <3>2 DEF Writing
  <2> QED BY <1>6, <2>2, <2>3
<1>7. ASSUME UNCHANGED daemon, client' = client \/ client' \in {"ack", "gone"} \/ client \in {"run", "edit"},
             client' \in {"edit", "gone"} => c_out' = <<>>
      PROVE  Writing'
  BY <1>0, <1>7 DEF Writing, daemon
<1>8. CASE Publish \/ OthersChange
  BY <1>0, <1>7, <1>8, DaemonKept, ClientKept DEF tui, Writing
<1>9. CASE ClientWrites \/ ClientConsumes
  <2>1. client' = client /\ c_out = <<>> => c_out' = <<>>
    BY <1>9 DEF ClientWrites, ClientConsumes
  <2>2. client' = client
    BY <1>9 DEF ClientWrites, ClientConsumes
  <2> QED BY <1>0, <1>7, <1>9, <2>1, <2>2, DaemonKept DEF Writing
<1>10. CASE Leaves
  BY <1>7, <1>10, DaemonKept, LeavingClient
<1>11. CASE GetsHello
  <2>1. client' = "ack"
    BY <1>11 DEF GetsHello
  <2> QED BY <1>7, <1>11, <2>1, DaemonKept
<1>12. CASE \/ GetsEvent \/ GetsOk \/ \E k \in {"Rules", "Stats", "Error"} : GetsAnswer(k)
  <2>1. client' = client /\ client = "run"
    BY <1>12 DEF GetsEvent, GetsOk, GetsAnswer, Gets
  <2> QED BY <1>7, <1>12, <2>1, DaemonKept
<1>13. CASE \/ \E v \in {"Live", "Rules", "Stats"} : SwitchTo(v)
            \/ \E r \in Requests \cup Others : Ask(r)
            \/ Idle \/ StartEdit \/ EndEdit
  <2>1. client \in {"run", "edit"}
    BY <1>13 DEF SwitchTo, Ask, Idle, StartEdit, EndEdit, AtSelect
  <2>2. client' \in {"edit", "gone"} => c_out' = <<>>
    BY <1>13 DEF SwitchTo, Ask, Idle, StartEdit, EndEdit, AtSelect
  <2> QED BY <1>7, <1>13, <2>1, <2>2, DaemonKept
<1>14. CASE GetsAck
  <2>1. client = "ack" /\ client' = "run" /\ c_out' = c_out /\ c_out = <<>> /\ Gets("ack", "Ok") /\ Taken
    BY <1>14 DEF GetsAck, Gets
  <2>2. Completes(c_held, d2c) /\ d2c' = Rest(c_held, d2c) /\ UNCHANGED daemon
    BY <2>1 DEF Gets, Taken
  <2>3. ToClient # <<>>
    BY <1>0, <2>2, NotEmpty
  <2>4. handler \notin {"hello", "first"}
    BY <2>1, <2>3 DEF IInv, Opening
  <2>5. ASSUME handler \in {"ok", "refuse"} PROVE FALSE
    <3>1. Len(ToClient) <= 2 /\ Framed(ToClient) /\ ToClient \in Seq(Pieces)
      BY <1>0, <2>1, <2>5, StreamTypes DEF IInv, Opening, Aligned
    <3>2. PICK d \in {1, 2} : Leads(d, ToClient, d2c[1].msg) /\ Sheds(ToClient', ToClient, d)
      BY <2>1, <2>2, ClientTakes DEF daemon
    <3>3. ToClient' \in Seq(Pieces)
      BY <2>1, <2>2, ClientTakes DEF daemon
    <3>4. ToClient' = <<>>
      BY <3>1, <3>2, <3>3, LastMessage
    <3>5. d_out # <<>> /\ ToClient' = Rest(c_held, d2c) \o d_out
      BY <1>0, <2>2, <2>5 DEF Writing, ToClient, daemon
    <3>6. Rest(c_held, d2c) \in Seq(Pieces) /\ d_out \in Seq(Pieces)
      <4>1. d2c' \in Seq(Pieces)
        BY <2>1, <2>2, ClientTakes DEF daemon
      <4> QED BY <1>0, <2>2, <4>1, StreamTypes
    <3>7. Len(Rest(c_held, d2c) \o d_out) = Len(Rest(c_held, d2c)) + Len(d_out)
          /\ Len(Rest(c_held, d2c)) \in Nat /\ Len(d_out) \in Nat
      BY <3>6, Joined
    <3>8. Len(d_out) # 0
      BY <3>5, <3>6
    <3>9. Len(ToClient') = 0
      BY <3>4
    <3> QED BY <3>5, <3>7, <3>8, <3>9
  <2>6. handler \in {"loop", "end"}
    BY <1>0, <2>4, <2>5 DEF TypeOK
  <2>7. handler' = handler /\ d_out' = d_out /\ rx' = rx
    BY <2>2 DEF daemon
  <2> QED BY <1>0, <2>1, <2>6, <2>7 DEF Writing
<1> QED
  BY <1>1, <1>3, <1>4, <1>5, <1>6, <1>8, <1>9, <1>10, <1>11, <1>12, <1>13, <1>14, Steps

\* Only lengths before the body of an answer: it is the first message.
ByItself(s) ==
    \A i \in Bodies(s, AnswerKinds) : \A j \in 1 .. i - 1 : s[j].part = "len"

LEMMA ByItselfSheds ==
    ASSUME NEW s \in Seq(Pieces), NEW t \in Seq(Pieces), NEW d, Sheds(t, s, d), ByItself(s)
    PROVE  ByItself(t)
<1> SUFFICES ASSUME NEW i \in Bodies(t, AnswerKinds), NEW j \in 1 .. i - 1
             PROVE  t[j].part = "len"
  BY DEF ByItself
<1>1. d \in Nat /\ i \in Nat \ {0} /\ i + d \in Bodies(s, AnswerKinds)
  BY BodiesShed
<1>2. i \in 1 .. Len(t) /\ Len(t) \in Nat
  BY DEF Bodies
<1>3. j \in 1 .. Len(t) /\ j + d \in 1 .. (i + d) - 1
  BY <1>1, <1>2
<1>4. t[j] = s[j + d]
  BY <1>3 DEF Sheds
<1> QED
  BY <1>1, <1>3, <1>4 DEF ByItself

LEMMA ByItselfGrows ==
    ASSUME NEW s \in Seq(Pieces), NEW t \in Seq(Pieces), NEW m, Grows(t, s, m),
           \/ s = <<>>
           \/ ByItself(s) /\ m.kind \notin AnswerKinds
    PROVE  ByItself(t)
<1> SUFFICES ASSUME NEW i \in Bodies(t, AnswerKinds), NEW j \in 1 .. i - 1
             PROVE  t[j].part = "len"
  BY DEF ByItself
<1>1. /\ Len(s) \in Nat
      /\ \A k \in Bodies(s, AnswerKinds) : k \in 1 .. Len(s)
      /\ i \in Bodies(s, AnswerKinds) \/ (i = Len(s) + 2 /\ m.kind \in AnswerKinds)
  BY BodiesGrow
<1>2. CASE i \in Bodies(s, AnswerKinds)
  <2>1. i \in 1 .. Len(s)
    BY <1>1, <1>2
  <2>2. Len(s) # 0
    BY <2>1
  <2>3. s # <<>>
    BY <2>2
  <2>4. j \in 1 .. Len(s) /\ t[j] = s[j]
    BY <1>1, <2>1 DEF Grows
  <2> QED BY <1>2, <2>3, <2>4 DEF ByItself
<1>3. CASE i = Len(s) + 2 /\ m.kind \in AnswerKinds
  <2>1. Len(s) = 0
    BY <1>3
  <2>2. i = 2 /\ j = 1
    BY <1>3, <2>1
  <2>3. t[1] = [part |-> "len", msg |-> m]
    BY <2>1 DEF Grows
  <2> QED BY <2>2, <2>3
<1> QED
  BY <1>1, <1>2, <1>3

\* Before its loop the client only writes and reads.
LEMMA BeforeTheLoop ==
    ASSUME IInv, Next, client' \in {"hello", "ack"}
    PROVE  /\ client \in {"hello", "ack"} /\ owed' = owed /\ view' = view
           /\ client' = client \/ GetsHello
           /\ ~GetsAck /\ ~GetsEvent /\ ~GetsOk /\ ~Leaves /\ ~DaemonLosesClient
           /\ ~ \E k \in {"Rules", "Stats", "Error"} : GetsAnswer(k)
           /\ ~ \E v \in {"Live", "Rules", "Stats"} : SwitchTo(v)
           /\ ~ \E r \in Requests \cup Others : Ask(r)
           /\ ~Idle /\ ~StartEdit /\ ~EndEdit
<1>1. /\ ~GetsAck /\ ~GetsEvent /\ ~GetsOk /\ ~ \E k \in {"Rules", "Stats", "Error"} : GetsAnswer(k)
      /\ ~ \E v \in {"Live", "Rules", "Stats"} : SwitchTo(v)
      /\ ~ \E r \in Requests \cup Others : Ask(r)
      /\ ~Idle /\ ~StartEdit /\ ~EndEdit
  BY DEF GetsAck, GetsEvent, GetsOk, GetsAnswer, Gets, SwitchTo, Ask, Idle, StartEdit, EndEdit,
     AtSelect
<1>2. ~Leaves
  BY LeavingClient
<1>3. CASE GetsHello
  <2>1. client = "hello" /\ owed' = owed /\ view' = view
    BY <1>3 DEF GetsHello, Gets, Taken
  <2>2. ~DaemonLosesClient
    BY <2>1 DEF DaemonLosesClient
  <2> QED BY <1>1, <1>2, <1>3, <2>1, <2>2
<1>4. CASE Publish \/ OthersChange \/ ClientWrites \/ ClientConsumes
  <2>1. client' = client /\ owed' = owed /\ view' = view
    BY <1>4 DEF Publish, OthersChange, ClientWrites, ClientConsumes, tui, history
  <2>2. ~DaemonLosesClient
    BY <2>1 DEF DaemonLosesClient
  <2> QED BY <1>1, <1>2, <2>1, <2>2
<1>5. CASE \/ DaemonWrites \/ DaemonConsumes \/ DaemonMisreads
           \/ DaemonLosesClient \/ SubscribeAgain \/ Unsubscribe \/ RecvEvent \/ RecvLagged
           \/ \E k \in Requests \cup {"subscribe", "unsubscribe"} :
                 FirstRequest(k) \/ AnswerQuery(k) \/ ChangeRules(k)
  <2>1. client' = client /\ owed' = owed /\ view' = view
    BY <1>5, ClientKept DEF tui
  <2>2. ~DaemonLosesClient
    BY <2>1 DEF DaemonLosesClient
  <2> QED BY <1>1, <1>2, <2>1, <2>2
<1> QED
  BY <1>1, <1>2, <1>3, <1>4, <1>5, Steps

\* The inductive step of Opening.
LEMMA OpeningStep ==
    ASSUME IInv, Next
    PROVE  Opening'
<1> SUFFICES ASSUME client' \in {"hello", "ack"}
             PROVE  Opening'
  BY DEF Opening
<1>0. /\ TypeOK /\ Writing /\ Opening /\ client \in {"hello", "ack"}
      /\ owed' = owed /\ view' = view /\ (client' = client \/ GetsHello)
      /\ Framed(ToClient)
  BY BeforeTheLoop DEF IInv, Aligned
<1>1. /\ owed = <<>> /\ view = "Live" /\ Len(ToDaemon) <= 2 /\ ByItself(ToClient)
      /\ client = "hello" => /\ handler \in {"hello", "first"} /\ ToDaemon = <<>>
                             /\ Len(ToClient) <= 2 /\ Bodies(ToClient, AnswerKinds) = {}
      /\ client = "ack" /\ handler \in {"hello", "first"} => ToClient = <<>>
      /\ handler \in {"ok", "refuse"} => Len(ToClient) <= 2
      /\ handler \in {"ok", "loop"} => ToDaemon = <<>>
  BY <1>0 DEF Opening, ByItself
<1>2. ToClient \in Seq(Pieces) /\ ToDaemon \in Seq(Pieces)
  BY <1>0, StreamTypes
<1> DEFINE B == Bodies(ToClient', AnswerKinds)
<1>3. ASSUME Len(ToDaemon') <= 2, ByItself(ToClient'),
             client' = "hello" => /\ handler' \in {"hello", "first"} /\ ToDaemon' = <<>>
                                  /\ Len(ToClient') <= 2 /\ B = {},
             client' = "ack" /\ handler' \in {"hello", "first"} => ToClient' = <<>>,
             handler' \in {"ok", "refuse"} => Len(ToClient') <= 2,
             handler' \in {"ok", "loop"} => ToDaemon' = <<>>
      PROVE  Opening'
  BY <1>0, <1>1, <1>3 DEF Opening, ByItself
<1> HIDE DEF B
<1>4. ASSUME ToClient' = ToClient, ToDaemon' = ToDaemon, client' = client,
             \/ handler' = handler
             \/ handler = "hello" /\ handler' = "first"
             \/ handler = "ok" /\ handler' = "loop"
             \/ handler = "refuse" /\ handler' = "end"
      PROVE  Opening'
  <2>1. B = Bodies(ToClient, AnswerKinds) /\ ByItself(ToClient') /\ Len(ToDaemon') <= 2
    BY <1>1, <1>4 DEF B
  <2>2. /\ client' = "hello" => /\ handler' \in {"hello", "first"} \/ handler' = "end"
                                /\ ToDaemon' = <<>> /\ Len(ToClient') <= 2 /\ B = {}
        /\ client' = "ack" /\ handler' \in {"hello", "first"} => ToClient' = <<>>
        /\ handler' \in {"ok", "refuse"} => Len(ToClient') <= 2
        /\ handler' \in {"ok", "loop"} => ToDaemon' = <<>>
    BY <1>1, <1>4, <2>1
  <2>3. client' = "hello" => handler' # "end"
    BY <1>1, <1>4
  <2> QED BY <1>3, <2>1, <2>2, <2>3
<1>5. CASE Publish \/ OthersChange \/ ClientWrites \/ RecvLagged
  <2>1. handler' = handler /\ client' = client
    BY <1>5 DEF Publish, OthersChange, ClientWrites, RecvLagged, DropsRead, daemon, tui
  <2>2. ToClient' = ToClient
    BY <1>5, StillClient DEF ClientStill
  <2>3. ToDaemon' = ToDaemon
    BY <1>5, StillDaemon DEF DaemonStill
  <2> QED BY <1>4, <2>1, <2>2, <2>3
<1>6. CASE DaemonWrites
  <2>1. handler' = handler \/ handler' = AfterWrite[handler]
    BY <1>6 DEF DaemonWrites
  <2>2. handler \in {"hello", "ok", "refuse", "loop"}
    BY <1>0, <1>6 DEF DaemonWrites, Writing, TypeOK
  <2>3. client' = client
    BY <1>6 DEF DaemonWrites, tui
  <2>4. ToClient' = ToClient
    BY <1>6, StillClient DEF ClientStill
  <2>5. ToDaemon' = ToDaemon
    BY <1>6, StillDaemon DEF DaemonStill
  <2> QED BY <1>4, <2>1, <2>2, <2>3, <2>4, <2>5 DEF AfterWrite
<1>7. c2d # <<>> => client = "ack" /\ handler \notin {"ok", "loop"}
  BY <1>0, <1>1, NotEmpty
<1>8. CASE \/ DaemonConsumes \/ DaemonMisreads \/ SubscribeAgain \/ Unsubscribe
           \/ \E k \in Requests \cup {"subscribe", "unsubscribe"} : AnswerQuery(k) \/ ChangeRules(k)
  <2>1. c2d # <<>>
    <3>1. CASE DaemonConsumes \/ DaemonMisreads
      BY <3>1 DEF DaemonConsumes, DaemonMisreads, Consumes, Misreads
    <3>2. CASE \/ SubscribeAgain \/ Unsubscribe
               \/ \E k \in Requests \cup {"subscribe", "unsubscribe"} : AnswerQuery(k) \/ ChangeRules(k)
      BY <1>0, <3>2, NotEmpty DEF SubscribeAgain, Unsubscribe, AnswerQuery, ChangeRules, Receives
    <3> QED BY <1>8, <3>1, <3>2
  <2>2. DaemonConsumes \/ DaemonMisreads
    BY <1>7, <1>8, <2>1 DEF SubscribeAgain, Unsubscribe, AnswerQuery, ChangeRules
  <2>3. client' = client /\ ToClient' = ToClient
    <3>1. ToClient' = ToClient
      BY <2>2, StillClient DEF ClientStill
    <3>2. client' = client
      BY <2>2 DEF DaemonConsumes, DaemonMisreads, tui
    <3> QED BY <3>1, <3>2
  <2>4. CASE DaemonConsumes
    <3>1. handler = "first" /\ handler' = handler /\ Consumes(d_held, c2d) /\ c2d' = <<>> /\ c_out' = c_out
      BY <1>7, <2>1, <2>4 DEF DaemonConsumes, DaemonReads, tui
    <3>2. Sheds(<<>> \o c_out, c2d \o c_out, 1)
      <4>1. Aligned(d_held, c2d \o c_out, torn)
        BY <3>1 DEF IInv, ToDaemon
      <4> QED BY <1>0, <3>1, <4>1, ReadConsumes, StreamTypes
    <3>3. Len(ToDaemon') <= 2
      <4>1. ToDaemon' = <<>> \o c_out /\ ToDaemon = c2d \o c_out
        BY <3>1 DEF ToDaemon
      <4>2. Len(ToDaemon') + 1 = Len(ToDaemon)
        BY <3>2, <4>1 DEF Sheds
      <4>3. ToDaemon' \in Seq(Pieces)
        BY <1>0, <4>1, Joined, StreamTypes
      <4> QED BY <1>1, <1>2, <4>2, <4>3
    <3> QED BY <1>1, <1>3, <1>7, <2>1, <2>3, <3>1, <3>3
  <2>5. CASE DaemonMisreads
    <3>1. handler' = "end" /\ c2d' = <<>> /\ c_out' = c_out
      BY <2>5 DEF DaemonMisreads, DaemonEnds, tui
    <3>2. Len(ToDaemon') <= 2
      <4>1. ToDaemon' = c_out
        BY <1>0, <3>1, StreamTypes DEF ToDaemon
      <4> QED BY <1>0, <4>1 DEF TypeOK
    <3> QED BY <1>1, <1>3, <1>7, <2>1, <2>3, <3>1, <3>2
  <2> QED BY <2>2, <2>4, <2>5
<1>9. ASSUME NEW k \in Requests \cup {"subscribe", "unsubscribe"}, FirstRequest(k)
      PROVE  Opening'
  <2>1. handler = "first" /\ handler' \in {"ok", "refuse"} /\ Receives(k)
        /\ c2d' = Rest(d_held, c2d) /\ c_out' = c_out /\ client' = client
    BY <1>9 DEF FirstRequest, Answer, tui
  <2>2. client = "ack" /\ ToClient = <<>>
    <3>1. c2d # <<>>
      BY <1>0, <2>1, NotEmpty DEF Receives
    <3> QED BY <1>1, <1>7, <2>1, <3>1
  <2>3. PICK m \in Messages : Sent(m)
    BY <1>9, Answering DEF Sent
  <2>4. ToClient' \in Seq(Pieces) /\ Grows(ToClient', ToClient, m)
    BY <2>3 DEF Sent
  <2>5. ByItself(ToClient') /\ Len(ToClient') = 2
    <3>1. Len(ToClient) = 0
      BY <2>2
    <3>2. ByItself(ToClient')
      BY <1>2, <2>2, <2>4, ByItselfGrows
    <3>3. Len(ToClient') = 2
      BY <2>4, <3>1 DEF Grows
    <3> QED BY <3>2, <3>3
  <2>6. ToDaemon' = <<>>
    <3>1. PICK d \in {1, 2} : Leads(d, ToDaemon, Request(k)) /\ Sheds(ToDaemon', ToDaemon, d)
      BY <2>1, DaemonTakes
    <3>2. ToDaemon' \in Seq(Pieces)
      BY <2>1, DaemonTakes
    <3>3. Framed(ToDaemon)
      BY <2>1 DEF IInv, Aligned
    <3> QED BY <1>1, <1>2, <3>1, <3>2, <3>3, LastMessage
  <2>7. Len(ToDaemon') = 0
    BY <2>6
  <2> QED BY <1>3, <2>1, <2>2, <2>5, <2>6, <2>7
<1>10. CASE RecvEvent
  <2>1. handler = "loop" /\ handler' = handler /\ client' = client
    BY <1>10 DEF RecvEvent, DropsRead, tui
  <2>2. ToDaemon' = ToDaemon
    BY <1>10, StillDaemon DEF DaemonStill
  <2>3. ByItself(ToClient')
    <3>1. CASE ToClient' = ToClient
      BY <1>1, <3>1
    <3>2. CASE Sent(Event(rx))
      <4>1. Event(rx).kind \notin AnswerKinds
        BY DEF Event, AnswerKinds
      <4> QED BY <1>1, <1>2, <3>2, <4>1, ByItselfGrows DEF Sent
    <3> QED BY <1>10, <3>1, <3>2, Broadcasting
  <2> QED BY <1>1, <1>3, <2>1, <2>2, <2>3
<1>11. CASE ClientConsumes
  <2>1. handler' = handler /\ client' = client /\ d2c # <<>>
    BY <1>11 DEF ClientConsumes, Consumes, daemon
  <2>2. ToDaemon' = ToDaemon
    BY <1>11, StillDaemon DEF DaemonStill
  <2>3. ToClient' \in Seq(Pieces) /\ Sheds(ToClient', ToClient, 1)
    BY <1>11, Consuming DEF Consumed
  <2>4. ToClient # <<>>
    BY <1>0, <2>1, NotEmpty
  <2>5. ByItself(ToClient')
    BY <1>1, <1>2, <2>3, ByItselfSheds
  <2>6. Len(ToClient) <= 2 => Len(ToClient') <= 2
    BY <1>2, <2>3 DEF Sheds
  <2>7. Bodies(ToClient, AnswerKinds) = {} => B = {}
    BY <1>2, <2>3, BodiesShed DEF B
  <2> QED BY <1>1, <1>3, <2>1, <2>2, <2>4, <2>5, <2>6, <2>7
<1>12. CASE GetsHello
  <2>1. client = "hello" /\ client' = "ack" /\ handler' = handler /\ Gets("hello", "Hello") /\ Taken
        /\ c_out = <<>> /\ c2d' = c2d /\ \E r \in Firsts : c_out' = Frame(Request(r))
    BY <1>12 DEF GetsHello, Gets, Taken, daemon
  <2>2. ToClient' = <<>>
    <3>1. Took(d2c[1].msg)
      BY <2>1, Taking
    <3> QED BY <1>0, <1>1, <1>2, <2>1, <3>1, LastMessage DEF Took
  <2>3. Len(ToDaemon') <= 2
    <3>1. PICK r \in Requests \cup {"subscribe", "unsubscribe"} : c_out' = Frame(Request(r))
      BY <2>1, ClientsAssumption
    <3>2. Request(r) \in Messages
      BY MessagesAre, 0 \in Nat
    <3>3. Grows(ToDaemon', ToDaemon, Request(r))
      BY <2>1, <3>1, <3>2, ClientSends
    <3>4. Len(ToDaemon) = 0
      BY <1>1, <2>1
    <3> QED BY <3>3, <3>4 DEF Grows
  <2>4. ByItself(ToClient')
    <3>1. Bodies(ToClient', AnswerKinds) = {}
      BY <2>2 DEF Bodies
    <3> QED BY <3>1 DEF ByItself
  <2> QED BY <1>1, <1>3, <2>1, <2>2, <2>3, <2>4
<1> QED
  BY <1>5, <1>6, <1>8, <1>9, <1>10, <1>11, <1>12, BeforeTheLoop, Steps

---------------------------------------------------------------------------
(* Answers and requests on their way                                       *)

\* While the bodies stay the same their places do.
LEMMA OrderlyAlike ==
    ASSUME NEW s \in Seq(Pieces), NEW s2 \in Seq(Pieces), Alike(s2, s, AnswerKinds),
           NEW t \in Seq(Pieces), NEW t2 \in Seq(Pieces), NEW o, NEW going, NEW going2,
           going2 => going /\ Alike(t2, t, Requests), Orderly(s, t, o, going)
    PROVE  Orderly(s2, t2, o, going2)
<1> DEFINE A == Bodies(s, AnswerKinds)
           A2 == Bodies(s2, AnswerKinds)
           Q == Bodies(t, Requests)
           Q2 == Bodies(t2, Requests)
           N == 1 .. Len(o)
<1>1. PICK d \in Nat : /\ \A i \in A2 : i + d \in A /\ s2[i] = s[i + d]
                       /\ \A i \in A : i - d \in A2 /\ s2[i - d] = s[i]
  BY DEF Alike
<1>2. PICK p \in [A -> N] :
         /\ Answered(s, o, p)
         /\ going => \E q \in [Q -> N] : AskedAfter(s, t, o, p, q)
  BY DEF Orderly
<1>3. /\ \A i \in A : s[i].msg.kind \in AnswersOf[o[p[i]]]
      /\ \A i, j \in A : i < j => p[i] < p[j]
      /\ \A i \in A : \A k \in 1 .. p[i] : \E j \in A : p[j] = k
  BY <1>2 DEF Answered
<1>4. /\ \A i \in A : i \in Nat
      /\ \A i \in A2 : i \in Nat
      /\ \A i \in Q : i \in Nat
      /\ \A i \in Q2 : i \in Nat
  BY ElementsOf DEF Bodies
<1> DEFINE p2 == [i \in A2 |-> p[i + d]]
<1> HIDE DEF A, A2, Q, Q2, N
<1>5. /\ p2 \in [A2 -> N]
      /\ \A i \in A2 : p2[i] = p[i + d]
      /\ \A i \in A : p2[i - d] = p[i] /\ i - d \in A2
  <2>1. \A i \in A : i - d \in A2 /\ (i - d) + d = i
    BY <1>1, <1>4
  <2> QED BY <1>1, <1>2, <2>1
<1> HIDE DEF p2
<1>6. Answered(s2, o, p2)
  <2>1. \A i \in A2 : s2[i].msg.kind \in AnswersOf[o[p2[i]]]
    BY <1>1, <1>3, <1>5
  <2>2. ASSUME NEW i \in A2, NEW j \in A2, i < j PROVE p2[i] < p2[j]
    <3>1. i + d < j + d /\ i + d \in A /\ j + d \in A
      BY <1>1, <1>4, <2>2
    <3> QED BY <1>3, <1>5, <3>1
  <2>3. \A i \in A2 : \A k \in 1 .. p2[i] : \E j \in A2 : p2[j] = k
    BY <1>1, <1>3, <1>5
  <2> QED BY <2>1, <2>2, <2>3 DEF Answered, A2
<1>7. ASSUME going2 PROVE \E q2 \in [Q2 -> N] : AskedAfter(s2, t2, o, p2, q2)
  <2>1. PICK q \in [Q -> N] : AskedAfter(s, t, o, p, q)
    BY <1>2, <1>7
  <2>2. PICK e \in Nat : /\ \A i \in Q2 : i + e \in Q /\ t2[i] = t[i + e]
                         /\ \A i \in Q : i - e \in Q2 /\ t2[i - e] = t[i]
    BY <1>7 DEF Alike, Q, Q2
  <2>3. /\ \A i \in Q : t[i].msg.kind = o[q[i]]
        /\ \A i, j \in Q : i < j => q[i] < q[j]
        /\ \A i \in A, j \in Q : p[i] < q[j]
        /\ \A k \in N : \/ \E i \in A : p[i] = k
                        \/ \E j \in Q : q[j] = k
    BY <2>1 DEF AskedAfter, A, Q, N
  <2> DEFINE q2 == [i \in Q2 |-> q[i + e]]
  <2>4. /\ q2 \in [Q2 -> N]
        /\ \A i \in Q2 : q2[i] = q[i + e]
        /\ \A i \in Q : q2[i - e] = q[i] /\ i - e \in Q2
    <3>1. \A i \in Q : i - e \in Q2 /\ (i - e) + e = i
      BY <1>4, <2>2
    <3> QED BY <2>1, <2>2, <3>1
  <2> HIDE DEF q2
  <2>5. ASSUME NEW i \in Q2 PROVE t2[i].msg.kind = o[q2[i]]
    <3>1. i + e \in Q /\ t2[i] = t[i + e] /\ q2[i] = q[i + e]
      BY <2>2, <2>4
    <3>2. t[i + e].msg.kind = o[q[i + e]]
      BY <2>3, <3>1
    <3> QED BY <3>1, <3>2
  <2>6. ASSUME NEW i \in Q2, NEW j \in Q2, i < j PROVE q2[i] < q2[j]
    <3>1. i + e < j + e /\ i + e \in Q /\ j + e \in Q
      BY <1>4, <2>2, <2>6
    <3> QED BY <2>3, <2>4, <3>1
  <2>7. \A i \in A2, j \in Q2 : p2[i] < q2[j]
    BY <1>1, <1>5, <2>2, <2>3, <2>4
  <2>8. \A k \in N : \/ \E i \in A2 : p2[i] = k
                     \/ \E j \in Q2 : q2[j] = k
    BY <1>5, <2>3, <2>4
  <2>9. AskedAfter(s2, t2, o, p2, q2)
    BY <2>5, <2>6, <2>7, <2>8 DEF AskedAfter, A2, Q2, N
  <2> QED BY <2>4, <2>9
<1> QED
  BY <1>5, <1>6, <1>7 DEF Orderly, A2, Q2, N

\* The first answer on its way is to the oldest request.
LEMMA OrderlyAnswer ==
    ASSUME NEW s \in Seq(Pieces), NEW s2 \in Seq(Pieces), NEW d, NEW m,
           Leads(d, s, m), Sheds(s2, s, d), m.kind \in AnswerKinds,
           NEW t \in Seq(Pieces), NEW S, NEW o \in Seq(S), NEW going, Orderly(s, t, o, going)
    PROVE  /\ o # <<>> /\ m.kind \in AnswersOf[Head(o)]
           /\ Orderly(s2, t, Tail(o), going)
<1> DEFINE A == Bodies(s, AnswerKinds)
           A2 == Bodies(s2, AnswerKinds)
           Q == Bodies(t, Requests)
           n == Len(o)
<1>1. PICK p \in [A -> 1 .. n] :
         /\ Answered(s, o, p)
         /\ going => \E q \in [Q -> 1 .. n] : AskedAfter(s, t, o, p, q)
  BY DEF Orderly
<1>2. /\ \A i \in A : s[i].msg.kind \in AnswersOf[o[p[i]]]
      /\ \A i, j \in A : i < j => p[i] < p[j]
      /\ \A i \in A : \A k \in 1 .. p[i] : \E j \in A : p[j] = k
  BY <1>1 DEF Answered
<1>3. /\ d \in Nat /\ d \in A /\ s[d].msg = m
      /\ \A i \in A : i \in Nat /\ (i = d \/ i > d)
  BY BodiesLed
<1>4. /\ \A i \in A2 : i \in Nat \ {0} /\ i + d \in A /\ s2[i] = s[i + d]
      /\ \A i \in A : i > d => i - d \in A2 /\ s2[i - d] = s[i]
  BY BodiesShed
<1>5. n \in Nat
  BY ElementsOf
<1> HIDE DEF A, A2, Q, n
<1>6. p[d] = 1 /\ n >= 1
  <2>1. p[d] \in 1 .. n /\ n \in Nat
    BY <1>1, <1>3, <1>5
  <2>2. PICK j \in A : p[j] = 1
    <3>1. 1 \in 1 .. p[d]
      BY <2>1
    <3> QED BY <1>2, <1>3, <3>1
  <2>3. ~ (j > d)
    BY <1>2, <1>3, <2>1, <2>2
  <2> QED BY <1>3, <2>1, <2>2, <2>3
<1>7. o # <<>>
  BY <1>6 DEF n
<1>8. /\ Head(o) = o[1] /\ Len(Tail(o)) = n - 1
      /\ \A i \in 1 .. n - 1 : Tail(o)[i] = o[i + 1]
  BY <1>7, TailOf DEF n
<1>9. m.kind \in AnswersOf[Head(o)]
  BY <1>2, <1>3, <1>6, <1>8
<1> DEFINE p2 == [i \in A2 |-> p[i + d] - 1]
<1>10. ASSUME NEW i \in A, i > d PROVE p[i] \in 2 .. n /\ p[i] - 1 \in 1 .. n - 1
  <2>1. p[d] < p[i] /\ p[i] \in 1 .. n
    BY <1>1, <1>2, <1>3, <1>10
  <2> QED BY <1>5, <1>6, <2>1
<1>11. \A i \in A2 : i + d \in A /\ i + d > d
  BY <1>3, <1>4
<1>12. /\ p2 \in [A2 -> 1 .. n - 1]
       /\ \A i \in A2 : p2[i] = p[i + d] - 1 /\ p2[i] + 1 = p[i + d]
  BY <1>5, <1>10, <1>11
<1>13. \A i \in A : i > d => i - d \in A2 /\ p2[i - d] = p[i] - 1
  <2>1. \A i \in A : i > d => (i - d) + d = i
    BY <1>3
  <2> QED BY <1>4, <1>12, <2>1
<1> HIDE DEF p2
<1>14. Answered(s2, Tail(o), p2)
  <2>1. ASSUME NEW i \in A2 PROVE s2[i].msg.kind \in AnswersOf[Tail(o)[p2[i]]]
    <3>1. Tail(o)[p2[i]] = o[p[i + d]]
      BY <1>8, <1>12
    <3> QED BY <1>2, <1>4, <3>1
  <2>2. ASSUME NEW i \in A2, NEW j \in A2, i < j PROVE p2[i] < p2[j]
    <3>1. i + d < j + d /\ i + d \in A /\ j + d \in A
      BY <1>3, <1>4, <2>2
    <3>2. p[i + d] < p[j + d] /\ p[i + d] \in 1 .. n /\ p[j + d] \in 1 .. n
      BY <1>1, <1>2, <3>1
    <3> QED BY <1>5, <1>12, <3>2
  <2>3. ASSUME NEW i \in A2, NEW k \in 1 .. p2[i] PROVE \E j \in A2 : p2[j] = k
    <3>1. p2[i] \in 1 .. n - 1 /\ p2[i] + 1 = p[i + d] /\ i + d \in A
      BY <1>11, <1>12
    <3>2. k \in Nat /\ k + 1 \in 1 .. p[i + d] /\ k + 1 # 1
      BY <1>5, <3>1
    <3>3. PICK j \in A : p[j] = k + 1
      BY <1>2, <3>1, <3>2
    <3>4. j > d
      BY <1>3, <1>6, <3>2, <3>3
    <3>5. p2[j - d] = k /\ j - d \in A2
      BY <1>13, <3>2, <3>3, <3>4
    <3> QED BY <3>5
  <2> QED BY <2>1, <2>2, <2>3 DEF Answered, A2
<1>15. ASSUME going PROVE \E q2 \in [Q -> 1 .. n - 1] : AskedAfter(s2, t, Tail(o), p2, q2)
  <2>1. PICK q \in [Q -> 1 .. n] : AskedAfter(s, t, o, p, q)
    BY <1>1, <1>15
  <2>2. /\ \A i \in Q : t[i].msg.kind = o[q[i]]
        /\ \A i, j \in Q : i < j => q[i] < q[j]
        /\ \A i \in A, j \in Q : p[i] < q[j]
        /\ \A k \in 1 .. n : \/ \E i \in A : p[i] = k
                             \/ \E j \in Q : q[j] = k
    BY <2>1 DEF AskedAfter, A, Q, n
  <2> DEFINE q2 == [i \in Q |-> q[i] - 1]
  <2>3. \A i \in Q : q[i] \in 2 .. n /\ q[i] - 1 \in 1 .. n - 1
    <3> TAKE i \in Q
    <3>1. p[d] < q[i] /\ q[i] \in 1 .. n
      BY <1>3, <2>1, <2>2
    <3> QED BY <1>5, <1>6, <3>1
  <2>4. /\ q2 \in [Q -> 1 .. n - 1]
        /\ \A i \in Q : q2[i] = q[i] - 1 /\ q2[i] + 1 = q[i]
    BY <1>5, <2>3
  <2> HIDE DEF q2
  <2>5. ASSUME NEW i \in Q PROVE t[i].msg.kind = Tail(o)[q2[i]]
    <3>1. Tail(o)[q2[i]] = o[q[i]]
      BY <1>8, <2>4
    <3> QED BY <2>2, <3>1
  <2>6. ASSUME NEW i \in Q, NEW j \in Q, i < j PROVE q2[i] < q2[j]
    <3>1. q[i] < q[j] /\ q[i] \in 2 .. n /\ q[j] \in 2 .. n
      BY <2>2, <2>3, <2>6
    <3> QED BY <1>5, <2>4, <3>1
  <2>7. ASSUME NEW i \in A2, NEW j \in Q PROVE p2[i] < q2[j]
    <3>1. p[i + d] < q[j] /\ p[i + d] \in 2 .. n /\ q[j] \in 2 .. n
      BY <1>10, <1>11, <2>2, <2>3
    <3> QED BY <1>5, <1>12, <2>4, <3>1
  <2>8. ASSUME NEW k \in 1 .. n - 1
        PROVE  \/ \E i \in A2 : p2[i] = k
               \/ \E j \in Q : q2[j] = k
    <3>1. k \in Nat /\ k + 1 \in 1 .. n /\ k + 1 # 1 /\ (k + 1) - 1 = k
      BY <1>5
    <3>2. CASE \E i \in A : p[i] = k + 1
      <4>1. PICK i \in A : p[i] = k + 1
        BY <3>2
      <4>2. i > d
        BY <1>3, <1>6, <3>1, <4>1
      <4>3. p2[i - d] = k /\ i - d \in A2
        BY <1>13, <3>1, <4>1, <4>2
      <4> QED BY <4>3
    <3>3. CASE \E j \in Q : q[j] = k + 1
      BY <2>4, <3>1, <3>3
    <3> QED BY <2>2, <3>1, <3>2, <3>3
  <2>9. AskedAfter(s2, t, Tail(o), p2, q2)
    BY <1>8, <2>5, <2>6, <2>7, <2>8 DEF AskedAfter, A2, Q
  <2> QED BY <2>4, <2>9
<1>16. Orderly(s2, t, Tail(o), going)
  BY <1>8, <1>12, <1>14, <1>15 DEF Orderly, A2, Q
<1> QED
  BY <1>7, <1>9, <1>16

\* The request the handler takes is the oldest of those not answered yet.
LEMMA OrderlyReply ==
    ASSUME NEW s \in Seq(Pieces), NEW s2 \in Seq(Pieces), NEW m, Grows(s2, s, m),
           NEW t \in Seq(Pieces), NEW t2 \in Seq(Pieces), NEW e, NEW r,
           Leads(e, t, r), Sheds(t2, t, e), r.kind \in Requests, m.kind \in AnswersOf[r.kind],
           m.kind \in AnswerKinds, NEW S, NEW o \in Seq(S), Orderly(s, t, o, TRUE), NEW going
    PROVE  Orderly(s2, t2, o, going)
<1> DEFINE A == Bodies(s, AnswerKinds)
           A2 == Bodies(s2, AnswerKinds)
           Q == Bodies(t, Requests)
           Q2 == Bodies(t2, Requests)
           n == Len(o)
           z == Len(s) + 2
<1>1. PICK p \in [A -> 1 .. n], q \in [Q -> 1 .. n] :
         Answered(s, o, p) /\ AskedAfter(s, t, o, p, q)
  BY DEF Orderly
<1>2. /\ \A i \in A : s[i].msg.kind \in AnswersOf[o[p[i]]]
      /\ \A i, j \in A : i < j => p[i] < p[j]
      /\ \A i \in A : \A k \in 1 .. p[i] : \E j \in A : p[j] = k
  BY <1>1 DEF Answered
<1>3. /\ \A i \in Q : t[i].msg.kind = o[q[i]]
      /\ \A i, j \in Q : i < j => q[i] < q[j]
      /\ \A i \in A, j \in Q : p[i] < q[j]
      /\ \A k \in 1 .. n : \/ \E i \in A : p[i] = k
                           \/ \E j \in Q : q[j] = k
  BY <1>1 DEF AskedAfter
<1>4. /\ e \in Nat /\ e \in Q /\ t[e].msg = r
      /\ \A i \in Q : i \in Nat /\ (i = e \/ i > e)
  BY BodiesLed
<1>5. /\ \A i \in Q2 : i \in Nat \ {0} /\ i + e \in Q /\ t2[i] = t[i + e]
      /\ \A i \in Q : i > e => i - e \in Q2 /\ t2[i - e] = t[i]
  BY BodiesShed
<1>6. /\ Len(s) \in Nat
      /\ \A i \in A : i \in 1 .. Len(s) /\ i \in A2 /\ s2[i] = s[i]
      /\ \A i \in A2 : i \in A \/ i = z
      /\ z \in A2 /\ s2[z].msg = m
  BY BodiesGrow
<1>7. n \in Nat
  BY ElementsOf
<1>8. z \in Nat /\ \A i \in A : i < z /\ i # z
  BY <1>6
<1> HIDE DEF A, A2, Q, Q2, n, z
<1> DEFINE p2 == [i \in A2 |-> IF i = z THEN q[e] ELSE p[i]]
<1>9. /\ p2 \in [A2 -> 1 .. n] /\ p2[z] = q[e]
      /\ \A i \in A : p2[i] = p[i]
  BY <1>1, <1>4, <1>6, <1>8
<1> HIDE DEF p2
<1>10. Answered(s2, o, p2)
  <2>1. ASSUME NEW i \in A2 PROVE s2[i].msg.kind \in AnswersOf[o[p2[i]]]
    <3>1. CASE i \in A
      BY <1>2, <1>6, <1>9, <3>1
    <3>2. CASE i = z
      <4>1. o[q[e]] = r.kind
        <5>1. t[e].msg.kind = o[q[e]]
          BY <1>3, <1>4
        <5> QED BY <1>4, <5>1
      <4> QED BY <1>6, <1>9, <3>2, <4>1
    <3> QED BY <1>6, <3>1, <3>2
  <2>2. ASSUME NEW i \in A2, NEW j \in A2, i < j PROVE p2[i] < p2[j]
    <3>1. i \in A
      <4>1. i # z
        <5>1. j \in Nat /\ (j < z \/ j = z)
          BY <1>6, <1>8
        <5> QED BY <1>8, <2>2, <5>1
      <4> QED BY <1>6, <4>1
    <3>2. CASE j \in A
      BY <1>2, <1>9, <2>2, <3>1, <3>2
    <3>3. CASE j = z
      BY <1>3, <1>4, <1>9, <3>1, <3>3
    <3> QED BY <1>6, <3>2, <3>3
  <2>3. ASSUME NEW i \in A2, NEW k \in 1 .. p2[i] PROVE \E j \in A2 : p2[j] = k
    <3>1. CASE i \in A
      <4>1. PICK j \in A : p[j] = k
        BY <1>2, <1>9, <3>1
      <4> QED BY <1>6, <1>9, <4>1
    <3>2. CASE i = z
      <4>1. k \in 1 .. n /\ k <= q[e] /\ q[e] \in 1 .. n
        BY <1>1, <1>4, <1>7, <1>9, <3>2
      <4>2. CASE \E j \in A : p[j] = k
        BY <1>6, <1>9, <4>2
      <4>3. CASE \E j \in Q : q[j] = k
        <5>1. PICK j \in Q : q[j] = k
          BY <4>3
        <5>2. ~ (j > e)
          BY <1>3, <1>4, <1>7, <4>1, <5>1
        <5>3. q[e] = k
          BY <1>4, <5>1, <5>2
        <5> QED BY <1>6, <1>9, <5>3
      <4> QED BY <1>3, <4>1, <4>2, <4>3
    <3> QED BY <1>6, <3>1, <3>2
  <2> QED BY <2>1, <2>2, <2>3 DEF Answered, A2
<1>11. \E q2 \in [Q2 -> 1 .. n] : AskedAfter(s2, t2, o, p2, q2)
  <2> DEFINE q2 == [i \in Q2 |-> q[i + e]]
  <2>1. \A i \in Q2 : i \in Nat /\ i + e \in Q /\ i + e > e
    BY <1>4, <1>5
  <2>2. /\ q2 \in [Q2 -> 1 .. n]
        /\ \A i \in Q2 : q2[i] = q[i + e]
    BY <1>1, <2>1
  <2>3. \A i \in Q : i > e => i - e \in Q2 /\ q2[i - e] = q[i]
    <3>1. \A i \in Q : i > e => (i - e) + e = i
      BY <1>4
    <3> QED BY <1>5, <2>2, <3>1
  <2> HIDE DEF q2
  <2>4. ASSUME NEW i \in Q2 PROVE t2[i].msg.kind = o[q2[i]]
    <3>1. t[i + e].msg.kind = o[q[i + e]]
      BY <1>3, <2>1
    <3> QED BY <1>5, <2>2, <3>1
  <2>5. ASSUME NEW i \in Q2, NEW j \in Q2, i < j PROVE q2[i] < q2[j]
    <3>1. i + e < j + e /\ i + e \in Q /\ j + e \in Q
      BY <1>4, <2>1, <2>5
    <3> QED BY <1>3, <2>2, <3>1
  <2>6. ASSUME NEW i \in A2, NEW j \in Q2 PROVE p2[i] < q2[j]
    <3>1. j + e \in Q /\ e < j + e /\ q2[j] = q[j + e]
      BY <2>1, <2>2
    <3>2. CASE i \in A
      BY <1>3, <1>9, <3>1, <3>2
    <3>3. CASE i = z
      BY <1>3, <1>4, <1>9, <3>1, <3>3
    <3> QED BY <1>6, <3>2, <3>3
  <2>7. ASSUME NEW k \in 1 .. n
        PROVE  \/ \E i \in A2 : p2[i] = k
               \/ \E j \in Q2 : q2[j] = k
    <3>1. CASE \E i \in A : p[i] = k
      BY <1>6, <1>9, <3>1
    <3>2. CASE \E j \in Q : q[j] = k
      <4>1. PICK j \in Q : q[j] = k
        BY <3>2
      <4>2. CASE j = e
        BY <1>6, <1>9, <4>1, <4>2
      <4>3. CASE j > e
        BY <2>3, <4>1, <4>3
      <4> QED BY <1>4, <4>2, <4>3
    <3> QED BY <1>3, <3>1, <3>2
  <2>8. AskedAfter(s2, t2, o, p2, q2)
    BY <2>4, <2>5, <2>6, <2>7 DEF AskedAfter, A2, Q2, n
  <2> QED BY <2>2, <2>8
<1> QED
  BY <1>9, <1>10, <1>11 DEF Orderly, A2, Q2, n

\* A request that is sent is the newest.
LEMMA OrderlyAsk ==
    ASSUME NEW s \in Seq(Pieces), NEW t \in Seq(Pieces), NEW t2 \in Seq(Pieces), NEW m,
           Grows(t2, t, m), m.kind \in Requests,
           NEW o \in Seq(Requests), NEW going, Orderly(s, t, o, going)
    PROVE  Orderly(s, t2, Append(o, m.kind), going)
<1> DEFINE A == Bodies(s, AnswerKinds)
           Q == Bodies(t, Requests)
           Q2 == Bodies(t2, Requests)
           n == Len(o)
           o2 == Append(o, m.kind)
           z == Len(t) + 2
<1>1. PICK p \in [A -> 1 .. n] :
         /\ Answered(s, o, p)
         /\ going => \E q \in [Q -> 1 .. n] : AskedAfter(s, t, o, p, q)
  BY DEF Orderly
<1>2. /\ \A i \in A : s[i].msg.kind \in AnswersOf[o[p[i]]]
      /\ \A i, j \in A : i < j => p[i] < p[j]
      /\ \A i \in A : \A k \in 1 .. p[i] : \E j \in A : p[j] = k
  BY <1>1 DEF Answered
<1>3. /\ n \in Nat /\ Len(o2) = n + 1
      /\ \A i \in 1 .. n : o2[i] = o[i]
      /\ o2[n + 1] = m.kind
  BY AppendOf
<1>4. /\ Len(t) \in Nat
      /\ \A i \in Q : i \in 1 .. Len(t) /\ i \in Q2 /\ t2[i] = t[i]
      /\ \A i \in Q2 : i \in Q \/ i = z
      /\ z \in Q2 /\ t2[z].msg = m
  BY BodiesGrow
<1>5. z \in Nat /\ \A i \in Q : i < z /\ i # z
  BY <1>4
<1> HIDE DEF A, Q, Q2, n, o2, z
<1>6. p \in [A -> 1 .. n + 1]
  <2>1. \A i \in A : p[i] \in 1 .. n + 1
    BY <1>1, <1>3
  <2> QED BY <1>1, <2>1
<1>7. Answered(s, o2, p)
  <2>1. \A i \in A : o2[p[i]] = o[p[i]]
    BY <1>1, <1>3
  <2>2. \A i \in A : s[i].msg.kind \in AnswersOf[o2[p[i]]]
    BY <1>2, <2>1
  <2> QED BY <1>2, <2>2 DEF Answered, A
<1>8. ASSUME going PROVE \E q2 \in [Q2 -> 1 .. n + 1] : AskedAfter(s, t2, o2, p, q2)
  <2>1. PICK q \in [Q -> 1 .. n] : AskedAfter(s, t, o, p, q)
    BY <1>1, <1>8
  <2>2. /\ \A i \in Q : t[i].msg.kind = o[q[i]]
        /\ \A i, j \in Q : i < j => q[i] < q[j]
        /\ \A i \in A, j \in Q : p[i] < q[j]
        /\ \A k \in 1 .. n : \/ \E i \in A : p[i] = k
                             \/ \E j \in Q : q[j] = k
    BY <2>1 DEF AskedAfter, A, Q, n
  <2> DEFINE q2 == [i \in Q2 |-> IF i = z THEN n + 1 ELSE q[i]]
  <2>3. /\ \A i \in Q : q2[i] = q[i] /\ q[i] \in 1 .. n
        /\ q2[z] = n + 1
    BY <1>4, <1>5, <2>1
  <2>4. q2 \in [Q2 -> 1 .. n + 1]
    <3>1. \A i \in Q2 : (IF i = z THEN n + 1 ELSE q[i]) \in 1 .. n + 1
      BY <1>3, <1>4, <2>3
    <3> QED BY <3>1
  <2> HIDE DEF q2
  <2>5. ASSUME NEW i \in Q2 PROVE t2[i].msg.kind = o2[q2[i]]
    <3>1. CASE i \in Q
      <4>1. o2[q2[i]] = o[q[i]] /\ t[i].msg.kind = o[q[i]] /\ t2[i] = t[i]
        BY <1>3, <1>4, <2>2, <2>3, <3>1
      <4> QED BY <4>1
    <3>2. CASE i = z
      BY <1>3, <1>4, <2>3, <3>2
    <3> QED BY <1>4, <3>1, <3>2
  <2>6. ASSUME NEW i \in Q2, NEW j \in Q2, i < j PROVE q2[i] < q2[j]
    <3>1. i \in Q
      <4>1. j \in Nat /\ (j < z \/ j = z)
        BY <1>4, <1>5
      <4>2. i # z
        BY <1>5, <2>6, <4>1
      <4> QED BY <1>4, <4>2
    <3>2. CASE j \in Q
      BY <2>2, <2>3, <2>6, <3>1, <3>2
    <3>3. CASE j = z
      BY <1>3, <2>3, <3>1, <3>3
    <3> QED BY <1>4, <3>2, <3>3
  <2>7. ASSUME NEW i \in A, NEW j \in Q2 PROVE p[i] < q2[j]
    <3>1. CASE j \in Q
      BY <2>2, <2>3, <3>1
    <3>2. CASE j = z
      <4>1. p[i] \in 1 .. n
        BY <1>1
      <4> QED BY <1>3, <2>3, <3>2, <4>1
    <3> QED BY <1>4, <3>1, <3>2
  <2>8. ASSUME NEW k \in 1 .. n + 1
        PROVE  \/ \E i \in A : p[i] = k
               \/ \E j \in Q2 : q2[j] = k
    <3>1. CASE k = n + 1
      BY <1>4, <2>3, <3>1
    <3>2. CASE k \in 1 .. n
      BY <1>4, <2>2, <2>3, <3>2
    <3> QED BY <1>3, <3>1, <3>2
  <2>9. AskedAfter(s, t2, o2, p, q2)
    BY <1>3, <2>5, <2>6, <2>7, <2>8 DEF AskedAfter, A, Q2
  <2> QED BY <2>4, <2>9
<1> QED
  BY <1>3, <1>6, <1>7, <1>8 DEF Orderly, A, Q2, o2

\* Before anything is asked nothing is on its way.
LEMMA OrderlyNone ==
    ASSUME NEW s, NEW t, Bodies(s, AnswerKinds) = {}, Bodies(t, Requests) = {},
           NEW o, o = <<>>, NEW going
    PROVE  Orderly(s, t, o, going)
<1> DEFINE f == [i \in {} |-> 1]
<1>1. f \in [{} -> 1 .. Len(o)] /\ 1 .. Len(o) = {}
  <2>1. Len(o) = 0
    OBVIOUS
  <2> QED BY <2>1
<1>2. Answered(s, o, f)
  BY DEF Answered
<1>3. AskedAfter(s, t, o, f, f)
  BY <1>1 DEF AskedAfter
<1> QED
  BY <1>1, <1>2, <1>3 DEF Orderly

\* With nothing on its way nothing is owed.
LEMMA OrderlyRest ==
    ASSUME NEW s, NEW t, Bodies(s, AnswerKinds) = {}, Bodies(t, Requests) = {},
           NEW S, NEW o \in Seq(S), NEW p, NEW q, AskedAfter(s, t, o, p, q)
    PROVE  o = <<>>
<1>1. \A k \in 1 .. Len(o) : FALSE
  BY DEF AskedAfter
<1>2. Len(o) \in Nat
  BY ElementsOf
<1>3. Len(o) = 0
  BY <1>1, <1>2
<1> QED
  BY <1>3

\* The streams after a step.
LEMMA LaterStreams ==
    ASSUME IInv, Next
    PROVE  ToClient' \in Seq(Pieces) /\ ToDaemon' \in Seq(Pieces)
<1>1. c2d' \in Seq(Pieces) /\ d2c' \in Seq(Pieces)
  BY WireTypes
<1>2. c_out' \in Seq(Pieces) /\ d_out' \in Seq(Pieces)
  BY ClientTypes, DaemonTypes
<1> QED
  BY <1>1, <1>2, Joined DEF ToClient, ToDaemon

\* A dropped read stays dropped.
LEMMA TornStays ==
    ASSUME Next, ~torn'
    PROVE  ~torn
<1>1. torn' = torn \/ torn' = (torn \/ d_held # "none") \/ torn' = (torn \/ c_held # "none")
  <2>1. CASE \/ Publish \/ OthersChange \/ DaemonWrites \/ DaemonConsumes \/ DaemonMisreads
             \/ DaemonLosesClient \/ SubscribeAgain \/ Unsubscribe
             \/ \E k \in Requests \cup {"subscribe", "unsubscribe"} :
                   FirstRequest(k) \/ AnswerQuery(k) \/ ChangeRules(k)
    BY <2>1 DEF Publish, OthersChange, DaemonWrites, DaemonConsumes, DaemonMisreads,
       DaemonLosesClient, SubscribeAgain, Unsubscribe, FirstRequest, AnswerQuery, ChangeRules,
       Answer, history
  <2>2. CASE RecvEvent \/ RecvLagged
    <3>1. DropsRead
      BY <2>2 DEF RecvEvent, RecvLagged
    <3> QED BY <3>1, Zenon DEF DropsRead
  <2>3. CASE \/ ClientWrites \/ ClientConsumes \/ GetsHello \/ GetsAck \/ GetsEvent \/ GetsOk
             \/ \E k \in {"Rules", "Stats", "Error"} : GetsAnswer(k)
    BY <2>3 DEF ClientWrites, ClientConsumes, GetsHello, GetsAck, GetsEvent, GetsOk, GetsAnswer,
       Taken, history
  <2>4. CASE Leaves
    BY <2>4 DEF Leaves, ClientMisreads, ClientLosesDaemon, GetsRefusal, Quit, EditFails, history
  <2>5. CASE \/ \E v \in {"Live", "Rules", "Stats"} : SwitchTo(v)
             \/ \E r \in Requests \cup Others : Ask(r)
             \/ Idle \/ StartEdit
    <3>1. AtSelect
      BY <2>5 DEF SwitchTo, Ask, Idle, StartEdit
    <3> QED BY <3>1, Zenon DEF AtSelect
  <2>6. CASE EndEdit
    BY <2>6 DEF EndEdit
  <2> QED BY <2>1, <2>2, <2>3, <2>4, <2>5, <2>6, Steps
<1> QED
  BY <1>1, Zenon

\* Without a dropped read, a read that waits has only taken a length.
LEMMA LengthsConsumed ==
    ASSUME IInv, ~torn, NEW kinds
    PROVE  /\ ClientConsumes => Alike(ToClient', ToClient, kinds)
           /\ DaemonConsumes => Alike(ToDaemon', ToDaemon, kinds)
<1>0. /\ d2c \in Seq(Pieces) /\ d_out \in Seq(Pieces) /\ ToClient \in Seq(Pieces)
      /\ c2d \in Seq(Pieces) /\ c_out \in Seq(Pieces) /\ ToDaemon \in Seq(Pieces)
  BY StreamTypes DEF IInv
<1>1. ASSUME ClientConsumes PROVE Alike(ToClient', ToClient, kinds)
  <2>1. Consumed
    BY <1>1, Consuming
  <2>2. ToClient[1].part = "len"
    BY <2>1 DEF Consumed
  <2> QED BY <1>0, <2>1, <2>2, AlikeConsumes DEF Consumed
<1>2. ASSUME DaemonConsumes PROVE Alike(ToDaemon', ToDaemon, kinds)
  <2>1. Consumes(d_held, c2d) /\ c2d' = <<>> /\ c_out' = c_out /\ handler # "end"
    BY <1>2 DEF DaemonConsumes, DaemonReads, tui
  <2>2. Aligned(d_held, c2d \o c_out, torn)
    BY <2>1 DEF IInv, ToDaemon
  <2>3. /\ Sheds(<<>> \o c_out, c2d \o c_out, 1)
        /\ (c2d \o c_out)[1].part = "len"
    BY <1>0, <2>1, <2>2, ReadConsumes
  <2>4. ToDaemon' = <<>> \o c_out /\ <<>> \o c_out = c_out /\ ToDaemon = c2d \o c_out
    BY <1>0, <2>1 DEF ToDaemon
  <2>5. Sheds(ToDaemon', ToDaemon, 1) /\ ToDaemon' \in Seq(Pieces) /\ ToDaemon[1].part = "len"
    BY <1>0, <2>3, <2>4
  <2> QED BY <1>0, <2>5, AlikeConsumes
<1> QED
  BY <1>1, <1>2

\* What a request adds to the stream to the daemon.
LEMMA Asking ==
    ASSUME IInv, NEW r \in Requests \cup {"subscribe", "unsubscribe"},
           c_out = <<>>, c_out' = Frame(Request(r)), c2d' = c2d
    PROVE  /\ ToDaemon' \in Seq(Pieces) /\ Grows(ToDaemon', ToDaemon, Request(r))
           /\ Request(r).kind = r
           /\ \A kinds : r \notin kinds => Alike(ToDaemon', ToDaemon, kinds)
<1>1. Request(r) \in Messages
  BY MessagesAre, 0 \in Nat
<1>2. ToDaemon' \in Seq(Pieces) /\ Grows(ToDaemon', ToDaemon, Request(r))
  BY <1>1, ClientSends
<1>3. Request(r).kind = r
  BY DEF Request
<1>4. ToDaemon \in Seq(Pieces)
  BY StreamTypes DEF IInv
<1>5. ASSUME NEW kinds, r \notin kinds PROVE Alike(ToDaemon', ToDaemon, kinds)
  <2>1. Request(r).kind \notin kinds
    BY <1>3, <1>5
  <2> QED BY <1>2, <1>4, <2>1, AlikeGrows
<1> QED
  BY <1>2, <1>3, <1>5

\* What a request the handler reads leaves of it.
LEMMA Receiving ==
    ASSUME IInv, NEW k, Receives(k), c2d' = Rest(d_held, c2d), c_out' = c_out
    PROVE  /\ ToDaemon' \in Seq(Pieces) /\ Request(k).kind = k
           /\ \E d \in {1, 2} : Leads(d, ToDaemon, Request(k)) /\ Sheds(ToDaemon', ToDaemon, d)
           /\ \A kinds : k \notin kinds => Alike(ToDaemon', ToDaemon, kinds)
<1>1. ToDaemon' \in Seq(Pieces)
  BY DaemonTakes
<1>2. PICK d \in {1, 2} : Leads(d, ToDaemon, Request(k)) /\ Sheds(ToDaemon', ToDaemon, d)
  BY DaemonTakes
<1>3. Request(k).kind = k
  BY DEF Request
<1>4. ToDaemon \in Seq(Pieces)
  BY StreamTypes DEF IInv
<1>5. ASSUME NEW kinds, k \notin kinds PROVE Alike(ToDaemon', ToDaemon, kinds)
  <2>1. Request(k).kind \notin kinds
    BY <1>3, <1>5
  <2> QED BY <1>1, <1>2, <1>4, <2>1, AlikeTakes
<1> QED
  BY <1>1, <1>2, <1>3, <1>5

\* When the loop starts nothing is owed and nothing on its way but events.
LEMMA AnswersStart ==
    ASSUME IInv, Next, GetsAck
    PROVE  AnswersComing' /\ amiss' = amiss /\ view' = "Live"
<1>1. /\ client = "ack" /\ Gets("ack", "Ok") /\ Taken /\ c_out' = c_out /\ c2d' = c2d /\ handler' = handler
      /\ owed' = owed /\ amiss' = amiss /\ view' = view
  BY DEF GetsAck, Gets, Taken, daemon
<1>2. TypeOK /\ Opening /\ Writing'
  BY WritingStep DEF IInv
<1>3. /\ owed = <<>> /\ view = "Live" /\ ByItself(ToClient)
      /\ handler \in {"ok", "loop"} => ToDaemon = <<>>
  BY <1>1, <1>2 DEF Opening, ByItself
<1>4. ToClient \in Seq(Pieces) /\ ToClient' \in Seq(Pieces)
  BY <1>2, StreamTypes, LaterStreams
<1>5. Bodies(ToClient', AnswerKinds) = {}
  <2>1. PICK d \in {1, 2} : Leads(d, ToClient, d2c[1].msg) /\ Sheds(ToClient', ToClient, d)
    BY <1>1, Taking DEF Took
  <2>2. SUFFICES ASSUME NEW i \in Bodies(ToClient', AnswerKinds) PROVE FALSE
    OBVIOUS
  <2>3. i \in Nat \ {0} /\ i + d \in Bodies(ToClient, AnswerKinds)
    BY <1>4, <2>1, BodiesShed
  <2>4. d \in 1 .. (i + d) - 1
    BY <2>1, <2>3
  <2>5. ToClient[d].part = "len"
    BY <1>3, <2>3, <2>4 DEF ByItself
  <2>6. ToClient[d].part = "body"
    BY <2>1 DEF Leads
  <2> QED BY <2>5, <2>6
<1>6. handler = "loop" => Bodies(ToDaemon', Requests) = {}
  <2>1. ToDaemon' = ToDaemon
    BY <1>1 DEF ToDaemon
  <2>2. handler = "loop" => ToDaemon' = <<>>
    BY <1>3, <2>1
  <2> QED BY <2>2 DEF Bodies
<1>7. owed' = <<>> /\ <<>> \in Seq(Requests)
  BY <1>1, <1>3
<1>8. CASE handler = "loop"
  <2>1. Orderly(ToClient', ToDaemon', owed', handler' = "loop")
    BY <1>5, <1>6, <1>7, <1>8, OrderlyNone
  <2> QED BY <1>1, <1>3, <2>1 DEF AnswersComing
<1>9. CASE handler # "loop"
  <2>1. Orderly(ToClient', <<>>, owed', handler' = "loop")
    <3>1. Bodies(<<>>, Requests) = {}
      BY DEF Bodies
    <3> QED BY <1>5, <1>7, <3>1, OrderlyNone
  <2>2. Orderly(ToClient', ToDaemon', owed', handler' = "loop")
    BY <1>1, <1>9, <2>1 DEF Orderly
  <2> QED BY <1>1, <1>3, <2>2 DEF AnswersComing
<1> QED
  BY <1>8, <1>9

\* An answer that is read is to the oldest request.
LEMMA AnswerRead ==
    ASSUME IInv, ~torn, AnswersComing, NEW k \in AnswerKinds, Gets("run", k), Taken, Fits(k)
    PROVE  /\ owed # <<>> /\ Pending = Tail(owed)
           /\ Orderly(ToClient', ToDaemon, Pending, handler = "loop")
           /\ ~amiss'
<1>1. Took(d2c[1].msg) /\ d2c[1].msg.kind = k
  BY Taking
<1>2. ToClient \in Seq(Pieces) /\ ToClient' \in Seq(Pieces) /\ ToDaemon \in Seq(Pieces)
      /\ owed \in Seq(Requests)
  BY <1>1, StreamTypes DEF IInv, Took, TypeOK
<1>3. PICK d \in {1, 2} : Leads(d, ToClient, d2c[1].msg) /\ Sheds(ToClient', ToClient, d)
  BY <1>1 DEF Took
<1>4. Orderly(ToClient, ToDaemon, owed, handler = "loop") /\ d2c[1].msg.kind \in AnswerKinds
  BY <1>1 DEF AnswersComing
<1>5. /\ owed # <<>> /\ k \in AnswersOf[Head(owed)]
      /\ Orderly(ToClient', ToDaemon, Tail(owed), handler = "loop")
  BY <1>1, <1>2, <1>3, <1>4, OrderlyAnswer
<1>6. ~amiss'
  <2>1. ~amiss
    BY Zenon DEF IInv
  <2>2. amiss' = (amiss \/ owed = <<>> \/ k \notin AnswersOf[Head(owed)])
    BY Zenon DEF Fits
  <2> QED BY <1>5, <2>1, <2>2, Zenon
<1> QED
  BY <1>5, <1>6 DEF Pending

\* The loop starts with the answer to the first request.
LEMMA LoopStarts ==
    ASSUME IInv, Next, client \notin {"run", "edit"}, client' \in {"run", "edit"}
    PROVE  GetsAck
<1>1. CASE \/ Publish \/ OthersChange \/ ClientWrites \/ ClientConsumes
  BY <1>1 DEF Publish, OthersChange, ClientWrites, ClientConsumes, tui
<1>2. CASE \/ DaemonWrites \/ DaemonConsumes \/ DaemonMisreads
           \/ DaemonLosesClient \/ SubscribeAgain \/ Unsubscribe \/ RecvEvent \/ RecvLagged
           \/ \E k \in Requests \cup {"subscribe", "unsubscribe"} :
                 FirstRequest(k) \/ AnswerQuery(k) \/ ChangeRules(k)
  BY <1>2, ClientKept DEF tui
<1>3. CASE \/ GetsEvent \/ GetsOk \/ \E k \in {"Rules", "Stats", "Error"} : GetsAnswer(k)
  BY <1>3 DEF GetsEvent, GetsOk, GetsAnswer, Gets
<1>4. CASE \/ \E v \in {"Live", "Rules", "Stats"} : SwitchTo(v)
           \/ \E r \in Requests \cup Others : Ask(r)
           \/ Idle \/ StartEdit \/ EndEdit
  BY <1>4 DEF SwitchTo, Ask, Idle, StartEdit, EndEdit, AtSelect
<1>5. ~Leaves /\ ~GetsHello
  BY LeavingClient DEF GetsHello
<1> QED
  BY <1>1, <1>2, <1>3, <1>4, <1>5, Steps

\* The inductive step of AnswersComing.
LEMMA AnswersStep ==
    ASSUME IInv, Next, ~torn', client' \in {"run", "edit"}
    PROVE  AnswersComing'
<1>0. ~torn /\ TypeOK /\ Writing /\ (client \in {"run", "edit"} => AnswersComing)
  BY TornStays DEF IInv
<1>1. /\ ToClient \in Seq(Pieces) /\ ToDaemon \in Seq(Pieces)
      /\ ToClient' \in Seq(Pieces) /\ ToDaemon' \in Seq(Pieces)
      /\ owed \in Seq(Requests)
  BY <1>0, StreamTypes, LaterStreams DEF TypeOK
<1>2. CASE client \notin {"run", "edit"}
  <2>1. GetsAck
    BY <1>2, LoopStarts
  <2> QED BY <2>1, AnswersStart
<1>3. CASE client \in {"run", "edit"}
  <2>0. handler \in {"loop", "end"} /\ Orderly(ToClient, ToDaemon, owed, handler = "loop")
    BY <1>0, <1>3 DEF Writing, AnswersComing
  <2>1. ASSUME owed' = owed, Alike(ToClient', ToClient, AnswerKinds),
               handler' = "loop" => handler = "loop" /\ Alike(ToDaemon', ToDaemon, Requests)
        PROVE  AnswersComing'
    <3>1. Orderly(ToClient', ToDaemon', owed, handler' = "loop")
      BY <1>1, <2>0, <2>1, OrderlyAlike
    <3> QED BY <2>1, <3>1 DEF AnswersComing
  <2>2. Alike(ToClient, ToClient, AnswerKinds) /\ Alike(ToDaemon, ToDaemon, Requests)
    BY <1>1, AlikeStays
  <2>3. ASSUME ClientStill, UNCHANGED <<handler, owed>>,
               ToDaemon' = ToDaemon \/ Alike(ToDaemon', ToDaemon, Requests)
        PROVE  AnswersComing'
    BY <2>1, <2>2, <2>3, StillClient
  <2>4. CASE \/ Publish \/ OthersChange \/ RecvLagged \/ ClientWrites \/ Idle \/ StartEdit
    <3>1. handler' = handler /\ owed' = owed
      BY <2>4 DEF Publish, OthersChange, RecvLagged, DropsRead, ClientWrites, Idle, StartEdit,
         AtSelect, daemon, history
    <3> QED BY <2>3, <2>4, <3>1, StillDaemon DEF ClientStill, DaemonStill
  <2>5. CASE DaemonWrites
    <3>1. handler' = handler /\ owed' = owed
      <4>1. d_out # <<>> /\ owed' = owed /\ (handler' = handler \/ handler' = AfterWrite[handler])
        BY <2>5 DEF DaemonWrites
      <4> QED BY <1>0, <2>0, <4>1 DEF Writing, AfterWrite
    <3> QED BY <2>3, <2>5, <3>1, StillDaemon DEF ClientStill, DaemonStill
  <2>6. CASE DaemonConsumes
    <3>1. handler' = handler /\ owed' = owed
      BY <2>6 DEF DaemonConsumes, history
    <3>2. Alike(ToDaemon', ToDaemon, Requests)
      BY <1>0, <2>6, LengthsConsumed
    <3> QED BY <2>3, <2>6, <3>1, <3>2 DEF ClientStill
  <2>7. CASE DaemonMisreads \/ Unsubscribe
    <3>1. handler' = "end" /\ owed' = owed
      BY <2>7 DEF DaemonMisreads, Unsubscribe, DaemonEnds, history
    <3>2. ToClient' = ToClient
      BY <2>7, StillClient DEF ClientStill
    <3> QED BY <2>1, <2>2, <3>1, <3>2
  <2>8. CASE SubscribeAgain
    <3>1. Receives("subscribe") /\ c2d' = Rest(d_held, c2d) /\ c_out' = c_out
          /\ handler' = handler /\ owed' = owed
      BY <2>8 DEF SubscribeAgain, tui, history
    <3>2. Alike(ToDaemon', ToDaemon, Requests)
      BY <3>1, Receiving DEF Requests
    <3> QED BY <2>3, <2>8, <3>1, <3>2 DEF ClientStill
  <2>9. ASSUME NEW k \in Requests \cup {"subscribe", "unsubscribe"},
               FirstRequest(k) \/ AnswerQuery(k) \/ ChangeRules(k)
        PROVE  AnswersComing'
    <3>1. handler = "loop" /\ (AnswerQuery(k) \/ ChangeRules(k))
      BY <2>0, <2>9 DEF FirstRequest, AnswerQuery, ChangeRules
    <3>2. /\ handler' = handler /\ owed' = owed /\ Receives(k)
          /\ c2d' = Rest(d_held, c2d) /\ c_out' = c_out /\ k \in Requests
      BY <3>1, ClientKept DEF AnswerQuery, ChangeRules, Answer, tui, Requests
    <3>3. PICK e \in {1, 2} : Leads(e, ToDaemon, Request(k)) /\ Sheds(ToDaemon', ToDaemon, e)
      BY <3>2, Receiving
    <3>4. \E m \in Messages : Sent(m) /\ m.kind \in AnswersOf[k] /\ m.kind \in AnswerKinds
      <4>1. CASE AnswerQuery(k)
        BY <4>1, Answering DEF Sent, Reply, AnswersOf, AnswerKinds
      <4>2. CASE ChangeRules(k)
        <5>1. k \in {"toggle", "create"}
          BY <4>2 DEF ChangeRules
        <5>2. Sent(Reply("Ok", 0)) \/ Sent(Reply("Error", 0))
          BY <4>2, Answering
        <5> QED BY <5>1, <5>2 DEF Sent, Reply, AnswersOf, AnswerKinds
      <4> QED BY <3>1, <4>1, <4>2
    <3>5. PICK m \in Messages : Sent(m) /\ m.kind \in AnswersOf[k] /\ m.kind \in AnswerKinds
      BY <3>4
    <3>6. Orderly(ToClient, ToDaemon, owed, TRUE)
      BY <2>0, <3>1 DEF Orderly
    <3>7. Request(k).kind = k
      BY DEF Request
    <3>8. Orderly(ToClient', ToDaemon', owed, handler' = "loop")
      <4>1. Grows(ToClient', ToClient, m)
        BY <3>5 DEF Sent
      <4>2. Request(k).kind \in Requests /\ m.kind \in AnswersOf[Request(k).kind]
        BY <3>2, <3>5, <3>7
      <4> QED BY <1>1, <3>3, <3>5, <3>6, <4>1, <4>2, OrderlyReply
    <3> QED BY <3>2, <3>8 DEF AnswersComing
  <2>10. CASE RecvEvent
    <3>1. handler' = handler /\ owed' = owed
      BY <2>10 DEF RecvEvent, DropsRead
    <3>2. Alike(ToClient', ToClient, AnswerKinds)
      <4>1. CASE ToClient' = ToClient
        BY <2>2, <4>1
      <4>2. CASE Sent(Event(rx))
        <5>1. Event(rx).kind \notin AnswerKinds
          BY DEF Event, AnswerKinds
        <5> QED BY <1>1, <4>2, <5>1, AlikeGrows DEF Sent
      <4> QED BY <2>10, <4>1, <4>2, Broadcasting
    <3> QED BY <2>1, <2>2, <2>10, <3>1, <3>2, StillDaemon DEF DaemonStill
  <2>11. CASE ClientConsumes
    <3>1. handler' = handler /\ owed' = owed
      BY <2>11 DEF ClientConsumes, daemon, history
    <3> QED BY <1>0, <2>1, <2>2, <2>11, <3>1, LengthsConsumed, StillDaemon DEF DaemonStill
  <2>12. CASE GetsEvent
    <3>1. Gets("run", "Event") /\ Taken /\ handler' = handler /\ owed' = owed
      BY <2>12 DEF GetsEvent, Taken, daemon
    <3>2. Took(d2c[1].msg) /\ d2c[1].msg.kind \notin AnswerKinds
      BY <3>1, Taking DEF AnswerKinds
    <3>3. Alike(ToClient', ToClient, AnswerKinds)
      BY <1>1, <3>2, AlikeTakes DEF Took
    <3> QED BY <2>1, <2>2, <2>12, <3>1, <3>3, StillDaemon DEF DaemonStill
  <2>13. ASSUME NEW k \in {"Rules", "Stats", "Error"}, GetsAnswer(k)
         PROVE  AnswersComing'
    <3>1. Gets("run", k) /\ Taken /\ Fits(k) /\ handler' = handler /\ owed' = Pending
      BY <2>13 DEF GetsAnswer, Taken, daemon
    <3>2. Orderly(ToClient', ToDaemon, Pending, handler = "loop")
      BY <1>0, <1>3, <3>1, AnswerRead DEF AnswerKinds
    <3>3. ToDaemon' = ToDaemon
      BY <2>13, StillDaemon DEF DaemonStill
    <3> QED BY <3>1, <3>2, <3>3 DEF AnswersComing
  <2>14. CASE GetsOk
    <3>1. Gets("run", "Ok") /\ Taken /\ Fits("Ok") /\ handler' = handler /\ c_out = <<>> /\ c2d' = c2d
      BY <2>14 DEF GetsOk, Gets, Taken, daemon
    <3>2. /\ Orderly(ToClient', ToDaemon, Pending, handler = "loop")
          /\ owed # <<>> /\ Pending = Tail(owed)
      BY <1>0, <1>3, <3>1, AnswerRead DEF AnswerKinds
    <3>3. CASE c_out' = c_out /\ owed' = Pending
      <4>1. ToDaemon' = ToDaemon
        BY <3>1, <3>3 DEF ToDaemon
      <4> QED BY <3>1, <3>2, <3>3, <4>1 DEF AnswersComing
    <3>4. CASE c_out' = Frame(Request("list")) /\ owed' = Append(Pending, "list")
      <4>1. "list" \in Requests
        BY DEF Requests
      <4>2. Grows(ToDaemon', ToDaemon, Request("list")) /\ Request("list").kind = "list"
        BY <3>1, <3>4, <4>1, Asking
      <4>3. Pending \in Seq(Requests)
        BY <1>1, <3>2, TailOf
      <4>4. Orderly(ToClient', ToDaemon', Append(Pending, "list"), handler = "loop")
        <5>1. Request("list").kind \in Requests
          BY <4>1, <4>2
        <5>2. Orderly(ToClient', ToDaemon', Append(Pending, Request("list").kind), handler = "loop")
          BY <1>1, <3>2, <4>2, <4>3, <5>1, OrderlyAsk
        <5> QED BY <4>2, <5>2
      <4> QED BY <3>1, <3>4, <4>4 DEF AnswersComing
    <3> QED BY <2>14, <3>3, <3>4 DEF GetsOk
  <2>15. ASSUME NEW r, Sends(r), r \in Requests \cup {"subscribe", "unsubscribe"},
                c_out = <<>>, c2d' = c2d, handler' = handler, ToClient' = ToClient
         PROVE  AnswersComing'
    <3>1. c_out' = Frame(Request(r)) /\ owed' = IF r \in Requests THEN Append(owed, r) ELSE owed
      BY <2>15 DEF Sends
    <3>2. CASE r \in Requests
      <4>1. Grows(ToDaemon', ToDaemon, Request(r)) /\ Request(r).kind = r
        BY <2>15, <3>1, Asking
      <4>2. Orderly(ToClient, ToDaemon', Append(owed, r), handler = "loop")
        BY <1>1, <2>0, <3>2, <4>1, OrderlyAsk
      <4> QED BY <2>15, <3>1, <3>2, <4>2 DEF AnswersComing
    <3>3. CASE r \notin Requests
      <4>1. Alike(ToDaemon', ToDaemon, Requests)
        BY <2>15, <3>1, <3>3, Asking
      <4> QED BY <2>1, <2>2, <2>15, <3>1, <3>3, <4>1
    <3> QED BY <3>2, <3>3
  <2>16. ASSUME NEW v \in {"Live", "Rules", "Stats"}, SwitchTo(v)
         PROVE  AnswersComing'
    <3>1. c_out = <<>> /\ c2d' = c2d /\ handler' = handler
          /\ \/ Sends("list") \/ Sends("stats")
             \/ c_out' = c_out /\ owed' = owed
      BY <2>16 DEF SwitchTo, AtSelect, wire, daemon
    <3>2. ToClient' = ToClient
      BY <2>16, StillClient DEF ClientStill
    <3>3. CASE c_out' = c_out /\ owed' = owed
      <4>1. ToDaemon' = ToDaemon
        BY <3>1, <3>3 DEF ToDaemon
      <4> QED BY <2>1, <2>2, <3>1, <3>2, <3>3, <4>1
    <3>4. CASE Sends("list") \/ Sends("stats")
      BY <2>15, <3>1, <3>2, <3>4 DEF Requests
    <3> QED BY <3>1, <3>3, <3>4
  <2>17. ASSUME NEW r \in Requests \cup Others, Ask(r)
         PROVE  AnswersComing'
    <3>1. c_out = <<>> /\ c2d' = c2d /\ handler' = handler /\ Sends(r)
      BY <2>17 DEF Ask, AtSelect, wire, daemon
    <3>2. ToClient' = ToClient
      BY <2>17, StillClient DEF ClientStill
    <3>3. r \in Requests \cup {"subscribe", "unsubscribe"}
      BY ClientsAssumption
    <3> QED BY <2>15, <3>1, <3>2, <3>3
  <2>18. CASE EndEdit
    <3>1. c_out = <<>> /\ c2d' = c2d /\ handler' = handler /\ Sends("list")
      BY <1>0, <2>18 DEF EndEdit, Writing, wire, daemon
    <3>2. ToClient' = ToClient
      BY <2>18, StillClient DEF ClientStill
    <3> QED BY <2>15, <3>1, <3>2 DEF Requests
  <2>19. ~Leaves /\ ~DaemonLosesClient /\ ~GetsHello /\ ~GetsAck
    BY <1>3, LeavingClient DEF DaemonLosesClient, GetsHello, GetsAck, Gets
  <2> QED BY <2>4, <2>5, <2>6, <2>7, <2>8, <2>9, <2>10, <2>11, <2>12, <2>13, <2>14, <2>16, <2>17,
             <2>18, <2>19, Steps
<1> QED
  BY <1>2, <1>3

\* No step takes an answer out of turn.
LEMMA AmissStep ==
    ASSUME IInv, Next, ~torn'
    PROVE  ~amiss'
<1>1. ~torn
  BY TornStays
<1>2. ~amiss
  BY <1>1, Zenon DEF IInv
<1>3. ASSUME NEW k \in AnswerKinds, Gets("run", k), Taken, Fits(k)
      PROVE  ~amiss'
  <2>1. AnswersComing
    BY <1>1, <1>3 DEF Gets, IInv
  <2> QED BY <1>1, <1>3, <2>1, AnswerRead
<1>4. CASE GetsOk \/ \E k \in {"Rules", "Stats", "Error"} : GetsAnswer(k)
  BY <1>3, <1>4 DEF GetsOk, GetsAnswer, AnswerKinds
<1>5. ASSUME amiss' = amiss PROVE ~amiss'
  BY <1>2, <1>5, Zenon
<1>6. CASE \/ Publish \/ OthersChange \/ DaemonWrites \/ DaemonConsumes \/ DaemonMisreads
           \/ DaemonLosesClient \/ SubscribeAgain \/ Unsubscribe \/ RecvEvent \/ RecvLagged
           \/ \E k \in Requests \cup {"subscribe", "unsubscribe"} :
                 FirstRequest(k) \/ AnswerQuery(k) \/ ChangeRules(k)
  <2>1. amiss' = amiss
    BY <1>6 DEF Publish, OthersChange, DaemonWrites, DaemonConsumes, DaemonMisreads,
       DaemonLosesClient, SubscribeAgain, Unsubscribe, RecvEvent, RecvLagged, DropsRead,
       FirstRequest, AnswerQuery, ChangeRules, Answer, history
  <2> QED BY <1>5, <2>1
<1>7. CASE \/ ClientWrites \/ ClientConsumes \/ GetsHello \/ GetsAck \/ GetsEvent
  <2>1. amiss' = amiss
    BY <1>7 DEF ClientWrites, ClientConsumes, GetsHello, GetsAck, GetsEvent, history
  <2> QED BY <1>5, <2>1
<1>8. CASE Leaves
  <2>1. amiss' = amiss
    BY <1>8, LeavingClient DEF history
  <2> QED BY <1>5, <2>1
<1>9. CASE \/ \E v \in {"Live", "Rules", "Stats"} : SwitchTo(v)
           \/ \E r \in Requests \cup Others : Ask(r)
           \/ Idle \/ StartEdit \/ EndEdit
  <2>1. amiss' = amiss
    BY <1>9 DEF SwitchTo, Ask, Idle, StartEdit, EndEdit, AtSelect
  <2> QED BY <1>5, <2>1
<1> QED
  BY <1>4, <1>6, <1>7, <1>8, <1>9, Steps

---------------------------------------------------------------------------
(* The user's last change                                                  *)

\* What a stream keeps of the bodies of some kinds.
LEMMA AlikeKeeps ==
    ASSUME NEW s, NEW t, NEW kinds, Alike(t, s, kinds)
    PROVE  \A i \in Bodies(s, kinds) : \E j \in Bodies(t, kinds) : t[j] = s[i]
  BY DEF Alike

\* A change on its way to the Rules view is still on its way when nothing of it is taken.
LEMMA ChangePass ==
    ASSUME ChangeComing, UNCHANGED <<shown, written, view>>, handler' = "loop" => handler = "loop",
           Bodies(ToDaemon, {"list"}) # {} => Bodies(ToDaemon', {"list"}) # {},
           Alike(ToClient', ToClient, {"Ok"}), Alike(ToClient', ToClient, {"Rules"})
    PROVE  ChangeComing'
<1> SUFFICES ASSUME handler' = "loop", view' = "Rules"
             PROVE  \/ shown' >= written' \/ Bodies(ToDaemon', {"list"}) # {}
                    \/ Bodies(ToClient', {"Ok"}) # {}
                    \/ \E i \in Bodies(ToClient', {"Rules"}) : ToClient'[i].msg.n >= written'
  BY DEF ChangeComing
<1>1. CASE shown >= written \/ Bodies(ToDaemon, {"list"}) # {}
  BY <1>1
<1>2. CASE Bodies(ToClient, {"Ok"}) # {}
  BY <1>2, AlikeKeeps
<1>3. CASE \E i \in Bodies(ToClient, {"Rules"}) : ToClient[i].msg.n >= written
  BY <1>3, AlikeKeeps
<1> QED
  BY <1>1, <1>2, <1>3 DEF ChangeComing

\* A message of another kind that is sent or taken leaves the lists and the Oks.
LEMMA OthersPass ==
    ASSUME IInv, \/ ToClient' = ToClient
                 \/ \E m \in Messages : (Sent(m) \/ Took(m)) /\ m.kind \notin {"Ok", "Rules"}
    PROVE  Alike(ToClient', ToClient, {"Ok"}) /\ Alike(ToClient', ToClient, {"Rules"})
<1>1. ASSUME NEW kinds, kinds \subseteq {"Ok", "Rules"}
      PROVE  Alike(ToClient', ToClient, kinds)
  <2>1. \/ ToClient' = ToClient
        \/ \E m \in Messages : (Sent(m) \/ Took(m)) /\ m.kind \notin kinds
    BY <1>1
  <2> QED BY <2>1, AlikeStream
<1> QED
  BY <1>1

\* The inductive step of ChangeComing.
LEMMA ChangeStep ==
    ASSUME IInv, Next, ~torn', client' \in {"run", "edit"}
    PROVE  ChangeComing'
<1>0. ~torn /\ TypeOK /\ Writing
  BY TornStays DEF IInv
<1>1. /\ ToClient \in Seq(Pieces) /\ ToDaemon \in Seq(Pieces)
      /\ ToClient' \in Seq(Pieces) /\ ToDaemon' \in Seq(Pieces)
      /\ disk \in Nat /\ shown \in 0 .. disk /\ written \in 1 .. disk
  BY <1>0, StreamTypes, LaterStreams DEF TypeOK
<1>2. ASSUME view' # "Rules" PROVE ChangeComing'
  BY <1>2 DEF ChangeComing
<1>3. CASE client \notin {"run", "edit"}
  <2>1. view' = "Live"
    BY <1>3, LoopStarts, AnswersStart
  <2> QED BY <1>2, <2>1
<1>4. CASE client \in {"run", "edit"}
  <2>0. ChangeComing /\ ListsComing /\ handler \in {"loop", "end"}
    BY <1>0, <1>4 DEF IInv, Writing
  <2>1. ASSUME UNCHANGED <<shown, written, view>>, handler' = "loop" => handler = "loop",
               \/ ToDaemon' = ToDaemon \/ handler' = "end"
               \/ Alike(ToDaemon', ToDaemon, {"list"})
               \/ \E m : Grows(ToDaemon', ToDaemon, m),
               \/ ToClient' = ToClient
               \/ \E m \in Messages : (Sent(m) \/ Took(m)) /\ m.kind \notin {"Ok", "Rules"}
               \/ Alike(ToClient', ToClient, {"Ok"}) /\ Alike(ToClient', ToClient, {"Rules"})
        PROVE  ChangeComing'
    <3>1. Alike(ToClient', ToClient, {"Ok"}) /\ Alike(ToClient', ToClient, {"Rules"})
      BY <2>1, OthersPass
    <3>2. CASE handler' # "loop"
      BY <3>2 DEF ChangeComing
    <3>3. CASE handler' = "loop"
      <4>1. Bodies(ToDaemon, {"list"}) # {} => Bodies(ToDaemon', {"list"}) # {}
        <5>1. CASE ToDaemon' = ToDaemon
          BY <5>1
        <5>2. CASE Alike(ToDaemon', ToDaemon, {"list"})
          BY <5>2, AlikeKeeps
        <5>3. ASSUME NEW m, Grows(ToDaemon', ToDaemon, m)
              PROVE  Bodies(ToDaemon, {"list"}) # {} => Bodies(ToDaemon', {"list"}) # {}
          <6>1. \A i \in Bodies(ToDaemon, {"list"}) : i \in Bodies(ToDaemon', {"list"})
            BY <1>1, <5>3, BodiesGrow
          <6> QED BY <6>1
        <5> QED BY <2>1, <3>3, <5>1, <5>2, <5>3
      <4> QED BY <2>0, <2>1, <3>1, <4>1, ChangePass
    <3> QED BY <3>2, <3>3
  <2>2. CASE Publish \/ OthersChange \/ RecvLagged \/ ClientWrites \/ Idle \/ StartEdit
    <3>1. handler' = handler /\ UNCHANGED <<shown, written, view>>
      BY <2>2 DEF Publish, OthersChange, RecvLagged, DropsRead, ClientWrites, Idle, StartEdit,
         AtSelect, daemon, tui, history
    <3>2. ToClient' = ToClient
      BY <2>2, StillClient DEF ClientStill
    <3>3. ToDaemon' = ToDaemon
      BY <2>2, StillDaemon DEF DaemonStill
    <3> QED BY <2>1, <3>1, <3>2, <3>3
  <2>3. CASE DaemonWrites
    <3>1. UNCHANGED <<shown, written, view>> /\ (handler' = "loop" => handler = "loop")
      <4>1. UNCHANGED <<shown, written, view>> /\ d_out # <<>>
        BY <2>3 DEF DaemonWrites, tui
      <4> QED BY <1>0, <2>0, <4>1 DEF Writing
    <3>2. ToClient' = ToClient
      BY <2>3, StillClient DEF ClientStill
    <3>3. ToDaemon' = ToDaemon
      BY <2>3, StillDaemon DEF DaemonStill
    <3> QED BY <2>1, <3>1, <3>2, <3>3
  <2>4. CASE DaemonConsumes \/ DaemonMisreads \/ Unsubscribe
    <3>1. UNCHANGED <<shown, written, view>> /\ (handler' = handler \/ handler' = "end")
      BY <2>4 DEF DaemonConsumes, DaemonMisreads, Unsubscribe, DaemonEnds, tui, history
    <3>2. handler' = "end" \/ Alike(ToDaemon', ToDaemon, {"list"})
      BY <1>0, <2>4, LengthsConsumed DEF DaemonMisreads, Unsubscribe, DaemonEnds
    <3>3. ToClient' = ToClient
      BY <2>4, StillClient DEF ClientStill
    <3> QED BY <2>1, <3>1, <3>2, <3>3
  <2>5. CASE SubscribeAgain
    <3>1. Receives("subscribe") /\ c2d' = Rest(d_held, c2d) /\ c_out' = c_out
          /\ handler' = handler /\ UNCHANGED <<shown, written, view>>
      BY <2>5 DEF SubscribeAgain, tui, history
    <3>2. Alike(ToDaemon', ToDaemon, {"list"})
      BY <3>1, Receiving
    <3>3. ToClient' = ToClient
      BY <2>5, StillClient DEF ClientStill
    <3> QED BY <2>1, <3>1, <3>2, <3>3
  <2>6. ASSUME NEW k \in Requests \cup {"subscribe", "unsubscribe"},
               FirstRequest(k) \/ AnswerQuery(k) \/ ChangeRules(k)
        PROVE  ChangeComing'
    <3>1. handler = "loop" /\ (AnswerQuery(k) \/ ChangeRules(k))
      BY <2>0, <2>6 DEF FirstRequest, AnswerQuery, ChangeRules
    <3>2. /\ handler' = handler /\ shown' = shown /\ view' = view /\ Receives(k)
          /\ c2d' = Rest(d_held, c2d) /\ c_out' = c_out
      BY <3>1, ClientKept DEF AnswerQuery, ChangeRules, Answer, tui
    <3>3. k # "list" => Alike(ToDaemon', ToDaemon, {"list"})
      BY <3>2, Receiving
    <3>4. ASSUME NEW m, Sent(m)
          PROVE  /\ m.kind = "Ok" => Bodies(ToClient', {"Ok"}) # {}
                 /\ m.kind = "Rules" => \E i \in Bodies(ToClient', {"Rules"}) : ToClient'[i].msg = m
      <4>1. Grows(ToClient', ToClient, m)
        BY <3>4 DEF Sent
      <4>2. /\ m.kind \in {"Ok"} => Len(ToClient) + 2 \in Bodies(ToClient', {"Ok"})
            /\ m.kind \in {"Rules"} => Len(ToClient) + 2 \in Bodies(ToClient', {"Rules"})
            /\ ToClient'[Len(ToClient) + 2].msg = m
        BY <1>1, <4>1, BodiesGrow
      <4> QED BY <4>2
    <3>5. CASE AnswerQuery(k)
      <4>1. written' = written
        BY <3>5 DEF AnswerQuery
      <4>2. CASE k = "list" /\ Sent(Reply("Rules", disk))
        <5>1. Reply("Rules", disk).kind = "Rules" /\ Reply("Rules", disk).n = disk
          BY DEF Reply
        <5>2. PICK i \in Bodies(ToClient', {"Rules"}) : ToClient'[i].msg = Reply("Rules", disk)
          BY <3>4, <4>2, <5>1
        <5>3. ToClient'[i].msg.n >= written'
          BY <1>1, <4>1, <5>1, <5>2
        <5> QED BY <5>3 DEF ChangeComing
      <4>3. CASE k = "stats" /\ Sent(Reply("Stats", 0))
        <5>1. \E m \in Messages : Sent(m) /\ m.kind \notin {"Ok", "Rules"}
          BY <4>3 DEF Sent, Reply
        <5> QED BY <2>1, <3>2, <3>3, <4>1, <4>3, <5>1
      <4> QED BY <3>5, <4>2, <4>3, Answering
    <3>6. CASE ChangeRules(k)
      <4>1. k # "list"
        BY <3>6 DEF ChangeRules
      <4>2. CASE Sent(Reply("Ok", 0))
        <5>1. Reply("Ok", 0).kind = "Ok"
          BY DEF Reply
        <5>2. Bodies(ToClient', {"Ok"}) # {}
          BY <3>4, <4>2, <5>1
        <5> QED BY <5>2 DEF ChangeComing
      <4>3. CASE Sent(Reply("Error", 0)) /\ written' = written
        <5>1. \E m \in Messages : Sent(m) /\ m.kind \notin {"Ok", "Rules"}
          BY <4>3 DEF Sent, Reply
        <5> QED BY <2>1, <3>2, <3>3, <4>1, <4>3, <5>1
      <4> QED BY <3>6, <4>2, <4>3, Answering
    <3> QED BY <3>1, <3>5, <3>6
  <2>7. CASE RecvEvent
    <3>1. handler' = handler /\ UNCHANGED <<shown, written, view>>
      BY <2>7 DEF RecvEvent, DropsRead, tui
    <3>2. ToClient' = ToClient \/ \E m \in Messages : Sent(m) /\ m.kind \notin {"Ok", "Rules"}
      BY <2>7, Broadcasting DEF Sent
    <3>3. ToDaemon' = ToDaemon
      BY <2>7, StillDaemon DEF DaemonStill
    <3> QED BY <2>1, <3>1, <3>2, <3>3
  <2>8. CASE ClientConsumes
    <3>1. handler' = handler /\ UNCHANGED <<shown, written, view>>
      BY <2>8 DEF ClientConsumes, daemon, history
    <3>2. Alike(ToClient', ToClient, {"Ok"}) /\ Alike(ToClient', ToClient, {"Rules"})
      BY <1>0, <2>8, LengthsConsumed
    <3>3. ToDaemon' = ToDaemon
      BY <2>8, StillDaemon DEF DaemonStill
    <3> QED BY <2>1, <3>1, <3>2, <3>3
  <2>9. CASE GetsEvent \/ GetsAnswer("Stats") \/ GetsAnswer("Error")
    <3>1. handler' = handler /\ UNCHANGED <<shown, written, view>>
      BY <2>9 DEF GetsEvent, GetsAnswer, Taken, daemon
    <3>2. \E m \in Messages : Took(m) /\ m.kind \notin {"Ok", "Rules"}
      <4>1. \E k \in {"Event", "Stats", "Error"} : Gets("run", k) /\ Taken
        BY <2>9 DEF GetsEvent, GetsAnswer
      <4> QED BY <4>1, Taking DEF Took
    <3>3. ToDaemon' = ToDaemon
      BY <2>9, StillDaemon DEF DaemonStill
    <3> QED BY <2>1, <3>1, <3>2, <3>3
  <2>10. CASE GetsAnswer("Rules")
    <3>1. Took(d2c[1].msg) /\ d2c[1].msg.kind = "Rules"
      BY <2>10, Taking DEF GetsAnswer
    <3>2. shown' = d2c[1].msg.n /\ disk' = disk /\ handler' = handler /\ view' = view /\ written' = written
      BY <2>10 DEF GetsAnswer, Taken, daemon
    <3>3. ToDaemon' = ToDaemon
      BY <2>10, StillDaemon DEF DaemonStill
    <3>4. shown' \in shown .. disk
      BY <2>0, <3>1, <3>2, ListTaken
    <3>5. SUFFICES ASSUME handler' = "loop", view' = "Rules"
                   PROVE  \/ shown' >= written' \/ Bodies(ToDaemon', {"list"}) # {}
                          \/ Bodies(ToClient', {"Ok"}) # {}
                          \/ \E i \in Bodies(ToClient', {"Rules"}) : ToClient'[i].msg.n >= written'
      BY DEF ChangeComing
    <3>6. CASE shown >= written
      BY <1>1, <3>2, <3>4, <3>6
    <3>7. CASE Bodies(ToDaemon, {"list"}) # {}
      BY <3>3, <3>7
    <3>8. CASE Bodies(ToClient, {"Ok"}) # {}
      <4>1. \E m \in Messages : Took(m) /\ m.kind \notin {"Ok"}
        BY <3>1 DEF Took
      <4>2. Alike(ToClient', ToClient, {"Ok"})
        BY <4>1, AlikeStream
      <4> QED BY <3>8, <4>2, AlikeKeeps
    <3>9. ASSUME NEW i \in Bodies(ToClient, {"Rules"}), ToClient[i].msg.n >= written
          PROVE  \/ shown' >= written'
                 \/ \E j \in Bodies(ToClient', {"Rules"}) : ToClient'[j].msg.n >= written'
      <4>1. PICK d \in {1, 2} : Leads(d, ToClient, d2c[1].msg) /\ Sheds(ToClient', ToClient, d)
        BY <3>1 DEF Took
      <4>2. ToClient[d].msg = d2c[1].msg /\ (i = d \/ i > d)
        BY <1>1, <4>1, BodiesLed
      <4>3. CASE i = d
        BY <3>2, <3>9, <4>2, <4>3
      <4>4. CASE i > d
        <5>1. i - d \in Bodies(ToClient', {"Rules"}) /\ ToClient'[i - d] = ToClient[i]
          BY <1>1, <4>1, <4>4, BodiesShed
        <5> QED BY <3>2, <3>9, <5>1
      <4> QED BY <4>2, <4>3, <4>4
    <3> QED BY <2>0, <3>2, <3>5, <3>6, <3>7, <3>8, <3>9 DEF ChangeComing
  <2>11. ASSUME NEW r \in Requests \cup {"subscribe", "unsubscribe"},
                c_out = <<>>, c_out' = Frame(Request(r)), c2d' = c2d
         PROVE  /\ Grows(ToDaemon', ToDaemon, Request(r))
                /\ r = "list" => ChangeComing'
    <3>1. Grows(ToDaemon', ToDaemon, Request(r)) /\ Request(r).kind = r
      BY <2>11, Asking
    <3>2. Request(r).kind \in {"list"} => Len(ToDaemon) + 2 \in Bodies(ToDaemon', {"list"})
      BY <1>1, <3>1, BodiesGrow
    <3>3. r = "list" => Bodies(ToDaemon', {"list"}) # {}
      BY <3>1, <3>2
    <3> QED BY <3>1, <3>3 DEF ChangeComing
  <2>12. CASE GetsOk
    <3>1. view' = view /\ c_out = <<>> /\ c2d' = c2d /\ (view = "Rules" => c_out' = Frame(Request("list")))
      BY <2>12 DEF GetsOk, Gets, Taken, Refreshes
    <3> QED BY <1>2, <2>11, <3>1 DEF Requests
  <2>13. CASE \E v \in {"Live", "Rules", "Stats"} : SwitchTo(v)
    <3>1. c_out = <<>> /\ c2d' = c2d /\ (view' # "Rules" \/ c_out' = Frame(Request("list")))
      BY <2>13 DEF SwitchTo, AtSelect, wire, Sends
    <3> QED BY <1>2, <2>11, <3>1 DEF Requests
  <2>14. CASE EndEdit
    <3>1. c_out = <<>> /\ c2d' = c2d /\ c_out' = Frame(Request("list"))
      BY <1>0, <2>14 DEF EndEdit, Writing, wire, Sends
    <3> QED BY <2>11, <3>1 DEF Requests
  <2>15. ASSUME NEW r \in Requests \cup Others, Ask(r) PROVE ChangeComing'
    <3>1. c_out = <<>> /\ c2d' = c2d /\ c_out' = Frame(Request(r)) /\ handler' = handler
          /\ UNCHANGED <<shown, written, view>>
      BY <2>15 DEF Ask, AtSelect, wire, daemon, Sends
    <3>2. r \in Requests \cup {"subscribe", "unsubscribe"}
      BY ClientsAssumption
    <3>3. Grows(ToDaemon', ToDaemon, Request(r))
      BY <2>11, <3>1, <3>2
    <3>4. ToClient' = ToClient
      BY <2>15, StillClient DEF ClientStill
    <3> QED BY <2>1, <3>1, <3>3, <3>4
  <2>16. ~Leaves /\ ~DaemonLosesClient /\ ~GetsHello /\ ~GetsAck
    BY <1>4, LeavingClient DEF DaemonLosesClient, GetsHello, GetsAck, Gets
  <2> QED BY <2>2, <2>3, <2>4, <2>5, <2>6, <2>7, <2>8, <2>9, <2>10, <2>12, <2>13, <2>14, <2>15,
             <2>16, Steps
<1> QED
  BY <1>3, <1>4

---------------------------------------------------------------------------
(* The session                                                             *)

LEMMA InitOK ==
    ASSUME Init
    PROVE  IInv
<1> DEFINE m == Reply("Hello", 0)
<1>0. m \in Messages /\ m.kind = "Hello"
  <2>1. m \in Messages
    BY MessagesAre, 0 \in Nat
  <2> QED BY <2>1 DEF Reply
<1>1. /\ c2d = <<>> /\ d2c = <<>> /\ handler = "hello" /\ d_out = Frame(m) /\ d_held = "none"
      /\ rx = 1 /\ published = 0 /\ client = "hello" /\ c_out = <<>> /\ c_held = "none"
      /\ view = "Live" /\ shown = 0 /\ rows = <<>> /\ disk = 1 /\ requests = 0 /\ changes = 0
      /\ owed = <<>> /\ written = 1 /\ skipped = {}
  BY DEF Init
<1>2. ~amiss /\ ~torn /\ amiss \in BOOLEAN /\ torn \in BOOLEAN
  BY Zenon DEF Init
<1>3. Frame(m) \in Seq(Pieces) /\ Len(Frame(m)) = 2 /\ Frame(m) # <<>>
      /\ Frame(m)[1].part = "len" /\ Frame(m)[1].msg = m
      /\ Frame(m)[2] = [part |-> "body", msg |-> m] /\ Frame(m)[1] = [part |-> "len", msg |-> m]
      /\ Frame(m)[2].part = "body" /\ Frame(m)[2].msg = m
  BY <1>0, FrameOf
<1>4. ToClient = Frame(m) /\ ToDaemon = <<>>
  BY <1>1, <1>3 DEF ToClient, ToDaemon
<1> HIDE DEF m
<1>5. TypeOK
  <2>1. /\ c2d \in Seq(Pieces) /\ Len(c2d) <= RoomToDaemon
        /\ d2c \in Seq(Pieces) /\ Len(d2c) <= RoomToClient
        /\ c_out \in Seq(Pieces) /\ Len(c_out) <= 2
    BY <1>1, RoomAssumption
  <2>2. /\ published \in 0 .. MaxEvents /\ rx \in 1 .. MaxEvents + 1
        /\ requests \in 0 .. MaxRequests /\ changes \in 0 .. MaxChanges
        /\ shown \in 0 .. disk /\ written \in 1 .. disk /\ disk \in Nat
    BY <1>1, RoomAssumption
  <2>3. rows \in Seq(1 .. MaxEvents) /\ owed \in Seq(Requests) /\ skipped \in SUBSET (1 .. MaxEvents)
    BY <1>1
  <2> QED BY <1>1, <1>2, <1>3, <2>1, <2>2, <2>3 DEF TypeOK, HeldStates
<1>6. Writing /\ EventsInOrder
  BY <1>1, <1>3 DEF Writing, EventsInOrder
<1>7. \A kinds : "Hello" \notin kinds => Bodies(ToClient, kinds) = {}
  <2> TAKE kinds
  <2> SUFFICES ASSUME "Hello" \notin kinds, NEW i \in Bodies(ToClient, kinds) PROVE FALSE
    OBVIOUS
  <2>1. i \in DOMAIN Frame(m) /\ Frame(m)[i].msg.kind \in kinds
    BY <1>4 DEF Bodies
  <2>2. i \in 1 .. 2
    BY <1>3, <2>1
  <2>3. i = 1 \/ i = 2
    BY <2>2
  <2>4. Frame(m)[i].msg = m
    BY <1>3, <2>3
  <2> QED BY <1>0, <2>1, <2>4
<1>8. Opening
  <2>1. Len(ToDaemon) <= 2 /\ Len(ToClient) <= 2
    <3>1. Len(ToDaemon) = 0
      BY <1>4
    <3>2. Len(ToClient) = 2
      BY <1>3, <1>4
    <3> QED BY <3>1, <3>2
  <2>2. Bodies(ToClient, AnswerKinds) = {}
    BY <1>7 DEF AnswerKinds
  <2> QED BY <1>1, <1>4, <2>1, <2>2 DEF Opening
<1>9. Aligned(c_held, ToClient, torn)
  <2>1. Framed(ToClient)
    <3> SUFFICES ASSUME NEW i \in DOMAIN Frame(m)
                 PROVE  IF Frame(m)[i].part = "len"
                        THEN i < Len(Frame(m)) /\ Frame(m)[i + 1] = [part |-> "body", msg |-> Frame(m)[i].msg]
                        ELSE i > 1 => Frame(m)[i - 1] = [part |-> "len", msg |-> Frame(m)[i].msg]
      BY <1>4 DEF Framed
    <3>1. i \in 1 .. 2
      BY <1>3
    <3>2. CASE i = 1
      <4>1. i + 1 = 2 /\ i < Len(Frame(m))
        BY <1>3, <3>2
      <4> QED BY <1>3, <3>2, <4>1
    <3>3. CASE i = 2
      <4>1. i - 1 = 1
        BY <3>3
      <4> QED BY <1>3, <3>3, <4>1
    <3> QED BY <3>1, <3>2, <3>3
  <2>2. WholeFrames(ToClient)
    BY <1>3, <1>4 DEF WholeFrames
  <2> QED BY <1>1, <2>1, <2>2 DEF Aligned
<1>10. Aligned(d_held, ToDaemon, torn)
  BY <1>1, <1>4 DEF Aligned, Framed, WholeFrames
<1>11. EventsComing
  <2>1. Bodies(ToClient, {"Event"}) = {}
    BY <1>7
  <2> QED BY <1>1, <2>1 DEF EventsComing
<1>12. ListsComing
  <2>1. Bodies(ToClient, {"Rules"}) = {}
    BY <1>7
  <2> QED BY <2>1 DEF ListsComing
<1>13. (~torn => ~amiss) /\ client = "hello"
  BY <1>1, <1>2
<1> QED
  BY <1>5, <1>6, <1>8, <1>9, <1>10, <1>11, <1>12, <1>13 DEF IInv

LEMMA StepOK ==
    ASSUME IInv, Next
    PROVE  IInv'
<1>1. TypeOK'
  <2>1. /\ c2d' \in Seq(Pieces) /\ Len(c2d') <= RoomToDaemon
        /\ d2c' \in Seq(Pieces) /\ Len(d2c') <= RoomToClient
    BY WireTypes
  <2>2. /\ handler' \in {"hello", "first", "ok", "refuse", "loop", "end"}
        /\ d_out' \in Seq(Pieces) /\ Len(d_out') <= 2 /\ d_held' \in HeldStates
    BY DaemonTypes
  <2>3. /\ client' \in {"hello", "ack", "run", "edit", "gone"}
        /\ c_out' \in Seq(Pieces) /\ Len(c_out') <= 2 /\ c_held' \in HeldStates
        /\ view' \in {"Live", "Rules", "Stats"}
    BY ClientTypes
  <2> QED BY <2>1, <2>2, <2>3, CounterTypes, HistoryTypes DEF TypeOK
<1>2. Writing' /\ Opening'
  BY WritingStep, OpeningStep
<1>3. EventsInOrder' /\ (client' # "gone" => EventsComing')
  BY EventsStep
<1>4. client' # "gone" => Aligned(c_held', ToClient', torn') /\ ListsComing'
  BY ClientAligned, ListsStep
<1>5. handler' # "end" => Aligned(d_held', ToDaemon', torn')
  BY DaemonAligned
<1>6. ~torn' => ~amiss'
  BY AmissStep
<1>7. ~torn' /\ client' \in {"run", "edit"} => AnswersComing' /\ ChangeComing'
  BY AnswersStep, ChangeStep
<1> QED
  BY <1>1, <1>2, <1>3, <1>4, <1>5, <1>6, <1>7 DEF IInv

LEMMA StutterOK ==
    ASSUME IInv, UNCHANGED vars
    PROVE  IInv'
<1>1. /\ UNCHANGED <<c2d, d2c, handler, d_out, d_held, rx, published, client, c_out, c_held>>
      /\ UNCHANGED <<view, shown, rows, disk, requests, changes, owed, amiss, written, skipped, torn>>
  BY DEF vars, wire, daemon, tui, history
<1>2. ToClient' = ToClient /\ ToDaemon' = ToDaemon
  BY <1>1 DEF ToClient, ToDaemon
<1>3. TypeOK' /\ Writing' /\ EventsInOrder'
  BY <1>1 DEF IInv, TypeOK, Writing, EventsInOrder
<1>4. Opening'
  BY <1>1, <1>2 DEF IInv, Opening
<1>5. client' # "gone" => Aligned(c_held', ToClient', torn') /\ EventsComing' /\ ListsComing'
  BY <1>1, <1>2 DEF IInv, EventsComing, ListsComing
<1>6. handler' # "end" => Aligned(d_held', ToDaemon', torn')
  BY <1>1, <1>2 DEF IInv
<1>7. ~torn' => ~amiss'
  BY <1>1, Zenon DEF IInv
<1>8. ~torn' /\ client' \in {"run", "edit"} => AnswersComing' /\ ChangeComing'
  BY <1>1, <1>2 DEF IInv, AnswersComing, ChangeComing
<1> QED
  BY <1>3, <1>4, <1>5, <1>6, <1>7, <1>8 DEF IInv

\* What is on its way to either end fits what each has done and what is owed.
THEOREM Invariant == Spec => []IInv
<1>1. Init => IInv
  BY InitOK
<1>2. IInv /\ [Next]_vars => IInv'
  BY StepOK, StutterOK
<1> QED
  BY <1>1, <1>2, PTL DEF Spec

\* Every variable stays in its range; neither socket buffer overflows.
THEOREM TypeCorrect == Spec => []TypeOK
<1>1. IInv => TypeOK
  BY DEF IInv
<1> QED
  BY <1>1, Invariant, PTL

\* handle_client's broadcast arm and the TUI's reader: the Live view gets each event
\* once and in order, and none is passed over but those dropped or refused.
THEOREM EventsCorrect == Spec => []EventsInOrder
<1>1. IInv => EventsInOrder
  BY DEF IInv
<1> QED
  BY <1>1, Invariant, PTL

\* read_message, write_message and the two select loops: while no frame is torn, each
\* answer is to the oldest request, and at rest every request has been answered.
THEOREM AnswersCorrect == Spec => []AnswersInOrder
<1>1. IInv => AnswersInOrder
  <2> SUFFICES ASSUME IInv, ~torn PROVE ~amiss /\ (Quiet => owed = <<>>)
    BY Zenon DEF AnswersInOrder
  <2>1. ~amiss
    BY Zenon DEF IInv
  <2>2. ASSUME Quiet PROVE owed = <<>>
    <3>1. handler = "loop" /\ client = "run" /\ ToClient = <<>> /\ ToDaemon = <<>>
      BY <2>2 DEF Quiet, ToClient, ToDaemon
    <3>2. PICK p, q : AskedAfter(ToClient, ToDaemon, owed, p, q)
      BY <3>1 DEF IInv, AnswersComing, Orderly
    <3>3. Bodies(ToClient, AnswerKinds) = {} /\ Bodies(ToDaemon, Requests) = {}
      BY <3>1 DEF Bodies
    <3>4. owed \in Seq(Requests)
      BY DEF IInv, TypeOK
    <3> QED BY <3>2, <3>3, <3>4, OrderlyRest
  <2> QED BY <2>1, <2>2
<1> QED
  BY <1>1, Invariant, PTL

\* main's refresh after an Ok, App::switch_to and edit_rule: at rest the Rules view
\* shows the user's last change.
THEOREM ViewCorrect == Spec => []RulesViewFresh
<1>1. IInv => RulesViewFresh
  <2> SUFFICES ASSUME IInv, Quiet, ~torn, view = "Rules" PROVE shown >= written
    BY DEF RulesViewFresh
  <2>1. handler = "loop" /\ client = "run" /\ ToClient = <<>> /\ ToDaemon = <<>>
    BY DEF Quiet, ToClient, ToDaemon
  <2>2. Bodies(ToClient, {"Ok"}) = {} /\ Bodies(ToDaemon, {"list"}) = {}
        /\ Bodies(ToClient, {"Rules"}) = {}
    BY <2>1 DEF Bodies
  <2> QED BY <2>1, <2>2 DEF IInv, ChangeComing
<1> QED
  BY <1>1, Invariant, PTL

=============================================================================

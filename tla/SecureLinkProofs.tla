-------------------------- MODULE SecureLinkProofs --------------------------
(***************************************************************************)
(* For every set of connections and every bound: the two ends of a secure  *)
(* link stay in step, and the link is Wire to those who use it.            *)
(*                                                                         *)
(* The inductive invariant says of each connection which of five phases it *)
(* is in, and what is under way in it; both theorems follow from it.       *)
(***************************************************************************)
EXTENDS SecureLink, SequenceTheorems, TLAPS

Requested == {Data(f) : f \in Requests \cup {KeyRequest}}
Replied == {Data(f) : f \in Replies} \cup {Raw(ErrorReply)}

Absent(c) ==
    /\ link[c] \in {"free", "opening"}
    /\ ~connected[c]
    /\ c \notin keyed
    /\ Step(c, "none", "idle", << >>, << >>)

ShakingHands(c) ==
    /\ link[c] = "open"
    /\ ~connected[c]
    /\ c \notin keyed
    /\ \/ Step(c, "init", "idle", <<Control("init")>>, << >>)
       \/ Step(c, "init", "proceed", << >>, <<Control("reply")>>)
       \/ Step(c, "finish", "proceed", <<Control("confirm")>>, << >>)
       \/ Step(c, "finish", "established", << >>, <<Control("confirmed")>>)

Talking(c) ==
    /\ link[c] = "open"
    /\ connected[c]
    /\ client[c] = "established"
    /\ server[c] = "established"
    /\ up[c] \in Seq(Requested)
    /\ down[c] \in Seq(Replied)

BrokenOff(c) ==
    /\ link[c] = "closed"
    /\ ~connected[c]
    /\ c \notin keyed
    /\ client[c] = "none"
    /\ down[c] = << >>
    /\ \/ server[c] \in {"idle", "proceed", "established"} /\ up[c] = << >>
       \/ server[c] = "idle" /\ up[c] = <<Control("init")>>
       \/ server[c] = "proceed" /\ up[c] = <<Control("confirm")>>

Leaving(c) ==
    /\ link[c] = "closed"
    /\ connected[c]
    /\ client[c] = "none"
    /\ server[c] = "established"
    /\ up[c] \in Seq(Requested)
    /\ down[c] = << >>

Phase(c) == Absent(c) \/ ShakingHands(c) \/ Talking(c) \/ BrokenOff(c) \/ Leaving(c)

Functions ==
    /\ link \in [Conns -> {"free", "opening", "open", "closed"}]
    /\ client \in [Conns -> {"none", "init", "finish", "established"}]
    /\ server \in [Conns -> {"idle", "proceed", "established"}]
    /\ connected \in [Conns -> BOOLEAN]
    /\ keyed \subseteq Conns
    /\ DOMAIN up = Conns /\ up = [c \in Conns |-> up[c]]
    /\ DOMAIN down = Conns /\ down = [c \in Conns |-> down[c]]

Inv == Functions /\ \A c \in Conns : Phase(c)

-----------------------------------------------------------------------------
(* Sequences of messages and of the frames in them.                        *)
LEMMA FramesAre ==
    ASSUME NEW D, NEW q \in Seq(D)
    PROVE  /\ DOMAIN Frames(q) = 1 .. Len(q)
           /\ Frames(q) \in Seq({m.frame : m \in D})
           /\ Len(Frames(q)) = Len(q)
           /\ \A i \in 1 .. Len(q) : Frames(q)[i] = q[i].frame
  BY DEF Frames

LEMMA WrapIs ==
    ASSUME NEW S, NEW fs \in Seq(S)
    PROVE  /\ Wrap(fs) \in Seq({Data(f) : f \in S})
           /\ Len(Wrap(fs)) = Len(fs)
           /\ \A i \in 1 .. Len(fs) : Wrap(fs)[i] = Data(fs[i]) /\ Wrap(fs)[i].frame = fs[i]
  BY DEF Wrap, Data, Message

LEMMA FramesTail ==
    ASSUME NEW D, NEW q \in Seq(D), q # << >>
    PROVE  Frames(Tail(q)) = Tail(Frames(q)) /\ Head(Frames(q)) = Head(q).frame /\ Frames(q) # << >>
  BY FramesAre DEF Frames

LEMMA FramesSubSeq ==
    ASSUME NEW D, NEW q \in Seq(D), NEW n \in 0 .. Len(q)
    PROVE  Frames(SubSeq(q, 1, n)) = SubSeq(Frames(q), 1, n)
  BY FramesAre DEF Frames

LEMMA ConcatOfTwo ==
    ASSUME NEW S, NEW T, NEW s \in Seq(S), NEW t \in Seq(T)
    PROVE  /\ s \o t \in Seq(S \cup T)
           /\ Len(s \o t) = Len(s) + Len(t)
           /\ \A i \in 1 .. Len(s) + Len(t) :
                  (s \o t)[i] = IF i <= Len(s) THEN s[i] ELSE t[i - Len(s)]
  <1>1. s \in Seq(S \cup T) /\ t \in Seq(S \cup T)
    BY SeqMonotonic
  <1> QED
    BY <1>1, ConcatProperties

LEMMA SameSeq ==
    ASSUME NEW S, NEW T, NEW s \in Seq(S), NEW t \in Seq(T),
           Len(s) = Len(t), \A i \in 1 .. Len(s) : s[i] = t[i]
    PROVE  s = t
  <1>1. s \in Seq(S \cup T) /\ t \in Seq(S \cup T)
    BY SeqMonotonic
  <1> QED
    BY <1>1, SeqEqual

LEMMA FramesOfMore ==
    ASSUME NEW D, NEW q \in Seq(D), NEW S, NEW fs \in Seq(S)
    PROVE  Frames(q \o Wrap(fs)) = Frames(q) \o fs
  <1> DEFINE W == Wrap(fs)
             F == Frames(q)
             DW == {Data(f) : f \in S}
             FD == {m.frame : m \in D}
  <1>1. W \in Seq(DW) /\ Len(W) = Len(fs) /\ \A i \in 1 .. Len(fs) : W[i].frame = fs[i]
    BY WrapIs
  <1>2. F \in Seq(FD) /\ Len(F) = Len(q) /\ \A i \in 1 .. Len(q) : F[i] = q[i].frame
    BY FramesAre
  <1>3. Len(q) \in Nat /\ Len(fs) \in Nat
    BY LenProperties
  <1> HIDE DEF W, F, DW, FD
  <1>4. /\ q \o W \in Seq(D \cup DW)
        /\ Len(q \o W) = Len(q) + Len(fs)
        /\ \A i \in 1 .. Len(q) + Len(fs) :
               (q \o W)[i] = IF i <= Len(q) THEN q[i] ELSE W[i - Len(q)]
    <2>1. W \in Seq(DW) /\ q \in Seq(D)
      BY <1>1
    <2>2. /\ q \o W \in Seq(D \cup DW)
          /\ Len(q \o W) = Len(q) + Len(W)
          /\ \A i \in 1 .. Len(q) + Len(W) :
                 (q \o W)[i] = IF i <= Len(q) THEN q[i] ELSE W[i - Len(q)]
      BY <2>1, ConcatOfTwo
    <2> QED
      BY <2>2, <1>1
  <1>5. /\ F \o fs \in Seq(FD \cup S)
        /\ Len(F \o fs) = Len(q) + Len(fs)
        /\ \A i \in 1 .. Len(q) + Len(fs) :
               (F \o fs)[i] = IF i <= Len(q) THEN F[i] ELSE fs[i - Len(q)]
    <2>1. F \in Seq(FD) /\ fs \in Seq(S)
      BY <1>2
    <2>2. /\ F \o fs \in Seq(FD \cup S)
          /\ Len(F \o fs) = Len(F) + Len(fs)
          /\ \A i \in 1 .. Len(F) + Len(fs) :
                 (F \o fs)[i] = IF i <= Len(F) THEN F[i] ELSE fs[i - Len(F)]
      BY <2>1, ConcatOfTwo
    <2> QED
      BY <2>2, <1>2
  <1>6. /\ Frames(q \o W) \in Seq({m.frame : m \in D \cup DW})
        /\ Len(Frames(q \o W)) = Len(q) + Len(fs)
        /\ \A i \in 1 .. Len(q) + Len(fs) : Frames(q \o W)[i] = (q \o W)[i].frame
    BY <1>4, FramesAre
  <1>7. ASSUME NEW i \in 1 .. Len(q) + Len(fs)
        PROVE  (q \o W)[i].frame = (F \o fs)[i]
    <2>1. CASE i <= Len(q)
      BY <2>1, <1>2, <1>3, <1>4, <1>5
    <2>2. CASE ~(i <= Len(q))
      <3>1. i - Len(q) \in 1 .. Len(fs)
        BY <2>2, <1>3
      <3>2. (q \o W)[i] = W[i - Len(q)] /\ (F \o fs)[i] = fs[i - Len(q)]
        BY <2>2, <1>4, <1>5
      <3> QED
        BY <3>1, <3>2, <1>1
    <2> QED
      BY <2>1, <2>2
  <1>8. Frames(q \o W) = F \o fs
    BY <1>5, <1>6, <1>7, SameSeq
  <1> QED
    BY <1>8 DEF W, F

LEMMA FramesOfOneMore ==
    ASSUME NEW D, NEW q \in Seq(D), NEW m \in D
    PROVE  Frames(Append(q, m)) = Frames(q) \o <<m.frame>>
  <1> DEFINE FD == {d.frame : d \in D}
  <1>1. /\ Append(q, m) \in Seq(D)
        /\ Len(Append(q, m)) = Len(q) + 1
        /\ Append(q, m)[Len(q) + 1] = m
        /\ \A i \in 1 .. Len(q) : Append(q, m)[i] = q[i]
    BY AppendProperties
  <1>2. Frames(q) \in Seq(FD) /\ Len(Frames(q)) = Len(q)
    BY FramesAre
  <1>3. <<m.frame>> \in Seq(FD)
    OBVIOUS
  <1>4. /\ Frames(q) \o <<m.frame>> \in Seq(FD)
        /\ Len(Frames(q) \o <<m.frame>>) = Len(q) + 1
        /\ \A i \in 1 .. Len(q) + 1 : (Frames(q) \o <<m.frame>>)[i] =
               IF i <= Len(q) THEN Frames(q)[i] ELSE <<m.frame>>[i - Len(q)]
    <2>1. Len(<<m.frame>>) = 1
      OBVIOUS
    <2>2. /\ Frames(q) \o <<m.frame>> \in Seq(FD)
          /\ Len(Frames(q) \o <<m.frame>>) = Len(Frames(q)) + Len(<<m.frame>>)
          /\ \A i \in 1 .. Len(Frames(q)) + Len(<<m.frame>>) : (Frames(q) \o <<m.frame>>)[i] =
                 IF i <= Len(Frames(q)) THEN Frames(q)[i] ELSE <<m.frame>>[i - Len(Frames(q))]
      BY <1>2, <1>3, ConcatProperties
    <2> QED
      BY <1>2, <2>1, <2>2
  <1>5. /\ Frames(Append(q, m)) \in Seq(FD)
        /\ Len(Frames(Append(q, m))) = Len(q) + 1
        /\ \A i \in 1 .. Len(q) + 1 : Frames(Append(q, m))[i] = Append(q, m)[i].frame
    BY <1>1, FramesAre
  <1>6. ASSUME NEW i \in 1 .. Len(q) + 1
        PROVE  Frames(Append(q, m))[i] = (Frames(q) \o <<m.frame>>)[i]
    <2>1. Len(q) \in Nat
      BY LenProperties
    <2>2. CASE i = Len(q) + 1
      <3>1. i - Len(q) = 1 /\ ~(i <= Len(q))
        BY <2>1, <2>2
      <3> QED
        BY <1>1, <1>4, <1>5, <2>2, <3>1
    <2>3. CASE i # Len(q) + 1
      <3>1. i \in 1 .. Len(q)
        BY <2>1, <2>3
      <3>2. Frames(q)[i] = q[i].frame
        BY <3>1, FramesAre
      <3>3. Append(q, m)[i] = q[i] /\ (Frames(q) \o <<m.frame>>)[i] = Frames(q)[i]
        BY <2>1, <3>1, <1>1, <1>4
      <3> QED
        BY <1>5, <3>2, <3>3
    <2> QED
      BY <2>2, <2>3
  <1> QED
    BY <1>4, <1>5, <1>6, SeqEqual

LEMMA FramesOfNone == Frames(<< >>) = << >>
  BY DEF Frames

-----------------------------------------------------------------------------
(* The invariant is kept.  What a step does not touch stays in its phase.  *)
Untouched(x) ==
    /\ link'[x] = link[x]
    /\ client'[x] = client[x]
    /\ server'[x] = server[x]
    /\ connected'[x] = connected[x]
    /\ x \in keyed' <=> x \in keyed
    /\ up'[x] = up[x]
    /\ down'[x] = down[x]

(* A connection that a step leaves alone stays in its phase.               *)
LEMMA PhaseKept ==
    ASSUME NEW x, Phase(x), Untouched(x)
    PROVE  Phase(x)'
  BY DEF Untouched, Phase, Absent, ShakingHands, Talking, BrokenOff, Leaving, Step

LEMMA KindsDiffer ==
    /\ \A m \in Requested : m.kind = "data"
    /\ \A m \in Replied : m.kind \in {"data", "raw"}
    /\ \A kind : Control(kind).kind = kind
  BY DEF Requested, Replied, Data, Raw, Control, Message

(* The phases, one action after the other.                                 *)
LEMMA InitInv == Init => Inv
  BY DEF Init, Inv, Functions, Phase, Absent, Step

LEMMA RestartInv == Restart => Inv'
  BY DEF Restart, Inv, Functions, Phase, Absent, Step

LEMMA OpenInv ==
    ASSUME Inv, NEW c \in Conns, Open(c) \/ OpenFails(c)
    PROVE  Inv'
  <1>1. Functions'
    BY DEF Inv, Functions, Open, OpenFails
  <1>2. Phase(c)'
    BY DEF Inv, Functions, Open, OpenFails, Phase, Absent, ShakingHands, Talking, BrokenOff,
           Leaving, Step
  <1>3. ASSUME NEW x \in Conns, x # c PROVE Untouched(x)
    BY <1>3 DEF Inv, Functions, Open, OpenFails, Untouched
  <1> QED
    BY <1>1, <1>2, <1>3, PhaseKept DEF Inv

LEMMA OnConnectInv ==
    ASSUME Inv, NEW c \in Conns, OnConnect(c)
    PROVE  Inv'
  <1>1. Functions'
    BY DEF Inv, Functions, OnConnect, Sends
  <1>2. Absent(c)
    BY DEF Inv, OnConnect, Phase, Absent, ShakingHands, Talking, BrokenOff, Leaving
  <1>3. up'[c] = << >> \o <<Control("init")>>
    BY <1>2 DEF Inv, Functions, OnConnect, Sends, Absent, Step
  <1>4. up'[c] = <<Control("init")>>
    BY <1>3
  <1>5. Phase(c)'
    BY <1>2, <1>4 DEF Inv, Functions, OnConnect, Phase, Absent, ShakingHands, Step
  <1>6. ASSUME NEW x \in Conns, x # c PROVE Untouched(x)
    BY <1>6 DEF Inv, Functions, OnConnect, Sends, Untouched
  <1> QED
    BY <1>1, <1>5, <1>6, PhaseKept DEF Inv

LEMMA OnReplyInv ==
    ASSUME Inv, NEW c \in Conns, OnReply(c)
    PROVE  Inv'
  <1>1. Functions'
    BY DEF Inv, Functions, OnReply, Receives, Sends
  <1>2. ShakingHands(c) /\ Step(c, "init", "proceed", << >>, <<Control("reply")>>)
    BY KindsDiffer DEF Inv, OnReply, Receives, Phase, Absent, ShakingHands, Talking, BrokenOff,
                       Leaving, Step
  <1>3. up'[c] = << >> \o <<Control("confirm")>> /\ down'[c] = Tail(<<Control("reply")>>)
    BY <1>2 DEF Inv, Functions, OnReply, Receives, Sends, Step
  <1>4. up'[c] = <<Control("confirm")>> /\ down'[c] = << >>
    BY <1>3
  <1>5. Phase(c)'
    BY <1>2, <1>4 DEF Inv, Functions, OnReply, Receives, Phase, ShakingHands, Step
  <1>6. ASSUME NEW x \in Conns, x # c PROVE Untouched(x)
    BY <1>6 DEF Inv, Functions, OnReply, Receives, Sends, Untouched
  <1> QED
    BY <1>1, <1>5, <1>6, PhaseKept DEF Inv

(* connect_callback_ sends two wrapped requests, PUBKEY first.             *)
LEMMA FirstRequestsAre ==
    ASSUME NEW f \in Requests
    PROVE  /\ Wrap(<<KeyRequest, f>>) \in Seq(Requested)
           /\ Frames(Wrap(<<KeyRequest, f>>)) = <<KeyRequest, f>>
  <1>1. <<KeyRequest, f>> \in Seq(Requests \cup {KeyRequest})
    OBVIOUS
  <1>2. /\ Wrap(<<KeyRequest, f>>) \in Seq(Requested)
        /\ Len(Wrap(<<KeyRequest, f>>)) = 2
        /\ \A i \in 1 .. 2 : Wrap(<<KeyRequest, f>>)[i].frame = <<KeyRequest, f>>[i]
    BY <1>1, WrapIs DEF Requested
  <1>3. /\ Frames(Wrap(<<KeyRequest, f>>)) \in Seq({m.frame : m \in Requested})
        /\ Len(Frames(Wrap(<<KeyRequest, f>>))) = 2
        /\ \A i \in 1 .. 2 : Frames(Wrap(<<KeyRequest, f>>))[i] = <<KeyRequest, f>>[i]
    BY <1>2, FramesAre
  <1> QED
    BY <1>1, <1>2, <1>3, SameSeq

LEMMA OnEstablishedInv ==
    ASSUME Inv, NEW c \in Conns, OnEstablished(c)
    PROVE  Inv'
  <1>1. Functions'
    BY DEF Inv, Functions, OnEstablished, Receives, FirstRequests, Sends
  <1>2. ShakingHands(c) /\ Step(c, "finish", "established", << >>, <<Control("confirmed")>>)
    BY KindsDiffer DEF Inv, OnEstablished, Receives, Phase, Absent, ShakingHands, Talking,
                       BrokenOff, Leaving, Step
  <1>3. PICK f \in Requests : up' = [up EXCEPT ![c] = @ \o Wrap(<<KeyRequest, f>>)]
    BY DEF OnEstablished, FirstRequests, Sends
  <1>4. up'[c] = << >> \o Wrap(<<KeyRequest, f>>) /\ down'[c] = Tail(<<Control("confirmed")>>)
    BY <1>2, <1>3 DEF Inv, Functions, OnEstablished, Receives, Step
  <1>5. up'[c] \in Seq(Requested) /\ down'[c] = << >>
    BY <1>4, FirstRequestsAre
  <1>6. Phase(c)'
    <2>1. down'[c] \in Seq(Replied)
      BY <1>5, EmptySeq
    <2> QED
      BY <1>2, <1>5, <2>1
      DEF Inv, Functions, OnEstablished, Receives, Phase, ShakingHands, Talking, Step
  <1>7. ASSUME NEW x \in Conns, x # c PROVE Untouched(x)
    BY <1>3, <1>7 DEF Inv, Functions, OnEstablished, Receives, Untouched
  <1> QED
    BY <1>1, <1>6, <1>7, PhaseKept DEF Inv

(* Only who talks gets frames.                                             *)
LEMMA ReadingInv ==
    ASSUME Inv, NEW c \in Conns, OnData(c) \/ OnRaw(c)
    PROVE  Talking(c) /\ Inv'
  <1>1. Functions'
    BY DEF Inv, Functions, OnData, OnRaw, Receives
  <1>2. Talking(c)
    BY KindsDiffer DEF Inv, OnData, OnRaw, Receives, Phase, Absent, ShakingHands, Talking,
                       BrokenOff, Leaving, Step
  <1>3. down'[c] = Tail(down[c]) /\ down[c] # << >>
    BY DEF Inv, Functions, OnData, OnRaw, Receives
  <1>4. down'[c] \in Seq(Replied)
    BY <1>2, <1>3, HeadTailProperties DEF Talking
  <1>5. Phase(c)'
    BY <1>2, <1>4 DEF OnData, OnRaw, Receives, Phase, Talking
  <1>6. ASSUME NEW x \in Conns, x # c PROVE Untouched(x)
    BY <1>6 DEF Inv, Functions, OnData, OnRaw, Receives, Untouched
  <1> QED
    BY <1>1, <1>2, <1>5, <1>6, PhaseKept DEF Inv

LEMMA OneRequest ==
    ASSUME NEW f \in Requests
    PROVE  Wrap(<<f>>) = <<Data(f)>> /\ <<Data(f)>> \in Seq(Requested)
  BY DEF Wrap, Requested

LEMMA SendInv ==
    ASSUME Inv, NEW c \in Conns, Send(c)
    PROVE  Inv'
  <1>1. Functions'
    BY DEF Inv, Functions, Send, Sends
  <1>2. CASE client[c] = "established"
    <2>1. Talking(c)
      BY <1>2 DEF Inv, Send, Phase, Absent, ShakingHands, Talking, BrokenOff, Leaving, Step
    <2>2. PICK f \in Requests : up' = [up EXCEPT ![c] = @ \o <<Data(f)>>]
      BY <1>2 DEF Send, Sends
    <2>3. up'[c] = up[c] \o <<Data(f)>>
      BY <2>2 DEF Inv, Functions
    <2>4. up'[c] \in Seq(Requested)
      BY <2>1, <2>3, OneRequest, ConcatProperties DEF Talking
    <2>5. Phase(c)'
      BY <2>1, <2>4 DEF Send, Phase, Talking
    <2>6. ASSUME NEW x \in Conns, x # c PROVE Untouched(x)
      BY <2>2, <2>6 DEF Inv, Functions, Send, Untouched
    <2> QED
      BY <1>1, <2>5, <2>6, PhaseKept DEF Inv
  <1>3. CASE client[c] # "established"
    <2>1. \A x \in Conns : Untouched(x)
      BY <1>3 DEF Send, Untouched
    <2> QED
      BY <1>1, <2>1, PhaseKept DEF Inv
  <1> QED
    BY <1>2, <1>3

(* What still arrives after the end is of the same kind.                   *)
LEMMA CutShort ==
    ASSUME NEW S, NEW q \in Seq(S), NEW n \in 0 .. Len(q)
    PROVE  /\ SubSeq(q, 1, n) \in Seq(S)
           /\ q = << >> => SubSeq(q, 1, n) = << >>
           /\ \A m : q = <<m>> => SubSeq(q, 1, n) \in {<< >>, <<m>>}
  <1>1. /\ n \in Nat /\ Len(q) \in Nat
        /\ \A i \in 1 .. n : q[i] \in S
    BY LenProperties, ElementOfSeq
  <1>2. /\ SubSeq(q, 1, n) \in Seq(S)
        /\ Len(SubSeq(q, 1, n)) = n
        /\ \A i \in 1 .. n : SubSeq(q, 1, n)[i] = q[i]
    BY <1>1, SubSeqProperties
  <1>3. n = 0 => SubSeq(q, 1, n) = << >>
    BY <1>2, EmptySeq, SeqEqual
  <1>4. ASSUME NEW m, q = <<m>>, n # 0
        PROVE  SubSeq(q, 1, n) = <<m>>
    <2>1. n = 1 /\ Len(q) = 1 /\ q[1] = m
      BY <1>1, <1>4
    <2> QED
      BY <1>2, <1>4, <2>1, SeqEqual
  <1> QED
    BY <1>1, <1>2, <1>3, <1>4

LEMMA CloseInv ==
    ASSUME Inv, NEW c \in Conns, Close(c)
    PROVE  Inv'
  <1>1. Functions'
    BY DEF Inv, Functions, Close
  <1>2. PICK n \in 0 .. Len(up[c]) : up' = [up EXCEPT ![c] = SubSeq(@, 1, n)]
    BY DEF Close
  <1>3. up'[c] = SubSeq(up[c], 1, n) /\ down'[c] = << >>
    BY <1>2 DEF Inv, Functions, Close
  <1>4. ShakingHands(c) \/ Talking(c)
    BY DEF Inv, Close, Phase, Absent, BrokenOff, Leaving
  <1>7. ASSUME NEW x \in Conns, x # c PROVE Untouched(x)
    BY <1>2, <1>7 DEF Inv, Functions, Close, Untouched
  <1>5. CASE Talking(c)
    <2>1. up'[c] \in Seq(Requested)
      BY <1>3, <1>5, CutShort DEF Talking
    <2>2. Leaving(c)'
      BY <1>3, <1>5, <2>1 DEF Inv, Functions, Close, Talking, Leaving
    <2> QED
      BY <1>1, <1>7, <2>2, PhaseKept DEF Inv, Phase
  <1>6. CASE ShakingHands(c)
    <2>1. \/ up[c] = << >>
          \/ server[c] = "idle" /\ up[c] = <<Control("init")>>
          \/ server[c] = "proceed" /\ up[c] = <<Control("confirm")>>
      BY <1>6 DEF ShakingHands, Step
    <2>2. up[c] \in Seq({Control("init"), Control("confirm")})
      <3>1. /\ << >> \in Seq({Control("init"), Control("confirm")})
            /\ <<Control("init")>> \in Seq({Control("init"), Control("confirm")})
            /\ <<Control("confirm")>> \in Seq({Control("init"), Control("confirm")})
        OBVIOUS
      <3> QED
        BY <2>1, <3>1
    <2>3. \/ up'[c] = << >>
          \/ server[c] = "idle" /\ up'[c] = <<Control("init")>>
          \/ server[c] = "proceed" /\ up'[c] = <<Control("confirm")>>
      BY <1>3, <2>1, <2>2, CutShort
    <2>4. BrokenOff(c)'
      BY <1>3, <1>6, <2>3 DEF Inv, Functions, Close, ShakingHands, BrokenOff
    <2> QED
      BY <1>1, <1>7, <2>4, PhaseKept DEF Inv, Phase
  <1> QED
    BY <1>4, <1>5, <1>6

LEMMA AnswersOneIs ==
    ASSUME Inv, NEW c \in Conns, NEW m, AnswersOne(c, m), NEW x \in Conns
    PROVE  down'[x] = IF link[x] = "open" /\ x = c THEN Append(down[x], m) ELSE down[x]
  <1>1. \/ down[x] = << >>
        \/ \E k \in {"reply", "confirmed"} : down[x] = <<Control(k)>>
        \/ down[x] \in Seq(Replied)
    BY DEF Inv, Phase, Absent, ShakingHands, Talking, BrokenOff, Leaving, Step
  <1>2. down[x] \in Seq(Replied \cup {Control("reply"), Control("confirmed")})
    <2> DEFINE T == Replied \cup {Control("reply"), Control("confirmed")}
    <2>1. << >> \in Seq(T) /\ \A k \in {"reply", "confirmed"} : <<Control(k)>> \in Seq(T)
      OBVIOUS
    <2>2. down[x] \in Seq(Replied) => down[x] \in Seq(T)
      BY SeqMonotonic
    <2> QED
      BY <1>1, <2>1, <2>2
  <1>3. down'[x] = IF link[x] = "open" THEN down[x] \o (IF x = c THEN <<m>> ELSE << >>) ELSE down[x]
    BY DEF AnswersOne, Answers
  <1>4. down[x] \o << >> = down[x]
    BY <1>2, ConcatEmptySeq
  <1>5. down[x] \o <<m>> = Append(down[x], m)
    BY <1>2
  <1> QED
    BY <1>3, <1>4, <1>5

LEMMA HandleControlInv ==
    ASSUME Inv, NEW c \in Conns, HandleControl(c)
    PROVE  ~connected[c] /\ Inv'
  <1> DEFINE
        First == OnControl(c, "init", "idle", "proceed", "reply")
        Second == OnControl(c, "confirm", "proceed", "established", "confirmed")
  <1>1. PICK m : AnswersOne(c, m)
    BY DEF HandleControl, OnControl
  <1>2. Functions'
    BY DEF Inv, Functions, HandleControl, OnControl, Arrives, AnswersOne, Answers
  <1>3. ASSUME NEW x \in Conns, x # c PROVE Untouched(x)
    <2>1. down'[x] = down[x]
      BY <1>1, <1>3, AnswersOneIs
    <2> QED
      BY <1>3, <2>1 DEF Inv, Functions, HandleControl, OnControl, Arrives, Untouched
  <1>4. CASE First
    <2>1. /\ server[c] = "idle" /\ up[c] = <<Control("init")>>
          /\ ~connected[c]
          /\ ShakingHands(c) \/ BrokenOff(c)
      BY <1>4, KindsDiffer DEF Inv, OnControl, Arrives, Phase, Absent, ShakingHands, Talking,
                               BrokenOff, Leaving, Step
    <2>2. up'[c] = Tail(<<Control("init")>>)
      BY <1>4, <2>1 DEF Inv, Functions, OnControl, Arrives
    <2>3. up'[c] = << >>
      BY <2>2
    <2>4. CASE ShakingHands(c)
      <3>1. client[c] = "init" /\ down[c] = << >> /\ link[c] = "open"
        BY <2>1, <2>4 DEF ShakingHands, Step
      <3>2. down'[c] = Append(<< >>, Control("reply"))
        <4>1. AnswersOne(c, Control("reply"))
          BY <1>4 DEF OnControl
        <4> QED
          BY <3>1, <4>1, AnswersOneIs
      <3>3. ShakingHands(c)'
        <4>1. down'[c] = <<Control("reply")>>
          BY <3>2
        <4> QED
          BY <1>4, <2>3, <2>4, <3>1, <4>1
          DEF Inv, Functions, OnControl, Arrives, ShakingHands, Step
      <3> QED
        BY <1>2, <1>3, <2>1, <3>3, PhaseKept DEF Inv, Phase
    <2>5. CASE BrokenOff(c)
      <3>1. down'[c] = << >>
        BY <1>1, <2>5, AnswersOneIs DEF BrokenOff
      <3>2. BrokenOff(c)'
        BY <1>4, <2>3, <2>5, <3>1 DEF Inv, Functions, OnControl, Arrives, BrokenOff
      <3> QED
        BY <1>2, <1>3, <2>1, <3>2, PhaseKept DEF Inv, Phase
    <2> QED
      BY <2>1, <2>4, <2>5
  <1>5. CASE Second
    <2>1. /\ server[c] = "proceed" /\ up[c] = <<Control("confirm")>>
          /\ ~connected[c]
          /\ ShakingHands(c) \/ BrokenOff(c)
      BY <1>5, KindsDiffer DEF Inv, OnControl, Arrives, Phase, Absent, ShakingHands, Talking,
                               BrokenOff, Leaving, Step
    <2>2. up'[c] = Tail(<<Control("confirm")>>)
      BY <1>5, <2>1 DEF Inv, Functions, OnControl, Arrives
    <2>3. up'[c] = << >>
      BY <2>2
    <2>4. CASE ShakingHands(c)
      <3>1. client[c] = "finish" /\ down[c] = << >> /\ link[c] = "open"
        BY <2>1, <2>4 DEF ShakingHands, Step
      <3>2. down'[c] = Append(<< >>, Control("confirmed"))
        <4>1. AnswersOne(c, Control("confirmed"))
          BY <1>5 DEF OnControl
        <4> QED
          BY <3>1, <4>1, AnswersOneIs
      <3>3. ShakingHands(c)'
        <4>1. down'[c] = <<Control("confirmed")>>
          BY <3>2
        <4> QED
          BY <1>5, <2>3, <2>4, <3>1, <4>1
          DEF Inv, Functions, OnControl, Arrives, ShakingHands, Step
      <3> QED
        BY <1>2, <1>3, <2>1, <3>3, PhaseKept DEF Inv, Phase
    <2>5. CASE BrokenOff(c)
      <3>1. down'[c] = << >>
        BY <1>1, <2>5, AnswersOneIs DEF BrokenOff
      <3>2. BrokenOff(c)'
        BY <1>5, <2>3, <2>5, <3>1 DEF Inv, Functions, OnControl, Arrives, BrokenOff
      <3> QED
        BY <1>2, <1>3, <2>1, <3>2, PhaseKept DEF Inv, Phase
    <2> QED
      BY <2>1, <2>4, <2>5
  <1> QED
    BY <1>4, <1>5 DEF HandleControl

(* Frames come from who talked, and go to who does.                        *)
LEMMA FrameArrived ==
    ASSUME Inv, NEW c \in Conns, Arrives(c, "data")
    PROVE  /\ Talking(c) \/ Leaving(c)
           /\ up[c] # << >> /\ up[c] \in Seq(Requested)
           /\ up'[c] = Tail(up[c]) /\ up'[c] \in Seq(Requested)
           /\ up' = [x \in Conns |-> up'[x]] /\ DOMAIN up' = Conns
           /\ \A x \in Conns : x # c => up'[x] = up[x]
  <1>1. Talking(c) \/ Leaving(c)
    BY KindsDiffer DEF Inv, Arrives, Phase, Absent, ShakingHands, Talking, BrokenOff, Leaving, Step
  <1>2. up[c] \in Seq(Requested) /\ up[c] # << >>
    BY <1>1 DEF Talking, Leaving, Arrives
  <1>3. Tail(up[c]) \in Seq(Requested)
    BY <1>2, HeadTailProperties
  <1>4. /\ up'[c] = Tail(up[c])
        /\ up' = [x \in Conns |-> up'[x]] /\ DOMAIN up' = Conns
        /\ \A x \in Conns : x # c => up'[x] = up[x]
    BY DEF Inv, Functions, Arrives
  <1> QED
    BY <1>1, <1>2, <1>3, <1>4

LEMMA RefuseFrameInv ==
    ASSUME Inv, NEW c \in Conns, RefuseFrame(c)
    PROVE  Inv'
  <1>1. Arrives(c, "data")
    BY DEF RefuseFrame
  <1>2. Functions'
    BY DEF Inv, Functions, RefuseFrame, Arrives, AnswersOne, Answers
  <1>3. ASSUME NEW x \in Conns, x # c PROVE Untouched(x)
    <2>1. down'[x] = down[x]
      BY <1>3, AnswersOneIs DEF RefuseFrame
    <2> QED
      BY <1>1, <1>3, <2>1, FrameArrived DEF RefuseFrame, Arrives, Untouched
  <1>4. CASE Talking(c)
    <2>1. down'[c] = Append(down[c], Raw(ErrorReply))
      BY <1>4, AnswersOneIs DEF RefuseFrame, Talking
    <2>2. down'[c] \in Seq(Replied)
      BY <1>4, <2>1, AppendProperties DEF Talking, Replied
    <2>3. Talking(c)'
      BY <1>1, <1>4, <2>2, FrameArrived DEF RefuseFrame, Arrives, Talking
    <2> QED
      BY <1>2, <1>3, <2>3, PhaseKept DEF Inv, Phase
  <1>5. CASE Leaving(c)
    <2>1. down'[c] = << >>
      BY <1>5, AnswersOneIs DEF RefuseFrame, Leaving
    <2>2. Leaving(c)'
      BY <1>1, <1>5, <2>1, FrameArrived DEF RefuseFrame, Arrives, Leaving
    <2> QED
      BY <1>2, <1>3, <2>2, PhaseKept DEF Inv, Phase
  <1> QED
    BY <1>1, <1>4, <1>5, FrameArrived

(* The replies of one frame, connection by connection.                     *)
Spread(c, fs) ==
    /\ fs \in [Conns -> Bursts \cup {<< >>}]
    /\ \A x \in Conns : fs[x] # << >> => x = c \/ x \in keyed
    /\ down' = [x \in Conns |-> IF link[x] = "open" THEN down[x] \o Wrap(fs[x]) ELSE down[x]]

LEMMA HandleFrameSpreads ==
    ASSUME Inv, NEW c \in Conns, HandleFrame(c)
    PROVE  \E fs : Spread(c, fs)
  <1> DEFINE now == IF Head(up[c]).frame = KeyRequest THEN keyed \cup {c} ELSE keyed
  <1>1. PICK fs \in [Conns -> Bursts \cup {<< >>}] :
            /\ \A x \in Conns \ (now \cup {c}) : fs[x] = << >>
            /\ Answers([x \in Conns |-> Wrap(fs[x])])
    BY DEF HandleFrame
  <1>2. down' = [x \in Conns |-> IF link[x] = "open" THEN down[x] \o Wrap(fs[x]) ELSE down[x]]
    BY <1>1 DEF Answers
  <1> QED
    BY <1>1, <1>2 DEF Spread

LEMMA KeyedConnected ==
    ASSUME Inv, NEW x \in Conns, x \in keyed \/ (link[x] = "open" /\ connected[x])
    PROVE  Talking(x) \/ Leaving(x)
  BY DEF Inv, Phase, Absent, ShakingHands, BrokenOff

LEMMA WrappedReplies ==
    ASSUME NEW fs \in Bursts \cup {<< >>}
    PROVE  fs \in Seq(Replies) /\ Wrap(fs) \in Seq(Replied)
  <1>1. fs \in Seq(Replies)
    BY LinkOK, EmptySeq DEF LinkOK
  <1>2. Wrap(fs) \in Seq({Data(f) : f \in Replies})
    BY <1>1, WrapIs
  <1> QED
    BY <1>1, <1>2, SeqMonotonic DEF Replied

LEMMA WrapNone == Wrap(<< >>) = << >>
  BY DEF Wrap

LEMMA SpreadDown ==
    ASSUME Inv, NEW c \in Conns, Talking(c) \/ Leaving(c), NEW fs, Spread(c, fs),
           NEW x \in Conns
    PROVE  IF Talking(x) THEN down'[x] \in Seq(Replied) ELSE down'[x] = down[x]
  <1>1. fs[x] \in Bursts \cup {<< >>}
    BY DEF Spread
  <1>2. CASE Talking(x)
    <2>1. down[x] \in Seq(Replied) /\ Wrap(fs[x]) \in Seq(Replied)
      BY <1>1, <1>2, WrappedReplies DEF Talking
    <2>2. down'[x] = down[x] \o Wrap(fs[x])
      BY <1>2 DEF Spread, Talking
    <2> QED
      BY <1>2, <2>1, <2>2, ConcatProperties
  <1>3. CASE ~Talking(x) /\ link[x] = "open"
    <2>1. ShakingHands(x)
      BY <1>3 DEF Inv, Phase, Absent, BrokenOff, Leaving
    <2>2. x \notin keyed /\ x # c
      BY <1>3, <2>1 DEF ShakingHands, Leaving
    <2>3. fs[x] = << >>
      BY <2>2 DEF Spread
    <2>4. \E k \in {"reply", "confirmed"} : down[x] \in {<< >>, <<Control(k)>>}
      BY <2>1 DEF ShakingHands, Step
    <2>5. down[x] \o << >> = down[x]
      BY <2>4
    <2> QED
      BY <1>3, <2>3, <2>5, WrapNone DEF Spread
  <1>4. CASE ~Talking(x) /\ link[x] # "open"
    BY <1>4 DEF Spread
  <1> QED
    BY <1>2, <1>3, <1>4

LEMMA HandleFrameInv ==
    ASSUME Inv, NEW c \in Conns, HandleFrame(c)
    PROVE  Inv'
  <1>1. Arrives(c, "data")
    BY DEF HandleFrame
  <1>2. PICK fs : Spread(c, fs)
    BY HandleFrameSpreads
  <1>3. Talking(c) \/ Leaving(c)
    BY <1>1, FrameArrived
  <1>4. Functions'
    BY <1>1, <1>2, FrameArrived DEF Inv, Functions, HandleFrame, Arrives, Spread
  <1>5. /\ UNCHANGED <<link, client, connected, server>>
        /\ keyed' \in {keyed, keyed \cup {c}}
    BY DEF HandleFrame, Arrives
  <1>6. ASSUME NEW x \in Conns PROVE Phase(x)'
    <2>1. CASE Talking(x)
      <3>1. up'[x] \in Seq(Requested)
        BY <1>1, <2>1, FrameArrived DEF Talking
      <3>2. down'[x] \in Seq(Replied)
        BY <1>2, <1>3, <2>1, SpreadDown
      <3> QED
        BY <1>5, <2>1, <3>1, <3>2 DEF Talking, Phase
    <2>2. CASE Leaving(x)
      <3>1. up'[x] \in Seq(Requested)
        BY <1>1, <2>2, FrameArrived DEF Leaving
      <3>2. down'[x] = down[x]
        BY <1>2, <1>3, <2>2, SpreadDown DEF Leaving, Talking
      <3> QED
        BY <1>5, <2>2, <3>1, <3>2 DEF Leaving, Phase
    <2>3. CASE ~Talking(x) /\ ~Leaving(x)
      <3>1. x # c /\ down'[x] = down[x]
        BY <1>2, <1>3, <2>3, SpreadDown
      <3>2. Untouched(x)
        BY <1>1, <1>5, <3>1, FrameArrived DEF Untouched
      <3> QED
        BY <3>2, PhaseKept DEF Inv
    <2> QED
      BY <2>1, <2>2, <2>3
  <1> QED
    BY <1>4, <1>6 DEF Inv

LEMMA HandleCloseInv ==
    ASSUME Inv, NEW c \in Conns, HandleClose(c)
    PROVE  Inv'
  <1>1. Functions'
    BY DEF Inv, Functions, HandleClose
  <1>2. client[c] = "none" /\ down[c] = << >>
    BY DEF Inv, HandleClose, Phase, Absent, ShakingHands, Talking, BrokenOff, Leaving
  <1>3. Absent(c)'
    BY <1>2 DEF Inv, Functions, HandleClose, Absent, Step
  <1>4. ASSUME NEW x \in Conns, x # c PROVE Untouched(x)
    BY <1>4 DEF Inv, Functions, HandleClose, Untouched
  <1> QED
    BY <1>1, <1>3, <1>4, PhaseKept DEF Inv, Phase

(* Every step leaves every connection in a phase.                          *)
LEMMA NextInv == Inv /\ [Next]_vars => Inv'
  <1> SUFFICES ASSUME Inv, [Next]_vars PROVE Inv'
    OBVIOUS
  <1>1. CASE Restart
    BY <1>1, RestartInv
  <1>2. ASSUME NEW c \in Conns, ClientStep(c) PROVE Inv'
    BY <1>2, OpenInv, OnConnectInv, OnReplyInv, OnEstablishedInv, ReadingInv, SendInv, CloseInv
    DEF ClientStep, OnReceive
  <1>3. ASSUME NEW c \in Conns, ServerStep(c) PROVE Inv'
    BY <1>3, HandleControlInv, HandleFrameInv, RefuseFrameInv, HandleCloseInv DEF ServerStep
  <1>4. CASE UNCHANGED vars
    <2>1. Functions'
      BY <1>4 DEF vars, Inv, Functions
    <2>2. \A x \in Conns : Untouched(x)
      BY <1>4 DEF vars, Untouched
    <2> QED
      BY <2>1, <2>2, PhaseKept DEF Inv
  <1> QED
    BY <1>1, <1>2, <1>3, <1>4 DEF Next

(* At any moment each connection is in one of the five phases:
   absent, shaking hands with one control message under way, talking in
   frames, broken off in the handshake, or leaving with frames unread
   (on_connect, on_receive, wshandler). *)
THEOREM Invariance == Spec => []Inv
  BY InitInv, NextInv, PTL DEF Spec

-----------------------------------------------------------------------------
(* What the phases say of types and of the two ends.                       *)
LEMMA InvTypeOK == Inv => TypeOK
  <1> SUFFICES ASSUME Inv PROVE TypeOK
    OBVIOUS
  <1>1. Requested \subseteq Upward /\ Replied \subseteq Downward
    BY DEF Requested, Replied, Upward, Downward
  <1>2. /\ << >> \in Seq(Upward) /\ << >> \in Seq(Downward)
        /\ <<Control("init")>> \in Seq(Upward) /\ <<Control("confirm")>> \in Seq(Upward)
        /\ <<Control("reply")>> \in Seq(Downward) /\ <<Control("confirmed")>> \in Seq(Downward)
    BY DEF Upward, Downward
  <1>3. ASSUME NEW c \in Conns PROVE up[c] \in Seq(Upward) /\ down[c] \in Seq(Downward)
    <2>1. /\ up[c] \in Seq(Requested) => up[c] \in Seq(Upward)
          /\ down[c] \in Seq(Replied) => down[c] \in Seq(Downward)
      BY <1>1, SeqMonotonic
    <2>2. Phase(c)
      BY DEF Inv
    <2> QED
      BY <1>2, <2>1, <2>2 DEF Phase, Absent, ShakingHands, Talking, BrokenOff, Leaving, Step
  <1> QED
    BY <1>3 DEF Inv, Functions, TypeOK

LEMMA InvAgree == Inv => SessionsAgree
  <1> SUFFICES ASSUME Inv, NEW c \in Conns
               PROVE  /\ link[c] = "open" => InStep(c)
                      /\ link[c] = "closed" => LeftBehind(c)
    BY DEF SessionsAgree
  <1>1. Phase(c)
    BY DEF Inv
  <1>2. /\ \A q \in Seq(Requested) : OnlyFrames(q)
        /\ \A q \in Seq(Replied) : OnlyFrames(q)
    BY KindsDiffer, ElementOfSeq DEF OnlyFrames
  <1> QED
    BY <1>1, <1>2 DEF Phase, Absent, ShakingHands, Talking, BrokenOff, Leaving, Step,
                      InStep, LeftBehind

(* What is under way is always a request or a reply, or what a session     *)
(* exchanges first, whatever the handlers and callbacks do.                *)
THEOREM TypeCorrect == Spec => []TypeOK
  BY Invariance, InvTypeOK, PTL

(* The two ends of every link stay in step: nothing ever arrives that the  *)
(* session there is not ready to unwrap but the server's plain errors      *)
(* (on_receive, wshandler).                                                *)
THEOREM EndsAgree == Spec => []SessionsAgree
  BY Invariance, InvAgree, PTL

-----------------------------------------------------------------------------
(* The link is Wire.                                                       *)
LEMMA SameWire ==
    ASSUME NEW c \in Conns, \A x \in Conns : x # c => Untouched(x),
           WireLink'[c] = WireLink[c], WireUp'[c] = WireUp[c], WireDown'[c] = WireDown[c]
    PROVE  UNCHANGED <<WireLink, WireUp, WireDown>>
  BY DEF WireLink, WireUp, WireDown, Untouched

LEMMA InitIsWire == Init => AsWire!WireInit
  BY DEF Init, AsWire!WireInit, WireLink, WireUp, WireDown

LEMMA RestartIsWire == Restart => AsWire!Restarts
  BY DEF Restart, AsWire!Restarts, WireLink, WireUp, WireDown

(* Until connect_callback_ nothing of the link is seen.                    *)
LEMMA UnseenIsStutter ==
    ASSUME NEW c \in Conns, ~connected[c], ~connected'[c],
           \A x \in Conns : x # c => Untouched(x)
    PROVE  UNCHANGED <<WireLink, WireUp, WireDown>>
  BY DEF WireLink, WireUp, WireDown, Untouched

(* Each step of the link, as a step of those who use it.                   *)
LEMMA EstablishedIsOpens ==
    ASSUME Inv, NEW c \in Conns, OnEstablished(c)
    PROVE  AsWire!Opens(c)
  <1>1. ShakingHands(c) /\ Step(c, "finish", "established", << >>, <<Control("confirmed")>>)
    BY KindsDiffer DEF Inv, OnEstablished, Receives, Phase, Absent, ShakingHands, Talking,
                       BrokenOff, Leaving, Step
  <1>2. PICK f \in Requests : up' = [up EXCEPT ![c] = @ \o Wrap(<<KeyRequest, f>>)]
    BY DEF OnEstablished, FirstRequests, Sends
  <1>3. up'[c] = << >> \o Wrap(<<KeyRequest, f>>) /\ down'[c] = Tail(<<Control("confirmed")>>)
    BY <1>1, <1>2 DEF Inv, Functions, OnEstablished, Receives, Step
  <1>4. Frames(up'[c]) = <<KeyRequest, f>> /\ Frames(down'[c]) = << >>
    BY <1>3, FirstRequestsAre, FramesOfNone
  <1>5. \A x \in Conns : x # c => Untouched(x)
    BY <1>2 DEF Inv, Functions, OnEstablished, Receives, Untouched
  <1>6. ~connected[c] /\ connected'[c] /\ link'[c] = "open"
    BY <1>1 DEF Inv, Functions, OnEstablished, Receives, ShakingHands
  <1>7. WireLink[c] = "free" /\ WireLink' = [WireLink EXCEPT ![c] = "open"]
    BY <1>5, <1>6 DEF WireLink, Untouched
  <1>8. WireUp' = [WireUp EXCEPT ![c] = <<KeyRequest, f>>]
    BY <1>4, <1>5, <1>6 DEF WireUp, Untouched
  <1>9. UNCHANGED WireDown
    BY <1>4, <1>5, <1>6 DEF WireDown, Untouched
  <1> QED
    BY <1>7, <1>8, <1>9 DEF AsWire!Opens, AsWire!OpenLink

(* A reply read, an unwrapped error too, is a frame taken.                 *)
LEMMA ReadingIsTakes ==
    ASSUME Inv, NEW c \in Conns, OnData(c) \/ OnRaw(c)
    PROVE  AsWire!Takes(c)
  <1>1. Talking(c)
    BY ReadingInv
  <1>2. /\ down' = [down EXCEPT ![c] = Tail(@)] /\ down[c] # << >>
        /\ UNCHANGED <<link, connected, up>>
    BY DEF OnData, OnRaw, Receives
  <1>3. Frames(Tail(down[c])) = Tail(Frames(down[c])) /\ Frames(down[c]) # << >>
    BY <1>1, <1>2, FramesTail DEF Talking
  <1>4. WireDown' = [WireDown EXCEPT ![c] = Tail(@)]
    BY <1>1, <1>2, <1>3 DEF Inv, Functions, WireDown, Talking
  <1>5. WireLink[c] = "open" /\ WireDown[c] # << >>
    BY <1>1, <1>3 DEF WireLink, WireDown, Talking
  <1>6. UNCHANGED <<WireLink, WireUp>>
    BY <1>2 DEF WireLink, WireUp
  <1> QED
    BY <1>4, <1>5, <1>6 DEF AsWire!Takes

LEMMA SendIsSubmits ==
    ASSUME Inv, NEW c \in Conns, Send(c)
    PROVE  AsWire!Submits(c) \/ UNCHANGED <<WireLink, WireUp, WireDown>>
  <1>1. CASE client[c] = "established"
    <2>1. Talking(c)
      BY <1>1 DEF Inv, Send, Phase, Absent, ShakingHands, Talking, BrokenOff, Leaving, Step
    <2>2. PICK f \in Requests : up' = [up EXCEPT ![c] = @ \o <<Data(f)>>]
      BY <1>1 DEF Send, Sends
    <2>3. UNCHANGED <<link, connected, down>>
      BY DEF Send
    <2>4. Frames(up[c] \o <<Data(f)>>) = Frames(up[c]) \o <<f>>
      <3>1. Wrap(<<f>>) = <<Data(f)>> /\ <<f>> \in Seq(Requests)
        BY OneRequest
      <3>2. up[c] \in Seq(Requested)
        BY <2>1 DEF Talking
      <3> QED
        BY <3>1, <3>2, FramesOfMore
    <2>5. Frames(up[c]) \in Seq({m.frame : m \in Requested})
      BY <2>1, FramesAre DEF Talking
    <2>6. Frames(up[c]) \o <<f>> = Append(Frames(up[c]), f)
      BY <2>5
    <2>7. WireUp' = [WireUp EXCEPT ![c] = Append(@, f)]
      BY <2>1, <2>2, <2>3, <2>4, <2>6 DEF Inv, Functions, WireUp, Talking
    <2>8. WireLink[c] = "open" /\ UNCHANGED <<WireLink, WireDown>>
      BY <2>1, <2>3 DEF WireLink, WireDown, Talking
    <2> QED
      BY <2>7, <2>8 DEF AsWire!Submits
  <1>2. CASE client[c] # "established"
    BY <1>2 DEF Send, WireLink, WireUp, WireDown
  <1> QED
    BY <1>1, <1>2

LEMMA CloseIsDies ==
    ASSUME Inv, NEW c \in Conns, Close(c)
    PROVE  AsWire!Dies(c) \/ UNCHANGED <<WireLink, WireUp, WireDown>>
  <1>1. PICK n \in 0 .. Len(up[c]) : up' = [up EXCEPT ![c] = SubSeq(@, 1, n)]
    BY DEF Close
  <1>2. /\ down' = [down EXCEPT ![c] = << >>]
        /\ link' = [link EXCEPT ![c] = "closed"]
        /\ UNCHANGED connected
    BY DEF Close
  <1>3. \A x \in Conns : x # c => Untouched(x)
    BY <1>1 DEF Inv, Functions, Close, Untouched
  <1>4. CASE connected[c]
    <2>1. Talking(c)
      BY <1>4 DEF Inv, Close, Phase, Absent, ShakingHands, BrokenOff, Leaving
    <2>2. /\ Len(Frames(up[c])) = Len(up[c])
          /\ Frames(SubSeq(up[c], 1, n)) = SubSeq(Frames(up[c]), 1, n)
      BY <2>1, FramesAre, FramesSubSeq DEF Talking
    <2>3. WireUp[c] = Frames(up[c]) /\ WireLink[c] = "open"
      BY <2>1 DEF WireUp, WireLink, Talking
    <2>4. WireUp' = [WireUp EXCEPT ![c] = SubSeq(@, 1, n)]
      BY <1>1, <1>2, <1>4, <2>2 DEF Inv, Functions, WireUp
    <2>5. WireLink' = [WireLink EXCEPT ![c] = "closed"]
      BY <1>2, <1>4 DEF Inv, Functions, WireLink
    <2>6. WireDown' = [WireDown EXCEPT ![c] = << >>]
      BY <1>2, <1>4, FramesOfNone DEF Inv, Functions, WireDown
    <2>7. n \in 0 .. Len(WireUp[c])
      BY <2>2, <2>3
    <2> QED
      BY <2>3, <2>4, <2>5, <2>6, <2>7 DEF AsWire!Dies, AsWire!Disconnect
  <1>5. CASE ~connected[c]
    BY <1>2, <1>3, <1>5, UnseenIsStutter
  <1> QED
    BY <1>4, <1>5

(* The handshake moves nothing of theirs.                                  *)
LEMMA HandshakeUnseen ==
    ASSUME Inv, NEW c \in Conns,
           Open(c) \/ OpenFails(c) \/ OnConnect(c) \/ OnReply(c) \/ HandleControl(c)
    PROVE  UNCHANGED <<WireLink, WireUp, WireDown>>
  <1>1. CASE Open(c) \/ OpenFails(c) \/ OnConnect(c) \/ OnReply(c)
    <2>1. ~connected[c]
      BY <1>1, KindsDiffer
      DEF Inv, Open, OpenFails, OnConnect, OnReply, Receives, Phase, Absent, ShakingHands,
          Talking, BrokenOff, Leaving
    <2>2. UNCHANGED connected
      BY <1>1 DEF Open, OpenFails, OnConnect, OnReply
    <2>3. \A x \in Conns : x # c => Untouched(x)
      BY <1>1 DEF Inv, Functions, Open, OpenFails, OnConnect, OnReply, Receives, Sends, Untouched
    <2> QED
      BY <2>1, <2>2, <2>3, UnseenIsStutter
  <1>2. CASE HandleControl(c)
    <2>1. ~connected[c]
      BY <1>2, HandleControlInv
    <2>2. PICK m : AnswersOne(c, m)
      BY <1>2 DEF HandleControl, OnControl
    <2>3. ASSUME NEW x \in Conns, x # c PROVE Untouched(x)
      <3>1. down'[x] = down[x]
        BY <2>2, <2>3, AnswersOneIs
      <3> QED
        BY <1>2, <2>3, <3>1 DEF Inv, Functions, HandleControl, OnControl, Arrives, Untouched
    <2>4. UNCHANGED connected
      BY <1>2 DEF HandleControl, OnControl, Arrives
    <2> QED
      BY <2>1, <2>3, <2>4, UnseenIsStutter
  <1> QED
    BY <1>1, <1>2

(* A frame taken by its handler, whatever is answered to whom.             *)
LEMMA TakesFrame ==
    ASSUME Inv, NEW c \in Conns, Arrives(c, "data")
    PROVE  /\ WireUp[c] # << >>
           /\ WireUp' = [WireUp EXCEPT ![c] = Tail(@)]
           /\ UNCHANGED WireLink
  <1>1. Talking(c) \/ Leaving(c)
    BY FrameArrived
  <1>2. connected[c] /\ UNCHANGED <<connected, link>>
    BY <1>1 DEF Talking, Leaving, Arrives
  <1>3. Frames(Tail(up[c])) = Tail(Frames(up[c])) /\ Frames(up[c]) # << >>
    BY FrameArrived, FramesTail
  <1>4. WireUp[c] = Frames(up[c])
    BY <1>2 DEF WireUp
  <1>5. WireUp' = [WireUp EXCEPT ![c] = Tail(@)]
    BY <1>2, <1>3, FrameArrived DEF WireUp
  <1> QED
    BY <1>2, <1>3, <1>4, <1>5 DEF WireLink

LEMMA HandleFrameIsHandles ==
    ASSUME Inv, NEW c \in Conns, HandleFrame(c)
    PROVE  AsWire!Handles(c)
  <1>1. Arrives(c, "data")
    BY DEF HandleFrame
  <1>2. PICK fs : Spread(c, fs)
    BY HandleFrameSpreads
  <1>3. Talking(c) \/ Leaving(c)
    BY <1>1, FrameArrived
  <1>4. UNCHANGED connected
    BY <1>1 DEF Arrives
  <1>5. ASSUME NEW x \in Conns
        PROVE  WireDown'[x] = IF WireLink[x] = "open" THEN WireDown[x] \o fs[x] ELSE WireDown[x]
    <2>1. fs[x] \in Bursts \cup {<< >>}
      BY <1>2 DEF Spread
    <2>2. CASE Talking(x)
      <3>1. down'[x] = down[x] \o Wrap(fs[x])
        BY <1>2, <2>2 DEF Spread, Talking
      <3>2. Frames(down[x] \o Wrap(fs[x])) = Frames(down[x]) \o fs[x]
        BY <2>1, <2>2, WrappedReplies, FramesOfMore DEF Talking
      <3> QED
        BY <1>4, <2>2, <3>1, <3>2 DEF WireDown, WireLink, Talking
    <2>3. CASE ~Talking(x)
      <3>1. down'[x] = down[x]
        BY <1>2, <1>3, <2>3, SpreadDown
      <3>2. WireLink[x] # "open"
        BY <2>3, KeyedConnected DEF WireLink, Leaving
      <3> QED
        BY <1>4, <3>1, <3>2 DEF WireDown
    <2> QED
      BY <2>2, <2>3
  <1>6. WireDown' = [x \in Conns |-> IF WireLink[x] = "open" THEN WireDown[x] \o fs[x]
                                                          ELSE WireDown[x]]
    BY <1>5 DEF WireDown
  <1>7. fs \in [Conns -> (Bursts \cup {<<ErrorReply>>}) \cup {<< >>}]
    BY <1>2 DEF Spread
  <1> QED
    BY <1>1, <1>6, <1>7, TakesFrame DEF AsWire!Handles, AsWire!TakeUp, AsWire!SendDown

LEMMA RefuseFrameIsHandles ==
    ASSUME Inv, NEW c \in Conns, RefuseFrame(c)
    PROVE  AsWire!Handles(c)
  <1> DEFINE fs == [x \in Conns |-> IF x = c THEN <<ErrorReply>> ELSE << >>]
  <1>1. Arrives(c, "data")
    BY DEF RefuseFrame
  <1>2. Talking(c) \/ Leaving(c)
    BY <1>1, FrameArrived
  <1>3. UNCHANGED connected
    BY <1>1 DEF Arrives
  <1>4. ASSUME NEW x \in Conns
        PROVE  WireDown'[x] = IF WireLink[x] = "open" THEN WireDown[x] \o fs[x] ELSE WireDown[x]
    <2>1. CASE link[x] = "open" /\ connected[x]
      <3>1. Talking(x)
        BY <2>1, KeyedConnected DEF Leaving
      <3>2. Frames(down[x]) \in Seq({m.frame : m \in Replied})
        BY <3>1, FramesAre DEF Talking
      <3>3. WireLink[x] = "open" /\ WireDown[x] = Frames(down[x])
        BY <2>1 DEF WireLink, WireDown
      <3>4. CASE x = c
        <4>1. down'[x] = Append(down[x], Raw(ErrorReply))
          BY <2>1, <3>4, AnswersOneIs DEF RefuseFrame
        <4>2. Frames(Append(down[x], Raw(ErrorReply))) = Frames(down[x]) \o <<ErrorReply>>
          <5>1. down[x] \in Seq(Replied) /\ Raw(ErrorReply) \in Replied
            BY <3>1 DEF Talking, Replied
          <5>2. Raw(ErrorReply).frame = ErrorReply
            BY DEF Raw, Message
          <5>3. Frames(Append(down[x], Raw(ErrorReply))) =
                    Frames(down[x]) \o <<Raw(ErrorReply).frame>>
            BY <5>1, FramesOfOneMore
          <5> QED
            BY <5>2, <5>3
        <4> QED
          BY <1>3, <2>1, <3>3, <3>4, <4>1, <4>2 DEF WireDown
      <3>5. CASE x # c
        <4>1. down'[x] = down[x]
          BY <3>5, AnswersOneIs DEF RefuseFrame
        <4>2. Frames(down[x]) \o << >> = Frames(down[x])
          BY <3>2, ConcatEmptySeq
        <4> QED
          BY <1>3, <2>1, <3>3, <3>5, <4>1, <4>2 DEF WireDown
      <3> QED
        BY <3>4, <3>5
    <2>2. CASE ~(link[x] = "open" /\ connected[x])
      <3>1. WireLink[x] # "open"
        BY <2>2 DEF WireLink
      <3>2. ~connected[x] \/ down'[x] = down[x]
        BY <2>2, AnswersOneIs DEF RefuseFrame
      <3> QED
        BY <1>3, <3>1, <3>2 DEF WireDown
    <2> QED
      BY <2>1, <2>2
  <1>5. WireDown' = [x \in Conns |-> IF WireLink[x] = "open" THEN WireDown[x] \o fs[x]
                                                          ELSE WireDown[x]]
    BY <1>4 DEF WireDown
  <1>6. fs \in [Conns -> (Bursts \cup {<<ErrorReply>>}) \cup {<< >>}]
    OBVIOUS
  <1> HIDE DEF fs
  <1> QED
    BY <1>1, <1>5, <1>6, TakesFrame DEF AsWire!Handles, AsWire!TakeUp, AsWire!SendDown

LEMMA HandleCloseIsFreeLink ==
    ASSUME Inv, NEW c \in Conns, HandleClose(c)
    PROVE  AsWire!FreeLink(c) \/ UNCHANGED <<WireLink, WireUp, WireDown>>
  <1>1. \A x \in Conns : x # c => Untouched(x)
    BY DEF Inv, Functions, HandleClose, Untouched
  <1>2. /\ ~connected'[c] /\ link'[c] = "free" /\ up[c] = << >> /\ link[c] = "closed"
        /\ UNCHANGED <<up, down>>
    BY DEF Inv, Functions, HandleClose
  <1>3. down[c] = << >>
    BY <1>2 DEF Inv, Phase, Absent, ShakingHands, Talking, BrokenOff, Leaving
  <1>4. CASE connected[c]
    <2>1. WireLink[c] = "closed" /\ WireUp[c] = << >>
      BY <1>2, <1>4, FramesOfNone DEF WireLink, WireUp
    <2>2. WireLink' = [WireLink EXCEPT ![c] = "free"]
      BY <1>1, <1>2 DEF WireLink, Untouched
    <2>3. UNCHANGED <<WireUp, WireDown>>
      BY <1>1, <1>2, <1>3, FramesOfNone DEF WireUp, WireDown, Untouched
    <2> QED
      BY <2>1, <2>2, <2>3 DEF AsWire!FreeLink, AsWire!Closing
  <1>5. CASE ~connected[c]
    BY <1>1, <1>2, <1>5, UnseenIsStutter
  <1> QED
    BY <1>4, <1>5

(* All of them together.                                                   *)
LEMMA StepIsWire ==
    ASSUME Inv, [Next]_vars
    PROVE  [AsWire!Next]_<<WireLink, WireUp, WireDown>>
  <1>1. CASE Restart
    BY <1>1, RestartIsWire DEF AsWire!Next
  <1>2. ASSUME NEW c \in Conns, ClientStep(c)
        PROVE  [AsWire!Next]_<<WireLink, WireUp, WireDown>>
    BY <1>2, HandshakeUnseen, EstablishedIsOpens, ReadingIsTakes, SendIsSubmits, CloseIsDies
    DEF ClientStep, OnReceive, AsWire!Next
  <1>3. ASSUME NEW c \in Conns, ServerStep(c)
        PROVE  [AsWire!Next]_<<WireLink, WireUp, WireDown>>
    BY <1>3, HandshakeUnseen, HandleFrameIsHandles, RefuseFrameIsHandles, HandleCloseIsFreeLink
    DEF ServerStep, AsWire!Next
  <1>4. CASE UNCHANGED vars
    BY <1>4 DEF vars, WireLink, WireUp, WireDown
  <1> QED
    BY <1>1, <1>2, <1>3, <1>4 DEF Next

(* To the room at one end and the handler's requests at the other the      *)
(* link is the connection that SecureChat and RelayServer reckon with,     *)
(* opened at once with PUBKEY in it, in order and without loss as long as  *)
(* it stands (connect_callback_, send, on_receive, wshandler).             *)
THEOREM LinkIsWire == Spec => IsWire
  <1>1. Inv /\ [Next]_vars => [AsWire!Next]_(AsWire!wireVars)
    BY StepIsWire DEF AsWire!wireVars
  <1> QED
    BY <1>1, InitIsWire, Invariance, PTL DEF Spec, IsWire, AsWire!Spec
=============================================================================

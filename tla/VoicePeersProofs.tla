-------------------------- MODULE VoicePeersProofs --------------------------
(***************************************************************************)
(* Proofs about VoicePeers, for any number of joins and of changes of who  *)
(* watches a screen: the two peers of a call, once nothing is under way    *)
(* between them and unless their descriptions met, have one session both   *)
(* agreed on and send their screens as they are watched.  The inductive    *)
(* invariant says of each side what it awaits and what it owes (PeerLocal) *)
(* and of the pair where an offer that is pending is: on its way, held by  *)
(* the other, or answered (PeerPairs).  Then the wishes for the senders of *)
(* such a connection (CallTransport), and the sounds of a call (SoundCues).*)
(***************************************************************************)
EXTENDS VoicePeers, CallTransport, SoundCues, SequenceTheorems, TLAPS

------------------------------------------------------------
(* The inductive invariant                                                 *)

\* What an inbox s tells its caller of the other.  What comes after the last "left" is of the
\* other's present stay in the call: an event there is said to be of now.
HasLeft(s) == \E i \in 1..Len(s) : s[i].type = "left"
IsNow(s, i) == \A j \in i..Len(s) : s[j].type # "left"
HasJoined(s) == \E i \in 1..Len(s) : IsNow(s, i) /\ s[i].type = "joined"
HasOffer(s) == \E i \in 1..Len(s) : IsNow(s, i) /\ s[i].type = "offer"
JoinedFirst(s) ==
    \E j \in 1..Len(s) : /\ IsNow(s, j) /\ s[j].type = "joined"
                         /\ \A i \in 1..j : IsNow(s, i) => s[i].type # "offer"
Bears(s, o) == \E i \in 1..Len(s) : s[i].type = "offer" /\ s[i].sdp = o
\* The offer o is there once, of now, and is the last.
SentIn(s, o) ==
    \E i \in 1..Len(s) :
        /\ IsNow(s, i) /\ s[i].type = "offer" /\ s[i].sdp = o
        /\ \A j \in 1..Len(s) : j # i /\ s[j].type = "offer" => j < i /\ s[j].sdp # o
Stale(s) == \A i \in 1..Len(s) : ~IsNow(s, i)
Answers(e, o) == e.type = "answer" /\ e.sdp.offer = o
Replies(s, o) == \E i \in 1..Len(s) : Answers(s[i], o)
AnswersAre(s, o, x) == \A i \in 1..Len(s) : Answers(s[i], o) => s[i].sdp = x
ReplyBeforeOffer(s, o) ==
    \E i, j \in 1..Len(s) : j < i /\ s[i].type = "offer" /\ Answers(s[j], o)

\* The offers a caller has taken and not answered, and whether an offer of its own is to come.
HoldsOffer(u, o) == \E w \in work[u] : w.sdp = o
HoldsAny(u) == \E w \in work[u] : w.sdp # NoSession
Registers(u) == \E w \in work[u] : w.op = "register"
WillCall(u) ==
    \E w \in work[u] : \/ w.op = "register" /\ w.sdp = NoSession
                       \/ w.op = "make" /\ peer[u].last = "make"
                       \/ w.op = "renego" /\ peer[u].last = "renego"
IsLocal(u) == peer[u] # NoPeer /\ peer[u].state = "local"

\* What holds of one side whatever the other did.
SideHolds(u) ==
    /\ place[u] = "out" => peer[u] = NoPeer
    /\ peer[u] = NoPeer => work[u] = {} /\ ~wanted[u] /\ ~inFlight[u]
    /\ peer[u] # NoPeer => peer[u].id = made[u]
    /\ peer[u] = NoPeer \/ Registers(u) => ~early[u]
    /\ inFlight[u] <=> \E w \in work[u] : w.op = "renego"
    /\ \A w1, w2 \in work[u] : w1.op = w2.op /\ w1.op \in {"renego", "register"} => w1 = w2
    /\ wanted[u] => peer[u].state # "stable" \/ inFlight[u]
    /\ wanted[u] \/ inFlight[u] => place[u] = "in"
    /\ \A w \in work[u] : /\ w.op = "answer" => w.sdp # NoSession
                          /\ w.op \in {"make", "renego"} => w.sdp = NoSession
    /\ peer[u] # NoPeer /\ peer[u].state = "remote" => \E w \in work[u] : w.op = "answer"
    /\ IsLocal(u) => /\ peer[u].offered # NoSession /\ peer[u].offered.by = u
                     /\ peer[u].offered.pc = peer[u].id /\ peer[u].offered.rev = peer[u].rev
    /\ peer[u] # NoPeer /\ peer[u].state = "stable" /\ peer[u].session = NoSession =>
           WillCall(u) \/ Registers(u)

\* A screen is sent once it is watched.
ScreenSends(u) ==
    peer[u] # NoPeer =>
        /\ peer[u].sends => viewed[u]
        /\ ~Registers(u) => peer[u].sends = viewed[u]

\* Unless descriptions met, a connection does one thing at a time.
Orderly(u) ==
    /\ \A w1, w2 \in work[u] : w1.op # "renego" /\ w2.op # "renego" => w1 = w2
    /\ \A w \in work[u] : w.op = "answer" => peer[u].state = "remote"
    /\ \A w \in work[u] : w.op = "renego" => peer[u].state # "remote"
    /\ \A w \in work[u] : w.op = "renego" /\ peer[u].last = "renego" => peer[u].state = "stable"

\* An offer in the making carries what is sent unless another is queued behind it.
OfferCarries(u) ==
    \A w \in work[u] :
        \/ w.op = "make" /\ peer[u].last = "make"
        \/ w.op = "renego" /\ peer[u].last = "renego"
        => w.screen = peer[u].sends \/ wanted[u]

\* What is settled or pending of a screen is what is sent, or an offer is to come.
ScreenDue(u) ==
    peer[u] # NoPeer =>
        \/ early[u] \/ wanted[u] \/ WillCall(u)
        \/ peer[u].state = "local" /\ peer[u].offered.screen = peer[u].sends
        \/ peer[u].state # "local" /\ peer[u].session = NoSession /\ ~peer[u].sends
        \/ /\ peer[u].state # "local" /\ peer[u].session # NoSession
           /\ peer[u].session.screens[u] = peer[u].sends

\* An offer that is about is of its maker's connection as it was, or of an earlier one.
Older(u, o) ==
    /\ o.by = u /\ o.pc <= made[u]
    /\ peer[u] # NoPeer /\ o.pc = peer[u].id => o.rev <= peer[u].rev
OffersKnown(u, v) ==
    /\ \A i \in 1..Len(arriving[v]) :
           arriving[v][i].type = "offer" => Older(u, arriving[v][i].sdp)
    /\ \A w \in work[v] : w.sdp # NoSession => Older(u, w.sdp)
    /\ \A i \in 1..Len(arriving[u]) :
           arriving[u][i].type = "answer" =>
               /\ Older(u, arriving[u][i].sdp.offer)
               /\ arriving[u][i].sdp.screens[u] = arriving[u][i].sdp.offer.screen

PeerLocal ==
    /\ VoicePeerTypeOK
    /\ \A u \in Caller : SideHolds(u) /\ ScreenSends(u)
    /\ ~collided => \A u \in Caller : Orderly(u) /\ OfferCarries(u) /\ ScreenDue(u)
    /\ \A u \in Caller : OffersKnown(u, Other(u))

\* A connection of the present stay of both, and none in it.
IsLive(u) == peer[u] # NoPeer /\ ~HasLeft(arriving[u])
IsBlank(u) == peer[u] = NoPeer /\ ~HasLeft(arriving[u])
BothHere(u, v) == place[u] # "out" /\ place[v] # "out"

\* Who is out has said so to who is not; of two in the call at most one has not heard of the
\* other's last leave, and it hears that the other joined; and one of them is told of the other.
Stays(u, v) ==
    /\ place[u] = "out" /\ place[v] # "out" =>
           /\ Stale(arriving[v])
           /\ ~HasLeft(arriving[v]) => peer[v] = NoPeer
    /\ BothHere(u, v) => ~(HasLeft(arriving[u]) /\ HasLeft(arriving[v]))
    /\ place[u] = "in" /\ place[v] # "out" /\ HasLeft(arriving[v]) => HasJoined(arriving[v])
    /\ BothHere(u, v) /\ HasLeft(arriving[v]) /\ peer[u] = NoPeer => ~HasOffer(arriving[v])
    /\ place[u] = "in" /\ place[v] = "in" /\ IsBlank(u) /\ IsBlank(v) =>
           HasJoined(arriving[u]) \/ HasJoined(arriving[v])
    /\ BothHere(u, v) /\ IsBlank(u) /\ IsBlank(v) =>
           ~(HasOffer(arriving[u]) /\ HasOffer(arriving[v]))

\* Who has a connection calls who has none, or is to be called.
NotForgotten(u, v) ==
    BothHere(u, v) /\ IsLive(u) /\ IsBlank(v) =>
        WillCall(u) \/ IsLocal(u) \/ HasJoined(arriving[v]) \/ place[u] = "room"

\* The three places a pending offer may be at: on its way, held, answered.
OfferSent(u, v) ==
    /\ SentIn(arriving[v], peer[u].offered)
    /\ ~Replies(arriving[u], peer[u].offered) /\ ~HoldsOffer(v, peer[u].offered)
OfferHeld(u, v) ==
    /\ ~HasLeft(arriving[v]) /\ ~HasOffer(arriving[v])
    /\ HoldsOffer(v, peer[u].offered) /\ ~Replies(arriving[u], peer[u].offered)
OfferAnswered(u, v) ==
    /\ ~HasLeft(arriving[v]) /\ ~HasOffer(arriving[v]) /\ ~HoldsAny(v)
    /\ peer[v] # NoPeer /\ Replies(arriving[u], peer[u].offered)
    /\ AnswersAre(arriving[u], peer[u].offered, peer[v].session)
Awaited(u, v) ==
    IsLive(u) /\ IsLocal(u) => OfferSent(u, v) \/ OfferHeld(u, v) \/ OfferAnswered(u, v)

\* Two pending offers are not both answered.
OneAnswered(u, v) ==
    IsLive(u) /\ IsLive(v) /\ IsLocal(u) /\ IsLocal(v) =>
        ~(Replies(arriving[u], peer[u].offered) /\ Replies(arriving[v], peer[v].offered))

\* Two connections have one session, or are to have another.
SessionsMatch(u, v) ==
    IsLive(u) /\ IsLive(v) =>
        \/ peer[u].session = peer[v].session
        \/ WillCall(u) \/ WillCall(v) \/ IsLocal(u) \/ IsLocal(v)

\* An offer that waits at v is of a connection that still calls, or u is to hear of v before any
\* offer of v, or v has an offer of its own which this one will meet.
JoinComes(u, v) ==
    (place[v] = "room" /\ ~HasOffer(arriving[u])) \/ JoinedFirst(arriving[u])
Collides(v) ==
    /\ peer[v] # NoPeer
    /\ WillCall(v) \/ (IsLocal(v) /\ ~ReplyBeforeOffer(arriving[v], peer[v].offered))
OfferStands(u, v) ==
    BothHere(u, v) /\ HasOffer(arriving[v]) =>
        \/ IsLive(u) /\ (WillCall(u) \/ IsLocal(u))
        \/ ~HasLeft(arriving[v]) /\ ~IsLive(u) /\ JoinComes(u, v)
        \/ ~HasLeft(arriving[v]) /\ Collides(v)
\* One that comes with the news of a rejoin is pending.
AnewOffers(u, v) ==
    BothHere(u, v) /\ HasLeft(arriving[v]) /\ HasOffer(arriving[v]) => IsLive(u) /\ IsLocal(u)
HeldStands(u, v) ==
    BothHere(u, v) /\ ~HasLeft(arriving[v]) /\ HoldsAny(v) =>
        \/ IsLive(u) /\ (WillCall(u) \/ IsLocal(u))
        \/ ~IsLive(u) /\ JoinComes(u, v)

PairHolds(u, v) ==
    /\ NotForgotten(u, v) /\ Awaited(u, v) /\ OneAnswered(u, v) /\ SessionsMatch(u, v)
    /\ OfferStands(u, v) /\ AnewOffers(u, v) /\ HeldStands(u, v)

PeerPairs ==
    /\ \A u \in Caller : Stays(u, Other(u))
    /\ ~collided => \A u \in Caller : PairHolds(u, Other(u))

PeerIInv == PeerLocal /\ PeerPairs

------------------------------------------------------------
\* The two callers.
LEMMA OtherCaller ==
    \A u \in Caller : /\ Other(u) \in Caller /\ Other(u) # u /\ Other(Other(u)) = u
                      /\ \A v \in Caller : v = u \/ v = Other(u)
<1>1. PICK a, b \in Caller : a # b /\ Caller = {a, b} BY VoicePeerAssumption
<1>2. \A u \in Caller : \E v \in Caller : v # u BY <1>1
<1>3. \A u \in Caller : Other(u) \in Caller /\ Other(u) # u BY <1>2 DEF Other
<1> QED BY <1>1, <1>3

\* An inbox grows at its end and loses its head.
LEMMA EventAppended ==
    ASSUME NEW s \in Seq(PeerEvent), NEW m \in PeerEvent
    PROVE  /\ Append(s, m) \in Seq(PeerEvent) /\ Len(s) \in Nat /\ Len(Append(s, m)) = Len(s) + 1
           /\ \A i \in 1..Len(s) : Append(s, m)[i] = s[i] /\ s[i] \in PeerEvent
           /\ Append(s, m)[Len(s) + 1] = m
    BY ElementOfSeq

LEMMA EventTaken ==
    ASSUME NEW s \in Seq(PeerEvent), s # <<>>
    PROVE  /\ Tail(s) \in Seq(PeerEvent) /\ Len(s) \in Nat \ {0} /\ Len(Tail(s)) = Len(s) - 1
           /\ Head(s) = s[1] /\ Head(s) \in PeerEvent
           /\ \A i \in 1..(Len(s) - 1) : Tail(s)[i] = s[i + 1]
           /\ \A i \in 1..Len(s) : s[i] \in PeerEvent
<1>1. Len(s) \in Nat /\ Len(s) # 0 BY EmptySeq
<1>2. /\ Tail(s) \in Seq(PeerEvent) /\ Len(Tail(s)) = Len(s) - 1
      /\ \A i \in 1..(Len(s) - 1) : Tail(s)[i] = s[i + 1]
  BY HeadTailProperties
<1>3. Head(s) = s[1] /\ \A i \in 1..Len(s) : s[i] \in PeerEvent BY ElementOfSeq
<1> QED BY <1>1, <1>2, <1>3

\* What an inbox says after a leave was told.
LEMMA LeaveTold ==
    ASSUME NEW s \in Seq(PeerEvent), NEW m \in PeerEvent, m.type = "left"
    PROVE  /\ HasLeft(Append(s, m))
           /\ \A i \in 1..Len(Append(s, m)) : ~IsNow(Append(s, m), i)
<1> DEFINE r == Append(s, m)
<1>1. /\ Len(s) \in Nat /\ Len(r) = Len(s) + 1 /\ r[Len(s) + 1] = m BY EventAppended
<1> HIDE DEF r
<1>2. HasLeft(r) BY <1>1 DEF HasLeft
<1>3. \A i \in 1..Len(r) : ~IsNow(r, i) BY <1>1 DEF IsNow
<1> QED BY <1>2, <1>3 DEF r

\* What an inbox says after anything else was sent.
LEMMA EventSent ==
    ASSUME NEW s \in Seq(PeerEvent), NEW m \in PeerEvent, m.type # "left"
    PROVE  /\ HasLeft(Append(s, m)) <=> HasLeft(s)
           /\ HasJoined(Append(s, m)) <=> HasJoined(s) \/ m.type = "joined"
           /\ HasOffer(Append(s, m)) <=> HasOffer(s) \/ m.type = "offer"
           /\ JoinedFirst(s) => JoinedFirst(Append(s, m))
           /\ m.type = "joined" /\ ~HasOffer(s) => JoinedFirst(Append(s, m))
           /\ \A o : SentIn(s, o) /\ m.type # "offer" => SentIn(Append(s, m), o)
           /\ \A o : m.type = "offer" /\ m.sdp = o /\ ~Bears(s, o) => SentIn(Append(s, m), o)
           /\ \A o : Replies(Append(s, m), o) <=> Replies(s, o) \/ Answers(m, o)
           /\ \A o : ReplyBeforeOffer(Append(s, m), o) =>
                         ReplyBeforeOffer(s, o) \/ (m.type = "offer" /\ Replies(s, o))
<1> DEFINE r == Append(s, m)
<1>1. /\ Len(s) \in Nat /\ Len(r) = Len(s) + 1 /\ r[Len(s) + 1] = m
      /\ \A i \in 1..Len(s) : r[i] = s[i]
  BY EventAppended
<1> HIDE DEF r
<1>2. \A i \in 1..Len(r) : i \in 1..Len(s) \/ i = Len(s) + 1 BY <1>1
<1>3. \A i \in 1..Len(s) : i \in 1..Len(r) /\ (IsNow(r, i) <=> IsNow(s, i)) BY <1>1, <1>2 DEF IsNow
<1>4. Len(s) + 1 \in 1..Len(r) /\ IsNow(r, Len(s) + 1) BY <1>1 DEF IsNow
<1>5. HasLeft(r) <=> HasLeft(s) BY <1>1, <1>2, <1>3 DEF HasLeft
<1>6. HasJoined(r) <=> HasJoined(s) \/ m.type = "joined" BY <1>1, <1>2, <1>3, <1>4 DEF HasJoined
<1>7. HasOffer(r) <=> HasOffer(s) \/ m.type = "offer" BY <1>1, <1>2, <1>3, <1>4 DEF HasOffer
<1>8. JoinedFirst(s) => JoinedFirst(r)
 <2> SUFFICES ASSUME NEW j \in 1..Len(s), IsNow(s, j), s[j].type = "joined",
                     \A i \in 1..j : IsNow(s, i) => s[i].type # "offer"
              PROVE  JoinedFirst(r)
   BY DEF JoinedFirst
 <2>1. j \in 1..Len(r) /\ IsNow(r, j) /\ r[j].type = "joined" BY <1>1, <1>3
 <2>2. \A i \in 1..j : i \in 1..Len(s) BY <1>1
 <2> QED BY <1>1, <1>3, <2>1, <2>2 DEF JoinedFirst
<1>9. ASSUME m.type = "joined", ~HasOffer(s)
      PROVE  JoinedFirst(r)
 <2>1. \A i \in 1..(Len(s) + 1) : IsNow(r, i) => r[i].type # "offer"
  <3> SUFFICES ASSUME NEW i \in 1..(Len(s) + 1), IsNow(r, i), r[i].type = "offer"
               PROVE  FALSE
    OBVIOUS
  <3>1. i \in 1..Len(s) BY <1>1, <1>2, <1>9
  <3> QED BY <1>1, <1>3, <1>9, <3>1 DEF HasOffer
 <2> QED BY <1>1, <1>4, <1>9, <2>1 DEF JoinedFirst
<1>10. ASSUME NEW o, SentIn(s, o), m.type # "offer"
       PROVE  SentIn(r, o)
 <2>1. PICK i \in 1..Len(s) : /\ IsNow(s, i) /\ s[i].type = "offer" /\ s[i].sdp = o
                              /\ \A j \in 1..Len(s) : j # i /\ s[j].type = "offer" => j < i /\ s[j].sdp # o
   BY <1>10 DEF SentIn
 <2>2. \A j \in 1..Len(r) : j # i /\ r[j].type = "offer" => j < i /\ r[j].sdp # o BY <1>1, <1>2, <1>10, <2>1
 <2> QED BY <1>1, <1>3, <2>1, <2>2 DEF SentIn
<1>11. ASSUME NEW o, m.type = "offer", m.sdp = o, ~Bears(s, o)
       PROVE  SentIn(r, o)
 <2>1. \A j \in 1..Len(r) : j # Len(s) + 1 /\ r[j].type = "offer" => j < Len(s) + 1 /\ r[j].sdp # o
   BY <1>1, <1>2, <1>11 DEF Bears
 <2> QED BY <1>1, <1>4, <1>11, <2>1 DEF SentIn
<1>12. ASSUME NEW o
       PROVE  Replies(r, o) <=> Replies(s, o) \/ Answers(m, o)
  BY <1>1, <1>2, <1>3, <1>4 DEF Replies
<1>13. ASSUME NEW o, ReplyBeforeOffer(r, o)
       PROVE  ReplyBeforeOffer(s, o) \/ (m.type = "offer" /\ Replies(s, o))
 <2>1. PICK i, j \in 1..Len(r) : j < i /\ r[i].type = "offer" /\ Answers(r[j], o) BY <1>13 DEF ReplyBeforeOffer
 <2>2. j \in 1..Len(s) /\ Answers(s[j], o) BY <1>1, <1>2, <2>1
 <2>3. CASE i \in 1..Len(s) BY <1>1, <2>1, <2>2, <2>3 DEF ReplyBeforeOffer
 <2>4. CASE i = Len(s) + 1 BY <1>1, <2>1, <2>2, <2>4 DEF Replies
 <2> QED BY <1>2, <2>3, <2>4
<1> QED BY <1>5, <1>6, <1>7, <1>8, <1>9, <1>10, <1>11, <1>12, <1>13 DEF r

\* What an inbox says after its head was taken.
LEMMA HeadTaken ==
    ASSUME NEW s \in Seq(PeerEvent), s # <<>>
    PROVE  /\ HasLeft(Tail(s)) => HasLeft(s)
           /\ HasLeft(s) /\ Head(s).type # "left" => HasLeft(Tail(s))
           /\ HasLeft(s) => Head(s).type = "left" \/ ~IsNow(s, 1)
           /\ HasJoined(s) /\ (Head(s).type # "joined" \/ HasLeft(s)) => HasJoined(Tail(s))
           /\ HasJoined(Tail(s)) => HasJoined(s)
           /\ HasOffer(Tail(s)) => HasOffer(s)
           /\ Head(s).type = "offer" /\ ~HasLeft(s) => HasOffer(s) /\ ~JoinedFirst(s)
           /\ Head(s).type = "joined" /\ ~HasLeft(s) => HasJoined(s)
           /\ JoinedFirst(s) /\ (Head(s).type # "joined" \/ HasLeft(s)) => JoinedFirst(Tail(s))
           /\ \A o : SentIn(s, o) /\ (HasLeft(s) \/ Head(s).type # "offer" \/ Head(s).sdp # o) =>
                         SentIn(Tail(s), o)
           /\ \A o : SentIn(s, o) /\ Head(s).type = "offer" /\ Head(s).sdp = o =>
                         ~HasOffer(Tail(s)) /\ ~HasLeft(s)
           /\ \A o : Replies(Tail(s), o) => Replies(s, o)
           /\ \A o : Replies(s, o) => Replies(Tail(s), o) \/ Answers(Head(s), o)
           /\ \A o : Answers(Head(s), o) => Replies(s, o)
           /\ \A o : ReplyBeforeOffer(Tail(s), o) => ReplyBeforeOffer(s, o)
           /\ \A o : Answers(Head(s), o) /\ ~HasLeft(s) /\ HasOffer(s) => ReplyBeforeOffer(s, o)
           /\ (\A i \in 1..Len(s) : ~IsNow(s, i)) => \A i \in 1..Len(Tail(s)) : ~IsNow(Tail(s), i)
           /\ \A i \in 1..Len(Tail(s)) : \E j \in 1..Len(s) : Tail(s)[i] = s[j]
<1> DEFINE r == Tail(s)
           n == Len(s)
<1>1. /\ n \in Nat \ {0} /\ Len(r) = n - 1 /\ Head(s) = s[1]
      /\ \A i \in 1..(n - 1) : r[i] = s[i + 1]
  BY EventTaken
<1> HIDE DEF r, n
<1>2. \A i \in 1..n : i = 1 \/ (i - 1 \in 1..(n - 1) /\ r[i - 1] = s[i]) BY <1>1
<1>3. \A i \in 1..(n - 1) : i + 1 \in 1..n BY <1>1
<1>4. \A i \in 1..(n - 1) : IsNow(r, i) <=> IsNow(s, i + 1)
 <2> SUFFICES ASSUME NEW i \in 1..(n - 1)
              PROVE  IsNow(r, i) <=> IsNow(s, i + 1)
   OBVIOUS
 <2>1. ASSUME IsNow(r, i)
       PROVE  IsNow(s, i + 1)
  <3>1. \A j \in (i + 1)..n : j - 1 \in i..Len(r) /\ r[j - 1] = s[j] BY <1>1
  <3>2. \A j \in (i + 1)..n : s[j].type # "left" BY <2>1, <3>1 DEF IsNow
  <3> QED BY <3>2 DEF IsNow, n
 <2>2. ASSUME IsNow(s, i + 1)
       PROVE  IsNow(r, i)
  <3>1. \A j \in i..Len(r) : j + 1 \in (i + 1)..n /\ r[j] = s[j + 1] BY <1>1
  <3>2. \A j \in i..Len(r) : r[j].type # "left" BY <2>2, <3>1 DEF IsNow, n
  <3> QED BY <3>2 DEF IsNow
 <2> QED BY <2>1, <2>2
<1>5. /\ HasLeft(r) => HasLeft(s)
      /\ HasLeft(s) /\ s[1].type # "left" => HasLeft(r)
 <2>1. ASSUME NEW i \in 1..Len(r), r[i].type = "left"
       PROVE  HasLeft(s)
  <3>1. i + 1 \in 1..n /\ s[i + 1].type = "left" BY <1>1, <2>1
  <3> QED BY <3>1 DEF HasLeft, n
 <2>2. ASSUME NEW i \in 1..n, s[i].type = "left", s[1].type # "left"
       PROVE  HasLeft(r)
  <3>1. i - 1 \in 1..Len(r) /\ r[i - 1].type = "left" BY <1>1, <1>2, <2>2
  <3> QED BY <3>1 DEF HasLeft
 <2> QED BY <2>1, <2>2 DEF HasLeft, n
<1>6. /\ HasLeft(s) => ~IsNow(s, 1)
      /\ ~HasLeft(s) => \A i \in 1..n : IsNow(s, i)
  BY <1>1 DEF HasLeft, IsNow, n
<1>7. /\ HasJoined(s) /\ (s[1].type # "joined" \/ HasLeft(s)) => HasJoined(r)
      /\ HasJoined(r) => HasJoined(s)
      /\ HasOffer(r) => HasOffer(s)
 <2>1. ASSUME NEW i \in 1..n, IsNow(s, i), s[i].type = "joined", s[1].type # "joined" \/ HasLeft(s)
       PROVE  HasJoined(r)
  <3>1. i # 1 BY <1>6, <2>1
  <3>2. i - 1 \in 1..Len(r) /\ r[i - 1] = s[i] /\ IsNow(r, i - 1)
   <4>1. i - 1 \in 1..(n - 1) /\ r[i - 1] = s[i] /\ (i - 1) + 1 = i BY <1>1, <1>2, <3>1
   <4> QED BY <1>1, <1>4, <2>1, <4>1
  <3> QED BY <2>1, <3>2 DEF HasJoined
 <2>2. \A i \in 1..Len(r) : i + 1 \in 1..n /\ r[i] = s[i + 1] /\ (IsNow(r, i) => IsNow(s, i + 1))
   BY <1>1, <1>3, <1>4
 <2> QED BY <2>1, <2>2 DEF HasJoined, HasOffer, n
<1>8. /\ s[1].type = "offer" /\ ~HasLeft(s) => HasOffer(s)
      /\ s[1].type = "joined" /\ ~HasLeft(s) => HasJoined(s)
  BY <1>1, <1>6 DEF HasOffer, HasJoined, n
<1>9. s[1].type = "offer" /\ ~HasLeft(s) => ~JoinedFirst(s)
 <2> SUFFICES ASSUME s[1].type = "offer", ~HasLeft(s), NEW j \in 1..n,
                     \A i \in 1..j : IsNow(s, i) => s[i].type # "offer"
              PROVE  FALSE
   BY DEF JoinedFirst, n
 <2>1. 1 \in 1..j /\ 1 \in 1..n BY <1>1
 <2> QED BY <1>6, <2>1
<1>10. ASSUME JoinedFirst(s), s[1].type # "joined" \/ HasLeft(s)
       PROVE  JoinedFirst(r)
 <2>1. PICK j \in 1..n : /\ IsNow(s, j) /\ s[j].type = "joined"
                         /\ \A i \in 1..j : IsNow(s, i) => s[i].type # "offer"
   BY <1>10 DEF JoinedFirst, n
 <2>2. j # 1 BY <1>6, <1>10, <2>1
 <2>3. j - 1 \in 1..(n - 1) /\ r[j - 1] = s[j] /\ (j - 1) + 1 = j BY <1>1, <1>2, <2>2
 <2>4. IsNow(r, j - 1) /\ r[j - 1].type = "joined" BY <1>4, <2>1, <2>3
 <2>5. ASSUME NEW i \in 1..(j - 1), IsNow(r, i)
       PROVE  r[i].type # "offer"
  <3>1. i \in 1..(n - 1) /\ i + 1 \in 1..j /\ r[i] = s[i + 1] BY <1>1, <2>3
  <3> QED BY <1>4, <2>1, <2>5, <3>1
 <2> QED BY <1>1, <2>3, <2>4, <2>5 DEF JoinedFirst
<1>11. ASSUME NEW o, SentIn(s, o)
       PROVE  /\ HasLeft(s) \/ s[1].type # "offer" \/ s[1].sdp # o => SentIn(r, o)
              /\ s[1].type = "offer" /\ s[1].sdp = o => ~HasOffer(r) /\ ~HasLeft(s)
 <2>1. PICK i \in 1..n : /\ IsNow(s, i) /\ s[i].type = "offer" /\ s[i].sdp = o
                         /\ \A j \in 1..n : j # i /\ s[j].type = "offer" => j < i /\ s[j].sdp # o
   BY <1>11 DEF SentIn, n
 <2>2. ASSUME HasLeft(s) \/ s[1].type # "offer" \/ s[1].sdp # o
       PROVE  SentIn(r, o)
  <3>1. i # 1 BY <1>6, <2>1, <2>2
  <3>2. i - 1 \in 1..(n - 1) /\ r[i - 1] = s[i] /\ (i - 1) + 1 = i BY <1>1, <1>2, <3>1
  <3>3. IsNow(r, i - 1) BY <1>4, <2>1, <3>2
  <3>4. ASSUME NEW j \in 1..(n - 1), j # i - 1, r[j].type = "offer"
        PROVE  j < i - 1 /\ r[j].sdp # o
   <4>1. j + 1 \in 1..n /\ r[j] = s[j + 1] /\ j + 1 # i BY <1>1, <3>4
   <4>2. j + 1 < i /\ s[j + 1].sdp # o BY <2>1, <3>4, <4>1
   <4> QED BY <1>1, <4>1, <4>2
  <3> QED BY <1>1, <2>1, <3>2, <3>3, <3>4 DEF SentIn
 <2>3. ASSUME s[1].type = "offer", s[1].sdp = o
       PROVE  ~HasOffer(r) /\ ~HasLeft(s)
  <3>1. i = 1 BY <1>1, <2>1, <2>3
  <3>2. ~HasLeft(s) BY <1>6, <2>1, <3>1
  <3>3. ASSUME NEW k \in 1..(n - 1), r[k].type = "offer"
        PROVE  FALSE
   <4>1. k + 1 \in 1..n /\ k + 1 # 1 /\ s[k + 1].type = "offer" BY <1>1, <3>3
   <4> QED BY <2>1, <3>1, <4>1
  <3> QED BY <1>1, <3>2, <3>3 DEF HasOffer
 <2> QED BY <2>2, <2>3
<1>12. ASSUME NEW o
       PROVE  /\ Replies(r, o) => Replies(s, o)
              /\ Replies(s, o) => Replies(r, o) \/ Answers(s[1], o)
              /\ Answers(s[1], o) => Replies(s, o)
  BY <1>1, <1>2, <1>3 DEF Replies, n
<1>13. ASSUME NEW o, ReplyBeforeOffer(r, o)
       PROVE  ReplyBeforeOffer(s, o)
 <2>1. PICK i, j \in 1..Len(r) : j < i /\ r[i].type = "offer" /\ Answers(r[j], o) BY <1>13 DEF ReplyBeforeOffer
 <2>2. i + 1 \in 1..n /\ j + 1 \in 1..n /\ j + 1 < i + 1 /\ r[i] = s[i + 1] /\ r[j] = s[j + 1] BY <1>1, <2>1
 <2> QED BY <2>1, <2>2 DEF ReplyBeforeOffer, n
<1>14. ASSUME NEW o, Answers(s[1], o), ~HasLeft(s), HasOffer(s)
       PROVE  ReplyBeforeOffer(s, o)
 <2>1. PICK i \in 1..n : s[i].type = "offer" BY <1>14 DEF HasOffer, n
 <2>2. i # 1 BY <1>14, <2>1 DEF Answers
 <2>3. 1 \in 1..n /\ 1 < i BY <1>1, <2>2
 <2> QED BY <1>14, <2>1, <2>3 DEF ReplyBeforeOffer, n
<1>15. (\A i \in 1..n : ~IsNow(s, i)) => \A i \in 1..Len(r) : ~IsNow(r, i) BY <1>1, <1>3, <1>4
<1>16. \A i \in 1..Len(r) : \E j \in 1..n : r[i] = s[j] BY <1>1, <1>3
<1> QED BY <1>1, <1>5, <1>6, <1>7, <1>8, <1>9, <1>10, <1>11, <1>12, <1>13, <1>14, <1>15, <1>16 DEF r, n

------------------------------------------------------------
\* The parts of PeerLocal, of u and of the other caller.
LEMMA LocalHolds ==
    ASSUME NEW u \in Caller, NEW v, v = Other(u), VoicePeerTypeOK',
           (SideHolds(u) /\ ScreenSends(u))', (SideHolds(v) /\ ScreenSends(v))',
           ~collided' => (Orderly(u) /\ OfferCarries(u) /\ ScreenDue(u))',
           ~collided' => (Orderly(v) /\ OfferCarries(v) /\ ScreenDue(v))',
           OffersKnown(u, v)', OffersKnown(v, u)'
    PROVE  PeerLocal'
<1>1. v \in Caller /\ Other(v) = u /\ \A x \in Caller : x = u \/ x = v BY OtherCaller
<1>2. \A x \in Caller : (SideHolds(x) /\ ScreenSends(x))' BY <1>1
<1>3. ~collided' => \A x \in Caller : (Orderly(x) /\ OfferCarries(x) /\ ScreenDue(x))' BY <1>1
<1>4. \A x \in Caller : OffersKnown(x, Other(x))' BY <1>1
<1> QED BY <1>2, <1>3, <1>4 DEF PeerLocal

\* A caller whose side is as it was.
LEMMA SideFramed ==
    ASSUME PeerLocal, NEW v \in Caller,
           place'[v] = place[v], peer'[v] = peer[v], work'[v] = work[v], wanted'[v] = wanted[v],
           inFlight'[v] = inFlight[v], viewed'[v] = viewed[v], made'[v] = made[v],
           early'[v] = early[v], ~collided' => ~collided \/ peer[v] = NoPeer
    PROVE  /\ (SideHolds(v) /\ ScreenSends(v))'
           /\ ~collided' => (Orderly(v) /\ OfferCarries(v) /\ ScreenDue(v))'
<1>1. SideHolds(v) /\ ScreenSends(v) /\ (~collided => Orderly(v) /\ OfferCarries(v) /\ ScreenDue(v))
  BY DEF PeerLocal
<1>2. SideHolds(v)' BY <1>1 DEF SideHolds, WillCall, Registers, IsLocal
<1>3. ScreenSends(v)' BY <1>1 DEF ScreenSends, Registers
<1>4. ASSUME ~collided'
      PROVE  (Orderly(v) /\ OfferCarries(v) /\ ScreenDue(v))'
 <2>1. CASE ~collided BY <1>1, <2>1 DEF Orderly, OfferCarries, ScreenDue, WillCall
 <2>2. CASE peer[v] = NoPeer
  <3>1. work'[v] = {} /\ peer'[v] = NoPeer BY <1>1, <2>2 DEF SideHolds
  <3> QED BY <3>1 DEF Orderly, OfferCarries, ScreenDue
 <2> QED BY <1>4, <2>1, <2>2
<1> QED BY <1>2, <1>3, <1>4

\* A caller without a connection has nothing to keep.
LEMMA SideEmpty ==
    ASSUME NEW u \in Caller, peer'[u] = NoPeer, work'[u] = {}, ~wanted'[u], ~inFlight'[u], ~early'[u]
    PROVE  /\ (SideHolds(u) /\ ScreenSends(u))'
           /\ (Orderly(u) /\ OfferCarries(u) /\ ScreenDue(u))'
<1>1. SideHolds(u)' BY DEF SideHolds, IsLocal, Registers
<1>2. (ScreenSends(u) /\ Orderly(u) /\ OfferCarries(u) /\ ScreenDue(u))'
  BY DEF ScreenSends, Orderly, OfferCarries, ScreenDue
<1> QED BY <1>1, <1>2

\* Offers stay known when the new ones are.
OlderThen(x, o) ==
    /\ o.by = x /\ o.pc <= made'[x]
    /\ peer'[x] # NoPeer /\ o.pc = peer'[x].id => o.rev <= peer'[x].rev

LEMMA OffersStayKnown ==
    ASSUME NEW x \in Caller, NEW y, OffersKnown(x, y),
           \A o : Older(x, o) => OlderThen(x, o),
           \A i \in 1..Len(arriving'[y]) :
               \/ \E j \in 1..Len(arriving[y]) : arriving'[y][i] = arriving[y][j]
               \/ arriving'[y][i].type # "offer"
               \/ OlderThen(x, arriving'[y][i].sdp),
           \A w \in work'[y] : w \in work[y] \/ w.sdp = NoSession \/ OlderThen(x, w.sdp),
           \A i \in 1..Len(arriving'[x]) :
               \/ \E j \in 1..Len(arriving[x]) : arriving'[x][i] = arriving[x][j]
               \/ arriving'[x][i].type # "answer"
               \/ /\ OlderThen(x, arriving'[x][i].sdp.offer)
                  /\ arriving'[x][i].sdp.screens[x] = arriving'[x][i].sdp.offer.screen
    PROVE  OffersKnown(x, y)'
<1>1. \A i \in 1..Len(arriving'[y]) :
          arriving'[y][i].type = "offer" => OlderThen(x, arriving'[y][i].sdp)
  BY DEF OffersKnown
<1>2. \A w \in work'[y] : w.sdp # NoSession => OlderThen(x, w.sdp) BY DEF OffersKnown
<1>3. \A i \in 1..Len(arriving'[x]) :
          arriving'[x][i].type = "answer" =>
              /\ OlderThen(x, arriving'[x][i].sdp.offer)
              /\ arriving'[x][i].sdp.screens[x] = arriving'[x][i].sdp.offer.screen
  BY DEF OffersKnown
<1> QED BY <1>1, <1>2, <1>3 DEF OffersKnown, Older, OlderThen

\* A step that at most takes events, adds no offer to what is held, and keeps or closes connections.
LEMMA OffersKept ==
    ASSUME NEW x \in Caller, NEW y, OffersKnown(x, y), made'[x] = made[x],
           peer'[x] = NoPeer \/ (peer[x] # NoPeer /\ peer'[x].id = peer[x].id /\ peer'[x].rev = peer[x].rev),
           \A w \in work'[y] : w \in work[y] \/ w.sdp = NoSession,
           \A i \in 1..Len(arriving'[y]) :
               \/ \E j \in 1..Len(arriving[y]) : arriving'[y][i] = arriving[y][j]
               \/ arriving'[y][i].type \in {"joined", "left"},
           \A i \in 1..Len(arriving'[x]) :
               \/ \E j \in 1..Len(arriving[x]) : arriving'[x][i] = arriving[x][j]
               \/ arriving'[x][i].type \in {"joined", "left"}
    PROVE  OffersKnown(x, y)'
<1>1. \A o : Older(x, o) => OlderThen(x, o) BY DEF Older, OlderThen
<1> QED BY <1>1, OffersStayKnown

------------------------------------------------------------
\* A caller joins, or is announced.
LEMMA JoinsRoomLocal ==
    ASSUME PeerLocal, NEW u \in Caller, NEW v, v = Other(u), JoinsRoom(u)
    PROVE  PeerLocal'
<1>1. v \in Caller /\ v # u /\ Other(v) = u BY OtherCaller
<1>2. /\ place'[u] = "room" /\ place'[v] = place[v] /\ place[u] = "out" /\ joins < MaxJoins /\ joins' = joins + 1
      /\ peer' = peer /\ work' = work /\ wanted' = wanted /\ inFlight' = inFlight /\ viewed' = viewed
      /\ arriving' = arriving /\ made' = made /\ views' = views /\ collided' = collided /\ early' = early
      /\ place' \in [Caller -> {"out", "room", "in"}]
  BY <1>1 DEF JoinsRoom, PeerLocal, VoicePeerTypeOK
<1>3. VoicePeerTypeOK' BY <1>2, VoicePeerAssumption DEF PeerLocal, VoicePeerTypeOK
<1>4. peer'[u] = NoPeer /\ work'[u] = {} /\ ~wanted'[u] /\ ~inFlight'[u] /\ ~early'[u]
  BY <1>2 DEF PeerLocal, SideHolds
<1>5. OffersKnown(u, v)' /\ OffersKnown(v, u)'
 <2>1. OffersKnown(u, v) /\ OffersKnown(v, u) BY <1>1 DEF PeerLocal
 <2> QED BY <1>2, <2>1 DEF OffersKnown, Older
<1> QED BY <1>1, <1>2, <1>3, <1>4, <1>5, SideEmpty, SideFramed, LocalHolds

LEMMA AnnouncedLocal ==
    ASSUME PeerLocal, NEW u \in Caller, NEW v, v = Other(u), Announced(u)
    PROVE  PeerLocal'
<1>1. v \in Caller /\ v # u /\ Other(v) = u BY OtherCaller
<1> DEFINE m == Notice("joined")
<1>2. /\ place'[u] = "in" /\ place'[v] = place[v] /\ place[u] = "room"
      /\ peer' = peer /\ work' = work /\ wanted' = wanted /\ inFlight' = inFlight /\ viewed' = viewed
      /\ made' = made /\ views' = views /\ joins' = joins /\ collided' = collided /\ early' = early
      /\ place' \in [Caller -> {"out", "room", "in"}]
  BY <1>1 DEF Announced, PeerLocal, VoicePeerTypeOK
<1>3. /\ arriving' \in [Caller -> Seq(PeerEvent)] /\ arriving'[u] = arriving[u]
      /\ arriving'[v] = arriving[v] \/ arriving'[v] = Append(arriving[v], m)
      /\ arriving[v] \in Seq(PeerEvent) /\ m \in PeerEvent /\ m.type = "joined"
 <2>1. m \in PeerEvent /\ m.type = "joined" BY DEF Notice, Signal, PeerEvent
 <2>2. arriving \in [Caller -> Seq(PeerEvent)] /\ arriving[v] \in Seq(PeerEvent)
   BY <1>1 DEF PeerLocal, VoicePeerTypeOK
 <2>3. Append(arriving[v], m) \in Seq(PeerEvent) BY <2>1, <2>2, EventAppended
 <2>4. arriving' = arriving \/ arriving' = [arriving EXCEPT ![v] = Append(arriving[v], m)]
   BY DEF Announced, Relay
 <2> HIDE DEF m
 <2> QED BY <1>1, <2>1, <2>2, <2>3, <2>4
<1> HIDE DEF m
<1>4. VoicePeerTypeOK' BY <1>2, <1>3 DEF PeerLocal, VoicePeerTypeOK
<1>5. SideHolds(u)' /\ ScreenSends(u)'
 <2>1. SideHolds(u) /\ ScreenSends(u) BY DEF PeerLocal
 <2>2. ScreenSends(u)' BY <1>2, <2>1 DEF ScreenSends, Registers
 <2>3. SideHolds(u)' BY <1>2, <2>1 DEF SideHolds, WillCall, Registers, IsLocal
 <2> QED BY <2>2, <2>3
<1>6. ~collided' => (Orderly(u) /\ OfferCarries(u) /\ ScreenDue(u))'
  BY <1>2 DEF PeerLocal, Orderly, OfferCarries, ScreenDue, WillCall
<1>7. OffersKnown(u, v)' /\ OffersKnown(v, u)'
 <2>1. OffersKnown(u, v) /\ OffersKnown(v, u) BY <1>1 DEF PeerLocal
 <2>2. \A o : /\ Older(u, o) => OlderThen(u, o)
              /\ Older(v, o) => OlderThen(v, o)
   BY <1>2 DEF Older, OlderThen
 <2>3. \A i \in 1..Len(arriving'[v]) :
           (\E j \in 1..Len(arriving[v]) : arriving'[v][i] = arriving[v][j]) \/ arriving'[v][i] = m
  <3>1. /\ Len(arriving[v]) \in Nat /\ Len(Append(arriving[v], m)) = Len(arriving[v]) + 1
        /\ \A i \in 1..Len(arriving[v]) : Append(arriving[v], m)[i] = arriving[v][i]
        /\ Append(arriving[v], m)[Len(arriving[v]) + 1] = m
    BY ONLY <1>3, EventAppended
  <3>2. CASE arriving'[v] = arriving[v] BY <3>2
  <3>3. CASE arriving'[v] = Append(arriving[v], m) BY <3>1, <3>3
  <3> QED BY <1>3, <3>2, <3>3
 <2> QED BY <1>1, <1>2, <1>3, <2>1, <2>2, <2>3, OffersStayKnown
<1> QED BY <1>1, <1>2, <1>4, <1>5, <1>6, <1>7, SideFramed, LocalHolds

------------------------------------------------------------
\* A connection is closed, by its caller's leave or by the news of the other's.
LEMMA ClosesFields ==
    ASSUME PeerLocal, NEW u \in Caller, NEW v, v = Other(u), Closes(u)
    PROVE  /\ peer' \in [Caller -> Connection \union {NoPeer}] /\ work' \in [Caller -> SUBSET PeerTask]
           /\ wanted' \in [Caller -> BOOLEAN] /\ inFlight' \in [Caller -> BOOLEAN]
           /\ viewed' \in [Caller -> BOOLEAN] /\ collided' \in BOOLEAN /\ early' \in [Caller -> BOOLEAN]
           /\ peer'[u] = NoPeer /\ work'[u] = {} /\ ~wanted'[u] /\ ~inFlight'[u] /\ ~viewed'[u] /\ ~early'[u]
           /\ peer'[v] = peer[v] /\ work'[v] = work[v] /\ wanted'[v] = wanted[v]
           /\ inFlight'[v] = inFlight[v] /\ viewed'[v] = viewed[v] /\ early'[v] = early[v]
           /\ collided' = (collided /\ peer[v] # NoPeer)
<1>1. v \in Caller /\ v # u BY OtherCaller
<1>2. collided' = (collided /\ peer[v] # NoPeer) /\ collided \in BOOLEAN
  BY DEF Closes, PeerLocal, VoicePeerTypeOK
<1>3. collided' \in BOOLEAN BY <1>2
<1>4. /\ peer' = [peer EXCEPT ![u] = NoPeer] /\ work' = [work EXCEPT ![u] = {}]
      /\ wanted' = [wanted EXCEPT ![u] = FALSE] /\ inFlight' = [inFlight EXCEPT ![u] = FALSE]
      /\ viewed' = [viewed EXCEPT ![u] = FALSE] /\ early' = [early EXCEPT ![u] = FALSE]
  BY DEF Closes
<1>5. /\ peer \in [Caller -> Connection \union {NoPeer}] /\ work \in [Caller -> SUBSET PeerTask]
      /\ wanted \in [Caller -> BOOLEAN] /\ inFlight \in [Caller -> BOOLEAN]
      /\ viewed \in [Caller -> BOOLEAN] /\ early \in [Caller -> BOOLEAN]
  BY DEF PeerLocal, VoicePeerTypeOK
<1> QED BY <1>1, <1>2, <1>3, <1>4, <1>5

LEMMA LeavesLocal ==
    ASSUME PeerLocal, NEW u \in Caller, NEW v, v = Other(u), Leaves(u)
    PROVE  PeerLocal'
<1>1. v \in Caller /\ v # u /\ Other(v) = u BY OtherCaller
<1> DEFINE m == Notice("left")
<1>2. /\ place'[u] = "out" /\ place'[v] = place[v] /\ place' \in [Caller -> {"out", "room", "in"}]
      /\ Closes(u) /\ made' = made /\ views' = views /\ joins' = joins
  BY <1>1 DEF Leaves, PeerLocal, VoicePeerTypeOK
<1>3. /\ arriving' \in [Caller -> Seq(PeerEvent)]
      /\ arriving'[u] = arriving[u] \/ arriving'[u] = <<>>
      /\ arriving'[v] = arriving[v] \/ arriving'[v] = Append(arriving[v], m)
      /\ arriving[v] \in Seq(PeerEvent) /\ m \in PeerEvent /\ m.type = "left"
 <2>1. m \in PeerEvent /\ m.type = "left" BY DEF Notice, Signal, PeerEvent
 <2>2. arriving \in [Caller -> Seq(PeerEvent)] /\ arriving[v] \in Seq(PeerEvent) /\ arriving[u] \in Seq(PeerEvent)
   BY <1>1 DEF PeerLocal, VoicePeerTypeOK
 <2>3. Append(arriving[v], m) \in Seq(PeerEvent) /\ <<>> \in Seq(PeerEvent)
   BY <2>1, <2>2, EventAppended, EmptySeq
 <2>4. \E lost \in BOOLEAN, told \in Seq(PeerEvent) :
           /\ told = arriving[v] \/ told = Append(arriving[v], m)
           /\ arriving' = [arriving EXCEPT ![v] = told, ![u] = IF lost THEN <<>> ELSE @]
   BY <2>2, <2>3 DEF Leaves
 <2> HIDE DEF m
 <2> QED BY <1>1, <2>1, <2>2, <2>3, <2>4
<1> HIDE DEF m
<1>4. VoicePeerTypeOK' BY <1>1, <1>2, <1>3, ClosesFields DEF PeerLocal, VoicePeerTypeOK
<1>5. OffersKnown(u, v)' /\ OffersKnown(v, u)'
 <2>1. OffersKnown(u, v) /\ OffersKnown(v, u) BY <1>1 DEF PeerLocal
 <2>2. \A i \in 1..Len(arriving'[v]) :
           (\E j \in 1..Len(arriving[v]) : arriving'[v][i] = arriving[v][j]) \/ arriving'[v][i].type \in {"joined", "left"}
  <3>1. CASE arriving'[v] = arriving[v] BY <3>1
  <3>2. CASE arriving'[v] = Append(arriving[v], m)
   <4>1. /\ Len(arriving[v]) \in Nat /\ Len(Append(arriving[v], m)) = Len(arriving[v]) + 1
         /\ \A i \in 1..Len(arriving[v]) : Append(arriving[v], m)[i] = arriving[v][i]
         /\ Append(arriving[v], m)[Len(arriving[v]) + 1] = m
     BY <1>3, EventAppended
   <4> QED BY <1>3, <3>2, <4>1
  <3> QED BY <1>3, <3>1, <3>2
 <2>3. \A i \in 1..Len(arriving'[u]) : \E j \in 1..Len(arriving[u]) : arriving'[u][i] = arriving[u][j]
  <3>1. CASE arriving'[u] = arriving[u] BY <3>1
  <3>2. CASE arriving'[u] = <<>>
   <4>1. Len(<<>>) = 0 /\ \A i : i \notin 1..0 BY EmptySeq
   <4> QED BY <3>2, <4>1
  <3> QED BY <1>3, <3>1, <3>2
 <2>4. OffersKnown(u, v)' BY <1>1, <1>2, <2>1, <2>2, <2>3, ClosesFields, OffersKept
 <2>5. peer'[v] = NoPeer \/ (peer[v] # NoPeer /\ peer'[v].id = peer[v].id /\ peer'[v].rev = peer[v].rev)
   BY <1>2, ClosesFields
 <2>6. OffersKnown(v, u)' BY <1>1, <1>2, <2>1, <2>2, <2>3, <2>5, ClosesFields, OffersKept
 <2> QED BY <2>4, <2>6
<1>6. (SideHolds(v) /\ ScreenSends(v))' /\ (~collided' => (Orderly(v) /\ OfferCarries(v) /\ ScreenDue(v))')
 <2>1. /\ peer'[v] = peer[v] /\ work'[v] = work[v] /\ wanted'[v] = wanted[v] /\ inFlight'[v] = inFlight[v]
       /\ viewed'[v] = viewed[v] /\ early'[v] = early[v] /\ (~collided' => ~collided \/ peer[v] = NoPeer)
   BY <1>2, ClosesFields
 <2> QED BY <1>1, <1>2, <2>1, SideFramed
<1>7. (SideHolds(u) /\ ScreenSends(u))' /\ (Orderly(u) /\ OfferCarries(u) /\ ScreenDue(u))'
  BY <1>2, ClosesFields, SideEmpty
<1> QED BY <1>4, <1>5, <1>6, <1>7, LocalHolds

\* No event of r is new.
Within(r, s) == \A i \in 1..Len(r) : \E j \in 1..Len(s) : r[i] = s[j]

\* What a step that takes an event makes of the inboxes.
LEMMA TakenFields ==
    ASSUME PeerLocal, NEW u \in Caller, NEW v, v = Other(u), arriving[u] # <<>>, arriving' = Taken(u)
    PROVE  /\ arriving' \in [Caller -> Seq(PeerEvent)] /\ arriving'[u] = Tail(arriving[u])
           /\ arriving'[v] = arriving[v] /\ arriving[u] \in Seq(PeerEvent) /\ arriving[v] \in Seq(PeerEvent)
           /\ Head(arriving[u]) \in PeerEvent /\ 1 \in 1..Len(arriving[u]) /\ Head(arriving[u]) = arriving[u][1]
           /\ Within(arriving'[u], arriving[u]) /\ Within(arriving'[v], arriving[v])
<1>1. v \in Caller /\ v # u BY OtherCaller
<1>2. arriving \in [Caller -> Seq(PeerEvent)] BY DEF PeerLocal, VoicePeerTypeOK
<1>3. /\ Tail(arriving[u]) \in Seq(PeerEvent) /\ Head(arriving[u]) \in PeerEvent
      /\ Len(arriving[u]) \in Nat \ {0} /\ Head(arriving[u]) = arriving[u][1]
  BY <1>2, EventTaken
<1>4. arriving' = [arriving EXCEPT ![u] = Tail(arriving[u])] BY DEF Taken
<1>5. Within(Tail(arriving[u]), arriving[u]) /\ Within(arriving[v], arriving[v]) BY <1>2, HeadTaken DEF Within
<1> QED BY <1>1, <1>2, <1>3, <1>4, <1>5

LEMMA UserLeftLocal ==
    ASSUME PeerLocal, NEW u \in Caller, NEW v, v = Other(u), UserLeft(u)
    PROVE  PeerLocal'
<1>1. v \in Caller /\ v # u /\ Other(v) = u BY OtherCaller
<1>2. /\ place' = place /\ Closes(u) /\ made' = made /\ views' = views /\ joins' = joins
      /\ arriving' = Taken(u) /\ arriving[u] # <<>>
  BY DEF UserLeft, Head1
<1>3. VoicePeerTypeOK' BY <1>1, <1>2, ClosesFields, TakenFields DEF PeerLocal, VoicePeerTypeOK
<1>4. OffersKnown(u, v)' /\ OffersKnown(v, u)'
 <2>1. OffersKnown(u, v) /\ OffersKnown(v, u) BY <1>1 DEF PeerLocal
 <2>2. /\ peer'[u] = NoPeer /\ peer'[v] = peer[v] /\ work'[u] = {} /\ work'[v] = work[v] /\ made' = made
   BY <1>2, ClosesFields
 <2>3. /\ Within(arriving'[u], arriving[u]) /\ Within(arriving'[v], arriving[v]) BY <1>2, TakenFields
 <2>4. OffersKnown(u, v)' BY <1>1, <2>1, <2>2, <2>3, OffersKept DEF Within
 <2>5. OffersKnown(v, u)'
  <3>1. peer'[v] = NoPeer \/ (peer[v] # NoPeer /\ peer'[v].id = peer[v].id /\ peer'[v].rev = peer[v].rev)
    BY <2>2
  <3>2. \A w \in work'[u] : w \in work[u] \/ w.sdp = NoSession BY <2>2
  <3> QED BY <1>1, <2>1, <2>2, <2>3, <3>1, <3>2, OffersKept DEF Within
 <2> QED BY <2>4, <2>5
<1>5. (SideHolds(v) /\ ScreenSends(v))' /\ (~collided' => (Orderly(v) /\ OfferCarries(v) /\ ScreenDue(v))')
 <2>1. /\ peer'[v] = peer[v] /\ work'[v] = work[v] /\ wanted'[v] = wanted[v] /\ inFlight'[v] = inFlight[v]
       /\ viewed'[v] = viewed[v] /\ early'[v] = early[v] /\ (~collided' => ~collided \/ peer[v] = NoPeer)
   BY <1>2, ClosesFields
 <2> QED BY <1>1, <1>2, <2>1, SideFramed
<1>6. (SideHolds(u) /\ ScreenSends(u))' /\ (Orderly(u) /\ OfferCarries(u) /\ ScreenDue(u))'
  BY <1>2, ClosesFields, SideEmpty
<1> QED BY <1>3, <1>4, <1>5, <1>6, LocalHolds

\* A step that only takes an event.
LEMMA OnlyTakesLocal ==
    ASSUME PeerLocal, NEW u \in Caller, NEW v, v = Other(u), arriving[u] # <<>>, arriving' = Taken(u),
           place' = place, peer' = peer, work' = work, wanted' = wanted, inFlight' = inFlight,
           viewed' = viewed, made' = made, views' = views, joins' = joins, collided' = collided, early' = early
    PROVE  PeerLocal'
<1>1. v \in Caller /\ v # u /\ Other(v) = u BY OtherCaller
<1>2. VoicePeerTypeOK' BY TakenFields DEF PeerLocal, VoicePeerTypeOK
<1>3. OffersKnown(u, v)' /\ OffersKnown(v, u)'
 <2>1. OffersKnown(u, v) /\ OffersKnown(v, u) BY <1>1 DEF PeerLocal
 <2>2. \A o : /\ Older(u, o) => OlderThen(u, o)
              /\ Older(v, o) => OlderThen(v, o)
   BY DEF Older, OlderThen
 <2> QED BY <1>1, <2>1, <2>2, TakenFields, OffersStayKnown DEF Within
<1>4. \A x \in Caller : /\ (SideHolds(x) /\ ScreenSends(x))'
                        /\ ~collided' => (Orderly(x) /\ OfferCarries(x) /\ ScreenDue(x))'
  BY SideFramed
<1> QED BY <1>1, <1>2, <1>3, <1>4, LocalHolds

LEMMA SkippedLocal ==
    ASSUME PeerLocal, NEW u \in Caller, NEW v, v = Other(u), Skipped(u)
    PROVE  PeerLocal'
    BY OnlyTakesLocal DEF Skipped

------------------------------------------------------------
\* A connection is opened, to call or for an offer of the other.
LEMMA OpensFields ==
    ASSUME PeerLocal, NEW u \in Caller, NEW v, v = Other(u), NEW sdp \in Offer \union {NoSession}, Opens(u, sdp)
    PROVE  /\ peer' \in [Caller -> Connection \union {NoPeer}] /\ work' \in [Caller -> SUBSET PeerTask]
           /\ made' \in [Caller -> Nat]
           /\ peer'[u] # NoPeer /\ peer'[u].id = made[u] + 1 /\ peer'[u].state = "stable" /\ ~peer'[u].sends
           /\ peer'[u].last = "none" /\ peer'[u].rev = 0 /\ peer'[u].session = NoSession
           /\ made'[u] = made[u] + 1 /\ made[u] \in Nat /\ work'[u] = {Await("register", sdp, FALSE)}
           /\ peer'[v] = peer[v] /\ work'[v] = work[v] /\ made'[v] = made[v]
<1>1. v \in Caller /\ v # u BY OtherCaller
<1>2. /\ peer \in [Caller -> Connection \union {NoPeer}] /\ work \in [Caller -> SUBSET PeerTask]
      /\ made \in [Caller -> Nat]
  BY DEF PeerLocal, VoicePeerTypeOK
<1>3. /\ peer' = [peer EXCEPT ![u] = NewPeer(u)] /\ made' = [made EXCEPT ![u] = @ + 1]
      /\ work' = [work EXCEPT ![u] = {Await("register", sdp, FALSE)}]
  BY DEF Opens
<1>4. NewPeer(u) \in Connection /\ NewPeer(u) # NoPeer
 <2>1. NewPeer(u) \in Connection BY <1>2 DEF NewPeer, Connection
 <2> QED BY <2>1, VoicePeerAssumption
<1>5. Await("register", sdp, FALSE) \in PeerTask BY DEF Await, PeerTask
<1>6. /\ NewPeer(u).id = made[u] + 1 /\ NewPeer(u).state = "stable" /\ ~NewPeer(u).sends
      /\ NewPeer(u).last = "none" /\ NewPeer(u).rev = 0 /\ NewPeer(u).session = NoSession
  BY DEF NewPeer
<1>7. /\ peer'[u] = NewPeer(u) /\ peer'[v] = peer[v] /\ peer' \in [Caller -> Connection \union {NoPeer}]
      /\ made'[u] = made[u] + 1 /\ made[u] \in Nat /\ made'[v] = made[v] /\ made' \in [Caller -> Nat]
  BY <1>1, <1>2, <1>3, <1>4
<1>8. /\ work'[u] = {Await("register", sdp, FALSE)} /\ work'[v] = work[v] /\ work' \in [Caller -> SUBSET PeerTask]
  BY <1>1, <1>2, <1>3, <1>5
<1> QED BY <1>4, <1>6, <1>7, <1>8

LEMMA OpensLocal ==
    ASSUME PeerLocal, NEW u \in Caller, NEW v, v = Other(u), NEW sdp \in Offer \union {NoSession},
           Opens(u, sdp), peer[u] = NoPeer, place[u] # "out", sdp # NoSession => Older(v, sdp),
           arriving[u] # <<>>, arriving' = Taken(u), place' = place, wanted' = wanted, inFlight' = inFlight,
           viewed' = viewed, views' = views, joins' = joins, collided' = collided, early' = early
    PROVE  PeerLocal'
<1>1. v \in Caller /\ v # u /\ Other(v) = u BY OtherCaller
<1>2. VoicePeerTypeOK' BY OpensFields, TakenFields DEF PeerLocal, VoicePeerTypeOK
<1>3. /\ peer'[u] # NoPeer /\ peer'[u].id = made'[u] /\ peer'[u].state = "stable" /\ ~peer'[u].sends
      /\ peer'[u].last = "none" /\ peer'[u].rev = 0 /\ peer'[u].session = NoSession
      /\ work'[u] = {Await("register", sdp, FALSE)}
      /\ peer'[v] = peer[v] /\ work'[v] = work[v] /\ made'[v] = made[v]
      /\ made'[u] = made[u] + 1 /\ made[u] \in Nat
  BY OpensFields
<1>4. Await("register", sdp, FALSE).op = "register" /\ Await("register", sdp, FALSE).sdp = sdp BY DEF Await
<1>5. ~wanted'[u] /\ ~inFlight'[u] /\ ~early'[u] BY DEF PeerLocal, SideHolds
<1>6. SideHolds(u)' /\ ScreenSends(u)'
  BY <1>3, <1>4, <1>5 DEF SideHolds, ScreenSends, WillCall, Registers, IsLocal
<1>7. (Orderly(u) /\ OfferCarries(u) /\ ScreenDue(u))' BY <1>3, <1>4, <1>5 DEF Orderly, OfferCarries, ScreenDue
<1>8. OffersKnown(u, v)' /\ OffersKnown(v, u)'
 <2>1. OffersKnown(u, v) /\ OffersKnown(v, u) BY <1>1 DEF PeerLocal
 <2>2. \A o \in Offer : Older(u, o) => OlderThen(u, o) BY <1>3 DEF Older, OlderThen, Offer
 <2>3. \A o : Older(v, o) => OlderThen(v, o) BY <1>3 DEF Older, OlderThen
 <2>4. Within(arriving'[u], arriving[u]) /\ Within(arriving'[v], arriving[v]) BY TakenFields
 <2>5. OffersKnown(v, u)'
  <3>1. \A w \in work'[u] : w.sdp = NoSession \/ OlderThen(v, w.sdp) BY <1>3, <1>4, <2>3
  <3> QED BY <1>1, <2>1, <2>3, <2>4, <3>1, OffersStayKnown DEF Within
 <2>6. OffersKnown(u, v)'
  <3>1. /\ \A i \in 1..Len(arriving[v]) :
               arriving[v][i].type = "offer" => arriving[v][i].sdp \in Offer
        /\ \A i \in 1..Len(arriving[u]) :
               arriving[u][i].type = "answer" => arriving[u][i].sdp.offer \in Offer
        /\ \A w \in work[v] : w.sdp # NoSession => w.sdp \in Offer
   <4>1. arriving[u] \in Seq(PeerEvent) /\ arriving[v] \in Seq(PeerEvent) /\ work[v] \in SUBSET PeerTask
     BY <1>1 DEF PeerLocal, VoicePeerTypeOK
   <4>2. \A i \in 1..Len(arriving[v]) : arriving[v][i] \in PeerEvent BY <4>1, ElementOfSeq
   <4>3. \A i \in 1..Len(arriving[u]) : arriving[u][i] \in PeerEvent BY <4>1, ElementOfSeq
   <4> QED BY <4>1, <4>2, <4>3 DEF PeerEvent, PeerTask, Agreement
  <3>2. \A i \in 1..Len(arriving'[v]) :
            arriving'[v][i].type = "offer" => OlderThen(u, arriving'[v][i].sdp)
   <4>1. \A j \in 1..Len(arriving[v]) :
             arriving[v][j].type = "offer" => OlderThen(u, arriving[v][j].sdp)
     BY <2>1, <2>2, <3>1 DEF OffersKnown
   <4> QED BY <2>4, <4>1 DEF Within
  <3>3. \A w \in work'[v] : w.sdp # NoSession => OlderThen(u, w.sdp) BY <1>3, <2>1, <2>2, <3>1 DEF OffersKnown
  <3>4. \A i \in 1..Len(arriving'[u]) :
            arriving'[u][i].type = "answer" =>
                /\ OlderThen(u, arriving'[u][i].sdp.offer)
                /\ arriving'[u][i].sdp.screens[u] = arriving'[u][i].sdp.offer.screen
   <4>1. \A j \in 1..Len(arriving[u]) :
             arriving[u][j].type = "answer" =>
                 /\ OlderThen(u, arriving[u][j].sdp.offer)
                 /\ arriving[u][j].sdp.screens[u] = arriving[u][j].sdp.offer.screen
     BY <2>1, <2>2, <3>1 DEF OffersKnown
   <4> QED BY <2>4, <4>1 DEF Within
  <3> QED BY <3>2, <3>3, <3>4 DEF OffersKnown, Older, OlderThen
 <2> QED BY <2>5, <2>6
<1>9. (SideHolds(v) /\ ScreenSends(v))' /\ (~collided' => (Orderly(v) /\ OfferCarries(v) /\ ScreenDue(v))')
  BY <1>1, <1>3, SideFramed
<1> QED BY <1>2, <1>6, <1>7, <1>8, <1>9, LocalHolds

LEMMA UserJoinedLocal ==
    ASSUME PeerLocal, NEW u \in Caller, NEW v, v = Other(u), UserJoined(u)
    PROVE  PeerLocal'
<1>1. CASE peer[u] = NoPeer
 <2>1. Opens(u, NoSession) /\ place[u] # "out" /\ arriving[u] # <<>> /\ arriving' = Taken(u)
   BY <1>1 DEF UserJoined, Head1
 <2> QED BY <1>1, <2>1, OpensLocal DEF UserJoined
<1>2. CASE peer[u] # NoPeer
 <2>1. /\ peer' = peer /\ made' = made /\ work' = work /\ arriving[u] # <<>> /\ arriving' = Taken(u)
   BY <1>2 DEF UserJoined, Head1
 <2> QED BY <2>1, OnlyTakesLocal DEF UserJoined
<1> QED BY <1>1, <1>2

\* An event at the head of an inbox is known.
LEMMA HeadKnown ==
    ASSUME PeerLocal, NEW u \in Caller, NEW v, v = Other(u), arriving[u] # <<>>
    PROVE  /\ Head(arriving[u]).type = "offer" =>
                  Head(arriving[u]).sdp \in Offer /\ Older(v, Head(arriving[u]).sdp)
           /\ Head(arriving[u]).type = "answer" =>
                  /\ Head(arriving[u]).sdp \in Agreement /\ Older(u, Head(arriving[u]).sdp.offer)
                  /\ Head(arriving[u]).sdp.screens[u] = Head(arriving[u]).sdp.offer.screen
<1>1. v \in Caller /\ Other(v) = u BY OtherCaller
<1>2. arriving[u] \in Seq(PeerEvent) BY DEF PeerLocal, VoicePeerTypeOK
<1>3. 1 \in 1..Len(arriving[u]) /\ Head(arriving[u]) = arriving[u][1] /\ Head(arriving[u]) \in PeerEvent
  BY <1>2, EventTaken
<1>4. OffersKnown(u, v) /\ OffersKnown(v, u) BY <1>1 DEF PeerLocal
<1>5. /\ Head(arriving[u]).type = "offer" => Older(v, Head(arriving[u]).sdp)
      /\ Head(arriving[u]).type = "answer" =>
             /\ Older(u, Head(arriving[u]).sdp.offer)
             /\ Head(arriving[u]).sdp.screens[u] = Head(arriving[u]).sdp.offer.screen
  BY <1>3, <1>4 DEF OffersKnown
<1>6. /\ Head(arriving[u]).type = "offer" => Head(arriving[u]).sdp \in Offer
      /\ Head(arriving[u]).type = "answer" => Head(arriving[u]).sdp \in Agreement
  BY <1>3 DEF PeerEvent
<1> QED BY <1>5, <1>6

LEMMA OfferReceivedLocal ==
    ASSUME PeerLocal, NEW u \in Caller, NEW v, v = Other(u), OfferReceived(u)
    PROVE  PeerLocal'
<1>1. v \in Caller /\ v # u /\ Other(v) = u BY OtherCaller
<1> DEFINE offer == Head(arriving[u]).sdp
<1>2. /\ arriving[u] # <<>> /\ Head(arriving[u]).type = "offer" /\ place[u] # "out" /\ arriving' = Taken(u)
      /\ place' = place /\ wanted' = wanted /\ inFlight' = inFlight /\ viewed' = viewed /\ views' = views
      /\ joins' = joins /\ early' = early
  BY DEF OfferReceived, Head1
<1>3. offer \in Offer /\ Older(v, offer) /\ offer # NoSession BY <1>2, HeadKnown, VoicePeerAssumption
<1>4. CASE peer[u] = NoPeer
 <2>1. Opens(u, offer) /\ collided' = collided BY <1>4 DEF OfferReceived
 <2> QED BY <1>2, <1>3, <1>4, <2>1, OpensLocal
<1>5. CASE peer[u] # NoPeer
 <2> DEFINE task == Await("answer", offer, FALSE)
            c == peer[u]
            d == peer'[u]
 <2>1. /\ peer' = [peer EXCEPT ![u].state = "remote"] /\ work' = [work EXCEPT ![u] = @ \union {task}]
       /\ collided' = (collided \/ c.state # "stable" \/ work[u] # {}) /\ made' = made
   BY <1>5 DEF OfferReceived
 <2>2. task \in PeerTask /\ task.op = "answer" /\ task.sdp = offer BY <1>3 DEF Await, PeerTask
 <2> HIDE DEF task, offer
 <2>3. /\ peer \in [Caller -> Connection \union {NoPeer}] /\ work \in [Caller -> SUBSET PeerTask]
       /\ c \in Connection /\ collided \in BOOLEAN
   BY <1>5 DEF PeerLocal, VoicePeerTypeOK
 <2>4. d = [c EXCEPT !.state = "remote"] /\ peer'[v] = peer[v] /\ work'[u] = work[u] \union {task} /\ work'[v] = work[v]
   BY <1>1, <2>1, <2>3
 <2>5. d \in Connection /\ d # NoPeer BY <2>3, <2>4, VoicePeerAssumption DEF Connection
 <2>6. /\ d.id = c.id /\ d.state = "remote" /\ d.sends = c.sends /\ d.last = c.last /\ d.rev = c.rev
       /\ d.offered = c.offered /\ d.session = c.session
   BY <2>3, <2>4 DEF Connection
 <2>7. VoicePeerTypeOK'
  <3>1. peer' \in [Caller -> Connection \union {NoPeer}] /\ work' \in [Caller -> SUBSET PeerTask]
    BY <2>1, <2>2, <2>3, <2>4, <2>5
  <3>2. collided' \in BOOLEAN BY <2>1, <2>3
  <3> QED BY <1>2, <2>1, <3>1, <3>2, TakenFields DEF PeerLocal, VoicePeerTypeOK
 <2>8. SideHolds(u) /\ ScreenSends(u) BY DEF PeerLocal
 <2>9. SideHolds(u)' BY <1>2, <1>3, <1>5, <2>1, <2>2, <2>4, <2>5, <2>6, <2>8 DEF SideHolds, Registers, IsLocal
 <2>10. ScreenSends(u)' BY <1>2, <1>5, <2>2, <2>4, <2>6, <2>8 DEF ScreenSends, Registers
 <2>11. ASSUME ~collided'
        PROVE  (Orderly(u) /\ OfferCarries(u) /\ ScreenDue(u))'
  <3>1. ~collided /\ c.state = "stable" /\ work[u] = {} /\ work'[u] = {task} BY <2>1, <2>4, <2>11
  <3>2. ScreenDue(u) /\ ~wanted[u] BY <1>5, <2>8, <3>1 DEF PeerLocal, SideHolds
  <3>3. (Orderly(u) /\ OfferCarries(u))' BY <2>2, <2>6, <3>1 DEF Orderly, OfferCarries
  <3>4. ScreenDue(u)' BY <1>2, <1>5, <2>6, <3>1, <3>2 DEF ScreenDue, WillCall
  <3> QED BY <3>3, <3>4
 <2>12. OffersKnown(u, v)' /\ OffersKnown(v, u)'
  <3>1. OffersKnown(u, v) /\ OffersKnown(v, u) BY <1>1 DEF PeerLocal
  <3>2. \A o : (Older(u, o) => OlderThen(u, o)) /\ (Older(v, o) => OlderThen(v, o))
    BY <1>5, <2>1, <2>4, <2>5, <2>6 DEF Older, OlderThen
  <3>3. Within(arriving'[u], arriving[u]) /\ Within(arriving'[v], arriving[v]) BY <1>2, TakenFields
  <3>4. OffersKnown(u, v)' BY <1>1, <2>4, <3>1, <3>2, <3>3, OffersStayKnown DEF Within
  <3>5. OffersKnown(v, u)' BY <1>1, <1>3, <2>2, <2>4, <3>1, <3>2, <3>3, OffersStayKnown DEF Within
  <3> QED BY <3>4, <3>5
 <2>13. (SideHolds(v) /\ ScreenSends(v))' /\ (~collided' => (Orderly(v) /\ OfferCarries(v) /\ ScreenDue(v))')
   BY <1>1, <1>2, <2>1, <2>4, SideFramed
 <2> QED BY <2>7, <2>9, <2>10, <2>11, <2>12, <2>13, LocalHolds
<1> QED BY <1>4, <1>5

------------------------------------------------------------
\* A step on a connection that brings no offer and no event.
LEMMA OffersHeld ==
    ASSUME PeerLocal, NEW u \in Caller, NEW v, v = Other(u), peer'[v] = peer[v], work'[v] = work[v],
           made' = made, peer[u] # NoPeer, peer'[u] # NoPeer, peer'[u].id = peer[u].id,
           peer'[u].rev = peer[u].rev,
           \A w \in work'[u] : w.sdp = NoSession \/ \E x \in work[u] : x.sdp = w.sdp,
           Within(arriving'[u], arriving[u]), Within(arriving'[v], arriving[v])
    PROVE  OffersKnown(u, v)' /\ OffersKnown(v, u)'
<1>1. v \in Caller /\ v # u /\ Other(v) = u BY OtherCaller
<1>2. OffersKnown(u, v) /\ OffersKnown(v, u) BY <1>1 DEF PeerLocal
<1>3. \A o : (Older(u, o) => OlderThen(u, o)) /\ (Older(v, o) => OlderThen(v, o)) BY DEF Older, OlderThen
<1>4. \A w \in work'[u] : w.sdp = NoSession \/ OlderThen(v, w.sdp)
 <2>1. \A x \in work[u] : x.sdp # NoSession => OlderThen(v, x.sdp) BY <1>2, <1>3 DEF OffersKnown
 <2> QED BY <2>1
<1>5. OffersKnown(u, v)' BY <1>1, <1>2, <1>3, OffersStayKnown DEF Within
<1>6. OffersKnown(v, u)' BY <1>1, <1>2, <1>3, <1>4, OffersStayKnown DEF Within
<1> QED BY <1>5, <1>6

LEMMA RegisterDoneLocal ==
    ASSUME PeerLocal, NEW u \in Caller, NEW v, v = Other(u), RegisterDone(u)
    PROVE  PeerLocal'
<1>1. v \in Caller /\ v # u /\ Other(v) = u BY OtherCaller
<1>2. PICK w \in work[u] :
        /\ w.op = "register"
        /\ peer' = [peer EXCEPT ![u].sends = viewed[u],
                                ![u].last = IF w.sdp = NoSession THEN "make" ELSE @,
                                ![u].state = IF w.sdp = NoSession THEN @ ELSE "remote"]
        /\ work' = [work EXCEPT ![u] = (@ \ {w}) \union
                        {IF w.sdp = NoSession THEN Await("make", NoSession, viewed[u])
                         ELSE Await("answer", w.sdp, FALSE)}]
        /\ collided' = (collided \/ (/\ w.sdp # NoSession
                                     /\ \/ peer[u].state # "stable"
                                        \/ \E o \in work[u] : o.op = "renego"))
        /\ early' = [early EXCEPT ![u] = w.sdp # NoSession /\ viewed[u]]
  BY DEF RegisterDone
<1>3. /\ place' = place /\ wanted' = wanted /\ inFlight' = inFlight /\ viewed' = viewed
      /\ arriving' = arriving /\ made' = made /\ views' = views /\ joins' = joins
  BY DEF RegisterDone
<1> DEFINE c == peer[u]
           d == peer'[u]
           task == IF w.sdp = NoSession THEN Await("make", NoSession, viewed[u])
                   ELSE Await("answer", w.sdp, FALSE)
<1>4. SideHolds(u) /\ ScreenSends(u) BY DEF PeerLocal
<1>5. /\ peer \in [Caller -> Connection \union {NoPeer}] /\ work \in [Caller -> SUBSET PeerTask]
      /\ collided \in BOOLEAN /\ viewed[u] \in BOOLEAN /\ early \in [Caller -> BOOLEAN]
      /\ c \in Connection /\ c # NoPeer /\ w \in PeerTask
  BY <1>2, <1>4 DEF PeerLocal, VoicePeerTypeOK, SideHolds
<1>6. /\ task \in PeerTask /\ task.op = (IF w.sdp = NoSession THEN "make" ELSE "answer") /\ task.sdp = w.sdp
      /\ w.sdp = NoSession => task.screen = viewed[u]
  BY <1>5 DEF Await, PeerTask
<1>7. work'[u] = (work[u] \ {w}) \union {task} /\ work'[v] = work[v] /\ work' \in [Caller -> SUBSET PeerTask]
  BY <1>1, <1>2, <1>5, <1>6
<1> HIDE DEF task
<1>8. d = [c EXCEPT !.sends = viewed[u], !.last = IF w.sdp = NoSession THEN "make" ELSE @,
                    !.state = IF w.sdp = NoSession THEN @ ELSE "remote"]
      /\ peer'[v] = peer[v]
  BY <1>1, <1>2, <1>5
<1>9. /\ d \in Connection /\ d.id = c.id /\ d.sends = viewed[u] /\ d.rev = c.rev
      /\ d.offered = c.offered /\ d.session = c.session
      /\ d.last = (IF w.sdp = NoSession THEN "make" ELSE c.last)
      /\ d.state = (IF w.sdp = NoSession THEN c.state ELSE "remote")
  BY <1>5, <1>8 DEF Connection
<1>10. d # NoPeer /\ peer' \in [Caller -> Connection \union {NoPeer}] BY <1>2, <1>5, <1>9, VoicePeerAssumption
<1>11. /\ early'[u] = (w.sdp # NoSession /\ viewed[u]) /\ early'[v] = early[v] /\ early' \in [Caller -> BOOLEAN]
       /\ collided' \in BOOLEAN
  BY <1>1, <1>2, <1>5
<1>12. VoicePeerTypeOK' BY <1>3, <1>7, <1>10, <1>11 DEF PeerLocal, VoicePeerTypeOK
<1>13. \A x \in work'[u] : x.op # "register" BY <1>2, <1>4, <1>6, <1>7 DEF SideHolds
<1>14. SideHolds(u)'
 <2>1. (\E x \in work'[u] : x.op = "renego") <=> (\E x \in work[u] : x.op = "renego") BY <1>2, <1>6, <1>7
 <2>2. \A x1, x2 \in work'[u] : x1.op = x2.op /\ x1.op \in {"renego", "register"} => x1 = x2
   BY <1>4, <1>6, <1>7, <1>13 DEF SideHolds
 <2>3. \A x \in work'[u] : /\ x.op = "answer" => x.sdp # NoSession
                           /\ x.op \in {"make", "renego"} => x.sdp = NoSession
   BY <1>4, <1>6, <1>7 DEF SideHolds
 <2>4. d.state = "remote" => \E x \in work'[u] : x.op = "answer"
  <3>1. CASE w.sdp = NoSession BY <1>2, <1>4, <1>5, <1>7, <1>9, <3>1 DEF SideHolds
  <3>2. CASE w.sdp # NoSession BY <1>6, <1>7, <3>2
  <3> QED BY <3>1, <3>2
 <2>5. d.state = "stable" /\ d.session = NoSession => WillCall(u)'
  <3>1. d.state = "stable" => w.sdp = NoSession BY <1>9
  <3> QED BY <1>6, <1>7, <1>9, <3>1 DEF WillCall
 <2>6. IsLocal(u)' => IsLocal(u) BY <1>5, <1>9 DEF IsLocal
 <2>7. ~Registers(u)' BY <1>13 DEF Registers
 <2> QED
   BY <1>3, <1>4, <1>5, <1>9, <1>10, <1>11, <2>1, <2>2, <2>3, <2>4, <2>5, <2>6, <2>7 DEF SideHolds, IsLocal
<1>15. ScreenSends(u)' BY <1>3, <1>9, <1>10 DEF ScreenSends
<1>16. ASSUME ~collided'
       PROVE  (Orderly(u) /\ OfferCarries(u) /\ ScreenDue(u))'
 <2>1. /\ ~collided
       /\ w.sdp # NoSession => c.state = "stable" /\ \A o \in work[u] : o.op # "renego"
   BY <1>2, <1>16
 <2>2. Orderly(u) /\ ScreenDue(u) BY <2>1 DEF PeerLocal
 <2>3. \A x \in work'[u] : x = task \/ (x \in work[u] /\ x.op = "renego") BY <1>2, <1>7, <2>2 DEF Orderly
 <2>4. CASE w.sdp = NoSession
  <3>1. \A x \in work[u] : x.op = "renego" => c.state # "remote" BY <2>2 DEF Orderly
  <3>2. Orderly(u)' BY <1>6, <1>9, <2>3, <2>4, <3>1 DEF Orderly
  <3>3. OfferCarries(u)' BY <1>3, <1>6, <1>9, <2>3, <2>4 DEF OfferCarries
  <3>4. ScreenDue(u)' BY <1>6, <1>7, <1>9, <2>4 DEF ScreenDue, WillCall
  <3> QED BY <3>2, <3>3, <3>4
 <2>5. CASE w.sdp # NoSession
  <3>1. \A x \in work'[u] : x = task BY <2>1, <2>3, <2>5
  <3>2. Orderly(u)' /\ OfferCarries(u)' BY <1>6, <1>9, <2>5, <3>1 DEF Orderly, OfferCarries
  <3>3. ~early[u] /\ ~wanted[u] /\ ~WillCall(u) /\ (c.sends => viewed[u])
   <4>1. Registers(u) BY <1>2 DEF Registers
   <4>2. ~inFlight[u] BY <1>4, <2>1, <2>5 DEF SideHolds
   <4>3. ~WillCall(u) BY <1>2, <2>1, <2>2, <2>5 DEF WillCall, Orderly
   <4> QED BY <1>4, <1>5, <2>1, <2>5, <4>1, <4>2, <4>3 DEF SideHolds, ScreenSends
  <3>4. ScreenDue(u)'
   <4>1. \/ c.session = NoSession /\ ~c.sends
         \/ c.session # NoSession /\ c.session.screens[u] = c.sends
     BY <1>5, <2>1, <2>2, <2>5, <3>3 DEF ScreenDue
   <4>2. CASE viewed[u] BY <1>11, <2>5, <4>2 DEF ScreenDue
   <4>3. CASE ~viewed[u]
    <5>1. ~c.sends /\ ~d.sends /\ d.state = "remote" /\ d.session = c.session BY <1>9, <2>5, <3>3, <4>3
    <5>2. CASE c.session = NoSession BY <5>1, <5>2 DEF ScreenDue
    <5>3. CASE c.session # NoSession
     <6>1. c.session.screens[u] = c.sends /\ c.sends \in BOOLEAN /\ d.sends \in BOOLEAN
       BY <1>5, <1>9, <4>1, <5>3 DEF Connection
     <6>2. d.session.screens[u] = d.sends BY <5>1, <6>1
     <6> QED BY <5>1, <5>3, <6>2 DEF ScreenDue
    <5> QED BY <5>2, <5>3
   <4> QED BY <4>2, <4>3
  <3> QED BY <3>2, <3>4
 <2> QED BY <2>4, <2>5
<1>17. OffersKnown(u, v)' /\ OffersKnown(v, u)'
 <2>1. Within(arriving'[u], arriving[u]) /\ Within(arriving'[v], arriving[v]) BY <1>3 DEF Within
 <2>2. \A x \in work'[u] : x.sdp = NoSession \/ \E y \in work[u] : y.sdp = x.sdp BY <1>2, <1>6, <1>7
 <2> QED BY <1>1, <1>3, <1>5, <1>7, <1>8, <1>9, <1>10, <2>1, <2>2, OffersHeld
<1>18. (SideHolds(v) /\ ScreenSends(v))' /\ (~collided' => (Orderly(v) /\ OfferCarries(v) /\ ScreenDue(v))')
 <2>1. ~collided' => ~collided BY <1>2
 <2> QED BY <1>1, <1>3, <1>7, <1>8, <1>11, <2>1, SideFramed
<1> QED BY <1>12, <1>14, <1>15, <1>16, <1>17, <1>18, LocalHolds

------------------------------------------------------------
\* The same for a step that changes the connection, which only typed offers are compared with.
LEMMA OffersKnownOn ==
    ASSUME PeerLocal, NEW x \in Caller, NEW y, y = Other(x),
           \A o \in Offer : Older(x, o) => OlderThen(x, o),
           \A i \in 1..Len(arriving'[y]) :
               \/ \E j \in 1..Len(arriving[y]) : arriving'[y][i] = arriving[y][j]
               \/ arriving'[y][i].type # "offer"
               \/ OlderThen(x, arriving'[y][i].sdp),
           \A w \in work'[y] : w \in work[y] \/ w.sdp = NoSession,
           Within(arriving'[x], arriving[x])
    PROVE  OffersKnown(x, y)'
<1>1. y \in Caller /\ OffersKnown(x, y) BY OtherCaller DEF PeerLocal
<1>2. /\ \A i \in 1..Len(arriving[y]) :
             arriving[y][i].type = "offer" => arriving[y][i].sdp \in Offer
      /\ \A i \in 1..Len(arriving[x]) :
             arriving[x][i].type = "answer" => arriving[x][i].sdp.offer \in Offer
      /\ \A w \in work[y] : w.sdp # NoSession => w.sdp \in Offer
 <2>1. arriving[x] \in Seq(PeerEvent) /\ arriving[y] \in Seq(PeerEvent) /\ work[y] \in SUBSET PeerTask
   BY <1>1 DEF PeerLocal, VoicePeerTypeOK
 <2>2. \A i \in 1..Len(arriving[y]) : arriving[y][i] \in PeerEvent BY <2>1, ElementOfSeq
 <2>3. \A i \in 1..Len(arriving[x]) : arriving[x][i] \in PeerEvent BY <2>1, ElementOfSeq
 <2> QED BY <2>1, <2>2, <2>3 DEF PeerEvent, PeerTask, Agreement
<1>3. \A i \in 1..Len(arriving'[y]) :
          arriving'[y][i].type = "offer" => OlderThen(x, arriving'[y][i].sdp)
 <2>1. \A j \in 1..Len(arriving[y]) :
           arriving[y][j].type = "offer" => OlderThen(x, arriving[y][j].sdp)
   BY <1>1, <1>2 DEF OffersKnown
 <2> QED BY <2>1
<1>4. \A w \in work'[y] : w.sdp # NoSession => OlderThen(x, w.sdp) BY <1>1, <1>2 DEF OffersKnown
<1>5. \A i \in 1..Len(arriving'[x]) :
          arriving'[x][i].type = "answer" =>
              /\ OlderThen(x, arriving'[x][i].sdp.offer)
              /\ arriving'[x][i].sdp.screens[x] = arriving'[x][i].sdp.offer.screen
 <2>1. \A j \in 1..Len(arriving[x]) :
           arriving[x][j].type = "answer" =>
               /\ OlderThen(x, arriving[x][j].sdp.offer)
               /\ arriving[x][j].sdp.screens[x] = arriving[x][j].sdp.offer.screen
   BY <1>1, <1>2 DEF OffersKnown
 <2> QED BY <2>1 DEF Within
<1> QED BY <1>3, <1>4, <1>5 DEF OffersKnown, Older, OlderThen

------------------------------------------------------------
\* The offer a connection makes next.
NextOffer(u, screen) == [by |-> u, pc |-> peer[u].id, rev |-> peer[u].rev + 1, screen |-> screen]

LEMMA SendsFields ==
    ASSUME PeerLocal, NEW u \in Caller, NEW v, v = Other(u), NEW screen \in BOOLEAN,
           peer[u] # NoPeer, SendsOffer(u, screen, arriving)
    PROVE  /\ NextOffer(u, screen) \in Offer /\ NextOffer(u, screen) # NoSession
           /\ NextOffer(u, screen).by = u /\ NextOffer(u, screen).pc = peer[u].id
           /\ NextOffer(u, screen).rev = peer[u].rev + 1 /\ NextOffer(u, screen).screen = screen
           /\ peer' \in [Caller -> Connection \union {NoPeer}] /\ peer'[u] # NoPeer /\ peer'[v] = peer[v]
           /\ peer'[u].id = peer[u].id /\ peer'[u].state = "local" /\ peer'[u].sends = peer[u].sends
           /\ peer'[u].last = peer[u].last /\ peer'[u].rev = peer[u].rev + 1 /\ peer[u].rev \in Nat
           /\ peer'[u].offered = NextOffer(u, screen) /\ peer'[u].session = peer[u].session
           /\ arriving' \in [Caller -> Seq(PeerEvent)] /\ arriving'[u] = arriving[u]
           /\ arriving[v] \in Seq(PeerEvent) /\ Signal("offer", NextOffer(u, screen)) \in PeerEvent
           /\ Signal("offer", NextOffer(u, screen)).type = "offer"
           /\ Signal("offer", NextOffer(u, screen)).sdp = NextOffer(u, screen)
           /\ arriving'[v] = (IF place[u] # "out" /\ place[v] # "out"
                              THEN Append(arriving[v], Signal("offer", NextOffer(u, screen))) ELSE arriving[v])
<1>1. v \in Caller /\ v # u BY OtherCaller
<1> DEFINE o == NextOffer(u, screen)
           m == Signal("offer", o)
           c == peer[u]
<1>2. /\ peer \in [Caller -> Connection \union {NoPeer}] /\ arriving \in [Caller -> Seq(PeerEvent)]
      /\ c \in Connection
  BY DEF PeerLocal, VoicePeerTypeOK
<1>3. /\ o \in Offer /\ o.by = u /\ o.pc = c.id /\ o.rev = c.rev + 1 /\ o.screen = screen
      /\ c.rev \in Nat
  BY <1>2 DEF NextOffer, Offer, Connection
<1>4. o # NoSession BY <1>3, VoicePeerAssumption
<1>5. m \in PeerEvent /\ m.type = "offer" /\ m.sdp = o BY <1>3 DEF Signal, PeerEvent
<1>6. /\ peer' = [peer EXCEPT ![u].state = "local", ![u].rev = @ + 1, ![u].offered = o]
      /\ arriving' = Relayed(u, arriving, m)
  BY DEF SendsOffer, NextOffer
<1> HIDE DEF o, m
<1>7. /\ peer'[u] = [c EXCEPT !.state = "local", !.rev = c.rev + 1, !.offered = o] /\ peer'[v] = peer[v]
  BY <1>1, <1>2, <1>6
<1>8. /\ peer'[u] \in Connection
      /\ peer'[u].id = c.id /\ peer'[u].state = "local" /\ peer'[u].sends = c.sends
      /\ peer'[u].last = c.last /\ peer'[u].rev = c.rev + 1
      /\ peer'[u].offered = o /\ peer'[u].session = c.session
 <2>1. c.rev + 1 \in Nat /\ o \in Offer \union {NoSession} BY <1>3
 <2>2. /\ peer'[u].id = c.id /\ peer'[u].state = "local" /\ peer'[u].sends = c.sends
       /\ peer'[u].last = c.last /\ peer'[u].rev = c.rev + 1
       /\ peer'[u].offered = o /\ peer'[u].session = c.session
   BY <1>2, <1>7 DEF Connection
 <2>3. peer'[u] \in Connection BY <1>2, <1>7, <2>1 DEF Connection
 <2> QED BY <2>2, <2>3
<1>9. peer'[u] # NoPeer /\ peer' \in [Caller -> Connection \union {NoPeer}]
  BY <1>2, <1>6, <1>8, VoicePeerAssumption
<1>10. Append(arriving[v], m) \in Seq(PeerEvent) /\ arriving[v] \in Seq(PeerEvent)
  BY <1>1, <1>2, <1>5, EventAppended
<1>11. /\ arriving' \in [Caller -> Seq(PeerEvent)] /\ arriving'[u] = arriving[u]
       /\ arriving'[v] = (IF place[u] # "out" /\ place[v] # "out" THEN Append(arriving[v], m) ELSE arriving[v])
 <2>1. CASE place[u] # "out" /\ place[v] # "out"
  <3>1. arriving' = [arriving EXCEPT ![v] = Append(@, m)] BY <1>6, <2>1 DEF Relayed
  <3> QED BY <1>1, <1>2, <1>10, <2>1, <3>1
 <2>2. CASE ~(place[u] # "out" /\ place[v] # "out")
  <3>1. arriving' = arriving BY <1>6, <2>2 DEF Relayed
  <3> QED BY <1>1, <1>2, <2>2, <3>1
 <2> QED BY <2>1, <2>2
<1> QED BY <1>3, <1>4, <1>5, <1>8, <1>9, <1>7, <1>10, <1>11 DEF o, m

LEMMA SendsKnown ==
    ASSUME PeerLocal, NEW u \in Caller, NEW v, v = Other(u), NEW screen \in BOOLEAN,
           peer[u] # NoPeer, SendsOffer(u, screen, arriving), made' = made,
           work'[u] \subseteq work[u], work'[v] = work[v]
    PROVE  OffersKnown(u, v)' /\ OffersKnown(v, u)'
<1>1. v \in Caller /\ v # u /\ Other(v) = u BY OtherCaller
<1> DEFINE o == NextOffer(u, screen)
           m == Signal("offer", o)
<1>2. /\ peer'[u] # NoPeer /\ peer'[u].id = peer[u].id /\ peer'[u].rev = peer[u].rev + 1 /\ peer[u].rev \in Nat
      /\ peer'[v] = peer[v] /\ arriving'[u] = arriving[u] /\ arriving[v] \in Seq(PeerEvent) /\ m \in PeerEvent
      /\ arriving'[v] = Append(arriving[v], m) \/ arriving'[v] = arriving[v]
      /\ o.by = u /\ o.pc = peer[u].id /\ o.rev = peer[u].rev + 1 /\ m.type = "offer" /\ m.sdp = o
 <2>1. /\ peer'[u] # NoPeer /\ peer'[u].id = peer[u].id /\ peer'[u].rev = peer[u].rev + 1 /\ peer[u].rev \in Nat
       /\ peer'[v] = peer[v] /\ arriving'[u] = arriving[u] /\ arriving[v] \in Seq(PeerEvent) /\ m \in PeerEvent
       /\ o.by = u /\ o.pc = peer[u].id /\ o.rev = peer[u].rev + 1 /\ m.type = "offer" /\ m.sdp = o
   BY SendsFields
 <2>2. arriving'[v] = IF place[u] # "out" /\ place[v] # "out" THEN Append(arriving[v], m) ELSE arriving[v]
   BY SendsFields
 <2> QED BY <2>1, <2>2
<1> HIDE DEF o, m
<1>3. /\ \A x \in Offer : Older(u, x) => OlderThen(u, x)
      /\ \A x \in Offer : Older(v, x) => OlderThen(v, x)
  BY <1>2 DEF Older, OlderThen, Offer
<1>4. OlderThen(u, o)
 <2>1. peer[u].id = made[u] /\ made[u] \in Nat BY DEF PeerLocal, SideHolds, VoicePeerTypeOK
 <2> QED BY <1>2, <2>1 DEF OlderThen
<1>5. \A i \in 1..Len(arriving'[v]) :
          (\E j \in 1..Len(arriving[v]) : arriving'[v][i] = arriving[v][j]) \/ arriving'[v][i] = m
 <2>1. CASE arriving'[v] = arriving[v] BY <2>1
 <2>2. CASE arriving'[v] = Append(arriving[v], m)
  <3>1. arriving[v] \in Seq(PeerEvent) /\ m \in PeerEvent BY <1>2
  <3>2. /\ Len(arriving[v]) \in Nat /\ Len(Append(arriving[v], m)) = Len(arriving[v]) + 1
        /\ \A i \in 1..Len(arriving[v]) : Append(arriving[v], m)[i] = arriving[v][i]
        /\ Append(arriving[v], m)[Len(arriving[v]) + 1] = m
    BY ONLY <3>1, EventAppended
  <3> QED BY <2>2, <3>2
 <2> QED BY <1>2, <2>1, <2>2
<1>6. Within(arriving'[u], arriving[u]) BY <1>2 DEF Within
<1>7. OffersKnown(u, v)'
 <2>1. \A i \in 1..Len(arriving'[v]) :
           \/ \E j \in 1..Len(arriving[v]) : arriving'[v][i] = arriving[v][j]
           \/ arriving'[v][i].type # "offer" \/ OlderThen(u, arriving'[v][i].sdp)
   BY <1>2, <1>4, <1>5
 <2>2. \A w \in work'[v] : w \in work[v] \/ w.sdp = NoSession BY <1>2
 <2> QED BY <1>1, <1>3, <1>6, <2>1, <2>2, OffersKnownOn
<1>8. OffersKnown(v, u)'
 <2>1. OffersKnown(v, u) BY <1>1 DEF PeerLocal
 <2>2. \A x : Older(v, x) => OlderThen(v, x) BY <1>2 DEF Older, OlderThen
 <2>3. \A i \in 1..Len(arriving'[v]) :
           \/ \E j \in 1..Len(arriving[v]) : arriving'[v][i] = arriving[v][j]
           \/ arriving'[v][i].type # "answer"
   BY <1>2, <1>5
 <2> QED BY <1>1, <1>6, <2>1, <2>2, <2>3, OffersStayKnown DEF Within
<1> QED BY <1>7, <1>8

------------------------------------------------------------
\* What was awaited is given up: an offer that was replaced or is queued again, or an answer that
\* is no longer due.
GivesUp(u, w) ==
    /\ w \in work[u] /\ w.op # "register"
    /\ w.op = "make" /\ peer[u].state = "stable" => peer[u].last # "make"
    /\ w.op = "answer" => peer[u].state # "remote"
    /\ w.op = "renego" =>
           \/ peer[u].state = "stable" /\ peer[u].last # "renego" /\ ~wanted[u]
           \/ peer[u].state # "stable" /\ wanted'[u]
    /\ work' = [work EXCEPT ![u] = @ \ {w}]
    /\ inFlight' = [inFlight EXCEPT ![u] = @ /\ w.op # "renego"]
    /\ wanted' = wanted \/ (peer[u].state # "stable" /\ w.op = "renego" /\ wanted' = [wanted EXCEPT ![u] = TRUE])
    /\ ~collided' => ~collided /\ (w.op = "make" => peer[u].state = "stable")
    /\ place' = place /\ peer' = peer /\ viewed' = viewed /\ arriving' = arriving /\ made' = made
    /\ views' = views /\ joins' = joins /\ early' = early /\ collided' \in BOOLEAN

LEMMA GivesUpFields ==
    ASSUME PeerLocal, NEW u \in Caller, NEW v, v = Other(u), NEW w, GivesUp(u, w)
    PROVE  /\ work' \in [Caller -> SUBSET PeerTask] /\ inFlight' \in [Caller -> BOOLEAN]
           /\ wanted' \in [Caller -> BOOLEAN] /\ peer[u] # NoPeer
           /\ work'[u] = work[u] \ {w} /\ work'[v] = work[v]
           /\ inFlight'[u] = (inFlight[u] /\ w.op # "renego") /\ inFlight'[v] = inFlight[v]
           /\ wanted'[v] = wanted[v] /\ (wanted[u] => wanted'[u])
           /\ wanted'[u] => wanted[u] \/ (peer[u].state # "stable" /\ w.op = "renego")
<1>1. v \in Caller /\ v # u BY OtherCaller
<1>2. /\ work \in [Caller -> SUBSET PeerTask] /\ inFlight \in [Caller -> BOOLEAN]
      /\ wanted \in [Caller -> BOOLEAN]
  BY DEF PeerLocal, VoicePeerTypeOK
<1>3. peer[u] # NoPeer BY DEF GivesUp, PeerLocal, SideHolds
<1>4. /\ work' \in [Caller -> SUBSET PeerTask] /\ work'[u] = work[u] \ {w} /\ work'[v] = work[v]
  BY <1>1, <1>2 DEF GivesUp
<1>5. /\ inFlight' \in [Caller -> BOOLEAN] /\ inFlight'[u] = (inFlight[u] /\ w.op # "renego")
      /\ inFlight'[v] = inFlight[v]
 <2>1. inFlight' = [inFlight EXCEPT ![u] = inFlight[u] /\ w.op # "renego"] BY DEF GivesUp
 <2>2. (inFlight[u] /\ w.op # "renego") \in BOOLEAN OBVIOUS
 <2> QED BY <1>1, <1>2, <2>1, <2>2
<1>6. /\ wanted' \in [Caller -> BOOLEAN] /\ wanted'[v] = wanted[v] /\ (wanted[u] => wanted'[u])
      /\ wanted'[u] => wanted[u] \/ (peer[u].state # "stable" /\ w.op = "renego")
 <2>1. CASE wanted' = wanted BY <1>2, <2>1
 <2>2. CASE peer[u].state # "stable" /\ w.op = "renego" /\ wanted' = [wanted EXCEPT ![u] = TRUE]
   BY <1>1, <1>2, <2>2
 <2> QED BY <2>1, <2>2 DEF GivesUp
<1> QED BY <1>3, <1>4, <1>5, <1>6

LEMMA GivesUpLocal ==
    ASSUME PeerLocal, NEW u \in Caller, NEW v, v = Other(u), NEW w, GivesUp(u, w)
    PROVE  PeerLocal'
<1>1. v \in Caller /\ v # u /\ Other(v) = u BY OtherCaller
<1>2. /\ work' \in [Caller -> SUBSET PeerTask] /\ inFlight' \in [Caller -> BOOLEAN]
      /\ wanted' \in [Caller -> BOOLEAN] /\ peer[u] # NoPeer
      /\ work'[u] = work[u] \ {w} /\ work'[v] = work[v]
      /\ inFlight'[u] = (inFlight[u] /\ w.op # "renego") /\ inFlight'[v] = inFlight[v]
      /\ wanted'[v] = wanted[v] /\ (wanted[u] => wanted'[u])
      /\ wanted'[u] => wanted[u] \/ (peer[u].state # "stable" /\ w.op = "renego")
  BY GivesUpFields
<1>3. /\ place' = place /\ peer' = peer /\ viewed' = viewed /\ arriving' = arriving /\ made' = made
      /\ views' = views /\ joins' = joins /\ early' = early /\ collided' \in BOOLEAN
      /\ w \in work[u] /\ w.op # "register"
  BY DEF GivesUp
<1>4. VoicePeerTypeOK' BY <1>2, <1>3 DEF PeerLocal, VoicePeerTypeOK
<1>5. SideHolds(u) /\ ScreenSends(u) BY DEF PeerLocal
<1>6. Registers(u)' <=> Registers(u) BY <1>2, <1>3 DEF Registers
<1>7. WillCall(u) => WillCall(u)' \/ (w.op = "make" /\ peer[u].last = "make") \/ (w.op = "renego" /\ peer[u].last = "renego")
  BY <1>2, <1>3 DEF WillCall
<1>8. SideHolds(u)'
 <2>1. inFlight'[u] <=> \E x \in work'[u] : x.op = "renego"
  <3>1. CASE w.op = "renego" BY <1>2, <1>3, <1>5, <3>1 DEF SideHolds
  <3>2. CASE w.op # "renego" BY <1>2, <1>3, <1>5, <3>2 DEF SideHolds
  <3> QED BY <3>1, <3>2
 <2>2. wanted'[u] => peer'[u].state # "stable" \/ inFlight'[u] BY <1>2, <1>3, <1>5 DEF SideHolds, GivesUp
 <2>3. wanted'[u] \/ inFlight'[u] => place'[u] = "in" BY <1>2, <1>3, <1>5 DEF SideHolds
 <2>4. peer'[u].state = "remote" => \E x \in work'[u] : x.op = "answer"
   BY <1>2, <1>3, <1>5 DEF SideHolds, GivesUp
 <2>5. peer'[u].state = "stable" /\ peer'[u].session = NoSession => WillCall(u)' \/ Registers(u)'
   BY <1>2, <1>3, <1>5, <1>6, <1>7 DEF SideHolds, GivesUp
 <2>6. \A x1, x2 \in work'[u] : x1.op = x2.op /\ x1.op \in {"renego", "register"} => x1 = x2
   BY <1>2, <1>5 DEF SideHolds
 <2>7. \A x \in work'[u] : /\ x.op = "answer" => x.sdp # NoSession
                           /\ x.op \in {"make", "renego"} => x.sdp = NoSession
   BY <1>2, <1>5 DEF SideHolds
 <2> QED BY <1>2, <1>3, <1>5, <1>6, <2>1, <2>2, <2>3, <2>4, <2>5, <2>6, <2>7 DEF SideHolds, IsLocal
<1>9. ScreenSends(u)' BY <1>3, <1>5, <1>6 DEF ScreenSends
<1>10. ASSUME ~collided'
       PROVE  (Orderly(u) /\ OfferCarries(u) /\ ScreenDue(u))'
 <2>1. ~collided /\ (w.op = "make" => peer[u].state = "stable" /\ peer[u].last # "make") BY <1>10 DEF GivesUp
 <2>2. Orderly(u) /\ OfferCarries(u) /\ ScreenDue(u) BY <2>1 DEF PeerLocal
 <2>3. Orderly(u)' BY <1>2, <1>3, <2>2 DEF Orderly
 <2>4. OfferCarries(u)' BY <1>2, <1>3, <2>2 DEF OfferCarries
 <2>5. WillCall(u) => WillCall(u)' \/ wanted'[u] BY <1>7, <2>1 DEF GivesUp
 <2>6. ScreenDue(u)' BY <1>2, <1>3, <2>2, <2>5 DEF ScreenDue
 <2> QED BY <2>3, <2>4, <2>6
<1>11. OffersKnown(u, v)' /\ OffersKnown(v, u)'
 <2>1. Within(arriving'[u], arriving[u]) /\ Within(arriving'[v], arriving[v]) BY <1>3 DEF Within
 <2>2. \A x \in work'[u] : x.sdp = NoSession \/ \E y \in work[u] : y.sdp = x.sdp BY <1>2
 <2> QED BY <1>1, <1>2, <1>3, <2>1, <2>2, OffersHeld
<1>12. (SideHolds(v) /\ ScreenSends(v))' /\ (~collided' => (Orderly(v) /\ OfferCarries(v) /\ ScreenDue(v))')
 <2>1. ~collided' => ~collided BY DEF GivesUp
 <2> QED BY <1>1, <1>2, <1>3, <2>1, SideFramed
<1> QED BY <1>4, <1>8, <1>9, <1>10, <1>11, <1>12, LocalHolds

------------------------------------------------------------
\* The offer that was made last is sent.
Sends(u, w) ==
    /\ w \in work[u] /\ w.op \in {"make", "renego"} /\ peer[u].last = w.op /\ peer[u].state # "remote"
    /\ w.op = "renego" => peer[u].state = "stable"
    /\ SendsOffer(u, w.screen, arriving) /\ work' = [work EXCEPT ![u] = @ \ {w}]
    /\ inFlight' = [inFlight EXCEPT ![u] = @ /\ w.op # "renego"]
    /\ place' = place /\ wanted' = wanted /\ viewed' = viewed /\ made' = made
    /\ views' = views /\ joins' = joins /\ early' = early
    /\ collided' = (collided \/ peer[u].state # "stable")

LEMMA SendsTaskFields ==
    ASSUME PeerLocal, NEW u \in Caller, NEW v, v = Other(u), NEW w, Sends(u, w)
    PROVE  /\ peer[u] # NoPeer /\ w.screen \in BOOLEAN
           /\ work' \in [Caller -> SUBSET PeerTask] /\ inFlight' \in [Caller -> BOOLEAN]
           /\ work'[u] = work[u] \ {w} /\ work'[v] = work[v]
           /\ inFlight'[u] = (inFlight[u] /\ w.op # "renego") /\ inFlight'[v] = inFlight[v]
           /\ collided' \in BOOLEAN
<1>1. v \in Caller /\ v # u BY OtherCaller
<1>2. /\ work \in [Caller -> SUBSET PeerTask] /\ inFlight \in [Caller -> BOOLEAN] /\ collided \in BOOLEAN
  BY DEF PeerLocal, VoicePeerTypeOK
<1>3. peer[u] # NoPeer BY DEF Sends, PeerLocal, SideHolds
<1>4. /\ work' \in [Caller -> SUBSET PeerTask] /\ work'[u] = work[u] \ {w} /\ work'[v] = work[v]
  BY <1>1, <1>2 DEF Sends
<1>5. w.screen \in BOOLEAN BY <1>2 DEF Sends, PeerTask
<1>6. /\ inFlight' \in [Caller -> BOOLEAN] /\ inFlight'[u] = (inFlight[u] /\ w.op # "renego")
      /\ inFlight'[v] = inFlight[v]
 <2>1. inFlight' = [inFlight EXCEPT ![u] = inFlight[u] /\ w.op # "renego"] BY DEF Sends
 <2>2. (inFlight[u] /\ w.op # "renego") \in BOOLEAN OBVIOUS
 <2> QED BY <1>1, <1>2, <2>1, <2>2
<1>7. collided' \in BOOLEAN BY <1>2 DEF Sends
<1> QED BY <1>3, <1>4, <1>5, <1>6, <1>7

LEMMA SendsLocal ==
    ASSUME PeerLocal, NEW u \in Caller, NEW v, v = Other(u), NEW w, Sends(u, w)
    PROVE  PeerLocal'
<1>1. v \in Caller /\ v # u /\ Other(v) = u BY OtherCaller
<1>2. /\ peer[u] # NoPeer /\ w.screen \in BOOLEAN
      /\ work' \in [Caller -> SUBSET PeerTask] /\ inFlight' \in [Caller -> BOOLEAN]
      /\ work'[u] = work[u] \ {w} /\ work'[v] = work[v]
      /\ inFlight'[u] = (inFlight[u] /\ w.op # "renego") /\ inFlight'[v] = inFlight[v]
      /\ collided' \in BOOLEAN
  BY SendsTaskFields
<1>3. /\ place' = place /\ wanted' = wanted /\ viewed' = viewed /\ made' = made
      /\ views' = views /\ joins' = joins /\ early' = early
      /\ w \in work[u] /\ w.op \in {"make", "renego"} /\ peer[u].last = w.op /\ peer[u].state # "remote"
      /\ SendsOffer(u, w.screen, arriving) /\ collided' = (collided \/ peer[u].state # "stable")
  BY DEF Sends
<1> DEFINE o == NextOffer(u, w.screen)
<1>4. /\ o # NoSession /\ o.by = u /\ o.pc = peer[u].id /\ o.rev = peer[u].rev + 1 /\ o.screen = w.screen
      /\ peer' \in [Caller -> Connection \union {NoPeer}] /\ peer'[u] # NoPeer /\ peer'[v] = peer[v]
      /\ peer'[u].id = peer[u].id /\ peer'[u].state = "local" /\ peer'[u].sends = peer[u].sends
      /\ peer'[u].last = peer[u].last /\ peer'[u].rev = peer[u].rev + 1
      /\ peer'[u].offered = o /\ peer'[u].session = peer[u].session
      /\ arriving' \in [Caller -> Seq(PeerEvent)]
  BY <1>2, <1>3, SendsFields
<1> HIDE DEF o
<1>5. VoicePeerTypeOK' BY <1>2, <1>3, <1>4 DEF PeerLocal, VoicePeerTypeOK
<1>6. SideHolds(u) /\ ScreenSends(u) BY DEF PeerLocal
<1>7. Registers(u)' <=> Registers(u) BY <1>2, <1>3 DEF Registers
<1>8. SideHolds(u)'
 <2>1. inFlight'[u] <=> \E x \in work'[u] : x.op = "renego"
  <3>1. CASE w.op = "renego" BY <1>2, <1>3, <1>6, <3>1 DEF SideHolds
  <3>2. CASE w.op # "renego" BY <1>2, <1>3, <1>6, <3>2 DEF SideHolds
  <3> QED BY <3>1, <3>2
 <2>2. wanted'[u] \/ inFlight'[u] => place'[u] = "in" BY <1>2, <1>3, <1>6 DEF SideHolds
 <2>3. \A x1, x2 \in work'[u] : x1.op = x2.op /\ x1.op \in {"renego", "register"} => x1 = x2
   BY <1>2, <1>6 DEF SideHolds
 <2>4. \A x \in work'[u] : /\ x.op = "answer" => x.sdp # NoSession
                           /\ x.op \in {"make", "renego"} => x.sdp = NoSession
   BY <1>2, <1>6 DEF SideHolds
 <2> QED BY <1>2, <1>3, <1>4, <1>6, <1>7, <2>1, <2>2, <2>3, <2>4 DEF SideHolds, IsLocal
<1>9. ScreenSends(u)' BY <1>2, <1>3, <1>4, <1>6, <1>7 DEF ScreenSends
<1>10. ASSUME ~collided'
       PROVE  (Orderly(u) /\ OfferCarries(u) /\ ScreenDue(u))'
 <2>1. ~collided /\ peer[u].state = "stable" BY <1>3, <1>10
 <2>2. Orderly(u) /\ OfferCarries(u) /\ SideHolds(u) BY <1>6, <2>1 DEF PeerLocal
 <2>3. \A x \in work'[u] : x.op # peer[u].last /\ x.op # "answer"
  <3>1. \A x \in work[u] : x.op = w.op => x = w BY <1>3, <2>2 DEF Orderly, SideHolds
  <3>2. \A x \in work[u] : x.op # "answer" BY <2>1, <2>2 DEF Orderly
  <3> QED BY <1>2, <1>3, <3>1, <3>2
 <2>4. Orderly(u)' BY <1>2, <1>4, <2>2, <2>3 DEF Orderly
 <2>5. OfferCarries(u)' BY <1>4, <2>3 DEF OfferCarries
 <2>6. ScreenDue(u)'
  <3>1. w.screen = peer[u].sends \/ wanted[u] BY <1>3, <2>2 DEF OfferCarries
  <3> QED BY <1>3, <1>4, <3>1 DEF ScreenDue
 <2> QED BY <2>4, <2>5, <2>6
<1>11. OffersKnown(u, v)' /\ OffersKnown(v, u)'
 <2>1. work'[u] \subseteq work[u] BY <1>2
 <2> QED BY <1>2, <1>3, <2>1, SendsKnown
<1>12. (SideHolds(v) /\ ScreenSends(v))' /\ (~collided' => (Orderly(v) /\ OfferCarries(v) /\ ScreenDue(v))')
  BY <1>1, <1>2, <1>3, <1>4, SideFramed
<1> QED BY <1>5, <1>8, <1>9, <1>10, <1>11, <1>12, LocalHolds

\* The end of a make is one or the other.
LEMMA OfferMadeEnds ==
    ASSUME PeerLocal, NEW u \in Caller, OfferMade(u)
    PROVE  \E w : Sends(u, w) \/ GivesUp(u, w)
<1>1. PICK w \in work[u] :
        /\ w.op = "make" /\ work' = [work EXCEPT ![u] = @ \ {w}]
        /\ IF peer[u].last = "make" /\ peer[u].state # "remote"
           THEN SendsOffer(u, w.screen, arriving) ELSE UNCHANGED <<peer, arriving>>
        /\ collided' = (collided \/ peer[u].state # "stable")
  BY DEF OfferMade
<1>2. /\ place' = place /\ wanted' = wanted /\ inFlight' = inFlight /\ viewed' = viewed /\ made' = made
      /\ views' = views /\ joins' = joins /\ early' = early
  BY DEF OfferMade
<1>3. inFlight \in [Caller -> BOOLEAN] /\ collided \in BOOLEAN BY DEF PeerLocal, VoicePeerTypeOK
<1>4. inFlight' = [inFlight EXCEPT ![u] = @ /\ w.op # "renego"] BY <1>1, <1>2, <1>3
<1>5. CASE peer[u].last = "make" /\ peer[u].state # "remote" BY <1>1, <1>2, <1>4, <1>5 DEF Sends
<1>6. CASE ~(peer[u].last = "make" /\ peer[u].state # "remote")
 <2>1. peer' = peer /\ arriving' = arriving /\ collided' \in BOOLEAN BY <1>1, <1>3, <1>6
 <2> QED BY <1>1, <1>2, <1>4, <1>6, <2>1 DEF GivesUp
<1> QED BY <1>5, <1>6

LEMMA OfferMadeLocal ==
    ASSUME PeerLocal, NEW u \in Caller, NEW v, v = Other(u), OfferMade(u)
    PROVE  PeerLocal'
    BY OfferMadeEnds, SendsLocal, GivesUpLocal

------------------------------------------------------------
\* A connection goes on as pc with the tasks there are, and negotiates again if that is queued.
Again(pc, tasks, anew) ==
    anew /\ pc.state = "stable" /\ \A w \in tasks : w.op # "renego"
Proceeds(u, pc, tasks, anew) ==
    IF Again(pc, tasks, anew)
    THEN Negotiates(u, pc, tasks)
    ELSE /\ wanted' = [wanted EXCEPT ![u] = anew] /\ inFlight' = inFlight
         /\ peer' = [peer EXCEPT ![u] = pc] /\ work' = [work EXCEPT ![u] = tasks]

ProceedsTo(u, v, pc, tasks, anew) ==
    /\ peer' \in [Caller -> Connection \union {NoPeer}] /\ work' \in [Caller -> SUBSET PeerTask]
    /\ wanted' \in [Caller -> BOOLEAN] /\ inFlight' \in [Caller -> BOOLEAN]
    /\ peer'[v] = peer[v] /\ work'[v] = work[v] /\ wanted'[v] = wanted[v] /\ inFlight'[v] = inFlight[v]
    /\ peer'[u] # NoPeer /\ peer'[u].id = pc.id /\ peer'[u].state = pc.state
    /\ peer'[u].sends = pc.sends /\ peer'[u].rev = pc.rev /\ peer'[u].offered = pc.offered
    /\ peer'[u].session = pc.session
    /\ \/ /\ Again(pc, tasks, anew)
          /\ peer'[u].last = "renego" /\ inFlight'[u] = TRUE /\ wanted'[u] = FALSE
          /\ work'[u] = tasks \union {Await("renego", NoSession, pc.sends)}
       \/ /\ ~Again(pc, tasks, anew)
          /\ peer'[u].last = pc.last /\ inFlight'[u] = inFlight[u] /\ wanted'[u] = anew
          /\ work'[u] = tasks

LEMMA ProceedsFields ==
    ASSUME PeerLocal, NEW u \in Caller, NEW v, v = Other(u), NEW pc \in Connection,
           NEW tasks \in SUBSET PeerTask, NEW anew \in BOOLEAN, Proceeds(u, pc, tasks, anew)
    PROVE  ProceedsTo(u, v, pc, tasks, anew)
<1>1. v \in Caller /\ v # u BY OtherCaller
<1>2. /\ peer \in [Caller -> Connection \union {NoPeer}] /\ work \in [Caller -> SUBSET PeerTask]
      /\ wanted \in [Caller -> BOOLEAN] /\ inFlight \in [Caller -> BOOLEAN]
  BY DEF PeerLocal, VoicePeerTypeOK
<1>3. pc # NoPeer BY VoicePeerAssumption
<1>4. CASE Again(pc, tasks, anew)
 <2> DEFINE d == [pc EXCEPT !.last = "renego"]
            task == Await("renego", NoSession, pc.sends)
 <2>1. /\ wanted' = [wanted EXCEPT ![u] = FALSE] /\ inFlight' = [inFlight EXCEPT ![u] = TRUE]
       /\ peer' = [peer EXCEPT ![u] = d] /\ work' = [work EXCEPT ![u] = tasks \union {task}]
   BY <1>4 DEF Proceeds, Negotiates
 <2>2. /\ d \in Connection /\ d.id = pc.id /\ d.state = pc.state /\ d.sends = pc.sends
       /\ d.rev = pc.rev /\ d.offered = pc.offered /\ d.session = pc.session /\ d.last = "renego"
   BY DEF Connection
 <2>3. d # NoPeer BY <2>2, VoicePeerAssumption
 <2>4. task \in PeerTask BY DEF Await, PeerTask, Connection
 <2> HIDE DEF d, task
 <2>5. /\ peer' \in [Caller -> Connection \union {NoPeer}] /\ peer'[u] = d /\ peer'[v] = peer[v]
   BY <1>1, <1>2, <2>1, <2>2
 <2>6. /\ work' \in [Caller -> SUBSET PeerTask] /\ work'[u] = tasks \union {task} /\ work'[v] = work[v]
   BY <1>1, <1>2, <2>1, <2>4
 <2>7. /\ wanted' \in [Caller -> BOOLEAN] /\ inFlight' \in [Caller -> BOOLEAN]
       /\ wanted'[u] = FALSE /\ inFlight'[u] = TRUE /\ wanted'[v] = wanted[v] /\ inFlight'[v] = inFlight[v]
   BY <1>1, <1>2, <2>1
 <2> QED BY <1>4, <2>2, <2>3, <2>5, <2>6, <2>7 DEF task, ProceedsTo
<1>5. CASE ~Again(pc, tasks, anew)
 <2>1. /\ wanted' = [wanted EXCEPT ![u] = anew] /\ inFlight' = inFlight
       /\ peer' = [peer EXCEPT ![u] = pc] /\ work' = [work EXCEPT ![u] = tasks]
   BY <1>5 DEF Proceeds
 <2>2. /\ peer' \in [Caller -> Connection \union {NoPeer}] /\ peer'[u] = pc /\ peer'[v] = peer[v]
   BY <1>1, <1>2, <2>1
 <2>3. /\ work' \in [Caller -> SUBSET PeerTask] /\ work'[u] = tasks /\ work'[v] = work[v] BY <1>1, <1>2, <2>1
 <2>4. /\ wanted' \in [Caller -> BOOLEAN] /\ inFlight' \in [Caller -> BOOLEAN]
       /\ wanted'[u] = anew /\ wanted'[v] = wanted[v] /\ inFlight' = inFlight
   BY <1>1, <1>2, <2>1
 <2> QED BY <1>3, <1>5, <2>2, <2>3, <2>4 DEF ProceedsTo
<1> QED BY <1>4, <1>5

\* What a step must leave for it.
Due(u, pc) ==
    \/ early[u] \/ WillCall(u)
    \/ pc.state = "local" /\ pc.offered.screen = pc.sends
    \/ pc.state # "local" /\ pc.session = NoSession /\ ~pc.sends
    \/ pc.state # "local" /\ pc.session # NoSession /\ pc.session.screens[u] = pc.sends
GoesOn(u, pc, tasks, anew) ==
    /\ peer[u] # NoPeer /\ Proceeds(u, pc, tasks, anew)
    /\ anew => place[u] = "in"
    /\ pc.id = peer[u].id /\ pc.rev = peer[u].rev /\ pc.last = peer[u].last
    /\ pc.state = "local" => peer[u].state = "local" /\ pc.offered = peer[u].offered
    /\ pc.state = "remote" => peer[u].state = "remote" /\ tasks = work[u]
    /\ peer[u].state = "stable" => pc.state = "stable"
    /\ pc.state = "stable" /\ pc.session = NoSession => peer[u].state = "stable" /\ peer[u].session = NoSession
    /\ tasks \subseteq work[u]
    /\ \A w \in work[u] :
           \/ w \in tasks \/ w.op = "answer"
           \/ w.op = "renego" /\ anew /\ pc.state = "stable" /\ \A x \in tasks : x.op # "renego"
    /\ pc.sends => viewed'[u]
    /\ ~Registers(u) => pc.sends = viewed'[u]
    /\ ~collided' =>
           /\ ~collided /\ \A w \in tasks : w.op = "answer" => pc.state = "remote"
           /\ ~anew => pc.sends = peer[u].sends /\ ~wanted[u] /\ Due(u, pc)
    /\ place' = place /\ made' = made /\ early' = early

LEMMA GoesOnLocal ==
    ASSUME PeerLocal, NEW u \in Caller, NEW v, v = Other(u), NEW pc \in Connection,
           NEW tasks \in SUBSET PeerTask, NEW anew \in BOOLEAN, GoesOn(u, pc, tasks, anew),
           viewed' \in [Caller -> BOOLEAN], viewed'[v] = viewed[v], arriving' \in [Caller -> Seq(PeerEvent)],
           views' \in 0..MaxViews, joins' = joins, collided' \in BOOLEAN,
           OffersKnown(u, v)', OffersKnown(v, u)'
    PROVE  PeerLocal'
<1>1. v \in Caller /\ v # u /\ Other(v) = u BY OtherCaller
<1> DEFINE task == Await("renego", NoSession, pc.sends)
           again == Again(pc, tasks, anew)
           c == peer[u]
           d == peer'[u]
<1>0. ProceedsTo(u, v, pc, tasks, anew)
 <2>1. Proceeds(u, pc, tasks, anew) BY DEF GoesOn
 <2> QED BY <2>1, ProceedsFields
<1>2. /\ peer' \in [Caller -> Connection \union {NoPeer}] /\ work' \in [Caller -> SUBSET PeerTask]
      /\ wanted' \in [Caller -> BOOLEAN] /\ inFlight' \in [Caller -> BOOLEAN]
      /\ peer'[v] = peer[v] /\ work'[v] = work[v] /\ wanted'[v] = wanted[v] /\ inFlight'[v] = inFlight[v]
      /\ d # NoPeer /\ d.id = pc.id /\ d.state = pc.state
      /\ d.sends = pc.sends /\ d.rev = pc.rev /\ d.offered = pc.offered /\ d.session = pc.session
  BY <1>0 DEF ProceedsTo
<1>3. \/ /\ again /\ d.last = "renego" /\ inFlight'[u] = TRUE /\ wanted'[u] = FALSE
         /\ work'[u] = tasks \union {task}
      \/ /\ ~again /\ d.last = pc.last /\ inFlight'[u] = inFlight[u] /\ wanted'[u] = anew
         /\ work'[u] = tasks
  BY <1>0 DEF ProceedsTo
<1>4. task.op = "renego" /\ task.sdp = NoSession /\ task.screen = pc.sends BY DEF Await
<1> HIDE DEF task
<1>5. VoicePeerTypeOK' BY <1>2 DEF GoesOn, PeerLocal, VoicePeerTypeOK
<1>6. SideHolds(u) /\ ScreenSends(u) /\ c # NoPeer /\ d # NoPeer BY <1>2 DEF PeerLocal, GoesOn
<1>7. Registers(u)' <=> Registers(u) BY <1>3, <1>4 DEF GoesOn, Registers
<1>8. WillCall(u) \/ again => WillCall(u)'
 <2>1. CASE again BY <1>3, <1>4, <2>1 DEF Again, WillCall
 <2>2. CASE ~again BY <1>3, <2>2 DEF Again, WillCall, GoesOn
 <2> QED BY <2>1, <2>2
<1>9. SideHolds(u)'
 <2>1. inFlight'[u] <=> \E x \in work'[u] : x.op = "renego"
  <3>1. CASE again BY <1>3, <1>4, <3>1 DEF Again
  <3>2. CASE ~again BY <1>3, <1>6, <3>2 DEF Again, SideHolds, GoesOn
  <3> QED BY <3>1, <3>2
 <2>2. \A x1, x2 \in work'[u] : x1.op = x2.op /\ x1.op \in {"renego", "register"} => x1 = x2
  <3>1. \A x1, x2 \in tasks : x1.op = x2.op /\ x1.op \in {"renego", "register"} => x1 = x2
    BY <1>6 DEF SideHolds, GoesOn
  <3> QED BY <1>3, <1>4, <3>1 DEF Again
 <2>3. wanted'[u] => d.state # "stable" \/ inFlight'[u]
  <3>1. CASE again BY <1>3, <3>1 DEF Again
  <3>2. CASE ~again BY <1>2, <1>3, <2>1, <3>2 DEF Again
  <3> QED BY <3>1, <3>2
 <2>4. wanted'[u] \/ inFlight'[u] => place'[u] = "in" BY <1>3, <1>6 DEF SideHolds, GoesOn, Again
 <2>5. \A x \in work'[u] : /\ x.op = "answer" => x.sdp # NoSession
                           /\ x.op \in {"make", "renego"} => x.sdp = NoSession
  <3>1. \A x \in tasks : /\ x.op = "answer" => x.sdp # NoSession
                         /\ x.op \in {"make", "renego"} => x.sdp = NoSession
    BY <1>6 DEF SideHolds, GoesOn
  <3> QED BY <1>3, <1>4, <3>1
 <2>6. d.state = "remote" => \E x \in work'[u] : x.op = "answer" BY <1>2, <1>3, <1>6 DEF SideHolds, GoesOn
 <2>7. IsLocal(u)' => /\ d.offered # NoSession /\ d.offered.by = u
                      /\ d.offered.pc = d.id /\ d.offered.rev = d.rev
   BY <1>2, <1>6 DEF SideHolds, GoesOn, IsLocal
 <2>8. d.state = "stable" /\ d.session = NoSession => WillCall(u)' \/ Registers(u)'
   BY <1>2, <1>6, <1>7, <1>8 DEF SideHolds, GoesOn
 <2> QED BY <1>2, <1>6, <1>7, <2>1, <2>2, <2>3, <2>4, <2>5, <2>6, <2>7, <2>8 DEF SideHolds, GoesOn
<1>10. ScreenSends(u)' BY <1>2, <1>7 DEF ScreenSends, GoesOn
<1>11. ASSUME ~collided'
       PROVE  (Orderly(u) /\ OfferCarries(u) /\ ScreenDue(u))'
 <2>1. /\ ~collided /\ \A w \in tasks : w.op = "answer" => pc.state = "remote"
       /\ ~anew => pc.sends = c.sends /\ ~wanted[u] /\ Due(u, pc)
   BY <1>11 DEF GoesOn
 <2>2. Orderly(u) /\ OfferCarries(u) /\ ScreenDue(u) BY <2>1 DEF PeerLocal
 <2>3. /\ \A w1, w2 \in tasks : w1.op # "renego" /\ w2.op # "renego" => w1 = w2
       /\ \A w \in tasks : w.op = "renego" => pc.state # "remote"
       /\ \A w \in tasks : w.op = "renego" /\ c.last = "renego" => pc.state = "stable"
   BY <2>2 DEF Orderly, GoesOn
 <2>4. Orderly(u)'
  <3>1. CASE again BY <1>2, <1>3, <1>4, <2>1, <2>3, <3>1 DEF Again, Orderly
  <3>2. CASE ~again BY <1>2, <1>3, <2>1, <2>3, <3>2 DEF Again, Orderly, GoesOn
  <3> QED BY <3>1, <3>2
 <2>5. OfferCarries(u)'
  <3>1. CASE again BY <1>2, <1>3, <1>4, <3>1 DEF Again, OfferCarries
  <3>2. CASE ~again /\ anew BY <1>3, <3>2 DEF Again, OfferCarries
  <3>3. CASE ~again /\ ~anew BY <1>2, <1>3, <2>1, <2>2, <3>3 DEF Again, OfferCarries, GoesOn
  <3> QED BY <3>1, <3>2, <3>3
 <2>6. ScreenDue(u)'
  <3>1. CASE again BY <1>8, <3>1 DEF Again, ScreenDue
  <3>2. CASE ~again /\ anew BY <1>3, <3>2 DEF Again, ScreenDue
  <3>3. CASE ~again /\ ~anew BY <1>2, <1>8, <2>1, <3>3 DEF Again, ScreenDue, Due, GoesOn
  <3> QED BY <3>1, <3>2, <3>3
 <2> QED BY <2>4, <2>5, <2>6
<1>12. (SideHolds(v) /\ ScreenSends(v))' /\ (~collided' => (Orderly(v) /\ OfferCarries(v) /\ ScreenDue(v))')
 <2>1. /\ ~collided' => ~collided
       /\ place' = place /\ made' = made /\ early' = early
   BY DEF GoesOn
 <2> QED BY <1>1, <1>2, <2>1, SideFramed
<1> QED BY <1>5, <1>9, <1>10, <1>11, <1>12, LocalHolds

------------------------------------------------------------
\* What is negotiated, or queued, or found queued, is how a connection proceeds.
LEMMA RenegotiatesProceeds ==
    ASSUME PeerLocal, NEW u \in Caller, NEW pc \in Connection, NEW tasks \in SUBSET PeerTask,
           inFlight[u] <=> \E w \in tasks : w.op = "renego"
    PROVE  /\ Renegotiates(u, pc, tasks) => Proceeds(u, pc, tasks, TRUE)
           /\ BecomesStable(u, pc, tasks) => Proceeds(u, pc, tasks, wanted[u])
<1>1. wanted \in [Caller -> BOOLEAN] BY DEF PeerLocal, VoicePeerTypeOK
<1>2. Renegotiates(u, pc, tasks) => Proceeds(u, pc, tasks, TRUE) BY DEF Renegotiates, Proceeds, Again
<1>3. CASE wanted[u] BY <1>1, <1>2, <1>3 DEF BecomesStable
<1>4. CASE ~wanted[u]
 <2>1. BecomesStable(u, pc, tasks) => ForgetsQueued(u, pc, tasks) BY <1>4 DEF BecomesStable
 <2>2. wanted[u] = FALSE /\ wanted = [wanted EXCEPT ![u] = wanted[u]] BY <1>1, <1>4
 <2> QED BY <1>2, <2>1, <2>2 DEF ForgetsQueued, Proceeds, Again
<1> QED BY <1>2, <1>3, <1>4

LEMMA RenegotiationMadeEnds ==
    ASSUME PeerLocal, NEW u \in Caller, RenegotiationMade(u)
    PROVE  \/ \E w : Sends(u, w) \/ GivesUp(u, w)
           \/ \E w \in work[u] :
                  /\ w.op = "renego" /\ GoesOn(u, peer[u], work[u] \ {w}, TRUE)
                  /\ peer[u].state = "stable" /\ arriving' = arriving
<1>1. PICK w \in work[u] :
        /\ w.op = "renego"
        /\ LET rest == work[u] \ {w}
               Ends == work' = [work EXCEPT ![u] = rest] /\ inFlight' = [inFlight EXCEPT ![u] = FALSE]
           IN  \/ /\ peer[u].state # "stable" /\ Ends
                  /\ wanted' = [wanted EXCEPT ![u] = TRUE] /\ UNCHANGED <<peer, arriving>>
               \/ /\ peer[u].state = "stable" /\ peer[u].last = "renego" /\ Ends
                  /\ SendsOffer(u, w.screen, arriving) /\ UNCHANGED wanted
               \/ /\ peer[u].state = "stable" /\ peer[u].last # "renego" /\ UNCHANGED arriving
                  /\ IF wanted[u] THEN Negotiates(u, peer[u], rest)
                     ELSE Ends /\ UNCHANGED <<wanted, peer>>
        /\ UNCHANGED <<place, viewed, made, views, joins, collided, early>>
  BY DEF RenegotiationMade
<1> DEFINE rest == work[u] \ {w}
           Ends == work' = [work EXCEPT ![u] = rest] /\ inFlight' = [inFlight EXCEPT ![u] = FALSE]
<1>2. /\ place' = place /\ viewed' = viewed /\ made' = made /\ views' = views /\ joins' = joins
      /\ collided' = collided /\ early' = early /\ collided \in BOOLEAN /\ inFlight \in [Caller -> BOOLEAN]
  BY <1>1 DEF PeerLocal, VoicePeerTypeOK
<1>3. Ends => /\ work' = [work EXCEPT ![u] = @ \ {w}]
              /\ inFlight' = [inFlight EXCEPT ![u] = @ /\ w.op # "renego"]
  BY <1>1, <1>2
<1>4. SideHolds(u) BY DEF PeerLocal
<1>5. CASE /\ peer[u].state # "stable" /\ Ends
           /\ wanted' = [wanted EXCEPT ![u] = TRUE] /\ UNCHANGED <<peer, arriving>>
 <2>1. wanted'[u] BY <1>5 DEF PeerLocal, VoicePeerTypeOK
 <2>2. GivesUp(u, w) BY <1>1, <1>2, <1>3, <1>5, <2>1 DEF GivesUp
 <2> QED BY <2>2
<1>6. CASE /\ peer[u].state = "stable" /\ peer[u].last = "renego" /\ Ends
           /\ SendsOffer(u, w.screen, arriving) /\ UNCHANGED wanted
 <2>1. Sends(u, w) BY <1>1, <1>2, <1>3, <1>6 DEF Sends
 <2> QED BY <2>1
<1>7. CASE /\ peer[u].state = "stable" /\ peer[u].last # "renego" /\ UNCHANGED arriving
           /\ wanted[u] /\ Negotiates(u, peer[u], rest)
 <2>1. \A x \in rest : x.op # "renego" BY <1>1, <1>4 DEF SideHolds
 <2>2. Proceeds(u, peer[u], rest, TRUE) BY <1>7, <2>1 DEF Proceeds, Again
 <2>3. peer[u] # NoPeer /\ place[u] = "in" BY <1>1, <1>4 DEF SideHolds
 <2>4. ScreenSends(u) /\ (~collided => Orderly(u)) BY DEF PeerLocal
 <2>5. (peer[u].sends => viewed'[u]) /\ (~Registers(u) => peer[u].sends = viewed'[u])
   BY <1>2, <2>3, <2>4 DEF ScreenSends
 <2>6. ~collided' => ~collided /\ \A x \in rest : x.op = "answer" => peer[u].state = "remote"
   BY <1>2, <2>4 DEF Orderly
 <2>7. /\ rest \subseteq work[u]
       /\ \A x \in work[u] : x \in rest \/ x.op = "answer" \/ (x.op = "renego" /\ TRUE /\ \A y \in rest : y.op # "renego")
   BY <1>1, <2>1
 <2> HIDE DEF rest
 <2>8. GoesOn(u, peer[u], rest, TRUE) BY <1>2, <1>7, <2>2, <2>3, <2>5, <2>6, <2>7 DEF GoesOn
 <2> QED BY <1>1, <1>7, <2>8 DEF rest
<1>8. CASE /\ peer[u].state = "stable" /\ peer[u].last # "renego" /\ UNCHANGED arriving
           /\ ~wanted[u] /\ Ends /\ UNCHANGED <<wanted, peer>>
 <2>1. GivesUp(u, w) BY <1>1, <1>2, <1>3, <1>8 DEF GivesUp
 <2> QED BY <2>1
<1> QED BY <1>1, <1>5, <1>6, <1>7, <1>8

LEMMA RenegotiationMadeLocal ==
    ASSUME PeerLocal, NEW u \in Caller, NEW v, v = Other(u), RenegotiationMade(u)
    PROVE  PeerLocal'
<1>1. CASE \E w : Sends(u, w) \/ GivesUp(u, w) BY <1>1, SendsLocal, GivesUpLocal
<1>2. CASE \E w \in work[u] :
               /\ w.op = "renego" /\ GoesOn(u, peer[u], work[u] \ {w}, TRUE)
               /\ peer[u].state = "stable" /\ arriving' = arriving
 <2>1. PICK w \in work[u] : w.op = "renego" /\ GoesOn(u, peer[u], work[u] \ {w}, TRUE) /\ arriving' = arriving
   BY <1>2
 <2>2. /\ viewed' = viewed /\ views' = views /\ joins' = joins /\ collided' = collided
       /\ made' = made
   BY DEF RenegotiationMade
 <2>3. /\ peer[u] \in Connection /\ work[u] \ {w} \in SUBSET PeerTask /\ peer[u] # NoPeer
       /\ Proceeds(u, peer[u], work[u] \ {w}, TRUE)
   BY <2>1 DEF PeerLocal, VoicePeerTypeOK, GoesOn
 <2>4. /\ viewed' \in [Caller -> BOOLEAN] /\ arriving' \in [Caller -> Seq(PeerEvent)]
       /\ views' \in 0..MaxViews /\ collided' \in BOOLEAN
   BY <2>1, <2>2 DEF PeerLocal, VoicePeerTypeOK
 <2>5. OffersKnown(u, v)' /\ OffersKnown(v, u)'
  <3>1. ProceedsTo(u, v, peer[u], work[u] \ {w}, TRUE) BY <2>3, ProceedsFields
  <3>2. Within(arriving'[u], arriving[u]) /\ Within(arriving'[v], arriving[v]) BY <2>1 DEF Within
  <3>3. \A x \in work'[u] : x.sdp = NoSession \/ \E y \in work[u] : y.sdp = x.sdp
   <4>1. work'[u] \subseteq work[u] \union {Await("renego", NoSession, peer[u].sends)} BY <3>1 DEF ProceedsTo
   <4>2. Await("renego", NoSession, peer[u].sends).sdp = NoSession BY DEF Await
   <4> QED BY <4>1, <4>2
  <3> QED BY <2>2, <2>3, <3>1, <3>2, <3>3, OffersHeld DEF ProceedsTo
 <2> QED BY <2>1, <2>2, <2>3, <2>4, <2>5, GoesOnLocal
<1> QED BY <1>1, <1>2, RenegotiationMadeEnds

------------------------------------------------------------
LEMMA ViewerChangesLocal ==
    ASSUME PeerLocal, NEW u \in Caller, NEW v, v = Other(u), ViewerChanges(u)
    PROVE  PeerLocal'
<1>1. v \in Caller /\ v # u /\ Other(v) = u BY OtherCaller
<1>2. /\ place[u] = "in" /\ views < MaxViews /\ views' = views + 1 /\ viewed' = [viewed EXCEPT ![u] = ~@]
      /\ place' = place /\ arriving' = arriving /\ made' = made /\ joins' = joins
      /\ collided' = collided /\ early' = early
  BY DEF ViewerChanges
<1>3. /\ viewed' \in [Caller -> BOOLEAN] /\ viewed'[v] = viewed[v] /\ viewed'[u] \in BOOLEAN
      /\ views' \in 0..MaxViews
 <2>1. viewed \in [Caller -> BOOLEAN] /\ views \in 0..MaxViews BY DEF PeerLocal, VoicePeerTypeOK
 <2>2. views' \in 0..MaxViews
  <3>1. MaxViews \in Nat BY VoicePeerAssumption
  <3> QED BY <1>2, <2>1, <3>1
 <2>3. (~viewed[u]) \in BOOLEAN /\ viewed' = [viewed EXCEPT ![u] = ~viewed[u]] BY <1>2
 <2> QED BY <1>1, <2>1, <2>2, <2>3
<1>4. Within(arriving'[u], arriving[u]) /\ Within(arriving'[v], arriving[v]) BY <1>2 DEF Within
<1>5. PICK s \in BOOLEAN : s = viewed'[u] BY <1>3
<1>6. SideHolds(u) /\ ScreenSends(u) BY DEF PeerLocal
<1>7. CASE peer[u] # NoPeer /\ peer[u].sends # s
 <2> DEFINE pc == [peer[u] EXCEPT !.sends = s]
 <2>1. /\ peer[u] \in Connection /\ work[u] \in SUBSET PeerTask /\ peer[u] # NoPeer
       /\ collided \in BOOLEAN /\ arriving' \in [Caller -> Seq(PeerEvent)]
   BY <1>2, <1>7 DEF PeerLocal, VoicePeerTypeOK
 <2>2. /\ pc \in Connection /\ pc.id = peer[u].id /\ pc.state = peer[u].state /\ pc.sends = s
       /\ pc.last = peer[u].last /\ pc.rev = peer[u].rev /\ pc.offered = peer[u].offered
       /\ pc.session = peer[u].session
   BY <2>1 DEF Connection
 <2>3. Renegotiates(u, pc, work[u]) BY <1>5, <1>7 DEF ViewerChanges
 <2> HIDE DEF pc
 <2>4. Proceeds(u, pc, work[u], TRUE) BY <1>6, <2>1, <2>2, <2>3, RenegotiatesProceeds DEF SideHolds
 <2>5. ~collided' => ~collided /\ \A w \in work[u] : w.op = "answer" => pc.state = "remote"
   BY <1>2, <2>2 DEF PeerLocal, Orderly
 <2>6. GoesOn(u, pc, work[u], TRUE) BY <1>2, <1>5, <2>1, <2>2, <2>4, <2>5 DEF GoesOn
 <2>7. OffersKnown(u, v)' /\ OffersKnown(v, u)'
  <3>1. ProceedsTo(u, v, pc, work[u], TRUE) BY <2>1, <2>2, <2>4, ProceedsFields
  <3>2. \A x \in work'[u] : x.sdp = NoSession \/ \E y \in work[u] : y.sdp = x.sdp
   <4>1. work'[u] \subseteq work[u] \union {Await("renego", NoSession, pc.sends)} BY <3>1 DEF ProceedsTo
   <4>2. Await("renego", NoSession, pc.sends).sdp = NoSession BY DEF Await
   <4> QED BY <4>1, <4>2
  <3> QED BY <1>2, <1>4, <2>1, <2>2, <3>1, <3>2, OffersHeld DEF ProceedsTo
 <2> QED BY <1>2, <1>3, <2>1, <2>2, <2>6, <2>7, GoesOnLocal
<1>8. CASE ~(peer[u] # NoPeer /\ peer[u].sends # s)
 <2>1. peer' = peer /\ work' = work /\ wanted' = wanted /\ inFlight' = inFlight BY <1>5, <1>8 DEF ViewerChanges
 <2>2. VoicePeerTypeOK' BY <1>2, <1>3, <2>1 DEF PeerLocal, VoicePeerTypeOK
 <2>3. SideHolds(u)' BY <1>2, <1>6, <2>1 DEF SideHolds, WillCall, Registers, IsLocal
 <2>4. ScreenSends(u)' BY <1>5, <1>8, <2>1 DEF ScreenSends
 <2>5. ~collided' => (Orderly(u) /\ OfferCarries(u) /\ ScreenDue(u))'
   BY <1>2, <2>1 DEF PeerLocal, Orderly, OfferCarries, ScreenDue, WillCall
 <2>6. OffersKnown(u, v)' /\ OffersKnown(v, u)'
  <3>1. OffersKnown(u, v) /\ OffersKnown(v, u) BY <1>1 DEF PeerLocal
  <3> QED BY <1>2, <2>1, <3>1 DEF OffersKnown, Older
 <2>7. (SideHolds(v) /\ ScreenSends(v))' /\ (~collided' => (Orderly(v) /\ OfferCarries(v) /\ ScreenDue(v))')
   BY <1>1, <1>2, <1>3, <2>1, SideFramed
 <2> QED BY <2>2, <2>3, <2>4, <2>5, <2>6, <2>7, LocalHolds
<1> QED BY <1>7, <1>8

------------------------------------------------------------
\* An answer is made, and sent unless the connection was offered something else.
Answering(u, w) == Settled(u, peer[u].id, w.sdp, KeepsSending(peer[u], u))

LEMMA AnsweringFields ==
    ASSUME PeerLocal, NEW u \in Caller, NEW v, v = Other(u), NEW w \in work[u], w.op = "answer"
    PROVE  /\ peer[u] # NoPeer /\ w.sdp \in Offer /\ w.sdp # NoSession /\ Older(v, w.sdp)
           /\ Answering(u, w) \in Agreement /\ Answering(u, w) # NoSession
           /\ Answering(u, w).offer = w.sdp /\ Answering(u, w).with = peer[u].id
           /\ Answering(u, w).screens[v] = w.sdp.screen
           /\ Answering(u, w).screens[u] = KeepsSending(peer[u], u)
           /\ Signal("answer", Answering(u, w)) \in PeerEvent
           /\ Signal("answer", Answering(u, w)).type = "answer"
           /\ Signal("answer", Answering(u, w)).sdp = Answering(u, w)
<1>1. v \in Caller /\ v # u /\ Other(v) = u BY OtherCaller
<1>2. SideHolds(u) /\ OffersKnown(v, u) BY <1>1 DEF PeerLocal
<1>3. peer[u] # NoPeer /\ w.sdp # NoSession /\ Older(v, w.sdp) /\ w.sdp.by = v
  BY <1>2 DEF SideHolds, OffersKnown, Older
<1>4. peer[u] \in Connection /\ w \in PeerTask BY <1>3 DEF PeerLocal, VoicePeerTypeOK
<1>5. w.sdp \in Offer BY <1>3, <1>4 DEF PeerTask
<1>6. KeepsSending(peer[u], u) \in BOOLEAN BY <1>4 DEF KeepsSending, Connection, Agreement
<1>7. PICK keeps \in BOOLEAN : keeps = KeepsSending(peer[u], u) BY <1>6
<1> DEFINE a == Answering(u, w)
<1>8. a = [offer |-> w.sdp, with |-> peer[u].id,
           screens |-> [x \in Caller |-> IF x = w.sdp.by THEN w.sdp.screen ELSE keeps]]
  BY <1>7 DEF Answering, Settled
<1>9. peer[u].id \in Nat /\ w.sdp.screen \in BOOLEAN BY <1>4, <1>5 DEF Connection, Offer
<1> HIDE DEF a
<1>10. a \in Agreement BY <1>5, <1>8, <1>9 DEF Agreement
<1>11. a # NoSession BY <1>10, VoicePeerAssumption
<1>12. /\ a.offer = w.sdp /\ a.with = peer[u].id /\ a.screens[v] = w.sdp.screen /\ a.screens[u] = keeps
  BY <1>1, <1>3, <1>8
<1>13. /\ Signal("answer", a) \in PeerEvent /\ Signal("answer", a).type = "answer" /\ Signal("answer", a).sdp = a
  BY <1>10 DEF Signal, PeerEvent
<1> QED BY <1>3, <1>5, <1>7, <1>10, <1>11, <1>12, <1>13 DEF a

\* Either it is given up or the session is settled and the answer sent.
Settles(u, w, pc) ==
    /\ w \in work[u] /\ w.op = "answer" /\ peer[u].state = "remote"
    /\ pc = [peer[u] EXCEPT !.state = "stable", !.session = Answering(u, w)]
    /\ Proceeds(u, pc, work[u] \ {w}, wanted[u])
    /\ arriving' = Relayed(u, arriving, Signal("answer", Answering(u, w)))
    /\ place' = place /\ viewed' = viewed /\ made' = made /\ views' = views /\ joins' = joins
    /\ collided' = collided /\ early' = early

LEMMA AnswerMadeEnds ==
    ASSUME PeerLocal, NEW u \in Caller, AnswerMade(u)
    PROVE  \E w : GivesUp(u, w) \/ \E pc : Settles(u, w, pc)
<1>1. PICK w \in work[u] :
        /\ w.op = "answer"
        /\ IF peer[u].state # "remote"
           THEN work' = [work EXCEPT ![u] = @ \ {w}] /\ UNCHANGED <<peer, wanted, inFlight, arriving>>
           ELSE LET session == Settled(u, peer[u].id, w.sdp, KeepsSending(peer[u], u))
                IN  /\ BecomesStable(u, [peer[u] EXCEPT !.state = "stable", !.session = session],
                                     work[u] \ {w})
                    /\ arriving' = Relayed(u, arriving, Signal("answer", session))
        /\ UNCHANGED <<place, viewed, made, views, joins, collided, early>>
  BY DEF AnswerMade
<1>2. /\ place' = place /\ viewed' = viewed /\ made' = made /\ views' = views /\ joins' = joins
      /\ collided' = collided /\ early' = early /\ collided \in BOOLEAN
      /\ inFlight \in [Caller -> BOOLEAN]
  BY <1>1 DEF PeerLocal, VoicePeerTypeOK
<1>3. CASE peer[u].state # "remote"
 <2>1. work' = [work EXCEPT ![u] = @ \ {w}] /\ peer' = peer /\ wanted' = wanted /\ inFlight' = inFlight /\ arriving' = arriving
   BY <1>1, <1>3
 <2>2. inFlight' = [inFlight EXCEPT ![u] = @ /\ w.op # "renego"] BY <1>1, <1>2, <2>1
 <2>3. w \in work[u] /\ w.op = "answer" /\ collided' \in BOOLEAN /\ (~collided' => ~collided) BY <1>1, <1>2
 <2>4. GivesUp(u, w) BY <1>2, <1>3, <2>1, <2>2, <2>3 DEF GivesUp
 <2> QED BY <2>4
<1>4. CASE peer[u].state = "remote"
 <2> DEFINE a == Answering(u, w)
            pc == [peer[u] EXCEPT !.state = "stable", !.session = a]
 <2>1. /\ BecomesStable(u, pc, work[u] \ {w})
       /\ arriving' = Relayed(u, arriving, Signal("answer", a))
   BY <1>1, <1>4 DEF Answering
 <2>2. a \in Agreement /\ peer[u] # NoPeer BY <1>1, AnsweringFields
 <2>3. peer[u] \in Connection /\ work[u] \ {w} \in SUBSET PeerTask BY <2>2 DEF PeerLocal, VoicePeerTypeOK
 <2>4. pc \in Connection BY <2>2, <2>3 DEF Connection
 <2>5. inFlight[u] <=> \E x \in work[u] \ {w} : x.op = "renego" BY <1>1 DEF PeerLocal, SideHolds
 <2> HIDE DEF pc, a
 <2>6. Proceeds(u, pc, work[u] \ {w}, wanted[u]) BY <2>1, <2>3, <2>4, <2>5, RenegotiatesProceeds
 <2>7. Settles(u, w, pc) BY <1>1, <1>2, <1>4, <2>1, <2>6 DEF Settles, pc, a
 <2> QED BY <2>7
<1> QED BY <1>3, <1>4

LEMMA SettlesFields ==
    ASSUME PeerLocal, NEW u \in Caller, NEW v, v = Other(u), NEW w, NEW pc, Settles(u, w, pc)
    PROVE  /\ pc \in Connection /\ pc.id = peer[u].id /\ pc.state = "stable" /\ pc.sends = peer[u].sends
           /\ pc.last = peer[u].last /\ pc.rev = peer[u].rev /\ pc.offered = peer[u].offered
           /\ pc.session = Answering(u, w) /\ w \in work[u] /\ w.op = "answer" /\ peer[u] # NoPeer
           /\ arriving' \in [Caller -> Seq(PeerEvent)] /\ arriving'[u] = arriving[u]
           /\ arriving[v] \in Seq(PeerEvent)
           /\ arriving'[v] = (IF place[u] # "out" /\ place[v] # "out"
                              THEN Append(arriving[v], Signal("answer", Answering(u, w))) ELSE arriving[v])
<1>1. v \in Caller /\ v # u /\ Other(v) = u BY OtherCaller
<1> DEFINE a == Answering(u, w)
           m == Signal("answer", a)
<1>2. /\ w \in work[u] /\ w.op = "answer" /\ peer[u].state = "remote"
      /\ pc = [peer[u] EXCEPT !.state = "stable", !.session = a]
      /\ arriving' = Relayed(u, arriving, m)
  BY DEF Settles
<1>3. a \in Agreement /\ peer[u] # NoPeer /\ m \in PeerEvent BY <1>2, AnsweringFields
<1> HIDE DEF a, m
<1>4. peer[u] \in Connection /\ arriving \in [Caller -> Seq(PeerEvent)] BY <1>3 DEF PeerLocal, VoicePeerTypeOK
<1>5. pc \in Connection BY <1>2, <1>3, <1>4 DEF Connection
<1>6. /\ pc.id = peer[u].id /\ pc.state = "stable" /\ pc.sends = peer[u].sends
      /\ pc.last = peer[u].last /\ pc.rev = peer[u].rev /\ pc.offered = peer[u].offered
      /\ pc.session = a
  BY <1>2, <1>4 DEF Connection
<1>7. Append(arriving[v], m) \in Seq(PeerEvent) /\ arriving[v] \in Seq(PeerEvent)
  BY <1>1, <1>3, <1>4, EventAppended
<1>8. CASE place[u] # "out" /\ place[v] # "out"
 <2>1. arriving' = [arriving EXCEPT ![v] = Append(@, m)] BY <1>2, <1>8 DEF Relayed
 <2>2. arriving' \in [Caller -> Seq(PeerEvent)] /\ arriving'[u] = arriving[u] /\ arriving'[v] = Append(arriving[v], m)
   BY <1>1, <1>4, <1>7, <2>1
 <2> QED BY <1>2, <1>3, <1>5, <1>6, <1>7, <1>8, <2>2 DEF a, m
<1>9. CASE ~(place[u] # "out" /\ place[v] # "out")
 <2>1. arriving' = arriving BY <1>2, <1>9 DEF Relayed
 <2> QED BY <1>2, <1>3, <1>4, <1>5, <1>6, <1>7, <1>9, <2>1 DEF a
<1> QED BY <1>8, <1>9

LEMMA AnswerMadeLocal ==
    ASSUME PeerLocal, NEW u \in Caller, NEW v, v = Other(u), AnswerMade(u)
    PROVE  PeerLocal'
<1>1. CASE \E w : GivesUp(u, w) BY <1>1, GivesUpLocal
<1>2. CASE \E w, pc : Settles(u, w, pc)
 <2>1. PICK w, pc : Settles(u, w, pc) BY <1>2
 <2>2. v \in Caller /\ v # u /\ Other(v) = u BY OtherCaller
 <2> DEFINE a == Answering(u, w)
            tasks == work[u] \ {w}
 <2>3. /\ pc \in Connection /\ pc.id = peer[u].id /\ pc.state = "stable" /\ pc.sends = peer[u].sends
       /\ pc.last = peer[u].last /\ pc.rev = peer[u].rev /\ pc.offered = peer[u].offered
       /\ pc.session = a /\ w \in work[u] /\ w.op = "answer" /\ peer[u] # NoPeer
       /\ arriving' \in [Caller -> Seq(PeerEvent)] /\ arriving'[u] = arriving[u]
       /\ arriving[v] \in Seq(PeerEvent)
   BY <2>1, SettlesFields
 <2>4. /\ w.sdp # NoSession /\ Older(v, w.sdp)
       /\ a # NoSession /\ a.offer = w.sdp /\ a.screens[v] = w.sdp.screen
       /\ a.screens[u] = KeepsSending(peer[u], u)
       /\ Signal("answer", a) \in PeerEvent /\ Signal("answer", a).type = "answer" /\ Signal("answer", a).sdp = a
   BY <2>3, AnsweringFields
 <2>5. arriving'[v] = Append(arriving[v], Signal("answer", a)) \/ arriving'[v] = arriving[v]
  <3>1. arriving'[v] = IF place[u] # "out" /\ place[v] # "out"
                       THEN Append(arriving[v], Signal("answer", Answering(u, w))) ELSE arriving[v]
    BY <2>1, SettlesFields
  <3> QED BY <3>1
 <2> HIDE DEF a
 <2>6. /\ Proceeds(u, pc, tasks, wanted[u]) /\ peer[u].state = "remote"
       /\ place' = place /\ viewed' = viewed /\ made' = made /\ views' = views /\ joins' = joins
       /\ collided' = collided /\ early' = early
   BY <2>1 DEF Settles
 <2>7. /\ tasks \in SUBSET PeerTask /\ viewed' \in [Caller -> BOOLEAN] /\ wanted[u] \in BOOLEAN
       /\ views' \in 0..MaxViews /\ collided' \in BOOLEAN /\ peer[u] \in Connection
   BY <2>3, <2>6 DEF PeerLocal, VoicePeerTypeOK
 <2>8. SideHolds(u) /\ ScreenSends(u) BY DEF PeerLocal
 <2>9. ASSUME ~collided'
       PROVE  /\ ~collided /\ \A x \in tasks : x.op = "answer" => pc.state = "remote"
              /\ ~wanted[u] => pc.sends = peer[u].sends /\ ~wanted[u] /\ Due(u, pc)
  <3>1. Orderly(u) /\ ScreenDue(u) /\ ~collided BY <2>6, <2>9 DEF PeerLocal
  <3>2. \A x \in tasks : x.op # "answer" BY <2>3, <3>1 DEF Orderly
  <3>3. ASSUME ~wanted[u]
        PROVE  Due(u, pc)
   <4>1. \/ early[u] \/ WillCall(u)
         \/ peer[u].session = NoSession /\ ~peer[u].sends
         \/ peer[u].session # NoSession /\ peer[u].session.screens[u] = peer[u].sends
     BY <2>3, <2>6, <3>1, <3>3 DEF ScreenDue
   <4>2. peer[u].sends \in BOOLEAN BY <2>7 DEF Connection
   <4>3. CASE early[u] \/ WillCall(u) BY <4>3 DEF Due
   <4>4. CASE peer[u].session = NoSession /\ ~peer[u].sends
    <5>1. a.screens[u] = FALSE /\ pc.sends = FALSE BY <2>3, <2>4, <4>2, <4>4 DEF KeepsSending
    <5> QED BY <2>3, <2>4, <5>1 DEF Due
   <4>5. CASE peer[u].session # NoSession /\ peer[u].session.screens[u] = peer[u].sends
    <5>1. a.screens[u] = pc.sends BY <2>3, <2>4, <4>2, <4>5 DEF KeepsSending
    <5> QED BY <2>3, <2>4, <5>1 DEF Due
   <4> QED BY <4>1, <4>3, <4>4, <4>5
  <3> QED BY <2>3, <3>1, <3>2, <3>3
 <2>10. /\ wanted[u] => place[u] = "in"
        /\ pc.sends => viewed'[u]
        /\ ~Registers(u) => pc.sends = viewed'[u]
   BY <2>3, <2>6, <2>8 DEF SideHolds, ScreenSends
 <2>11. GoesOn(u, pc, tasks, wanted[u])
  <3>1. tasks \subseteq work[u] /\ \A x \in work[u] : x \in tasks \/ x.op = "answer" BY <2>3
  <3> HIDE DEF tasks
  <3> QED BY <2>3, <2>4, <2>6, <2>9, <2>10, <3>1 DEF GoesOn
 <2>12. OffersKnown(u, v)' /\ OffersKnown(v, u)'
  <3>1. ProceedsTo(u, v, pc, tasks, wanted[u]) BY <2>3, <2>6, <2>7, ProceedsFields
  <3>2. \A x \in work'[u] : x \in work[u] \/ x.sdp = NoSession
   <4>1. work'[u] \subseteq work[u] \union {Await("renego", NoSession, pc.sends)} BY <3>1 DEF ProceedsTo
   <4>2. Await("renego", NoSession, pc.sends).sdp = NoSession BY DEF Await
   <4> QED BY <4>1, <4>2
  <3>3. /\ peer'[v] = peer[v] /\ work'[v] = work[v] /\ peer'[u] # NoPeer /\ peer'[u].id = peer[u].id
        /\ peer'[u].rev = peer[u].rev
    BY <2>3, <3>1 DEF ProceedsTo
  <3>4. \A o : (Older(u, o) => OlderThen(u, o)) /\ (Older(v, o) => OlderThen(v, o))
    BY <2>3, <2>6, <3>3 DEF Older, OlderThen
  <3>5. \A i \in 1..Len(arriving'[v]) :
            (\E j \in 1..Len(arriving[v]) : arriving'[v][i] = arriving[v][j]) \/ arriving'[v][i] = Signal("answer", a)
   <4>1. CASE arriving'[v] = arriving[v] BY <4>1
   <4>2. CASE arriving'[v] = Append(arriving[v], Signal("answer", a)) BY <2>3, <2>4, <4>2, EventAppended
   <4> QED BY <2>5, <4>1, <4>2
  <3>6. \A i \in 1..Len(arriving'[u]) : \E j \in 1..Len(arriving[u]) : arriving'[u][i] = arriving[u][j] BY <2>3
  <3>7. OffersKnown(u, v) /\ OffersKnown(v, u) BY <2>2 DEF PeerLocal
  <3>8. OffersKnown(u, v)'
   <4>1. \A i \in 1..Len(arriving'[v]) :
             (\E j \in 1..Len(arriving[v]) : arriving'[v][i] = arriving[v][j]) \/ arriving'[v][i].type # "offer"
     BY <2>4, <3>5
   <4> QED BY <2>2, <3>3, <3>4, <3>6, <3>7, <4>1, OffersStayKnown
  <3>9. OffersKnown(v, u)'
   <4>1. \A i \in 1..Len(arriving'[v]) :
             \/ \E j \in 1..Len(arriving[v]) : arriving'[v][i] = arriving[v][j]
             \/ /\ OlderThen(v, arriving'[v][i].sdp.offer)
                /\ arriving'[v][i].sdp.screens[v] = arriving'[v][i].sdp.offer.screen
     BY <2>4, <3>4, <3>5
   <4> QED BY <2>2, <3>2, <3>4, <3>6, <3>7, <4>1, OffersStayKnown
  <3> QED BY <3>8, <3>9
 <2> QED BY <2>2, <2>3, <2>6, <2>7, <2>11, <2>12, GoesOnLocal
<1> QED BY <1>1, <1>2, AnswerMadeEnds

------------------------------------------------------------
\* An answer is taken for the offer that is pending, or is to no offer.
Accepts(u, pc) ==
    /\ Head1(u, "answer") /\ place[u] # "out" /\ arriving' = Taken(u) /\ IsLocal(u)
    /\ pc = [peer[u] EXCEPT !.state = "stable", !.offered = NoSession, !.session = Head(arriving[u]).sdp]
    /\ Proceeds(u, pc, work[u], wanted[u])
    /\ collided' = (collided \/ Head(arriving[u]).sdp.offer # peer[u].offered)
    /\ place' = place /\ viewed' = viewed /\ made' = made /\ views' = views /\ joins' = joins
    /\ early' = early

LEMMA AnswerReceivedEnds ==
    ASSUME PeerLocal, NEW u \in Caller, AnswerReceived(u)
    PROVE  \/ \E pc : Accepts(u, pc)
           \/ /\ peer' = peer /\ work' = work /\ wanted' = wanted /\ inFlight' = inFlight
              /\ collided' = collided /\ ~IsLocal(u)
<1>1. CASE IsLocal(u)
 <2> DEFINE s == Head(arriving[u]).sdp
            pc == [peer[u] EXCEPT !.state = "stable", !.offered = NoSession, !.session = s]
 <2>1. /\ BecomesStable(u, pc, work[u]) /\ collided' = (collided \/ s.offer # peer[u].offered)
       /\ Head1(u, "answer") /\ place[u] # "out" /\ arriving' = Taken(u)
       /\ place' = place /\ viewed' = viewed /\ made' = made /\ views' = views /\ joins' = joins
       /\ early' = early
   BY <1>1 DEF AnswerReceived, IsLocal
 <2>2. s \in Agreement BY <2>1, OtherCaller, HeadKnown DEF Head1
 <2>3. peer[u] \in Connection /\ work[u] \in SUBSET PeerTask BY <1>1 DEF IsLocal, PeerLocal, VoicePeerTypeOK
 <2>4. pc \in Connection BY <2>2, <2>3 DEF Connection
 <2>5. inFlight[u] <=> \E x \in work[u] : x.op = "renego" BY DEF PeerLocal, SideHolds
 <2> HIDE DEF pc
 <2>6. Proceeds(u, pc, work[u], wanted[u]) BY <2>1, <2>3, <2>4, <2>5, RenegotiatesProceeds
 <2>7. Accepts(u, pc) BY <1>1, <2>1, <2>6 DEF Accepts, pc
 <2> QED BY <2>7
<1>2. CASE ~IsLocal(u) BY <1>2 DEF AnswerReceived, IsLocal
<1> QED BY <1>1, <1>2

LEMMA AcceptsFields ==
    ASSUME PeerLocal, NEW u \in Caller, NEW v, v = Other(u), NEW pc, Accepts(u, pc)
    PROVE  /\ pc \in Connection /\ pc.id = peer[u].id /\ pc.state = "stable" /\ pc.sends = peer[u].sends
           /\ pc.last = peer[u].last /\ pc.rev = peer[u].rev /\ pc.offered = NoSession
           /\ pc.session = Head(arriving[u]).sdp /\ pc.session # NoSession /\ pc.session \in Agreement
           /\ peer[u] \in Connection /\ peer[u] # NoPeer /\ peer[u].state = "local"
<1>1. /\ arriving[u] # <<>> /\ Head(arriving[u]).type = "answer" /\ IsLocal(u)
      /\ pc = [peer[u] EXCEPT !.state = "stable", !.offered = NoSession, !.session = Head(arriving[u]).sdp]
  BY DEF Accepts, Head1
<1>2. Head(arriving[u]).sdp \in Agreement BY <1>1, HeadKnown
<1>3. peer[u] \in Connection /\ peer[u] # NoPeer /\ peer[u].state = "local"
  BY <1>1 DEF IsLocal, PeerLocal, VoicePeerTypeOK
<1>4. pc \in Connection BY <1>1, <1>2, <1>3 DEF Connection
<1>5. /\ pc.id = peer[u].id /\ pc.state = "stable" /\ pc.sends = peer[u].sends
      /\ pc.last = peer[u].last /\ pc.rev = peer[u].rev /\ pc.offered = NoSession
      /\ pc.session = Head(arriving[u]).sdp
  BY <1>1, <1>3 DEF Connection
<1>6. pc.session # NoSession BY <1>2, <1>5, VoicePeerAssumption
<1> QED BY <1>2, <1>3, <1>4, <1>5, <1>6

LEMMA AnswerReceivedLocal ==
    ASSUME PeerLocal, NEW u \in Caller, NEW v, v = Other(u), AnswerReceived(u)
    PROVE  PeerLocal'
<1>1. CASE /\ peer' = peer /\ work' = work /\ wanted' = wanted /\ inFlight' = inFlight
           /\ collided' = collided
  BY <1>1, OnlyTakesLocal DEF AnswerReceived, Head1
<1>2. CASE \E pc : Accepts(u, pc)
 <2>1. PICK pc : Accepts(u, pc) BY <1>2
 <2>2. v \in Caller /\ v # u /\ Other(v) = u BY OtherCaller
 <2> DEFINE s == Head(arriving[u]).sdp
 <2>3. /\ pc \in Connection /\ pc.id = peer[u].id /\ pc.state = "stable" /\ pc.sends = peer[u].sends
       /\ pc.last = peer[u].last /\ pc.rev = peer[u].rev /\ pc.offered = NoSession
       /\ pc.session = s /\ pc.session # NoSession /\ pc.session \in Agreement
       /\ peer[u] \in Connection /\ peer[u] # NoPeer /\ peer[u].state = "local"
   BY <2>1, AcceptsFields
 <2>4. /\ arriving[u] # <<>> /\ Head(arriving[u]).type = "answer" /\ arriving' = Taken(u)
       /\ Proceeds(u, pc, work[u], wanted[u])
       /\ collided' = (collided \/ s.offer # peer[u].offered)
       /\ place' = place /\ viewed' = viewed /\ made' = made /\ views' = views /\ joins' = joins
       /\ early' = early
   BY <2>1 DEF Accepts, Head1
 <2>5. s.screens[u] = s.offer.screen BY <2>4, HeadKnown
 <2>6. /\ work[u] \in SUBSET PeerTask /\ viewed' \in [Caller -> BOOLEAN] /\ wanted[u] \in BOOLEAN
       /\ views' \in 0..MaxViews /\ collided' \in BOOLEAN
   BY <2>4 DEF PeerLocal, VoicePeerTypeOK
 <2> HIDE DEF s
 <2>7. SideHolds(u) /\ ScreenSends(u) BY DEF PeerLocal
 <2>8. ASSUME ~collided'
       PROVE  /\ ~collided /\ \A x \in work[u] : x.op = "answer" => pc.state = "remote"
              /\ ~wanted[u] => pc.sends = peer[u].sends /\ ~wanted[u] /\ Due(u, pc)
  <3>1. ~collided /\ s.offer = peer[u].offered BY <2>4, <2>8
  <3>2. Orderly(u) /\ ScreenDue(u) BY <3>1 DEF PeerLocal
  <3>3. \A x \in work[u] : x.op # "answer" BY <2>3, <3>2 DEF Orderly
  <3>4. ASSUME ~wanted[u]
        PROVE  Due(u, pc)
    BY <2>3, <2>5, <3>1, <3>2, <3>4 DEF Due, ScreenDue
  <3> QED BY <2>3, <3>1, <3>3, <3>4
 <2>9. /\ wanted[u] => place[u] = "in"
       /\ pc.sends => viewed'[u]
       /\ ~Registers(u) => pc.sends = viewed'[u]
   BY <2>3, <2>4, <2>7 DEF SideHolds, ScreenSends
 <2>10. GoesOn(u, pc, work[u], wanted[u]) BY <2>3, <2>4, <2>8, <2>9 DEF GoesOn
 <2>11. /\ arriving' \in [Caller -> Seq(PeerEvent)]
        /\ Within(arriving'[u], arriving[u]) /\ Within(arriving'[v], arriving[v])
   BY <2>4, TakenFields
 <2>12. OffersKnown(u, v)' /\ OffersKnown(v, u)'
  <3>1. ProceedsTo(u, v, pc, work[u], wanted[u]) BY <2>3, <2>4, <2>6, ProceedsFields
  <3>2. \A x \in work'[u] : x.sdp = NoSession \/ \E y \in work[u] : y.sdp = x.sdp
   <4>1. work'[u] \subseteq work[u] \union {Await("renego", NoSession, pc.sends)} BY <3>1 DEF ProceedsTo
   <4>2. Await("renego", NoSession, pc.sends).sdp = NoSession BY DEF Await
   <4> QED BY <4>1, <4>2
  <3> QED BY <2>3, <2>4, <2>11, <3>1, <3>2, OffersHeld DEF ProceedsTo
 <2> QED BY <2>2, <2>3, <2>4, <2>6, <2>10, <2>11, <2>12, GoesOnLocal
<1> QED BY <1>1, <1>2, AnswerReceivedEnds

------------------------------------------------------------
\* PeerLocal is inductive.
LEMMA PeerLocalInit ==
    ASSUME VoicePeerInit
    PROVE  PeerLocal
<1>1. VoicePeerTypeOK
 <2>1. <<>> \in Seq(PeerEvent) /\ 0 \in 0..MaxViews /\ 0 \in 0..MaxJoins BY EmptySeq, VoicePeerAssumption
 <2> QED BY <2>1 DEF VoicePeerInit, VoicePeerTypeOK
<1>2. \A u \in Caller : /\ peer[u] = NoPeer /\ work[u] = {} /\ ~wanted[u] /\ ~inFlight[u] /\ ~early[u]
                        /\ Len(arriving[u]) = 0
  BY EmptySeq DEF VoicePeerInit
<1>3. \A u \in Caller : SideHolds(u) /\ ScreenSends(u) BY <1>2 DEF SideHolds, ScreenSends, IsLocal, Registers
<1>4. \A u \in Caller : Orderly(u) /\ OfferCarries(u) /\ ScreenDue(u)
  BY <1>2 DEF Orderly, OfferCarries, ScreenDue
<1>5. \A u \in Caller : OffersKnown(u, Other(u))
 <2>1. \A i : i \notin 1..0 OBVIOUS
 <2> QED BY <1>2, <2>1, OtherCaller DEF OffersKnown
<1> QED BY <1>1, <1>3, <1>4, <1>5 DEF PeerLocal

LEMMA PeerLocalNext ==
    ASSUME PeerLocal, [VoicePeerNext]_peerVars
    PROVE  PeerLocal'
<1>1. CASE UNCHANGED peerVars
 <2>1. VoicePeerTypeOK' BY <1>1 DEF peerVars, PeerLocal, VoicePeerTypeOK
 <2>2. \A u \in Caller : (SideHolds(u) /\ ScreenSends(u))'
   BY <1>1 DEF peerVars, PeerLocal, SideHolds, ScreenSends, WillCall, Registers, IsLocal
 <2>3. ~collided' => \A u \in Caller : (Orderly(u) /\ OfferCarries(u) /\ ScreenDue(u))'
   BY <1>1 DEF peerVars, PeerLocal, Orderly, OfferCarries, ScreenDue, WillCall
 <2>4. \A u \in Caller : OffersKnown(u, Other(u))' BY <1>1 DEF peerVars, PeerLocal, OffersKnown, Older
 <2> QED BY <2>1, <2>2, <2>3, <2>4 DEF PeerLocal
<1>2. ASSUME NEW u \in Caller,
             \/ JoinsRoom(u) \/ Announced(u) \/ Leaves(u) \/ UserLeft(u) \/ Skipped(u)
             \/ UserJoined(u) \/ RegisterDone(u) \/ OfferMade(u) \/ RenegotiationMade(u)
             \/ ViewerChanges(u) \/ OfferReceived(u) \/ AnswerMade(u) \/ AnswerReceived(u)
      PROVE  PeerLocal'
  BY <1>2, JoinsRoomLocal, AnnouncedLocal, LeavesLocal, UserLeftLocal, SkippedLocal, UserJoinedLocal,
     RegisterDoneLocal, OfferMadeLocal, RenegotiationMadeLocal, ViewerChangesLocal, OfferReceivedLocal,
     AnswerMadeLocal, AnswerReceivedLocal
<1> QED BY <1>1, <1>2 DEF VoicePeerNext

------------------------------------------------------------
\* What is known of an inbox r that is the inbox s and the event m sent after, or s less its head m.
Grown(s, r, m) ==
    /\ HasLeft(r) <=> HasLeft(s)
    /\ HasJoined(r) <=> HasJoined(s) \/ m.type = "joined"
    /\ HasOffer(r) <=> HasOffer(s) \/ m.type = "offer"
    /\ JoinedFirst(s) => JoinedFirst(r)
    /\ m.type = "joined" /\ ~HasOffer(s) => JoinedFirst(r)
    /\ \A o : SentIn(s, o) /\ m.type # "offer" => SentIn(r, o)
    /\ \A o : m.type = "offer" /\ m.sdp = o /\ ~Bears(s, o) => SentIn(r, o)
    /\ \A o : Replies(r, o) <=> Replies(s, o) \/ Answers(m, o)
    /\ \A o, x : AnswersAre(s, o, x) /\ (Answers(m, o) => m.sdp = x) => AnswersAre(r, o, x)
    /\ \A o : ReplyBeforeOffer(r, o) =>
                  ReplyBeforeOffer(s, o) \/ (m.type = "offer" /\ Replies(s, o))
Shrunk(s, r, m) ==
    /\ HasLeft(r) => HasLeft(s)
    /\ HasLeft(s) /\ m.type # "left" => HasLeft(r)
    /\ HasJoined(s) /\ (m.type # "joined" \/ HasLeft(s)) => HasJoined(r)
    /\ HasJoined(r) => HasJoined(s)
    /\ HasOffer(r) => HasOffer(s)
    /\ m.type = "offer" /\ ~HasLeft(s) => HasOffer(s) /\ ~JoinedFirst(s)
    /\ JoinedFirst(s) /\ (m.type # "joined" \/ HasLeft(s)) => JoinedFirst(r)
    /\ \A o : SentIn(s, o) /\ (HasLeft(s) \/ m.type # "offer" \/ m.sdp # o) => SentIn(r, o)
    /\ \A o : SentIn(s, o) /\ m.type = "offer" /\ m.sdp = o => ~HasOffer(r) /\ ~HasLeft(s)
    /\ \A o : Replies(r, o) => Replies(s, o)
    /\ \A o : Replies(s, o) => Replies(r, o) \/ Answers(m, o)
    /\ \A o : Answers(m, o) => Replies(s, o)
    /\ \A o, x : AnswersAre(s, o, x) => AnswersAre(r, o, x) /\ (Answers(m, o) => m.sdp = x)
    /\ \A o : ReplyBeforeOffer(r, o) => ReplyBeforeOffer(s, o)
    /\ \A o : Answers(m, o) /\ ~HasLeft(s) /\ HasOffer(s) => ReplyBeforeOffer(s, o)
    /\ Stale(s) => Stale(r) /\ HasLeft(s)

LEMMA InboxGrown ==
    ASSUME NEW s \in Seq(PeerEvent), NEW m \in PeerEvent, m.type # "left"
    PROVE  Grown(s, Append(s, m), m)
<1> DEFINE r == Append(s, m)
<1>1. ASSUME NEW o, NEW x, AnswersAre(s, o, x), Answers(m, o) => m.sdp = x
      PROVE  AnswersAre(r, o, x)
 <2>1. /\ Len(s) \in Nat /\ Len(r) = Len(s) + 1 /\ r[Len(s) + 1] = m
       /\ \A i \in 1..Len(s) : r[i] = s[i]
   BY EventAppended
 <2> HIDE DEF r
 <2>2. \A i \in 1..Len(r) : i \in 1..Len(s) \/ i = Len(s) + 1 BY <2>1
 <2> QED BY <1>1, <2>1, <2>2 DEF AnswersAre
<1> QED BY <1>1, EventSent DEF Grown

LEMMA InboxShrunk ==
    ASSUME NEW s \in Seq(PeerEvent), s # <<>>
    PROVE  Shrunk(s, Tail(s), Head(s))
<1> DEFINE r == Tail(s)
<1>1. /\ Len(s) \in Nat \ {0} /\ Head(s) = s[1] /\ 1 \in 1..Len(s) BY EventTaken
<1>2. Within(r, s) BY HeadTaken DEF Within
<1>3. ASSUME NEW o, NEW x, AnswersAre(s, o, x)
      PROVE  AnswersAre(r, o, x) /\ (Answers(Head(s), o) => Head(s).sdp = x)
 <2> HIDE DEF r
 <2> QED BY <1>1, <1>2, <1>3 DEF AnswersAre, Within
<1>4. Stale(s) => Stale(r) /\ HasLeft(s)
 <2>1. Stale(s) => Stale(r) BY HeadTaken DEF Stale
 <2>2. Stale(s) => HasLeft(s) BY <1>1 DEF Stale, IsNow, HasLeft
 <2> QED BY <2>1, <2>2
<1> HIDE DEF r
<1>5. /\ \A o : SentIn(s, o) /\ (HasLeft(s) \/ Head(s).type # "offer" \/ Head(s).sdp # o) => SentIn(r, o)
      /\ \A o : SentIn(s, o) /\ Head(s).type = "offer" /\ Head(s).sdp = o => ~HasOffer(r) /\ ~HasLeft(s)
      /\ \A o : Replies(r, o) => Replies(s, o)
      /\ \A o : Replies(s, o) => Replies(r, o) \/ Answers(Head(s), o)
      /\ \A o : Answers(Head(s), o) => Replies(s, o)
      /\ \A o : ReplyBeforeOffer(r, o) => ReplyBeforeOffer(s, o)
      /\ \A o : Answers(Head(s), o) /\ ~HasLeft(s) /\ HasOffer(s) => ReplyBeforeOffer(s, o)
  BY HeadTaken DEF r
<1>6. /\ HasLeft(r) => HasLeft(s)
      /\ HasLeft(s) /\ Head(s).type # "left" => HasLeft(r)
      /\ HasJoined(s) /\ (Head(s).type # "joined" \/ HasLeft(s)) => HasJoined(r)
      /\ HasJoined(r) => HasJoined(s)
      /\ HasOffer(r) => HasOffer(s)
      /\ Head(s).type = "offer" /\ ~HasLeft(s) => HasOffer(s) /\ ~JoinedFirst(s)
      /\ JoinedFirst(s) /\ (Head(s).type # "joined" \/ HasLeft(s)) => JoinedFirst(r)
  BY HeadTaken DEF r
<1> QED BY <1>3, <1>4, <1>5, <1>6 DEF Shrunk, r

\* What stale and empty inboxes say, and what a joined says alone.
LEMMA InboxSays ==
    ASSUME NEW s \in Seq(PeerEvent)
    PROVE  /\ Stale(s) => ~HasOffer(s) /\ ~HasJoined(s)
           /\ s = <<>> => Stale(s) /\ ~HasLeft(s) /\ ~HasOffer(s) /\ ~HasJoined(s)
           /\ HasJoined(s) /\ ~HasOffer(s) => JoinedFirst(s)
           /\ JoinedFirst(s) => HasJoined(s)
           /\ \A o : SentIn(s, o) => HasOffer(s) /\ Bears(s, o)
           /\ \A o : ~Replies(s, o) => ~ReplyBeforeOffer(s, o)
           /\ \A o, x : ~Replies(s, o) => AnswersAre(s, o, x)
<1>1. Stale(s) => ~HasOffer(s) /\ ~HasJoined(s) BY DEF Stale, HasOffer, HasJoined
<1>2. ASSUME s = <<>>
      PROVE  Stale(s) /\ ~HasLeft(s) /\ ~HasOffer(s) /\ ~HasJoined(s)
 <2>1. \A i : i \notin 1..Len(s) BY <1>2, EmptySeq
 <2> QED BY <2>1 DEF Stale, HasLeft, HasOffer, HasJoined
<1>3. HasJoined(s) /\ ~HasOffer(s) => JoinedFirst(s)
 <2> SUFFICES ASSUME NEW j \in 1..Len(s), IsNow(s, j), s[j].type = "joined", ~HasOffer(s)
              PROVE  JoinedFirst(s)
   BY DEF HasJoined
 <2>1. \A i \in 1..j : i \in 1..Len(s) BY LenProperties
 <2> QED BY <2>1 DEF JoinedFirst, HasOffer
<1>4. JoinedFirst(s) => HasJoined(s) BY DEF JoinedFirst, HasJoined
<1>5. \A o : SentIn(s, o) => HasOffer(s) /\ Bears(s, o) BY DEF SentIn, HasOffer, Bears
<1>6. \A o : ~Replies(s, o) => ~ReplyBeforeOffer(s, o) BY DEF Replies, ReplyBeforeOffer
<1>7. \A o, x : ~Replies(s, o) => AnswersAre(s, o, x) BY DEF Replies, AnswersAre
<1> QED BY <1>1, <1>2, <1>3, <1>4, <1>5, <1>6, <1>7

------------------------------------------------------------
\* What is known of the two before a step.
PairKnown(u, v) ==
    /\ u \in Caller /\ v \in Caller /\ v # u /\ Other(u) = v /\ Other(v) = u
    /\ place[u] \in {"out", "room", "in"} /\ place[v] \in {"out", "room", "in"}
    /\ place \in [Caller -> {"out", "room", "in"}]
    /\ arriving[u] \in Seq(PeerEvent) /\ arriving[v] \in Seq(PeerEvent)
    /\ Stays(u, v) /\ Stays(v, u)
    /\ ~collided => PairHolds(u, v) /\ PairHolds(v, u)
    /\ peer[u] # NoPeer => place[u] # "out"
    /\ peer[v] # NoPeer => place[v] # "out"
    /\ peer[u] = NoPeer => work[u] = {}
    /\ peer[v] = NoPeer => work[v] = {}
    /\ IsLocal(u) => peer[u].offered # NoSession
    /\ IsLocal(v) => peer[v].offered # NoSession

LEMMA PairsBefore ==
    ASSUME PeerIInv, NEW u \in Caller, NEW v, v = Other(u)
    PROVE  PairKnown(u, v)
<1>1. v \in Caller /\ v # u /\ Other(u) = v /\ Other(v) = u BY OtherCaller
<1>2. /\ place \in [Caller -> {"out", "room", "in"}]
      /\ place[u] \in {"out", "room", "in"} /\ place[v] \in {"out", "room", "in"}
      /\ arriving[u] \in Seq(PeerEvent) /\ arriving[v] \in Seq(PeerEvent)
  BY <1>1 DEF PeerIInv, PeerLocal, VoicePeerTypeOK
<1>3. /\ Stays(u, v) /\ Stays(v, u)
      /\ ~collided => PairHolds(u, v) /\ PairHolds(v, u)
  BY <1>1 DEF PeerIInv, PeerPairs
<1>4. SideHolds(u) /\ SideHolds(v) BY <1>1 DEF PeerIInv, PeerLocal
<1>5. /\ peer[u] # NoPeer => place[u] # "out"
      /\ peer[v] # NoPeer => place[v] # "out"
      /\ peer[u] = NoPeer => work[u] = {}
      /\ peer[v] = NoPeer => work[v] = {}
      /\ IsLocal(u) => peer[u].offered # NoSession
      /\ IsLocal(v) => peer[v].offered # NoSession
  BY <1>4 DEF SideHolds
<1> QED BY <1>1, <1>2, <1>3, <1>5 DEF PairKnown

LEMMA PairsAfter ==
    ASSUME NEW u \in Caller, NEW v, v = Other(u), Stays(u, v)', Stays(v, u)',
           ~collided' => (PairHolds(u, v) /\ PairHolds(v, u))'
    PROVE  PeerPairs'
<1>1. v \in Caller /\ Other(v) = u /\ \A x \in Caller : x = u \/ x = v BY OtherCaller
<1>2. \A x \in Caller : Stays(x, Other(x))' BY <1>1
<1>3. ~collided' => \A x \in Caller : PairHolds(x, Other(x))' BY <1>1
<1> QED BY <1>2, <1>3 DEF PeerPairs

LEMMA NoWork ==
    ASSUME NEW u \in Caller, work[u] = {}
    PROVE  ~WillCall(u) /\ ~HoldsAny(u) /\ ~Registers(u) /\ \A o : ~HoldsOffer(u, o)
    BY DEF WillCall, HoldsAny, Registers, HoldsOffer

LEMMA NoWorkThen ==
    ASSUME NEW u \in Caller, work'[u] = {}
    PROVE  ~HoldsAny(u)' /\ \A o : ~HoldsOffer(u, o)'
    BY DEF HoldsAny, HoldsOffer

\* With one of them out and no connection at the other for which that is not news, nothing is
\* claimed of the pair.
LEMMA OutPairs ==
    ASSUME NEW u \in Caller, NEW v \in Caller, place'[u] = "out", peer'[u] = NoPeer,
           place'[v] = "out" => peer'[v] = NoPeer,
           Stale(arriving[v])' \/ place'[v] = "out",
           ~HasLeft(arriving[v])' => peer'[v] = NoPeer
    PROVE  (Stays(u, v) /\ Stays(v, u) /\ PairHolds(u, v) /\ PairHolds(v, u))'
<1>1. ~IsLive(u)' /\ ~IsLive(v)' /\ ~BothHere(u, v)' /\ ~BothHere(v, u)' BY DEF IsLive, BothHere
<1>2. (Stays(u, v) /\ Stays(v, u))' BY <1>1 DEF Stays
<1>3. (PairHolds(u, v) /\ PairHolds(v, u))'
  BY <1>1 DEF PairHolds, NotForgotten, Awaited, OneAnswered, SessionsMatch, OfferStands, AnewOffers, HeldStands
<1> QED BY <1>2, <1>3

------------------------------------------------------------
LEMMA JoinsRoomPairs ==
    ASSUME PeerIInv, NEW u \in Caller, NEW v, v = Other(u), JoinsRoom(u)
    PROVE  PeerPairs'
<1>1. PairKnown(u, v) BY PairsBefore
<1>2. /\ place'[u] = "room" /\ place'[v] = place[v] /\ place[u] = "out" /\ arriving[u] = <<>>
      /\ peer' = peer /\ work' = work /\ arriving' = arriving /\ collided' = collided
  BY <1>1 DEF JoinsRoom, PairKnown
<1>3. ~HasLeft(arriving[u]) /\ ~HasOffer(arriving[u]) /\ ~HasJoined(arriving[u]) /\ Stale(arriving[u])
  BY <1>1, <1>2, InboxSays DEF PairKnown
<1>4. /\ peer[u] = NoPeer /\ work[u] = {} /\ ~HoldsAny(u)' BY <1>1, <1>2, NoWorkThen DEF PairKnown
<1>5. place[v] # "out" => Stale(arriving[v]) /\ (~HasLeft(arriving[v]) => peer[v] = NoPeer)
  BY <1>1, <1>2 DEF PairKnown, Stays
<1>6. place[v] # "out" => ~HasOffer(arriving[v]) BY <1>1, <1>5, InboxSays DEF PairKnown
<1>7. ~IsLive(u)' /\ ~IsLive(v)' BY <1>1, <1>2, <1>4, <1>5 DEF IsLive, PairKnown
<1>8. Stays(u, v)' /\ Stays(v, u)' BY <1>2, <1>3, <1>4, <1>6 DEF Stays, BothHere, IsBlank
<1>9. ~HasLeft(arriving[v]) /\ place[v] # "out" => ~HoldsAny(v)' BY <1>1, <1>2, <1>5, NoWorkThen DEF PairKnown
<1>10. (PairHolds(u, v) /\ PairHolds(v, u))'
  BY <1>2, <1>3, <1>4, <1>6, <1>7, <1>9
  DEF BothHere, PairHolds, NotForgotten, Awaited, OneAnswered, SessionsMatch, OfferStands, AnewOffers, HeldStands
<1> QED BY <1>8, <1>10, PairsAfter

LEMMA LeavesPairs ==
    ASSUME PeerIInv, NEW u \in Caller, NEW v, v = Other(u), Leaves(u)
    PROVE  PeerPairs'
<1>1. PairKnown(u, v) BY PairsBefore
<1>2. /\ place'[u] = "out" /\ place'[v] = place[v] /\ Closes(u) BY <1>1 DEF Leaves, PairKnown
<1>3. peer'[u] = NoPeer /\ peer'[v] = peer[v] BY <1>2, ClosesFields DEF PeerIInv
<1>4. place[v] # "out" => Stale(arriving'[v]) /\ HasLeft(arriving'[v])
 <2> DEFINE m == Notice("left")
 <2>1. m \in PeerEvent /\ m.type = "left" BY DEF Notice, Signal, PeerEvent
 <2>2. arriving \in [Caller -> Seq(PeerEvent)] BY DEF PeerIInv, PeerLocal, VoicePeerTypeOK
 <2>3. place[v] # "out" => arriving'[v] = Append(arriving[v], m) BY <1>1, <2>2 DEF Leaves, PairKnown
 <2> HIDE DEF m
 <2> QED BY <1>1, <2>1, <2>3, LeaveTold DEF PairKnown, Stale
<1>5. (Stays(u, v) /\ Stays(v, u) /\ PairHolds(u, v) /\ PairHolds(v, u))'
  BY <1>1, <1>2, <1>3, <1>4, OutPairs DEF PairKnown
<1> QED BY <1>5, PairsAfter

\* What is known of the inboxes when u takes an event.
LEMMA TakenShrinks ==
    ASSUME PeerIInv, NEW u \in Caller, NEW v, v = Other(u), arriving[u] # <<>>, arriving' = Taken(u)
    PROVE  /\ Shrunk(arriving[u], arriving'[u], Head(arriving[u])) /\ arriving'[v] = arriving[v]
           /\ arriving'[u] \in Seq(PeerEvent)
    BY TakenFields, InboxShrunk DEF PeerIInv

LEMMA SkippedPairs ==
    ASSUME PeerIInv, NEW u \in Caller, NEW v, v = Other(u), Skipped(u)
    PROVE  PeerPairs'
<1>1. PairKnown(u, v) BY PairsBefore
<1>2. /\ place' = place /\ peer' = peer /\ place[u] = "out" /\ arriving[u] # <<>> /\ arriving' = Taken(u)
  BY DEF Skipped
<1>3. arriving'[v] = arriving[v] BY <1>2, TakenShrinks
<1>4. peer[u] = NoPeer /\ (place[v] # "out" => Stale(arriving[v]) /\ (~HasLeft(arriving[v]) => peer[v] = NoPeer))
  BY <1>1, <1>2 DEF PairKnown, Stays
<1>5. (Stays(u, v) /\ Stays(v, u) /\ PairHolds(u, v) /\ PairHolds(v, u))'
  BY <1>1, <1>2, <1>3, <1>4, OutPairs DEF PairKnown
<1> QED BY <1>5, PairsAfter

------------------------------------------------------------
\* What a step leaves as it is, of a caller's side, of its inbox and of its place: unless it
\* announces u, and then v is told.
SideAlike(x) ==
    /\ peer'[x] = NoPeer <=> peer[x] = NoPeer
    /\ peer[x] # NoPeer => peer'[x].session = peer[x].session
    /\ IsLocal(x)' <=> IsLocal(x)
    /\ IsLocal(x) => peer'[x].offered = peer[x].offered
    /\ WillCall(x) => WillCall(x)'
    /\ HoldsAny(x)' <=> HoldsAny(x)
    /\ \A o : o # NoSession => (HoldsOffer(x, o)' <=> HoldsOffer(x, o))
InboxAlike(x) ==
    /\ HasLeft(arriving'[x]) <=> HasLeft(arriving[x])
    /\ HasOffer(arriving'[x]) => HasOffer(arriving[x])
    /\ ~IsLive(x) => /\ HasJoined(arriving[x]) => HasJoined(arriving'[x])
                     /\ JoinedFirst(arriving[x]) => JoinedFirst(arriving'[x])
    /\ \A o : SentIn(arriving[x], o) => SentIn(arriving'[x], o)
    /\ \A o : ReplyBeforeOffer(arriving'[x], o) => ReplyBeforeOffer(arriving[x], o)
    /\ IsLocal(x) =>
           /\ \A o : Replies(arriving'[x], o) <=> Replies(arriving[x], o)
           /\ \A o, z : AnswersAre(arriving[x], o, z) => AnswersAre(arriving'[x], o, z)
    /\ place[Other(x)] = "out" /\ Stale(arriving[x]) => Stale(arriving'[x])
PlaceAlike(x, y) ==
    \/ place'[x] = place[x]
    \/ /\ place[x] = "room" /\ place'[x] = "in" /\ place[y] # "out" /\ HasJoined(arriving'[y])
       /\ ~HasOffer(arriving[y]) => JoinedFirst(arriving'[y])

LEMMA QuietStays ==
    ASSUME NEW u \in Caller, NEW v \in Caller, u = Other(v), Stays(u, v), PlaceAlike(u, v), PlaceAlike(v, u),
           InboxAlike(u), InboxAlike(v), peer'[u] = NoPeer <=> peer[u] = NoPeer,
           peer'[v] = NoPeer <=> peer[v] = NoPeer
    PROVE  Stays(u, v)'
<1>1. /\ HasLeft(arriving'[u]) <=> HasLeft(arriving[u])
      /\ HasOffer(arriving'[u]) => HasOffer(arriving[u])
      /\ ~IsLive(u) /\ HasJoined(arriving[u]) => HasJoined(arriving'[u])
  BY DEF InboxAlike
<1>2. /\ HasLeft(arriving'[v]) <=> HasLeft(arriving[v])
      /\ HasOffer(arriving'[v]) => HasOffer(arriving[v])
      /\ ~IsLive(v) /\ HasJoined(arriving[v]) => HasJoined(arriving'[v])
      /\ place[u] = "out" /\ Stale(arriving[v]) => Stale(arriving'[v])
  BY DEF InboxAlike
<1>3. /\ place'[u] = "out" <=> place[u] = "out"
      /\ place'[v] = "out" <=> place[v] = "out"
      /\ place'[u] = "in" => place[u] = "in" \/ HasJoined(arriving'[v])
      /\ place'[v] = "in" => place[v] = "in" \/ HasJoined(arriving'[u])
  BY DEF PlaceAlike
<1> QED BY <1>1, <1>2, <1>3 DEF Stays, BothHere, IsBlank, IsLive

LEMMA QuietPair ==
    ASSUME NEW u \in Caller, NEW v \in Caller, PairHolds(u, v), PlaceAlike(u, v), PlaceAlike(v, u),
           InboxAlike(u), InboxAlike(v), SideAlike(u), SideAlike(v),
           IsLocal(u) => peer[u].offered # NoSession, IsLocal(v) => peer[v].offered # NoSession
    PROVE  PairHolds(u, v)'
<1>1. /\ HasLeft(arriving'[u]) <=> HasLeft(arriving[u])
      /\ HasOffer(arriving'[u]) => HasOffer(arriving[u])
      /\ ~IsLive(u) => /\ HasJoined(arriving[u]) => HasJoined(arriving'[u])
                       /\ JoinedFirst(arriving[u]) => JoinedFirst(arriving'[u])
      /\ HasLeft(arriving'[v]) <=> HasLeft(arriving[v])
      /\ HasOffer(arriving'[v]) => HasOffer(arriving[v])
      /\ ~IsLive(v) /\ HasJoined(arriving[v]) => HasJoined(arriving'[v])
  BY DEF InboxAlike
<1>2. /\ place'[u] = "out" <=> place[u] = "out"
      /\ place'[v] = "out" <=> place[v] = "out"
      /\ place[u] = "room" => place'[u] = "room" \/ HasJoined(arriving'[v])
      /\ place[v] = "room" => place'[v] = "room" \/ HasOffer(arriving[u]) \/ JoinedFirst(arriving'[u])
  BY DEF PlaceAlike
<1>3. /\ IsLocal(u)' <=> IsLocal(u)
      /\ IsLocal(v)' <=> IsLocal(v)
      /\ WillCall(u) => WillCall(u)'
      /\ WillCall(v) => WillCall(v)'
      /\ HoldsAny(v)' <=> HoldsAny(v)
      /\ peer'[u] = NoPeer <=> peer[u] = NoPeer
      /\ peer'[v] = NoPeer <=> peer[v] = NoPeer
      /\ peer[u] # NoPeer => peer'[u].session = peer[u].session
      /\ peer[v] # NoPeer => peer'[v].session = peer[v].session
  BY DEF SideAlike
<1>4. /\ IsLive(u)' <=> IsLive(u)
      /\ IsLive(v)' <=> IsLive(v)
      /\ IsBlank(v)' <=> IsBlank(v)
      /\ BothHere(u, v)' <=> BothHere(u, v)
  BY <1>1, <1>2, <1>3 DEF IsLive, IsBlank, BothHere
<1>5. NotForgotten(u, v)' BY <1>1, <1>2, <1>3, <1>4 DEF PairHolds, NotForgotten, IsBlank, IsLive
<1>6. Awaited(u, v)'
 <2> SUFFICES ASSUME IsLive(u)', IsLocal(u)'
              PROVE  (OfferSent(u, v) \/ OfferHeld(u, v) \/ OfferAnswered(u, v))'
   BY DEF Awaited
 <2> DEFINE o == peer[u].offered
 <2>1. IsLive(u) /\ IsLocal(u) /\ o # NoSession /\ peer'[u].offered = o BY <1>3, <1>4 DEF SideAlike
 <2>2. /\ Replies(arriving'[u], o) <=> Replies(arriving[u], o)
       /\ \A z : AnswersAre(arriving[u], o, z) => AnswersAre(arriving'[u], o, z)
       /\ SentIn(arriving[v], o) => SentIn(arriving'[v], o)
       /\ HoldsOffer(v, o)' <=> HoldsOffer(v, o)
  <3>1. \A x : x # NoSession => (HoldsOffer(v, x)' <=> HoldsOffer(v, x)) BY DEF SideAlike
  <3> QED BY <2>1, <3>1 DEF InboxAlike
 <2>3. OfferSent(u, v) \/ OfferHeld(u, v) \/ OfferAnswered(u, v) BY <2>1 DEF PairHolds, Awaited
 <2> HIDE DEF o
 <2>4. OfferSent(u, v) => OfferSent(u, v)' BY <2>1, <2>2 DEF OfferSent, o, HoldsOffer
 <2>5. OfferHeld(u, v) => OfferHeld(u, v)' BY <1>1, <2>1, <2>2 DEF OfferHeld, o, HoldsOffer
 <2>6. OfferAnswered(u, v) => OfferAnswered(u, v)' BY <1>1, <1>3, <2>1, <2>2 DEF OfferAnswered, o
 <2> QED BY <2>3, <2>4, <2>5, <2>6
<1>7. OneAnswered(u, v)' BY <1>3, <1>4 DEF PairHolds, OneAnswered, SideAlike, InboxAlike
<1>8. SessionsMatch(u, v)' BY <1>3, <1>4 DEF PairHolds, SessionsMatch, IsLive
<1>9. JoinComes(u, v) /\ ~IsLive(u) => JoinComes(u, v)' BY <1>1, <1>2 DEF JoinComes
<1>10. Collides(v) => Collides(v)' BY <1>3 DEF Collides, InboxAlike, SideAlike
<1>11. OfferStands(u, v)' BY <1>1, <1>3, <1>4, <1>9, <1>10 DEF PairHolds, OfferStands
<1>12. AnewOffers(u, v)' BY <1>1, <1>3, <1>4 DEF PairHolds, AnewOffers
<1>13. HeldStands(u, v)' BY <1>1, <1>3, <1>4, <1>9 DEF PairHolds, HeldStands
<1> QED BY <1>5, <1>6, <1>7, <1>8, <1>11, <1>12, <1>13 DEF PairHolds

LEMMA QuietPairs ==
    ASSUME NEW u \in Caller, NEW v \in Caller, PairKnown(u, v), PlaceAlike(u, v), PlaceAlike(v, u),
           InboxAlike(u), InboxAlike(v), peer'[u] = NoPeer <=> peer[u] = NoPeer,
           peer'[v] = NoPeer <=> peer[v] = NoPeer,
           ~collided' => ~collided /\ SideAlike(u) /\ SideAlike(v)
    PROVE  PeerPairs'
<1>1. Stays(u, v)' /\ Stays(v, u)' BY QuietStays DEF PairKnown
<1>2. ~collided' => (PairHolds(u, v) /\ PairHolds(v, u))' BY QuietPair DEF PairKnown
<1> QED BY <1>1, <1>2, PairsAfter DEF PairKnown

\* An inbox or a side that did not change.
LEMMA SameAlike ==
    ASSUME NEW x \in Caller
    PROVE  /\ arriving'[x] = arriving[x] => InboxAlike(x)
           /\ peer'[x] = peer[x] /\ work'[x] = work[x] => SideAlike(x)
<1>1. arriving'[x] = arriving[x] => InboxAlike(x) BY DEF InboxAlike
<1>2. peer'[x] = peer[x] /\ work'[x] = work[x] => SideAlike(x)
  BY DEF SideAlike, IsLocal, WillCall, HoldsAny, HoldsOffer
<1> QED BY <1>1, <1>2

LEMMA AnnouncedPairs ==
    ASSUME PeerIInv, NEW u \in Caller, NEW v, v = Other(u), Announced(u)
    PROVE  PeerPairs'
<1>1. PairKnown(u, v) BY PairsBefore
<1>2. /\ place'[u] = "in" /\ place'[v] = place[v] /\ place[u] = "room"
      /\ peer' = peer /\ work' = work /\ collided' = collided
  BY <1>1 DEF Announced, PairKnown
<1> DEFINE m == Notice("joined")
<1>3. m \in PeerEvent /\ m.type = "joined" /\ \A o : ~Answers(m, o) BY DEF Notice, Signal, PeerEvent, Answers
<1>4. /\ arriving'[u] = arriving[u]
      /\ place[v] # "out" => arriving'[v] = Append(arriving[v], m)
      /\ place[v] = "out" => arriving'[v] = arriving[v]
 <2>1. arriving \in [Caller -> Seq(PeerEvent)] BY DEF PeerIInv, PeerLocal, VoicePeerTypeOK
 <2>2. IF place[v] # "out" THEN arriving' = [arriving EXCEPT ![v] = Append(@, m)] ELSE arriving' = arriving
   BY <1>1 DEF Announced, Relay, PairKnown
 <2> HIDE DEF m
 <2> QED BY <1>1, <2>1, <2>2 DEF PairKnown
<1> HIDE DEF m
<1>5. CASE place[v] = "out"
 <2>1. (Stays(v, u) /\ Stays(u, v) /\ PairHolds(v, u) /\ PairHolds(u, v))'
   BY <1>1, <1>2, <1>4, <1>5, OutPairs DEF PairKnown, Stays
 <2> QED BY <1>1, <2>1, PairsAfter
<1>6. CASE place[v] # "out"
 <2>1. Grown(arriving[v], arriving'[v], m) BY <1>1, <1>3, <1>4, <1>6, InboxGrown DEF PairKnown
 <2>2. InboxAlike(v)
  <3>1. place[Other(v)] # "out" BY <1>1, <1>2 DEF PairKnown
  <3> QED BY <1>3, <2>1, <3>1 DEF Grown, InboxAlike
 <2>3. PlaceAlike(u, v) /\ PlaceAlike(v, u) BY <1>2, <1>3, <1>6, <2>1 DEF Grown, PlaceAlike
 <2>4. InboxAlike(u) /\ SideAlike(u) /\ SideAlike(v) BY <1>1, <1>2, <1>4, SameAlike DEF PairKnown
 <2> QED BY <1>1, <1>2, <2>2, <2>3, <2>4, QuietPairs DEF PairKnown
<1> QED BY <1>5, <1>6

------------------------------------------------------------
\* A step of u's own, of which the pair sees nothing.
LEMMA QuietSide ==
    ASSUME PeerIInv, NEW u \in Caller, NEW v, v = Other(u), place' = place, arriving' = arriving,
           peer'[v] = peer[v], work'[v] = work[v], peer'[u] = NoPeer <=> peer[u] = NoPeer,
           ~collided' => ~collided /\ SideAlike(u)
    PROVE  PeerPairs'
<1>1. PairKnown(u, v) BY PairsBefore
<1>2. u \in Caller /\ v \in Caller BY <1>1 DEF PairKnown
<1>3. InboxAlike(u) /\ InboxAlike(v) /\ SideAlike(v) BY <1>2, SameAlike
<1>4. PlaceAlike(u, v) /\ PlaceAlike(v, u) BY DEF PlaceAlike
<1> QED BY <1>1, <1>2, <1>3, <1>4, QuietPairs

\* What the local invariant says of u.
LEMMA OneSide ==
    ASSUME PeerIInv, NEW u \in Caller
    PROVE  /\ SideHolds(u) /\ ScreenSends(u) /\ OffersKnown(u, Other(u))
           /\ ~collided => Orderly(u) /\ OfferCarries(u) /\ ScreenDue(u)
           /\ peer \in [Caller -> Connection \union {NoPeer}] /\ work \in [Caller -> SUBSET PeerTask]
           /\ peer[u] # NoPeer => peer[u] \in Connection
           /\ VoicePeerTypeOK
    BY DEF PeerIInv, PeerLocal, VoicePeerTypeOK

LEMMA RegisterDonePairs ==
    ASSUME PeerIInv, NEW u \in Caller, NEW v, v = Other(u), RegisterDone(u)
    PROVE  PeerPairs'
<1>1. v \in Caller /\ v # u BY OtherCaller
<1>2. PICK w \in work[u] :
        /\ w.op = "register"
        /\ peer' = [peer EXCEPT ![u].sends = viewed[u],
                                ![u].last = IF w.sdp = NoSession THEN "make" ELSE @,
                                ![u].state = IF w.sdp = NoSession THEN @ ELSE "remote"]
        /\ work' = [work EXCEPT ![u] = (@ \ {w}) \union
                        {IF w.sdp = NoSession THEN Await("make", NoSession, viewed[u])
                         ELSE Await("answer", w.sdp, FALSE)}]
        /\ collided' = (collided \/ (/\ w.sdp # NoSession
                                     /\ \/ peer[u].state # "stable"
                                        \/ \E o \in work[u] : o.op = "renego"))
  BY DEF RegisterDone
<1>3. place' = place /\ arriving' = arriving BY DEF RegisterDone
<1>4. SideHolds(u) /\ (~collided => Orderly(u)) BY OneSide
<1>5. peer \in [Caller -> Connection \union {NoPeer}] /\ work \in [Caller -> SUBSET PeerTask] BY OneSide
<1>6. peer[u] # NoPeer /\ peer[u] \in Connection BY <1>4, <1>5 DEF SideHolds
<1> DEFINE d == [peer[u] EXCEPT !.sends = viewed[u],
                                !.last = IF w.sdp = NoSession THEN "make" ELSE @,
                                !.state = IF w.sdp = NoSession THEN @ ELSE "remote"]
           t == IF w.sdp = NoSession THEN Await("make", NoSession, viewed[u])
                ELSE Await("answer", w.sdp, FALSE)
<1>7. peer' = [peer EXCEPT ![u] = d] /\ d # NoPeer
 <2>1. peer' = [peer EXCEPT ![u] = d] BY <1>2
 <2>2. viewed[u] \in BOOLEAN BY OneSide DEF VoicePeerTypeOK
 <2>3. d \in Connection BY <1>6, <2>2 DEF Connection
 <2> QED BY <2>1, <2>3, VoicePeerAssumption
<1>8. /\ d.session = peer[u].session /\ d.offered = peer[u].offered
      /\ w.sdp = NoSession => d.state = peer[u].state /\ d.last = "make"
      /\ w.sdp # NoSession => d.state = "remote"
  BY <1>6 DEF Connection
<1>9. /\ t.sdp = w.sdp
      /\ w.sdp = NoSession => t.op = "make"
  BY DEF Await
<1>10. work'[u] = (work[u] \ {w}) \union {t} /\ work'[v] = work[v]
 <2>1. work' = [work EXCEPT ![u] = (work[u] \ {w}) \union {t}] BY <1>2
 <2> QED BY <1>1, <1>5, <2>1
<1>11. peer'[u] = d /\ peer'[v] = peer[v] BY <1>1, <1>5, <1>7
<1> HIDE DEF d, t
<1>12. ~collided' => ~collided /\ (w.sdp # NoSession => peer[u].state = "stable" /\ work[u] = {w})
  BY <1>2, <1>4 DEF Orderly
<1>13. ASSUME ~collided'
       PROVE  SideAlike(u)
 <2>1. IsLocal(u)' <=> IsLocal(u) BY <1>6, <1>7, <1>8, <1>11, <1>12, <1>13 DEF IsLocal
 <2>2. WillCall(u) => WillCall(u)'
  <3>1. CASE w.sdp = NoSession
   <4>1. t \in work'[u] /\ t.op = "make" /\ peer'[u].last = "make" BY <1>8, <1>9, <1>10, <1>11, <3>1
   <4> QED BY <4>1 DEF WillCall
  <3>2. CASE w.sdp # NoSession BY <1>2, <1>12, <1>13, <3>2 DEF WillCall
  <3> QED BY <3>1, <3>2
 <2>3. HoldsAny(u)' <=> HoldsAny(u) BY <1>9, <1>10 DEF HoldsAny
 <2>4. \A o : HoldsOffer(u, o)' <=> HoldsOffer(u, o) BY <1>9, <1>10 DEF HoldsOffer
 <2> QED BY <1>6, <1>7, <1>8, <1>11, <2>1, <2>2, <2>3, <2>4 DEF SideAlike
<1>14. (peer'[u] = NoPeer <=> peer[u] = NoPeer) /\ (~collided' => ~collided /\ SideAlike(u))
  BY <1>6, <1>7, <1>11, <1>12, <1>13
<1> QED BY <1>3, <1>10, <1>11, <1>14, QuietSide

LEMMA GivesUpPairs ==
    ASSUME PeerIInv, NEW u \in Caller, NEW v, v = Other(u), NEW w, GivesUp(u, w)
    PROVE  PeerPairs'
<1>1. /\ peer[u] # NoPeer /\ work'[u] = work[u] \ {w} /\ work'[v] = work[v] BY GivesUpFields DEF PeerIInv
<1>2. /\ place' = place /\ peer' = peer /\ arriving' = arriving /\ w \in work[u] /\ w.op # "register"
      /\ w.op = "make" /\ peer[u].state = "stable" => peer[u].last # "make"
      /\ w.op = "answer" => peer[u].state # "remote"
      /\ w.op = "renego" =>
             \/ peer[u].state = "stable" /\ peer[u].last # "renego" /\ ~wanted[u]
             \/ peer[u].state # "stable" /\ wanted'[u]
      /\ ~collided' => ~collided /\ (w.op = "make" => peer[u].state = "stable")
  BY DEF GivesUp
<1>3. w.op \in {"make", "renego", "answer"} /\ (w.op # "answer" => w.sdp = NoSession)
 <2>1. w \in PeerTask /\ SideHolds(u) BY <1>2, OneSide
 <2> QED BY <1>2, <2>1 DEF PeerTask, SideHolds
<1>4. ASSUME ~collided'
      PROVE  SideAlike(u)
 <2>1. Orderly(u) BY <1>2, <1>4, OneSide
 <2>2. w.op # "answer" /\ w.sdp = NoSession BY <1>2, <1>3, <2>1 DEF Orderly
 <2>3. WillCall(u) => WillCall(u)' BY <1>1, <1>2, <1>3, <1>4, <2>1, <2>2 DEF WillCall, Orderly
 <2>4. (HoldsAny(u)' <=> HoldsAny(u)) /\ \A o : o # NoSession => (HoldsOffer(u, o)' <=> HoldsOffer(u, o))
   BY <1>1, <2>2 DEF HoldsAny, HoldsOffer
 <2> QED BY <1>2, <2>3, <2>4 DEF SideAlike, IsLocal
<1> QED BY <1>1, <1>2, <1>4, QuietSide

\* A step after which u negotiates again, or goes on with its tasks, its descriptions as they were.
LEMMA ProceedsPairs ==
    ASSUME PeerIInv, NEW u \in Caller, NEW v, v = Other(u), NEW pc, NEW tasks, NEW anew,
           ProceedsTo(u, v, pc, tasks, anew), peer[u] # NoPeer,
           pc.state = peer[u].state, pc.offered = peer[u].offered, pc.session = peer[u].session,
           tasks \subseteq work[u],
           \A w \in work[u] : w \in tasks \/ (w.sdp = NoSession /\ Again(pc, tasks, anew)),
           Again(pc, tasks, anew) \/ pc.last = peer[u].last,
           ~collided' => ~collided,
           place' = place, arriving' = arriving
    PROVE  PeerPairs'
<1> DEFINE a == Await("renego", NoSession, pc.sends)
           yes == Again(pc, tasks, anew)
<1>1. a.sdp = NoSession /\ a.op = "renego" BY DEF Await
<1>2. /\ peer'[u] # NoPeer /\ peer'[v] = peer[v] /\ work'[v] = work[v]
      /\ peer'[u].state = pc.state /\ peer'[u].offered = pc.offered /\ peer'[u].session = pc.session
      /\ yes => peer'[u].last = "renego" /\ work'[u] = tasks \union {a}
      /\ ~yes => peer'[u].last = pc.last /\ work'[u] = tasks
  BY DEF ProceedsTo
<1>3. \A w \in work[u] : w \in tasks \/ (w.sdp = NoSession /\ yes) OBVIOUS
<1>4. yes \/ pc.last = peer[u].last OBVIOUS
<1> HIDE DEF yes, a
<1>5. WillCall(u) => WillCall(u)' BY <1>1, <1>2, <1>3, <1>4 DEF WillCall
<1>6. (HoldsAny(u)' <=> HoldsAny(u)) /\ \A o : o # NoSession => (HoldsOffer(u, o)' <=> HoldsOffer(u, o))
  BY <1>1, <1>2, <1>3 DEF HoldsAny, HoldsOffer
<1>7. SideAlike(u) BY <1>2, <1>5, <1>6 DEF SideAlike, IsLocal
<1> QED BY <1>2, <1>7, QuietSide

LEMMA RenegotiationMadeGoesOnPairs ==
    ASSUME PeerIInv, NEW u \in Caller, NEW v, v = Other(u), NEW w \in work[u], w.op = "renego",
           GoesOn(u, peer[u], work[u] \ {w}, TRUE), peer[u].state = "stable", arriving' = arriving,
           collided' = collided
    PROVE  PeerPairs'
<1> DEFINE tasks == work[u] \ {w}
<1>1. SideHolds(u) /\ PeerLocal BY OneSide DEF PeerIInv
<1>2. peer[u] # NoPeer /\ Proceeds(u, peer[u], tasks, TRUE) /\ place' = place BY DEF GoesOn
<1>3. peer[u] \in Connection /\ tasks \in SUBSET PeerTask BY <1>2, OneSide
<1>4. ProceedsTo(u, v, peer[u], tasks, TRUE) BY <1>1, <1>2, <1>3, ProceedsFields
<1>5. w.sdp = NoSession BY <1>1 DEF SideHolds
<1>6. Again(peer[u], tasks, TRUE) BY <1>1 DEF Again, SideHolds
<1>7. tasks \subseteq work[u] /\ \A x \in work[u] : x \in tasks \/ (x.sdp = NoSession /\ Again(peer[u], tasks, TRUE))
  BY <1>5, <1>6
<1> HIDE DEF tasks
<1> QED BY <1>2, <1>4, <1>6, <1>7, ProceedsPairs

LEMMA ViewerChangesPairs ==
    ASSUME PeerIInv, NEW u \in Caller, NEW v, v = Other(u), ViewerChanges(u)
    PROVE  PeerPairs'
<1>1. place' = place /\ arriving' = arriving /\ collided' = collided BY DEF ViewerChanges
<1>2. CASE peer' = peer /\ work' = work
 <2>1. SideAlike(u) BY <1>2, SameAlike
 <2> QED BY <1>1, <1>2, <2>1, QuietSide
<1>3. CASE ~(peer' = peer /\ work' = work)
 <2> DEFINE pc == [peer[u] EXCEPT !.sends = viewed'[u]]
 <2>1. peer[u] # NoPeer /\ Renegotiates(u, pc, work[u]) BY <1>3 DEF ViewerChanges
 <2>2. PeerLocal /\ SideHolds(u) /\ peer[u] \in Connection /\ work[u] \in SUBSET PeerTask
   BY <2>1, OneSide DEF PeerIInv
 <2>3. viewed'[u] \in BOOLEAN
  <3>1. viewed \in [Caller -> BOOLEAN] /\ viewed' = [viewed EXCEPT ![u] = ~@]
    BY OneSide DEF VoicePeerTypeOK, ViewerChanges
  <3> QED BY <3>1
 <2>4. pc \in Connection BY <2>2, <2>3 DEF Connection
 <2>5. pc.state = peer[u].state /\ pc.offered = peer[u].offered /\ pc.session = peer[u].session /\ pc.last = peer[u].last
   BY <2>2 DEF Connection
 <2> HIDE DEF pc
 <2>6. inFlight[u] <=> \E w \in work[u] : w.op = "renego" BY <2>2 DEF SideHolds
 <2>7. Proceeds(u, pc, work[u], TRUE) BY <2>1, <2>2, <2>4, <2>6, RenegotiatesProceeds
 <2>8. ProceedsTo(u, v, pc, work[u], TRUE) BY <2>2, <2>4, <2>7, ProceedsFields
 <2> QED BY <1>1, <2>1, <2>5, <2>8, ProceedsPairs
<1> QED BY <1>2, <1>3

------------------------------------------------------------
\* What is unchanged of v when u alone takes a step and nothing is sent.
LEMMA OtherSame ==
    ASSUME NEW v \in Caller, peer'[v] = peer[v], work'[v] = work[v]
    PROVE  /\ IsLocal(v)' <=> IsLocal(v)
           /\ WillCall(v)' <=> WillCall(v)
           /\ HoldsAny(v)' <=> HoldsAny(v)
           /\ \A o : HoldsOffer(v, o)' <=> HoldsOffer(v, o)
           /\ arriving'[v] = arriving[v] =>
                  /\ IsLive(v)' <=> IsLive(v)
                  /\ IsBlank(v)' <=> IsBlank(v)
                  /\ Collides(v)' <=> Collides(v)
    BY DEF IsLocal, WillCall, HoldsAny, HoldsOffer, IsLive, IsBlank, Collides

LEMMA UserLeftPairs ==
    ASSUME PeerIInv, NEW u \in Caller, NEW v, v = Other(u), UserLeft(u)
    PROVE  PeerPairs'
<1>1. PairKnown(u, v) BY PairsBefore
<1>2. /\ place' = place /\ arriving[u] # <<>> /\ arriving' = Taken(u) /\ Closes(u) /\ Head(arriving[u]).type = "left"
  BY DEF UserLeft, Head1
<1>3. /\ peer'[u] = NoPeer /\ work'[u] = {} /\ peer'[v] = peer[v] /\ work'[v] = work[v]
      /\ collided' = (collided /\ peer[v] # NoPeer)
  BY <1>2, ClosesFields DEF PeerIInv
<1>4. /\ Shrunk(arriving[u], arriving'[u], Head(arriving[u])) /\ arriving'[v] = arriving[v]
      /\ arriving'[u] \in Seq(PeerEvent)
  BY <1>2, TakenShrinks
<1>5. HasLeft(arriving[u])
 <2>1. 1 \in 1..Len(arriving[u]) /\ Head(arriving[u]) = arriving[u][1] BY <1>2, TakenFields DEF PeerIInv
 <2> QED BY <1>2, <2>1 DEF HasLeft
<1>6. /\ HasJoined(arriving[u]) => HasJoined(arriving'[u])
      /\ HasOffer(arriving'[u]) => HasOffer(arriving[u])
      /\ JoinedFirst(arriving[u]) => JoinedFirst(arriving'[u])
      /\ \A o : SentIn(arriving[u], o) => SentIn(arriving'[u], o)
      /\ Stale(arriving[u]) => Stale(arriving'[u])
  BY <1>2, <1>4, <1>5 DEF Shrunk
<1>7. CASE place[u] = "out"
 <2>1. (Stays(u, v) /\ Stays(v, u) /\ PairHolds(u, v) /\ PairHolds(v, u))'
   BY <1>1, <1>2, <1>3, <1>4, <1>7, OutPairs DEF PairKnown, Stays
 <2> QED BY <1>1, <2>1, PairsAfter
<1>8. CASE place[u] # "out" /\ place[v] = "out"
 <2>1. (Stays(v, u) /\ Stays(u, v) /\ PairHolds(v, u) /\ PairHolds(u, v))'
   BY <1>1, <1>2, <1>3, <1>6, <1>8, OutPairs DEF PairKnown, Stays
 <2> QED BY <1>1, <2>1, PairsAfter
<1>9. CASE place[u] # "out" /\ place[v] # "out"
 <2>1. ~HasLeft(arriving[v]) /\ (place[v] = "in" => HasJoined(arriving[u]))
   BY <1>1, <1>5, <1>9 DEF PairKnown, Stays, BothHere
 <2>2. peer[v] = NoPeer => ~HasOffer(arriving[u]) BY <1>1, <1>5, <1>9 DEF PairKnown, Stays, BothHere
 <2>3. Stays(u, v)' /\ Stays(v, u)' BY <1>2, <1>3, <1>4, <1>6, <1>9, <2>1, <2>2 DEF Stays, BothHere, IsBlank
 <2>4. ~IsLive(u) /\ ~IsLive(u)' /\ ~HoldsAny(u)' /\ \A o : ~HoldsOffer(u, o)'
   BY <1>1, <1>3, <1>5, NoWorkThen DEF IsLive, PairKnown
 <2>5. /\ IsLocal(v)' <=> IsLocal(v)
       /\ WillCall(v)' <=> WillCall(v)
       /\ HoldsAny(v)' <=> HoldsAny(v)
       /\ IsLive(v)' <=> IsLive(v)
       /\ Collides(v)' <=> Collides(v)
   BY <1>1, <1>3, <1>4, OtherSame DEF PairKnown
 <2>6. (NotForgotten(u, v) /\ Awaited(u, v) /\ OneAnswered(u, v) /\ SessionsMatch(u, v)
        /\ OneAnswered(v, u) /\ SessionsMatch(v, u) /\ HeldStands(v, u))'
   BY <2>4 DEF NotForgotten, Awaited, OneAnswered, SessionsMatch, HeldStands
 <2>7. AnewOffers(u, v)' BY <1>4, <2>1 DEF AnewOffers
 <2>8. CASE peer[v] = NoPeer
  <3>1. ~HasOffer(arriving'[u]) /\ ~IsLive(v)' BY <1>3, <1>6, <2>2, <2>8 DEF IsLive
  <3>2. JoinComes(u, v)'
   <4>1. place'[v] = "room" \/ HasJoined(arriving'[u]) BY <1>1, <1>2, <1>6, <1>9, <2>1 DEF PairKnown
   <4> QED BY <1>4, <3>1, <4>1, InboxSays DEF JoinComes
  <3>3. ~HoldsAny(v)' BY <1>1, <1>3, <2>8, NoWorkThen DEF PairKnown
  <3>4. (OfferStands(u, v) /\ HeldStands(u, v))' BY <1>4, <2>1, <2>4, <3>2, <3>3 DEF OfferStands, HeldStands
  <3>5. (NotForgotten(v, u) /\ Awaited(v, u) /\ OfferStands(v, u) /\ AnewOffers(v, u))'
    BY <3>1 DEF NotForgotten, Awaited, OfferStands, AnewOffers
  <3>6. (PairHolds(u, v) /\ PairHolds(v, u))' BY <2>6, <2>7, <3>4, <3>5 DEF PairHolds
  <3> QED BY <2>3, <3>6, PairsAfter
 <2>9. ASSUME peer[v] # NoPeer, ~collided'
       PROVE  (PairHolds(u, v) /\ PairHolds(v, u))'
  <3>1. PairHolds(u, v) /\ PairHolds(v, u) BY <1>1, <1>3, <2>9 DEF PairKnown
  <3>2. JoinComes(u, v) => JoinComes(u, v)' BY <1>2, <1>6 DEF JoinComes
  <3>3. BothHere(u, v) /\ BothHere(v, u) /\ IsLive(v) BY <1>9, <2>1, <2>9 DEF BothHere, IsLive
  <3>4. OfferStands(u, v)' BY <1>4, <2>1, <2>4, <2>5, <3>1, <3>2, <3>3 DEF PairHolds, OfferStands
  <3>5. HeldStands(u, v)' BY <1>4, <2>1, <2>4, <2>5, <3>1, <3>2, <3>3 DEF PairHolds, HeldStands
  <3>6. NotForgotten(v, u)' BY <1>1, <1>2, <1>6, <1>9, <2>1 DEF PairKnown, NotForgotten
  <3>7. Awaited(v, u)'
   <4> SUFFICES ASSUME IsLocal(v) PROVE OfferSent(v, u)' BY <2>5 DEF Awaited
   <4>1. OfferSent(v, u) BY <1>5, <3>1, <3>3 DEF PairHolds, Awaited, OfferHeld, OfferAnswered
   <4> QED BY <1>3, <1>4, <1>6, <2>4, <4>1 DEF OfferSent
  <3>8. OfferStands(v, u)' /\ AnewOffers(v, u)'
   <4>1. HasOffer(arriving'[u]) => IsLive(v) /\ IsLocal(v) BY <1>5, <1>6, <3>1, <3>3 DEF PairHolds, AnewOffers
   <4> QED BY <2>5, <4>1 DEF OfferStands, AnewOffers
  <3> QED BY <2>6, <2>7, <3>4, <3>5, <3>6, <3>7, <3>8 DEF PairHolds
 <2> QED BY <2>3, <2>8, <2>9, PairsAfter
<1> QED BY <1>7, <1>8, <1>9

------------------------------------------------------------
\* u takes an event that is not the other's leave: what is claimed with the other out, and of the
\* stay of the two.
LEMMA TakesOut ==
    ASSUME PeerIInv, NEW u \in Caller, NEW v, v = Other(u), place[v] = "out", place' = place,
           arriving[u] # <<>>, arriving' = Taken(u), Head(arriving[u]).type # "left", place[u] # "out",
           peer'[v] = peer[v]
    PROVE  PeerPairs'
<1>1. PairKnown(u, v) /\ Shrunk(arriving[u], arriving'[u], Head(arriving[u])) BY PairsBefore, TakenShrinks
<1>2. Stale(arriving'[u]) /\ HasLeft(arriving'[u]) BY <1>1 DEF PairKnown, Stays, Shrunk
<1>3. (Stays(v, u) /\ Stays(u, v) /\ PairHolds(v, u) /\ PairHolds(u, v))' BY <1>1, <1>2, OutPairs DEF PairKnown
<1> QED BY <1>1, <1>3, PairsAfter DEF PairKnown

LEMMA TakesStays ==
    ASSUME PeerIInv, NEW u \in Caller, NEW v, v = Other(u), place[v] # "out", place' = place,
           arriving[u] # <<>>, arriving' = Taken(u), Head(arriving[u]).type # "left", place[u] # "out",
           peer'[v] = peer[v], peer[u] # NoPeer => peer'[u] # NoPeer,
           Head(arriving[u]).type = "joined" => peer'[u] # NoPeer
    PROVE  Stays(u, v)' /\ Stays(v, u)'
<1>1. PairKnown(u, v) /\ Shrunk(arriving[u], arriving'[u], Head(arriving[u])) /\ arriving'[v] = arriving[v]
  BY PairsBefore, TakenShrinks
<1>2. /\ HasLeft(arriving'[u]) <=> HasLeft(arriving[u])
      /\ HasOffer(arriving'[u]) => HasOffer(arriving[u])
      /\ HasJoined(arriving[u]) /\ HasLeft(arriving[u]) => HasJoined(arriving'[u])
      /\ HasJoined(arriving[u]) /\ peer'[u] = NoPeer => HasJoined(arriving'[u])
  BY <1>1 DEF Shrunk
<1>3. Stays(u, v) /\ Stays(v, u) BY <1>1 DEF PairKnown
<1> QED BY <1>1, <1>2, <1>3 DEF Stays, BothHere, IsBlank

LEMMA UserJoinedPairs ==
    ASSUME PeerIInv, NEW u \in Caller, NEW v, v = Other(u), UserJoined(u)
    PROVE  PeerPairs'
<1>1. PairKnown(u, v) BY PairsBefore
<1>2. /\ place' = place /\ arriving[u] # <<>> /\ arriving' = Taken(u) /\ Head(arriving[u]).type = "joined"
      /\ place[u] # "out" /\ collided' = collided
      /\ peer[u] = NoPeer => Opens(u, NoSession)
      /\ peer[u] # NoPeer => peer' = peer /\ work' = work
  BY DEF UserJoined, Head1
<1>3. /\ peer'[u] # NoPeer /\ peer'[v] = peer[v] /\ work'[v] = work[v]
      /\ peer[u] = NoPeer => peer'[u].state = "stable" /\ work'[u] = {Await("register", NoSession, FALSE)}
 <2>1. CASE peer[u] = NoPeer BY <1>2, <2>1, OpensFields DEF PeerIInv
 <2> QED BY <1>2, <2>1
<1>4. Shrunk(arriving[u], arriving'[u], Head(arriving[u])) /\ arriving'[v] = arriving[v] BY <1>2, TakenShrinks
<1>5. /\ HasLeft(arriving'[u]) <=> HasLeft(arriving[u])
      /\ HasOffer(arriving'[u]) => HasOffer(arriving[u])
      /\ HasLeft(arriving[u]) /\ HasJoined(arriving[u]) => HasJoined(arriving'[u])
      /\ HasLeft(arriving[u]) /\ JoinedFirst(arriving[u]) => JoinedFirst(arriving'[u])
      /\ \A o : SentIn(arriving[u], o) => SentIn(arriving'[u], o)
      /\ \A o : ReplyBeforeOffer(arriving'[u], o) => ReplyBeforeOffer(arriving[u], o)
      /\ \A o : Replies(arriving'[u], o) <=> Replies(arriving[u], o)
      /\ \A o, x : AnswersAre(arriving[u], o, x) => AnswersAre(arriving'[u], o, x)
      /\ Stale(arriving[u]) => Stale(arriving'[u])
  BY <1>2, <1>4 DEF Shrunk, Answers
<1>6. CASE place[v] = "out" BY <1>2, <1>3, <1>6, TakesOut
<1>7. CASE place[v] # "out" /\ peer[u] # NoPeer
 <2>1. InboxAlike(u) BY <1>5, <1>7 DEF InboxAlike, IsLive
 <2>2. InboxAlike(v) /\ SideAlike(u) /\ SideAlike(v) BY <1>1, <1>2, <1>3, <1>4, <1>7, SameAlike DEF PairKnown
 <2>3. PlaceAlike(u, v) /\ PlaceAlike(v, u) BY <1>2 DEF PlaceAlike
 <2> QED BY <1>1, <1>2, <1>7, <2>1, <2>2, <2>3, QuietPairs DEF PairKnown
<1>8. CASE place[v] # "out" /\ peer[u] = NoPeer
 <2>1. Stays(u, v)' /\ Stays(v, u)' BY <1>2, <1>3, <1>8, TakesStays
 <2>2. ASSUME ~collided'
       PROVE  (PairHolds(u, v) /\ PairHolds(v, u))'
  <3> DEFINE t == Await("register", NoSession, FALSE)
  <3>1. t.op = "register" /\ t.sdp = NoSession BY DEF Await
  <3>2. work'[u] = {t} /\ peer'[u] # NoPeer /\ peer'[u].state = "stable" BY <1>3, <1>8
  <3> HIDE DEF t
  <3>3. /\ WillCall(u)' /\ ~IsLocal(u)' /\ ~HoldsAny(u)' /\ ~IsBlank(u)'
        /\ \A o : o # NoSession => ~HoldsOffer(u, o)'
    BY <3>1, <3>2 DEF WillCall, IsLocal, HoldsAny, HoldsOffer, IsBlank
  <3>4. PairHolds(u, v) /\ PairHolds(v, u) BY <1>1, <1>2, <2>2 DEF PairKnown
  <3>5. /\ IsLocal(v)' <=> IsLocal(v)
        /\ WillCall(v)' <=> WillCall(v)
        /\ HoldsAny(v)' <=> HoldsAny(v)
        /\ IsLive(v)' <=> IsLive(v)
        /\ Collides(v)' <=> Collides(v)
    BY <1>1, <1>3, <1>4, OtherSame DEF PairKnown
  <3>6. ~IsLive(u) /\ (IsLive(u)' <=> ~HasLeft(arriving[u])) /\ BothHere(u, v) /\ BothHere(v, u)
    BY <1>2, <1>5, <1>8, <3>2 DEF IsLive, BothHere
  <3>7. (NotForgotten(u, v) /\ Awaited(u, v) /\ OneAnswered(u, v) /\ SessionsMatch(u, v)
         /\ OneAnswered(v, u) /\ SessionsMatch(v, u) /\ HeldStands(v, u) /\ NotForgotten(v, u))'
    BY <3>3 DEF NotForgotten, Awaited, OneAnswered, SessionsMatch, HeldStands
  <3>8. HasLeft(arriving[u]) /\ JoinComes(u, v) => JoinComes(u, v)' BY <1>2, <1>5 DEF JoinComes
  <3>9. OfferStands(u, v)' BY <1>4, <3>3, <3>4, <3>5, <3>6, <3>8 DEF PairHolds, OfferStands
  <3>10. HeldStands(u, v)' BY <1>4, <3>3, <3>4, <3>5, <3>6, <3>8 DEF PairHolds, HeldStands
  <3>11. AnewOffers(u, v)' BY <1>4, <3>4, <3>6 DEF PairHolds, AnewOffers
  <3>12. Awaited(v, u)'
   <4> SUFFICES ASSUME IsLive(v), IsLocal(v) PROVE OfferSent(v, u)' BY <3>5 DEF Awaited
   <4>1. ~HoldsOffer(u, peer[v].offered) BY <1>1, <1>8, NoWork DEF PairKnown
   <4>2. OfferSent(v, u) BY <1>8, <3>4, <4>1 DEF PairHolds, Awaited, OfferHeld, OfferAnswered
   <4>3. peer[v].offered # NoSession BY <1>1 DEF PairKnown
   <4> QED BY <1>3, <1>4, <1>5, <3>3, <4>2, <4>3 DEF OfferSent
  <3>13. ~Collides(u) BY <1>8 DEF Collides
  <3>14. JoinComes(v, u)' <=> JoinComes(v, u) BY <1>2, <1>4 DEF JoinComes
  <3>15. OfferStands(v, u)' BY <1>5, <3>4, <3>5, <3>6, <3>13, <3>14 DEF PairHolds, OfferStands
  <3>16. AnewOffers(v, u)' BY <1>5, <3>4, <3>5, <3>6 DEF PairHolds, AnewOffers
  <3> QED BY <3>7, <3>9, <3>10, <3>11, <3>12, <3>15, <3>16 DEF PairHolds
 <2> QED BY <2>1, <2>2, PairsAfter
<1> QED BY <1>6, <1>7, <1>8

LEMMA OfferTaken ==
    ASSUME PeerIInv, NEW u \in Caller, NEW v, v = Other(u), ~collided, place[u] # "out", place[v] # "out",
           place' = place, arriving[u] # <<>>, arriving' = Taken(u), Head(arriving[u]).type = "offer",
           work[u] = {}, ~IsLocal(u), ~IsLocal(u)', peer'[u] # NoPeer,
           peer[u] # NoPeer => peer'[u].session = peer[u].session,
           \E t : work'[u] = {t} /\ t.sdp = Head(arriving[u]).sdp /\ t.sdp # NoSession,
           peer'[v] = peer[v], work'[v] = work[v]
    PROVE  (PairHolds(u, v) /\ PairHolds(v, u))'
<1> DEFINE m == Head(arriving[u])
<1>1. PairKnown(u, v) BY PairsBefore
<1>2. Shrunk(arriving[u], arriving'[u], m) /\ arriving'[v] = arriving[v] BY TakenShrinks
<1>3. m.type = "offer" OBVIOUS
<1>4. PICK t : work'[u] = {t} /\ t.sdp = m.sdp /\ t.sdp # NoSession OBVIOUS
<1> HIDE DEF m
<1>5. /\ HasLeft(arriving'[u]) <=> HasLeft(arriving[u])
      /\ HasOffer(arriving'[u]) => HasOffer(arriving[u])
      /\ HasLeft(arriving[u]) /\ JoinedFirst(arriving[u]) => JoinedFirst(arriving'[u])
      /\ ~HasLeft(arriving[u]) => HasOffer(arriving[u]) /\ ~JoinedFirst(arriving[u])
  BY <1>2, <1>3 DEF Shrunk
<1>6. PairHolds(u, v) /\ PairHolds(v, u) BY <1>1 DEF PairKnown
<1>7. /\ IsLocal(v)' <=> IsLocal(v)
      /\ WillCall(v)' <=> WillCall(v)
      /\ HoldsAny(v)' <=> HoldsAny(v)
      /\ IsLive(v)' <=> IsLive(v)
      /\ IsBlank(v)' <=> IsBlank(v)
      /\ Collides(v)' <=> Collides(v)
  BY <1>1, <1>2, OtherSame DEF PairKnown
<1>8. /\ ~WillCall(u) /\ ~HoldsAny(u) /\ \A o : ~HoldsOffer(u, o) BY NoWork
<1>9. /\ ~Collides(u) /\ ~IsBlank(u)' /\ (IsLive(u)' <=> ~HasLeft(arriving[u]))
      /\ \A o : HoldsOffer(u, o)' <=> o = m.sdp
  BY <1>4, <1>5, <1>8 DEF Collides, IsBlank, IsLive, HoldsOffer, IsLocal
<1>10. BothHere(u, v) /\ BothHere(v, u) /\ BothHere(u, v)' /\ BothHere(v, u)' BY DEF BothHere
<1>11. /\ JoinComes(u, v) => HasLeft(arriving[u]) /\ JoinComes(u, v)'
       /\ JoinComes(v, u)' <=> JoinComes(v, u)
  BY <1>2, <1>5 DEF JoinComes
\* The offer is of now, unless u has to hear of a leave first: it is of a connection that still calls.
<1>12. ~HasLeft(arriving[u]) =>
           \/ IsLive(v) /\ (WillCall(v) \/ IsLocal(v))
           \/ ~IsLive(v) /\ JoinComes(v, u)
  BY <1>5, <1>6, <1>9, <1>10 DEF PairHolds, OfferStands
<1>13. NotForgotten(u, v)'
 <2> SUFFICES ASSUME IsLive(u)', IsBlank(v)
              PROVE  HasJoined(arriving[v]) \/ place[u] = "room"
   BY <1>2, <1>7 DEF NotForgotten
 <2>1. JoinComes(v, u) BY <1>9, <1>12 DEF IsLive, IsBlank
 <2> QED BY <1>1, <2>1, InboxSays DEF JoinComes, PairKnown
<1>14. (Awaited(u, v) /\ OneAnswered(u, v) /\ OneAnswered(v, u) /\ NotForgotten(v, u))'
  BY <1>9 DEF Awaited, OneAnswered, NotForgotten
<1>15. (SessionsMatch(u, v) /\ SessionsMatch(v, u))' BY <1>7, <1>9, <1>12 DEF SessionsMatch
<1>16. OfferStands(u, v)' BY <1>2, <1>6, <1>7, <1>8, <1>9, <1>10, <1>11 DEF PairHolds, OfferStands
<1>17. AnewOffers(u, v)' BY <1>2, <1>6, <1>8, <1>10 DEF PairHolds, AnewOffers
<1>18. HeldStands(u, v)' BY <1>2, <1>6, <1>7, <1>8, <1>9, <1>10, <1>11 DEF PairHolds, HeldStands
<1>19. Awaited(v, u)'
 <2> SUFFICES ASSUME IsLive(v), IsLocal(v) PROVE (OfferSent(v, u) \/ OfferHeld(v, u))' BY <1>7 DEF Awaited
 <2>1. OfferSent(v, u) BY <1>5, <1>6, <1>8 DEF PairHolds, Awaited, OfferHeld, OfferAnswered
 <2>5. PICK o : o = peer[v].offered OBVIOUS
 <2>2. SentIn(arriving[u], o) /\ ~Replies(arriving'[v], o) /\ peer'[v].offered = o
   BY <1>2, <2>1, <2>5 DEF OfferSent
 <2>3. CASE m.sdp = o
  <3>1. ~HasOffer(arriving'[u]) /\ ~HasLeft(arriving'[u]) BY <1>2, <1>3, <1>5, <2>2, <2>3 DEF Shrunk
  <3>2. HoldsOffer(u, o)' BY <1>9, <2>3
  <3> QED BY <2>2, <3>1, <3>2 DEF OfferHeld, HoldsOffer
 <2>4. CASE m.sdp # o
  <3>1. SentIn(arriving'[u], o) BY <1>2, <2>2, <2>4 DEF Shrunk
  <3>2. ~HoldsOffer(u, o)' BY <1>9, <2>4
  <3> QED BY <2>2, <3>1, <3>2 DEF OfferSent, HoldsOffer
 <2> QED BY <2>3, <2>4
<1>20. OfferStands(v, u)' BY <1>5, <1>6, <1>7, <1>9, <1>10, <1>11 DEF PairHolds, OfferStands
<1>21. AnewOffers(v, u)' BY <1>5, <1>6, <1>7, <1>10 DEF PairHolds, AnewOffers
<1>22. HeldStands(v, u)' BY <1>5, <1>7, <1>11, <1>12 DEF HeldStands
<1> QED BY <1>13, <1>14, <1>15, <1>16, <1>17, <1>18, <1>19, <1>20, <1>21, <1>22 DEF PairHolds

LEMMA OfferReceivedPairs ==
    ASSUME PeerIInv, NEW u \in Caller, NEW v, v = Other(u), OfferReceived(u)
    PROVE  PeerPairs'
<1> DEFINE m == Head(arriving[u])
           a == Await("answer", m.sdp, FALSE)
           g == Await("register", m.sdp, FALSE)
<1>1. PairKnown(u, v) /\ PeerLocal BY PairsBefore DEF PeerIInv
<1>2. /\ place' = place /\ arriving[u] # <<>> /\ arriving' = Taken(u) /\ m.type = "offer" /\ place[u] # "out"
      /\ peer[u] = NoPeer => Opens(u, m.sdp) /\ collided' = collided
      /\ peer[u] # NoPeer => /\ peer' = [peer EXCEPT ![u].state = "remote"]
                             /\ work' = [work EXCEPT ![u] = @ \union {a}]
                             /\ collided' = (collided \/ peer[u].state # "stable" \/ work[u] # {})
  BY DEF OfferReceived, Head1
<1>3. m.sdp \in Offer /\ m.sdp # NoSession /\ a.sdp = m.sdp /\ g.sdp = m.sdp
 <2>1. m.sdp \in Offer BY <1>1, <1>2, HeadKnown
 <2>2. a.sdp = m.sdp /\ g.sdp = m.sdp BY DEF Await
 <2> QED BY <2>1, <2>2, VoicePeerAssumption
<1> HIDE DEF a
<1>4. peer[u] = NoPeer =>
          /\ peer'[u] # NoPeer /\ peer'[v] = peer[v] /\ work'[v] = work[v]
          /\ peer'[u].state = "stable" /\ work'[u] = {g}
 <2>1. peer[u] = NoPeer => Opens(u, m.sdp) /\ m.sdp \in Offer \union {NoSession} BY <1>2, <1>3
 <2> HIDE DEF m
 <2>2. Opens(u, m.sdp) /\ m.sdp \in Offer \union {NoSession} =>
           /\ peer'[u] # NoPeer /\ peer'[v] = peer[v] /\ work'[v] = work[v]
           /\ peer'[u].state = "stable" /\ work'[u] = {g}
   BY <1>1, OpensFields
 <2> QED BY <2>1, <2>2
<1>5. peer[u] # NoPeer =>
          /\ peer'[u] # NoPeer /\ peer'[v] = peer[v] /\ work'[v] = work[v] /\ peer'[u].state = "remote"
          /\ work'[u] = work[u] \union {a} /\ peer'[u].session = peer[u].session
 <2> SUFFICES ASSUME peer[u] # NoPeer
              PROVE  /\ peer'[u] # NoPeer /\ peer'[v] = peer[v] /\ work'[v] = work[v] /\ peer'[u].state = "remote"
                     /\ work'[u] = work[u] \union {a} /\ peer'[u].session = peer[u].session
   OBVIOUS
 <2> DEFINE d == [peer[u] EXCEPT !.state = "remote"]
 <2>1. /\ peer \in [Caller -> Connection \union {NoPeer}] /\ work \in [Caller -> SUBSET PeerTask]
       /\ peer[u] \in Connection /\ v # u /\ v \in Caller
   BY <1>1, OneSide DEF PairKnown
 <2>2. d \in Connection /\ d.state = "remote" /\ d.session = peer[u].session BY <2>1 DEF Connection
 <2>3. peer' = [peer EXCEPT ![u] = d] /\ work' = [work EXCEPT ![u] = work[u] \union {a}] BY <1>2
 <2> HIDE DEF d
 <2>4. peer'[u] = d /\ peer'[v] = peer[v] /\ work'[v] = work[v] /\ work'[u] = work[u] \union {a} BY <2>1, <2>3
 <2> QED BY <2>2, <2>4, VoicePeerAssumption
<1> HIDE DEF m, g
<1>6. peer'[u] # NoPeer /\ peer'[v] = peer[v] /\ work'[v] = work[v] /\ ~IsLocal(u)' BY <1>4, <1>5 DEF IsLocal
<1>7. CASE place[v] = "out" BY <1>2, <1>6, <1>7, TakesOut DEF m
<1>8. CASE place[v] # "out"
 <2>1. Stays(u, v)' /\ Stays(v, u)' BY <1>2, <1>6, <1>8, TakesStays DEF m
 <2>2. ASSUME ~collided'
       PROVE  (PairHolds(u, v) /\ PairHolds(v, u))'
  <3>1. ~collided /\ work[u] = {} /\ ~IsLocal(u)
   <4>1. peer[u] = NoPeer => work[u] = {} BY <1>1 DEF PairKnown
   <4>2. CASE peer[u] = NoPeer BY <1>2, <2>2, <4>1, <4>2 DEF IsLocal
   <4>3. CASE peer[u] # NoPeer BY <1>2, <2>2, <4>3 DEF IsLocal
   <4> QED BY <4>2, <4>3
  <3>2. \E t : work'[u] = {t} /\ t.sdp = m.sdp /\ t.sdp # NoSession
   <4>1. CASE peer[u] = NoPeer BY <1>3, <1>4, <4>1 DEF g
   <4>2. CASE peer[u] # NoPeer BY <1>3, <1>5, <3>1, <4>2
   <4> QED BY <4>1, <4>2
  <3> QED BY <1>2, <1>5, <1>6, <1>8, <3>1, <3>2, OfferTaken DEF m
 <2> QED BY <2>1, <2>2, PairsAfter
<1> QED BY <1>7, <1>8

------------------------------------------------------------
\* An offer in the making is of nobody's inbox or hands, nor is an answer to it.
LEMMA OfferIsFresh ==
    ASSUME PeerIInv, NEW u \in Caller, NEW v, v = Other(u), NEW o,
           peer[u] # NoPeer, o.pc = peer[u].id, o.rev = peer[u].rev + 1, o # NoSession
    PROVE  ~Bears(arriving[v], o) /\ ~Replies(arriving[u], o) /\ ~HoldsOffer(v, o)
<1>1. OffersKnown(u, v) BY OneSide
<1>2. peer[u].rev \in Nat BY OneSide DEF Connection
<1>3. ~Older(u, o) BY <1>2 DEF Older
<1>4. ~Bears(arriving[v], o) BY <1>1, <1>3 DEF Bears, OffersKnown
<1>5. ~Replies(arriving[u], o) BY <1>1, <1>3 DEF Replies, Answers, OffersKnown
<1>6. ~HoldsOffer(v, o) BY <1>1, <1>3 DEF HoldsOffer, OffersKnown
<1> QED BY <1>4, <1>5, <1>6

LEMMA SendsPairs ==
    ASSUME PeerIInv, NEW u \in Caller, NEW v, v = Other(u), NEW w, Sends(u, w)
    PROVE  PeerPairs'
<1>1. PairKnown(u, v) /\ PeerLocal BY PairsBefore DEF PeerIInv
<1>2. /\ place' = place /\ w \in work[u] /\ w.op \in {"make", "renego"} /\ peer[u].last = w.op
      /\ SendsOffer(u, w.screen, arriving) /\ collided' = (collided \/ peer[u].state # "stable")
  BY DEF Sends
<1>3. peer[u] # NoPeer /\ w.screen \in BOOLEAN /\ work'[u] = work[u] \ {w} /\ work'[v] = work[v]
  BY <1>1, SendsTaskFields
<1>4. PICK o : o = NextOffer(u, w.screen) OBVIOUS
<1>5. PICK m : m = Signal("offer", o) OBVIOUS
<1>6. /\ o # NoSession /\ o.pc = peer[u].id /\ o.rev = peer[u].rev + 1
      /\ peer'[u] # NoPeer /\ peer'[v] = peer[v] /\ peer'[u].state = "local" /\ peer'[u].offered = o
      /\ peer'[u].session = peer[u].session /\ arriving'[u] = arriving[u]
      /\ m \in PeerEvent /\ m.type = "offer" /\ m.sdp = o
  BY <1>1, <1>2, <1>3, <1>4, <1>5, SendsFields
<1>7. arriving'[v] = IF place[u] # "out" /\ place[v] # "out" THEN Append(arriving[v], m) ELSE arriving[v]
  BY <1>1, <1>2, <1>3, <1>4, <1>5, SendsFields
<1>8. SideHolds(u) /\ (~collided => Orderly(u)) /\ place[u] # "out" BY <1>1, <1>3, OneSide DEF PairKnown
<1>9. w.sdp = NoSession BY <1>2, <1>8 DEF SideHolds
<1>10. CASE place[v] = "out"
 <2>1. Stale(arriving[u]) /\ HasLeft(arriving[u]) BY <1>1, <1>3, <1>8, <1>10 DEF PairKnown, Stays
 <2>2. (Stays(v, u) /\ Stays(u, v) /\ PairHolds(v, u) /\ PairHolds(u, v))'
   BY <1>1, <1>2, <1>6, <1>8, <1>10, <2>1, OutPairs DEF PairKnown
 <2> QED BY <2>2, PairsAfter
<1>11. CASE place[v] # "out"
 <2>1. Grown(arriving[v], arriving'[v], m) BY <1>1, <1>6, <1>7, <1>8, <1>11, InboxGrown DEF PairKnown
 <2>2. /\ HasLeft(arriving'[v]) <=> HasLeft(arriving[v])
       /\ HasJoined(arriving'[v]) <=> HasJoined(arriving[v])
       /\ JoinedFirst(arriving[v]) => JoinedFirst(arriving'[v])
       /\ \A x : Replies(arriving'[v], x) <=> Replies(arriving[v], x)
       /\ \A x, z : AnswersAre(arriving[v], x, z) => AnswersAre(arriving'[v], x, z)
       /\ \A x : ReplyBeforeOffer(arriving'[v], x) => Replies(arriving[v], x)
       /\ ~Bears(arriving[v], o) => SentIn(arriving'[v], o)
  <3>1. \A x : ~Replies(arriving[v], x) => ~ReplyBeforeOffer(arriving[v], x) BY <1>1, InboxSays DEF PairKnown
  <3> QED BY <1>6, <2>1, <3>1 DEF Grown, Answers
 <2>3. /\ IsLocal(v)' <=> IsLocal(v)
       /\ WillCall(v)' <=> WillCall(v)
       /\ HoldsAny(v)' <=> HoldsAny(v)
       /\ \A x : HoldsOffer(v, x)' <=> HoldsOffer(v, x)
   BY <1>1, <1>3, <1>6, OtherSame DEF PairKnown
 <2>4. /\ IsLive(v)' <=> IsLive(v)
       /\ BothHere(u, v) /\ BothHere(v, u)
   BY <1>6, <1>8, <1>11, <2>2 DEF IsLive, BothHere
 <2>5. /\ IsLocal(u)' /\ ~IsBlank(u)'
       /\ IsLive(u)' <=> IsLive(u)
       /\ IsLive(u) <=> ~HasLeft(arriving[u])
   BY <1>3, <1>6 DEF IsLocal, IsLive, IsBlank
 <2>6. ~Bears(arriving[v], o) /\ ~Replies(arriving[u], o) /\ ~HoldsOffer(v, o) BY <1>3, <1>6, OfferIsFresh
 <2>7. /\ HoldsAny(u)' <=> HoldsAny(u)
       /\ \A x : x # NoSession => (HoldsOffer(u, x)' <=> HoldsOffer(u, x))
   BY <1>3, <1>9 DEF HoldsAny, HoldsOffer
 <2>8. Stays(u, v)' /\ Stays(v, u)'
   BY <1>1, <1>2, <1>3, <1>6, <2>2, <2>4 DEF PairKnown, Stays, BothHere, IsBlank
 <2>9. ~(HasLeft(arriving[u]) /\ HasLeft(arriving[v])) BY <1>1, <2>4 DEF PairKnown, Stays
 <2>10. ASSUME ~collided'
        PROVE  (PairHolds(u, v) /\ PairHolds(v, u))'
  <3>1. ~collided /\ Orderly(u) /\ PairHolds(u, v) /\ PairHolds(v, u) BY <1>1, <1>2, <1>8, <2>10 DEF PairKnown
  <3>2. (NotForgotten(u, v) /\ NotForgotten(v, u) /\ SessionsMatch(u, v) /\ SessionsMatch(v, u))'
    BY <2>5 DEF NotForgotten, SessionsMatch
  <3>3. Awaited(u, v)'
   <4>1. OfferSent(u, v)' BY <1>6, <2>2, <2>3, <2>6 DEF OfferSent
   <4> QED BY <4>1 DEF Awaited
  <3>4. (OneAnswered(u, v) /\ OneAnswered(v, u))' BY <1>6, <2>6 DEF OneAnswered
  <3>5. Awaited(v, u)'
   <4> SUFFICES ASSUME IsLive(v), IsLocal(v)
                PROVE  (OfferSent(v, u) \/ OfferHeld(v, u) \/ OfferAnswered(v, u))'
     BY <2>3, <2>4 DEF Awaited
   <4>1. OfferSent(v, u) \/ OfferHeld(v, u) \/ OfferAnswered(v, u) BY <3>1 DEF PairHolds, Awaited
   <4>2. PICK x : x = peer[v].offered /\ x = peer'[v].offered /\ x # NoSession BY <1>1, <1>6 DEF PairKnown
   <4>3. HoldsOffer(u, x)' <=> HoldsOffer(u, x) BY <2>7, <4>2
   <4>4. OfferSent(v, u) => OfferSent(v, u)' BY <1>6, <2>2, <4>2, <4>3 DEF OfferSent, HoldsOffer
   <4>5. OfferHeld(v, u) => OfferHeld(v, u)' BY <1>6, <2>2, <4>2, <4>3 DEF OfferHeld, HoldsOffer
   <4>6. OfferAnswered(v, u) => OfferAnswered(v, u)' BY <1>6, <2>2, <2>7, <4>2 DEF OfferAnswered
   <4> QED BY <4>1, <4>4, <4>5, <4>6
  <3>6. OfferStands(u, v)'
   <4>1. CASE ~HasLeft(arriving[u]) BY <2>5, <4>1 DEF OfferStands
   <4>2. CASE HasLeft(arriving[u]) /\ ~HasOffer(arriving[u])
    <5>1. place[v] = "room" \/ HasJoined(arriving[u]) BY <1>1, <1>8, <1>11, <4>2 DEF PairKnown, Stays
    <5>2. JoinComes(u, v)' BY <1>1, <1>2, <1>6, <4>2, <5>1, InboxSays DEF JoinComes, PairKnown
    <5> QED BY <2>2, <2>5, <2>9, <4>2, <5>2 DEF OfferStands
   <4>3. CASE HasLeft(arriving[u]) /\ HasOffer(arriving[u])
    <5>1. IsLive(v) /\ IsLocal(v) BY <2>4, <3>1, <4>3 DEF PairHolds, AnewOffers
    <5>2. ~Replies(arriving[v], peer[v].offered)
      BY <3>1, <4>3, <5>1 DEF PairHolds, Awaited, OfferSent, OfferHeld, OfferAnswered
    <5>3. Collides(v)' BY <1>6, <2>2, <2>3, <5>1, <5>2 DEF Collides, IsLive
    <5> QED BY <2>2, <2>9, <4>3, <5>3 DEF OfferStands
   <4> QED BY <4>1, <4>2, <4>3
  <3>7. OfferStands(v, u)'
   <4>1. ~ReplyBeforeOffer(arriving[u], o) BY <1>1, <2>6, InboxSays DEF PairKnown
   <4>2. Collides(u)' BY <1>6, <2>5, <4>1 DEF Collides
   <4> QED BY <1>6, <2>3, <2>4, <3>1, <4>2 DEF PairHolds, OfferStands
  <3>8. AnewOffers(u, v)' BY <2>2, <2>5, <2>9 DEF AnewOffers
  <3>9. AnewOffers(v, u)' BY <1>6, <2>3, <2>4, <3>1 DEF PairHolds, AnewOffers
  <3>10. HeldStands(u, v)'
   <4>1. JoinComes(u, v)' <=> JoinComes(u, v) BY <1>2, <1>6 DEF JoinComes
   <4> QED BY <2>2, <2>3, <2>4, <2>5, <3>1, <4>1 DEF PairHolds, HeldStands
  <3>11. HeldStands(v, u)'
   <4>1. HoldsAny(u) => place[u] = "in"
    <5> SUFFICES ASSUME NEW x \in work[u], x.sdp # NoSession
                 PROVE  place[u] = "in"
      BY DEF HoldsAny
    <5>1. x.op # "renego" /\ x # w BY <1>8, <1>9 DEF SideHolds
    <5>2. w.op = "renego" BY <1>2, <3>1, <5>1 DEF Orderly
    <5> QED BY <1>2, <1>8, <5>2 DEF SideHolds
   <4>2. HoldsAny(u) /\ JoinComes(v, u) => JoinComes(v, u)' BY <2>2, <4>1 DEF JoinComes
   <4> QED BY <1>6, <2>3, <2>4, <2>7, <3>1, <4>2 DEF PairHolds, HeldStands
  <3> QED BY <3>2, <3>3, <3>4, <3>5, <3>6, <3>7, <3>8, <3>9, <3>10, <3>11 DEF PairHolds
 <2> QED BY <2>8, <2>10, PairsAfter
<1> QED BY <1>10, <1>11

------------------------------------------------------------
\* A connection that goes on with its tasks, or negotiates again, holds what it held.
LEMMA ProceedsHolds ==
    ASSUME NEW u \in Caller, NEW v, NEW pc, NEW tasks, NEW anew, ProceedsTo(u, v, pc, tasks, anew)
    PROVE  /\ HoldsAny(u)' <=> \E w \in tasks : w.sdp # NoSession
           /\ \A o : o # NoSession => (HoldsOffer(u, o)' <=> \E w \in tasks : w.sdp = o)
           /\ tasks = work[u] /\ pc.last = peer[u].last /\ WillCall(u) => WillCall(u)'
<1> DEFINE a == Await("renego", NoSession, pc.sends)
           yes == Again(pc, tasks, anew)
<1>1. a.sdp = NoSession /\ a.op = "renego" BY DEF Await
<1>2. /\ yes => peer'[u].last = "renego" /\ work'[u] = tasks \union {a}
      /\ ~yes => peer'[u].last = pc.last /\ work'[u] = tasks
  BY DEF ProceedsTo
<1> HIDE DEF yes, a
<1>3. HoldsAny(u)' <=> \E w \in tasks : w.sdp # NoSession BY <1>1, <1>2 DEF HoldsAny
<1>4. \A o : o # NoSession => (HoldsOffer(u, o)' <=> \E w \in tasks : w.sdp = o) BY <1>1, <1>2 DEF HoldsOffer
<1>5. tasks = work[u] /\ pc.last = peer[u].last /\ WillCall(u) => WillCall(u)' BY <1>1, <1>2 DEF WillCall
<1> QED BY <1>3, <1>4, <1>5

LEMMA SettlesPairs ==
    ASSUME PeerIInv, NEW u \in Caller, NEW v, v = Other(u), NEW w, NEW pc, Settles(u, w, pc)
    PROVE  PeerPairs'
<1> DEFINE tasks == work[u] \ {w}
<1>1. PairKnown(u, v) /\ PeerLocal BY PairsBefore DEF PeerIInv
<1>2. PICK a : a = Answering(u, w) OBVIOUS
<1>3. PICK m : m = Signal("answer", a) OBVIOUS
<1>4. /\ pc \in Connection /\ pc.state = "stable" /\ pc.session = a /\ w \in work[u] /\ w.op = "answer"
      /\ peer[u] # NoPeer /\ arriving'[u] = arriving[u]
  BY <1>1, <1>2, SettlesFields
<1>5. arriving'[v] = IF place[u] # "out" /\ place[v] # "out" THEN Append(arriving[v], m) ELSE arriving[v]
  BY <1>1, <1>2, <1>3, SettlesFields
<1>6. /\ w.sdp # NoSession /\ a.offer = w.sdp /\ m \in PeerEvent /\ m.type = "answer" /\ m.sdp = a
  BY <1>1, <1>2, <1>3, <1>4, AnsweringFields
<1>7. /\ peer[u].state = "remote" /\ place' = place /\ collided' = collided /\ Proceeds(u, pc, tasks, wanted[u])
  BY DEF Settles
<1>8. /\ work \in [Caller -> SUBSET PeerTask] /\ wanted \in [Caller -> BOOLEAN]
  BY <1>1 DEF PeerLocal, VoicePeerTypeOK
<1>9. ProceedsTo(u, v, pc, tasks, wanted[u]) BY <1>1, <1>4, <1>7, <1>8, ProceedsFields
<1> HIDE DEF tasks
<1>10. /\ peer'[u] # NoPeer /\ peer'[u].state = "stable" /\ peer'[u].session = a
       /\ peer'[v] = peer[v] /\ work'[v] = work[v]
  BY <1>4, <1>9 DEF ProceedsTo
<1>11. place[u] # "out" BY <1>1, <1>4 DEF PairKnown
<1>12. CASE place[v] = "out"
 <2>1. Stale(arriving[u]) /\ HasLeft(arriving[u]) BY <1>1, <1>4, <1>11, <1>12 DEF PairKnown, Stays
 <2>2. (Stays(v, u) /\ Stays(u, v) /\ PairHolds(v, u) /\ PairHolds(u, v))'
   BY <1>1, <1>4, <1>7, <1>10, <1>11, <1>12, <2>1, OutPairs DEF PairKnown
 <2> QED BY <2>2, PairsAfter
<1>13. CASE place[v] # "out"
 <2>1. Grown(arriving[v], arriving'[v], m) BY <1>1, <1>5, <1>6, <1>11, <1>13, InboxGrown DEF PairKnown
 <2>2. /\ HasLeft(arriving'[v]) <=> HasLeft(arriving[v])
       /\ HasJoined(arriving'[v]) <=> HasJoined(arriving[v])
       /\ HasOffer(arriving'[v]) <=> HasOffer(arriving[v])
       /\ JoinedFirst(arriving[v]) => JoinedFirst(arriving'[v])
       /\ \A x : Replies(arriving'[v], x) <=> Replies(arriving[v], x) \/ x = w.sdp
       /\ \A x, z : AnswersAre(arriving[v], x, z) /\ z = a => AnswersAre(arriving'[v], x, z)
       /\ \A x : ReplyBeforeOffer(arriving'[v], x) => ReplyBeforeOffer(arriving[v], x)
   BY <1>6, <2>1 DEF Grown, Answers
 <2>3. /\ IsLocal(v)' <=> IsLocal(v)
       /\ WillCall(v)' <=> WillCall(v)
       /\ HoldsAny(v)' <=> HoldsAny(v)
   BY <1>1, <1>10, OtherSame DEF PairKnown
 <2>4. /\ IsLive(v)' <=> IsLive(v)
       /\ IsBlank(v)' <=> IsBlank(v)
       /\ Collides(v) => Collides(v)'
       /\ BothHere(u, v) /\ BothHere(v, u)
   BY <1>10, <1>11, <1>13, <2>2, <2>3 DEF IsLive, IsBlank, BothHere, Collides
 <2>5. /\ ~IsLocal(u) /\ ~IsLocal(u)' /\ ~IsBlank(u)'
       /\ IsLive(u)' <=> IsLive(u)
       /\ IsLive(u) <=> ~HasLeft(arriving[u])
   BY <1>4, <1>7, <1>10 DEF IsLocal, IsLive, IsBlank
 <2>6. Stays(u, v)' /\ Stays(v, u)'
   BY <1>1, <1>4, <1>7, <1>10, <2>2, <2>4 DEF PairKnown, Stays, BothHere, IsBlank
 <2>7. ASSUME ~collided'
       PROVE  (PairHolds(u, v) /\ PairHolds(v, u))'
  <3>1. Orderly(u) /\ PairHolds(u, v) /\ PairHolds(v, u) BY <1>1, <1>7, <2>7, OneSide DEF PairKnown
  <3>2. work[u] = {w} /\ tasks = {} BY <1>4, <1>7, <3>1 DEF Orderly, tasks
  <3>3. /\ ~WillCall(u) /\ HoldsAny(u)
        /\ \A x : HoldsOffer(u, x) <=> x = w.sdp
    BY <1>4, <1>6, <3>2 DEF WillCall, HoldsAny, HoldsOffer
  <3>4. ~HoldsAny(u)' /\ \A x : x # NoSession => ~HoldsOffer(u, x)' BY <1>9, <3>2, ProceedsHolds
  <3>5. NotForgotten(u, v)' BY <1>7, <2>2, <2>4, <2>5, <3>1, <3>3 DEF PairHolds, NotForgotten, BothHere
  <3>6. (NotForgotten(v, u) /\ Awaited(u, v) /\ OneAnswered(u, v) /\ OneAnswered(v, u) /\ HeldStands(v, u))'
    BY <2>5, <3>4 DEF NotForgotten, Awaited, OneAnswered, HeldStands
  <3>7. (SessionsMatch(u, v) /\ SessionsMatch(v, u))'
    BY <2>3, <2>4, <2>5, <3>1, <3>3 DEF PairHolds, HeldStands, SessionsMatch
  <3>8. Awaited(v, u)'
   <4> SUFFICES ASSUME IsLive(v), IsLocal(v)
                PROVE  (OfferSent(v, u) \/ OfferAnswered(v, u))'
     BY <2>3, <2>4 DEF Awaited
   <4>1. OfferSent(v, u) \/ OfferHeld(v, u) BY <3>1, <3>3 DEF PairHolds, Awaited, OfferAnswered
   <4>2. PICK x : x = peer[v].offered /\ x = peer'[v].offered /\ x # NoSession BY <1>1, <1>10 DEF PairKnown
   <4>3. ~HoldsOffer(u, x)' BY <3>4, <4>2
   <4>4. OfferSent(v, u) => OfferSent(v, u)' BY <1>4, <2>2, <3>3, <4>2, <4>3 DEF OfferSent, HoldsOffer
   <4>5. OfferHeld(v, u) => OfferAnswered(v, u)'
    <5> SUFFICES ASSUME OfferHeld(v, u) PROVE OfferAnswered(v, u)' OBVIOUS
    <5>1. x = w.sdp /\ ~Replies(arriving[v], x) /\ ~HasLeft(arriving[u]) /\ ~HasOffer(arriving[u])
      BY <3>3, <4>2 DEF OfferHeld
    <5>2. AnswersAre(arriving[v], x, a) BY <1>1, <5>1, InboxSays DEF PairKnown
    <5> QED BY <1>4, <1>10, <2>2, <3>4, <4>2, <5>1, <5>2 DEF OfferAnswered
   <4> QED BY <4>1, <4>4, <4>5
  <3>9. JoinComes(u, v) <=> JoinComes(u, v)' BY <1>4, <1>7 DEF JoinComes
  <3>10. OfferStands(u, v)' /\ HeldStands(u, v)'
   <4>1. OfferStands(u, v)' BY <2>2, <2>4, <2>5, <3>1, <3>3, <3>9 DEF PairHolds, OfferStands
   <4>2. HeldStands(u, v)' BY <2>2, <2>3, <2>4, <2>5, <3>1, <3>3, <3>9 DEF PairHolds, HeldStands
   <4> QED BY <4>1, <4>2
  <3>11. AnewOffers(u, v)' /\ AnewOffers(v, u)'
   <4>1. AnewOffers(u, v)' BY <2>2, <2>4, <2>5, <3>1 DEF PairHolds, AnewOffers
   <4>2. AnewOffers(v, u)' BY <1>4, <2>3, <2>4, <3>1 DEF PairHolds, AnewOffers
   <4> QED BY <4>1, <4>2
  <3>12. OfferStands(v, u)'
   <4>1. ~Collides(u) BY <2>5, <3>3 DEF Collides
   <4>2. JoinComes(v, u) => JoinComes(v, u)' BY <1>7, <2>2 DEF JoinComes
   <4> QED BY <1>4, <2>3, <2>4, <3>1, <4>1, <4>2 DEF PairHolds, OfferStands
  <3> QED BY <3>5, <3>6, <3>7, <3>8, <3>10, <3>11, <3>12 DEF PairHolds
 <2> QED BY <2>6, <2>7, PairsAfter
<1> QED BY <1>12, <1>13

------------------------------------------------------------
LEMMA AcceptsPairs ==
    ASSUME PeerIInv, NEW u \in Caller, NEW v, v = Other(u), NEW pc, Accepts(u, pc)
    PROVE  PeerPairs'
<1>1. PairKnown(u, v) /\ PeerLocal BY PairsBefore DEF PeerIInv
<1>2. PICK m : m = Head(arriving[u]) OBVIOUS
<1>3. PICK o : o = peer[u].offered OBVIOUS
<1>4. /\ place' = place /\ arriving[u] # <<>> /\ arriving' = Taken(u) /\ m.type = "answer" /\ place[u] # "out"
      /\ IsLocal(u) /\ Proceeds(u, pc, work[u], wanted[u]) /\ collided' = (collided \/ m.sdp.offer # o)
  BY <1>2, <1>3 DEF Accepts, Head1
<1>5. /\ pc \in Connection /\ pc.state = "stable" /\ pc.last = peer[u].last /\ pc.session = m.sdp /\ peer[u] # NoPeer
  BY <1>1, <1>2, AcceptsFields
<1>6. /\ work \in [Caller -> SUBSET PeerTask] /\ wanted \in [Caller -> BOOLEAN]
  BY <1>1 DEF PeerLocal, VoicePeerTypeOK
<1>7. ProceedsTo(u, v, pc, work[u], wanted[u]) BY <1>1, <1>4, <1>5, <1>6, ProceedsFields
<1>8. /\ peer'[u] # NoPeer /\ peer'[u].state = "stable" /\ peer'[u].session = m.sdp
      /\ peer'[v] = peer[v] /\ work'[v] = work[v]
  BY <1>5, <1>7 DEF ProceedsTo
<1>9. /\ WillCall(u) => WillCall(u)'
      /\ HoldsAny(u)' <=> HoldsAny(u)
      /\ \A x : x # NoSession => (HoldsOffer(u, x)' <=> HoldsOffer(u, x))
  BY <1>5, <1>7, ProceedsHolds DEF HoldsAny, HoldsOffer
<1>10. Shrunk(arriving[u], arriving'[u], m) /\ arriving'[v] = arriving[v] BY <1>2, <1>4, TakenShrinks
<1>11. CASE place[v] = "out" BY <1>2, <1>4, <1>8, <1>11, TakesOut
<1>12. CASE place[v] # "out"
 <2>1. Stays(u, v)' /\ Stays(v, u)' BY <1>2, <1>4, <1>8, <1>12, TakesStays
 <2>2. /\ HasLeft(arriving'[u]) <=> HasLeft(arriving[u])
       /\ HasOffer(arriving'[u]) => HasOffer(arriving[u])
       /\ HasLeft(arriving[u]) /\ JoinedFirst(arriving[u]) => JoinedFirst(arriving'[u])
       /\ \A x : SentIn(arriving[u], x) => SentIn(arriving'[u], x)
       /\ \A z : AnswersAre(arriving[u], m.sdp.offer, z) => m.sdp = z
       /\ Replies(arriving[u], m.sdp.offer)
       /\ ~HasLeft(arriving[u]) /\ HasOffer(arriving[u]) => ReplyBeforeOffer(arriving[u], m.sdp.offer)
   BY <1>4, <1>10 DEF Shrunk, Answers
 <2>3. /\ IsLocal(v)' <=> IsLocal(v)
       /\ WillCall(v)' <=> WillCall(v)
       /\ HoldsAny(v)' <=> HoldsAny(v)
       /\ IsLive(v)' <=> IsLive(v)
       /\ Collides(v)' <=> Collides(v)
   BY <1>1, <1>8, <1>10, OtherSame DEF PairKnown
 <2>4. /\ ~IsLocal(u)' /\ ~IsBlank(u)' /\ BothHere(u, v) /\ BothHere(v, u)
       /\ IsLive(u)' <=> IsLive(u)
       /\ IsLive(u) <=> ~HasLeft(arriving[u])
   BY <1>4, <1>5, <1>8, <1>12, <2>2 DEF IsLocal, IsLive, IsBlank, BothHere
 <2>5. (NotForgotten(v, u) /\ Awaited(u, v) /\ OneAnswered(u, v) /\ OneAnswered(v, u))'
   BY <2>4 DEF NotForgotten, Awaited, OneAnswered
 <2>6. ~(HasLeft(arriving[u]) /\ HasLeft(arriving[v])) BY <1>1, <2>4 DEF PairKnown, Stays
 <2>7. ASSUME ~collided'
       PROVE  (PairHolds(u, v) /\ PairHolds(v, u))'
  <3>1. m.sdp.offer = o /\ ~collided /\ PairHolds(u, v) /\ PairHolds(v, u) BY <1>1, <1>4, <2>7 DEF PairKnown
  <3>2. CASE IsLive(u)
   <4>1. OfferAnswered(u, v) BY <1>3, <1>4, <2>2, <3>1, <3>2 DEF PairHolds, Awaited, OfferSent, OfferHeld
   <4>2. /\ IsLive(v) /\ ~HasLeft(arriving[v]) /\ ~HasOffer(arriving[v]) /\ ~HoldsAny(v)
         /\ peer[v].session = m.sdp
     BY <1>3, <2>2, <3>1, <4>1 DEF OfferAnswered, IsLive
   <4>3. (SessionsMatch(u, v) /\ SessionsMatch(v, u))' BY <1>8, <4>2 DEF SessionsMatch
   <4>4. (NotForgotten(u, v) /\ OfferStands(u, v) /\ AnewOffers(u, v) /\ HeldStands(u, v))'
     BY <1>8, <1>10, <2>3, <4>2 DEF NotForgotten, IsBlank, IsLive, OfferStands, AnewOffers, HeldStands
   <4>5. Awaited(v, u)'
    <5> SUFFICES ASSUME IsLocal(v)
                 PROVE  (OfferSent(v, u) \/ OfferHeld(v, u))'
      BY <2>3 DEF Awaited
    <5>1. ~OfferAnswered(v, u) BY <1>3, <1>4, <2>2, <3>1, <3>2, <4>2 DEF PairHolds, OneAnswered, OfferAnswered
    <5>2. OfferSent(v, u) \/ OfferHeld(v, u) BY <3>1, <4>2, <5>1 DEF PairHolds, Awaited
    <5>3. PICK x : x = peer[v].offered /\ x = peer'[v].offered /\ x # NoSession BY <1>1, <1>8 DEF PairKnown
    <5>4. HoldsOffer(u, x)' <=> HoldsOffer(u, x) BY <1>9, <5>3
    <5>5. OfferSent(v, u) => OfferSent(v, u)' BY <1>10, <2>2, <5>3, <5>4 DEF OfferSent, HoldsOffer
    <5>6. OfferHeld(v, u) => OfferHeld(v, u)' BY <1>10, <2>2, <5>3, <5>4 DEF OfferHeld, HoldsOffer
    <5> QED BY <5>2, <5>5, <5>6
   <4>6. Collides(u) /\ HasOffer(arriving[u]) => Collides(u)'
     BY <1>3, <1>8, <1>9, <2>2, <2>4, <3>1, <3>2 DEF Collides
   <4>7. OfferStands(v, u)' BY <2>2, <2>3, <2>4, <3>1, <4>2, <4>6 DEF PairHolds, OfferStands
   <4>8. AnewOffers(v, u)' BY <2>2, <2>4, <3>2 DEF AnewOffers
   <4>9. HeldStands(v, u)' BY <1>9, <2>2, <2>3, <2>4, <3>1, <4>2 DEF PairHolds, HeldStands
   <4> QED BY <2>5, <4>3, <4>4, <4>5, <4>7, <4>8, <4>9 DEF PairHolds
  <3>3. CASE ~IsLive(u)
   <4>1. HasLeft(arriving[u]) /\ ~HasLeft(arriving[v]) BY <2>4, <2>6, <3>3
   <4>2. (NotForgotten(u, v) /\ SessionsMatch(u, v) /\ SessionsMatch(v, u))'
     BY <2>4, <3>3 DEF NotForgotten, SessionsMatch
   <4>3. JoinComes(u, v) => JoinComes(u, v)' BY <1>4, <2>2, <4>1 DEF JoinComes
   <4>4. OfferStands(u, v)' BY <1>10, <2>3, <2>4, <3>1, <3>3, <4>1, <4>3 DEF PairHolds, OfferStands
   <4>5. AnewOffers(u, v)' BY <1>10, <4>1 DEF AnewOffers
   <4>6. HeldStands(u, v)' BY <1>10, <2>3, <2>4, <3>1, <3>3, <4>1, <4>3 DEF PairHolds, HeldStands
   <4>7. Awaited(v, u)'
    <5> SUFFICES ASSUME IsLive(v), IsLocal(v)
                 PROVE  OfferSent(v, u)'
      BY <2>3 DEF Awaited
    <5>1. OfferSent(v, u) BY <3>1, <4>1 DEF PairHolds, Awaited, OfferHeld, OfferAnswered
    <5>2. PICK x : x = peer[v].offered /\ x = peer'[v].offered /\ x # NoSession BY <1>1, <1>8 DEF PairKnown
    <5>3. HoldsOffer(u, x)' <=> HoldsOffer(u, x) BY <1>9, <5>2
    <5> QED BY <1>10, <2>2, <5>1, <5>2, <5>3 DEF OfferSent, HoldsOffer
   <4>8. (OfferStands(v, u) /\ AnewOffers(v, u))'
    <5>1. HasOffer(arriving'[u]) => IsLive(v) /\ IsLocal(v) BY <2>2, <2>4, <3>1, <4>1 DEF PairHolds, AnewOffers
    <5> QED BY <2>3, <5>1 DEF OfferStands, AnewOffers
   <4>9. HeldStands(v, u)' BY <2>2, <4>1 DEF HeldStands
   <4> QED BY <2>5, <4>2, <4>4, <4>5, <4>6, <4>7, <4>8, <4>9 DEF PairHolds
  <3> QED BY <3>2, <3>3
 <2> QED BY <2>1, <2>7, PairsAfter
<1> QED BY <1>11, <1>12

LEMMA AnswerReceivedPairs ==
    ASSUME PeerIInv, NEW u \in Caller, NEW v, v = Other(u), AnswerReceived(u)
    PROVE  PeerPairs'
<1>1. CASE \E pc : Accepts(u, pc) BY <1>1, AcceptsPairs
<1>2. CASE peer' = peer /\ work' = work /\ collided' = collided /\ ~IsLocal(u)
 <2>1. PairKnown(u, v) BY PairsBefore
 <2>2. /\ arriving[u] # <<>> /\ arriving' = Taken(u) /\ Head(arriving[u]).type = "answer" /\ place' = place
   BY DEF AnswerReceived, Head1
 <2>3. Shrunk(arriving[u], arriving'[u], Head(arriving[u])) /\ arriving'[v] = arriving[v] BY <2>2, TakenShrinks
 <2>4. InboxAlike(u) BY <1>2, <2>2, <2>3 DEF Shrunk, InboxAlike
 <2>5. InboxAlike(v) /\ SideAlike(u) /\ SideAlike(v) BY <1>2, <2>1, <2>3, SameAlike DEF PairKnown
 <2>6. PlaceAlike(u, v) /\ PlaceAlike(v, u) BY <2>2 DEF PlaceAlike
 <2> QED BY <1>2, <2>1, <2>4, <2>5, <2>6, QuietPairs DEF PairKnown
<1> QED BY <1>1, <1>2, AnswerReceivedEnds DEF PeerIInv

------------------------------------------------------------
LEMMA PeerPairsInit ==
    ASSUME VoicePeerInit
    PROVE  PeerPairs
<1>1. \A u \in Caller : place[u] = "out" /\ peer[u] = NoPeer BY DEF VoicePeerInit
<1>2. \A u \in Caller : ~IsLive(u) /\ ~BothHere(u, Other(u)) BY <1>1 DEF IsLive, BothHere
<1>3. \A u \in Caller : Other(u) \in Caller BY OtherCaller
<1>4. \A u \in Caller : Stays(u, Other(u)) BY <1>1, <1>2, <1>3 DEF Stays
<1>5. \A u \in Caller : PairHolds(u, Other(u))
  BY <1>2, <1>3 DEF PairHolds, NotForgotten, Awaited, OneAnswered, SessionsMatch, OfferStands, AnewOffers, HeldStands
<1> QED BY <1>4, <1>5 DEF PeerPairs

LEMMA PeerPairsNext ==
    ASSUME PeerIInv, [VoicePeerNext]_peerVars
    PROVE  PeerPairs'
<1>1. CASE UNCHANGED peerVars
 <2>1. PICK u \in Caller : TRUE BY VoicePeerAssumption
 <2>2. PICK v : v = Other(u) OBVIOUS
 <2>3. place' = place /\ peer' = peer /\ work' = work /\ arriving' = arriving /\ collided' = collided
   BY <1>1 DEF peerVars
 <2>4. SideAlike(u) BY <2>3, SameAlike
 <2> QED BY <2>2, <2>3, <2>4, QuietSide
<1>2. ASSUME NEW u \in Caller, NEW v, v = Other(u),
             \/ JoinsRoom(u) \/ Announced(u) \/ Leaves(u) \/ UserLeft(u) \/ Skipped(u)
             \/ UserJoined(u) \/ RegisterDone(u) \/ OfferMade(u) \/ RenegotiationMade(u)
             \/ ViewerChanges(u) \/ OfferReceived(u) \/ AnswerMade(u) \/ AnswerReceived(u)
      PROVE  PeerPairs'
 <2>1. PeerLocal BY DEF PeerIInv
 <2>2. OfferMade(u) => PeerPairs' BY <1>2, <2>1, OfferMadeEnds, SendsPairs, GivesUpPairs
 <2>3. RenegotiationMade(u) => PeerPairs'
  <3> SUFFICES ASSUME RenegotiationMade(u) PROVE PeerPairs' OBVIOUS
  <3>1. CASE \E w : Sends(u, w) \/ GivesUp(u, w) BY <1>2, <3>1, SendsPairs, GivesUpPairs
  <3>2. ASSUME NEW w \in work[u], w.op = "renego", GoesOn(u, peer[u], work[u] \ {w}, TRUE),
               peer[u].state = "stable", arriving' = arriving
        PROVE  PeerPairs'
   <4>1. collided' = collided BY DEF RenegotiationMade
   <4> QED BY <1>2, <3>2, <4>1, RenegotiationMadeGoesOnPairs
  <3> QED BY <2>1, <3>1, <3>2, RenegotiationMadeEnds
 <2>4. AnswerMade(u) => PeerPairs' BY <1>2, <2>1, AnswerMadeEnds, SettlesPairs, GivesUpPairs
 <2> QED
   BY <1>2, <2>2, <2>3, <2>4, JoinsRoomPairs, AnnouncedPairs, LeavesPairs, UserLeftPairs, SkippedPairs,
      UserJoinedPairs, RegisterDonePairs, ViewerChangesPairs, OfferReceivedPairs, AnswerReceivedPairs
<1> QED BY <1>1, <1>2 DEF VoicePeerNext

\* When nothing is under way between the two, the sessions and the screens are settled.
LEMMA QuietAgree ==
    ASSUME PeerIInv
    PROVE  PeersAgree
<1> SUFFICES ASSUME PeersQuiet, ~collided, NEW u \in Caller, NEW v, v = Other(u)
             PROVE  /\ peer[u] # NoPeer /\ peer[u].state = "stable"
                    /\ peer[u].session # NoSession /\ peer[u].session = peer[Other(u)].session
                    /\ early[u] \/ peer[u].session.screens[u] = viewed[u]
  BY DEF PeersAgree
<1>1. PairKnown(u, v) BY PairsBefore
<1>2. /\ place[u] = "in" /\ place[v] = "in" /\ arriving[u] = <<>> /\ arriving[v] = <<>>
      /\ work[u] = {} /\ work[v] = {}
  BY <1>1 DEF PeersQuiet, PairKnown
<1>3. /\ ~HasLeft(arriving[u]) /\ ~HasOffer(arriving[u]) /\ ~HasJoined(arriving[u])
      /\ ~HasLeft(arriving[v]) /\ ~HasOffer(arriving[v]) /\ ~HasJoined(arriving[v])
  BY <1>1, <1>2, InboxSays DEF PairKnown
<1>4. \A o : ~Replies(arriving[u], o) /\ ~Replies(arriving[v], o)
 <2>1. \A i : i \notin 1..Len(arriving[u]) /\ i \notin 1..Len(arriving[v]) BY <1>2, EmptySeq
 <2> QED BY <2>1 DEF Replies
<1>5. /\ ~WillCall(u) /\ ~HoldsAny(u) /\ ~Registers(u) /\ (\A o : ~HoldsOffer(u, o))
      /\ ~WillCall(v) /\ ~HoldsAny(v) /\ ~Registers(v) /\ (\A o : ~HoldsOffer(v, o))
  BY <1>1, <1>2, NoWork DEF PairKnown
<1>6. PairHolds(u, v) /\ PairHolds(v, u) BY <1>1 DEF PairKnown
<1>7. /\ SideHolds(u) /\ ScreenSends(u) /\ ScreenDue(u) /\ SideHolds(v) BY <1>1, OneSide DEF PairKnown
<1>8. ~(IsLive(u) /\ IsLocal(u)) /\ ~(IsLive(v) /\ IsLocal(v))
 <2>1. \A x : ~SentIn(arriving[u], x) /\ ~SentIn(arriving[v], x) BY <1>1, <1>3, InboxSays DEF PairKnown
 <2> QED BY <1>4, <1>5, <1>6, <2>1 DEF PairHolds, Awaited, OfferSent, OfferHeld, OfferAnswered
<1>9. peer[u] # NoPeer /\ peer[v] # NoPeer
  BY <1>1, <1>2, <1>3, <1>5, <1>6, <1>8
  DEF PairKnown, Stays, PairHolds, NotForgotten, BothHere, IsLive, IsBlank
<1>10. IsLive(u) /\ IsLive(v) BY <1>3, <1>9 DEF IsLive
<1>11. peer[u].state = "stable"
 <2>1. peer[u] \in Connection BY <1>9, OneSide
 <2>2. peer[u].state # "remote" BY <1>2, <1>7, <1>9 DEF SideHolds
 <2>3. peer[u].state # "local" BY <1>8, <1>9, <1>10 DEF IsLocal
 <2> QED BY <2>1, <2>2, <2>3 DEF Connection
<1>12. peer[u].session # NoSession BY <1>5, <1>7, <1>9, <1>11 DEF SideHolds
<1>13. peer[u].session = peer[v].session BY <1>5, <1>6, <1>8, <1>10 DEF PairHolds, SessionsMatch
<1>14. ~wanted[u] BY <1>2, <1>7, <1>11 DEF SideHolds
<1>15. early[u] \/ peer[u].session.screens[u] = viewed[u]
  BY <1>5, <1>7, <1>9, <1>11, <1>12, <1>14 DEF ScreenDue, ScreenSends
<1> QED BY <1>9, <1>11, <1>12, <1>13, <1>15

\* What the peers of two members keep of each other in every state.
THEOREM PeersInductive == VoicePeerSpec => []PeerIInv
<1>1. VoicePeerInit => PeerIInv BY PeerLocalInit, PeerPairsInit DEF PeerIInv
<1>2. PeerIInv /\ [VoicePeerNext]_peerVars => PeerIInv' BY PeerLocalNext, PeerPairsNext DEF PeerIInv
<1> QED BY <1>1, <1>2, PTL DEF VoicePeerSpec

\* The variables of the peer connections keep their types.
THEOREM PeersTyped == VoicePeerSpec => []VoicePeerTypeOK
<1>1. PeerIInv => VoicePeerTypeOK BY DEF PeerIInv, PeerLocal
<1> QED BY <1>1, PeersInductive, PTL

\* Unless descriptions met, two members of a call between whom nothing is under way have one
\* session both agreed on, in which each sends its screen exactly when it is watched.
THEOREM PeersAgreeAlways == VoicePeerSpec => []PeersAgree
<1>1. PeerIInv => PeersAgree BY QuietAgree
<1> QED BY <1>1, PeersInductive, PTL

------------------------------------------------------------
(* CallTransport                                                           *)

\* A sender is bound in a call with a track on the air; without one nothing is applied.
WireOnAir == IF wire # NoWire THEN onAir \in MicTrack ELSE setter.step = "none"

\* What is out of date has a newer application behind it; what is not aims at the wish, and
\* until it is taken back the parameter is as it was when it began.
SetterAims ==
    Present /\ setter.step # "none" =>
        /\ wire.ready
        /\ ~setter.live => queued
        /\ setter.live => setter.target = wish.rate
SetterKnows ==
    wire # NoWire =>
        /\ setter.step \in {"set", "rollback"} => setter.before = wire.rate
        /\ setter.step = "restore" => wire.managed
        /\ ~wire.managed => wire.rate = AUTO \/ slipped
RateSettled ==
    Present /\ wire.ready /\ setter.step = "none" /\ ~queued =>
        /\ wire.shown \in {"applied", "unavailable", "failed"}
        /\ wire.shown = "applied" => wire.effective = wire.rate /\ (wire.rate = wish.rate \/ slipped)

\* The preference written is the wish, unless the browser lacks it.
CodecWritten ==
    wire # NoWire =>
        /\ wire.intent \notin Lacked /\ wire.used \notin Lacked
        /\ callOn => wire.intent = wish.codec \/ wish.codec \in Lacked
CodecSettled ==
    Present /\ wire.ready /\ ~due /\ ~reading /\ ~unread =>
        \/ wire.codecShown = "applied" /\ wish.codec \in {AUTO, wire.used}
        \/ wire.codecShown = "unavailable"

HintsFollow == \A t \in MicTrack \ {onAir} : ~hints[t]

TransportIInv ==
    /\ CallTransportTypeOK
    /\ WireOnAir /\ SetterAims /\ SetterKnows /\ RateSettled /\ CodecWritten /\ CodecSettled
    /\ HintsFollow

LEMMA TransportBegins == CallTransportInit => TransportIInv
<1> SUFFICES ASSUME CallTransportInit PROVE TransportIInv OBVIOUS
<1>1. CallTransportTypeOK BY DEF CallTransportInit, CallTransportTypeOK, Idle, Setter
<1> QED
  BY <1>1 DEF TransportIInv, CallTransportInit, WireOnAir, SetterAims, SetterKnows, RateSettled,
      CodecWritten, CodecSettled, HintsFollow, Present, Idle

\* What writing a preference does to a sender.
LEMMA PreferenceWritten ==
    ASSUME NEW w \in Wire, NEW c \in Codec \union {AUTO}, NEW v, v = PrefersCodec(w, c)
    PROVE  /\ v \in Wire
           /\ v.rate = w.rate /\ v.ready = w.ready /\ v.managed = w.managed /\ v.shown = w.shown
           /\ v.effective = w.effective /\ v.used = w.used
           /\ v.intent = IF c \in Lacked THEN w.intent ELSE c
           /\ w.intent # c /\ c \in Lacked => v.codecShown = "unavailable"
           /\ w.intent = c => \/ v.codecShown = w.codecShown
                               \/ (w.codecShown = "none" /\ c = AUTO)
<1> DEFINE intent == IF c \in Lacked THEN w.intent ELSE c
           says == IF w.intent = c
                    THEN IF c = AUTO /\ w.codecShown = "none" THEN "applied" ELSE w.codecShown
                    ELSE IF c \in Lacked THEN "unavailable" ELSE "pending"
<1>1. v = [w EXCEPT !.intent = intent, !.codecShown = says] BY DEF PrefersCodec
<1>2. intent \in Codec \union {AUTO} /\ says \in Shown BY DEF Wire, Shown
<1>3. /\ w.intent # c /\ c \in Lacked => says = "unavailable"
      /\ w.intent = c => says = w.codecShown \/ (w.codecShown = "none" /\ c = AUTO)
      /\ intent = IF c \in Lacked THEN w.intent ELSE c
  OBVIOUS
<1> HIDE DEF intent, says
<1>4. v \in Wire BY <1>1, <1>2 DEF Wire
<1>5. /\ v.rate = w.rate /\ v.ready = w.ready /\ v.managed = w.managed /\ v.shown = w.shown
      /\ v.effective = w.effective /\ v.used = w.used /\ v.intent = intent /\ v.codecShown = says
  BY <1>1 DEF Wire
<1> QED BY <1>3, <1>4, <1>5

\* An application that is out of date.
LEMMA OutOfDate ==
    ASSUME TransportIInv, Schedules
    PROVE  /\ setter' \in Setter /\ ~setter'.live /\ queued' = TRUE
           /\ setter'.step = setter.step /\ setter'.before = setter.before /\ setter'.target = setter.target
BY DEF TransportIInv, CallTransportTypeOK, Schedules, Setter

LEMMA WishChanges ==
    ASSUME TransportIInv, UpdateTransport \/ RetryTransport
    PROVE  TransportIInv'
<1>1. \E again \in BOOLEAN : Reapplies(again) BY DEF UpdateTransport, RetryTransport
<1>2. PICK again \in BOOLEAN : Reapplies(again) BY <1>1
<1>3. wish' \in [rate : Rate \union {AUTO}, codec : Codec \union {AUTO}, hint : BOOLEAN]
  BY DEF UpdateTransport, RetryTransport, TransportIInv, CallTransportTypeOK
<1>4. onAir' = onAir /\ callOn' = callOn /\ slipped' = slipped BY DEF UpdateTransport, RetryTransport
<1>5. hints' \in [MicTrack -> BOOLEAN] /\ HintsFollow'
  BY <1>2, <1>3, <1>4 DEF Reapplies, HintOf, TransportIInv, CallTransportTypeOK, HintsFollow
<1>6. CASE Present
 <2>1. wire' = PrefersCodec(wire, wish'.codec) /\ Schedules
       /\ due' = (due \/ (wire'.intent # wire.intent)) /\ reading' = again
       /\ unread' = (unread \/ (reading /\ ~again))
   BY <1>2, <1>6 DEF Reapplies
 <2>2. wire \in Wire /\ wish'.codec \in Codec \union {AUTO}
   BY <1>3, <1>6 DEF TransportIInv, CallTransportTypeOK, Present
 <2>3. /\ wire' \in Wire
       /\ wire'.rate = wire.rate /\ wire'.ready = wire.ready /\ wire'.managed = wire.managed
       /\ wire'.used = wire.used
       /\ wire'.intent = IF wish'.codec \in Lacked THEN wire.intent ELSE wish'.codec
       /\ wire.intent # wish'.codec /\ wish'.codec \in Lacked => wire'.codecShown = "unavailable"
       /\ wire.intent = wish'.codec => \/ wire'.codecShown = wire.codecShown
                                       \/ wire.codecShown = "none" /\ wish'.codec = AUTO
   BY <2>1, <2>2, PreferenceWritten
 <2>7. /\ setter' \in Setter /\ ~setter'.live /\ queued'
       /\ setter'.step = setter.step /\ setter'.before = setter.before
   BY <2>1, OutOfDate
 <2>4. CallTransportTypeOK' BY <1>3, <1>4, <1>5, <2>1, <2>3, <2>7 DEF TransportIInv, CallTransportTypeOK
 <2>5. WireOnAir' /\ SetterAims' /\ SetterKnows' /\ RateSettled'
   BY <1>4, <1>6, <2>1, <2>2, <2>3, <2>7, CallTransportAssumption
   DEF TransportIInv, WireOnAir, SetterAims, SetterKnows, RateSettled, Present, CallTransportTypeOK
 <2>6. CodecWritten' /\ CodecSettled'
   BY <1>4, <1>6, <2>1, <2>2, <2>3, CallTransportAssumption
   DEF TransportIInv, CodecWritten, CodecSettled, Present
 <2> QED BY <1>5, <2>4, <2>5, <2>6 DEF TransportIInv
<1>7. CASE ~Present
 <2>1. UNCHANGED <<wire, setter, queued, due, reading, unread>> BY <1>2, <1>7 DEF Reapplies
 <2> QED
   BY <1>3, <1>4, <1>5, <1>7, <2>1 DEF TransportIInv, CallTransportTypeOK, WireOnAir, SetterAims,
      SetterKnows, RateSettled, CodecWritten, CodecSettled, Present
<1> QED BY <1>6, <1>7

LEMMA TracksChange ==
    ASSUME TransportIInv, CallStarts \/ CallExpires \/ (\E t \in MicTrack : PublishTrack(t))
    PROVE  TransportIInv'
<1>1. CASE CallStarts \/ CallExpires
  BY <1>1, CallTransportAssumption DEF CallStarts, CallExpires, TransportIInv, CallTransportTypeOK, WireOnAir,
     SetterAims, SetterKnows, RateSettled, CodecWritten, CodecSettled, HintsFollow, Present
<1>2. ASSUME NEW t \in MicTrack, PublishTrack(t)
      PROVE  TransportIInv'
 <2> DEFINE restored == IF onAir \in MicTrack \ {t} THEN [hints EXCEPT ![onAir] = FALSE] ELSE hints
 <2>0. hints \in [MicTrack -> BOOLEAN] /\ wish.hint \in BOOLEAN /\ HintsFollow
   BY DEF TransportIInv, CallTransportTypeOK
 <2>5. restored \in [MicTrack -> BOOLEAN] /\ \A s \in MicTrack \ {t} : ~restored[s] BY <2>0 DEF HintsFollow
 <2>6. hints' \in {restored, [restored EXCEPT ![t] = wish.hint]} /\ onAir' = t BY <1>2 DEF PublishTrack
 <2> HIDE DEF restored
 <2>1. hints' \in [MicTrack -> BOOLEAN] /\ HintsFollow' BY <2>0, <2>5, <2>6 DEF HintsFollow
 <2>3. UNCHANGED <<wish, wire, reading, due, callOn, slipped, unread>> /\ onAir' = t BY <1>2 DEF PublishTrack
 <2>4. \/ wire = NoWire /\ UNCHANGED <<setter, queued>>
       \/ /\ setter' \in Setter /\ ~setter'.live /\ queued' = TRUE
          /\ setter'.step = setter.step /\ setter'.before = setter.before /\ setter'.target = setter.target
   BY <1>2, OutOfDate DEF PublishTrack
 <2>2. CallTransportTypeOK' BY <2>1, <2>3, <2>4 DEF TransportIInv, CallTransportTypeOK
 <2> QED
   BY <2>1, <2>2, <2>3, <2>4 DEF TransportIInv, CallTransportTypeOK,
      WireOnAir, SetterAims, SetterKnows, RateSettled, CodecWritten, CodecSettled, Present
<1> QED BY <1>1, <1>2

LEMMA SenderComesAndGoes ==
    ASSUME TransportIInv, BindSender \/ UnbindSender \/ ClearCall
    PROVE  TransportIInv'
<1>1. CASE UnbindSender \/ ClearCall
 <2>1. /\ wire' = NoWire /\ setter' = Idle /\ queued' = FALSE /\ reading' = FALSE /\ due' = FALSE
       /\ slipped' = FALSE /\ unread' = FALSE /\ wish' = wish
   BY <1>1 DEF UnbindSender, ClearCall, LetsGo
 <2>2. /\ hints' \in [MicTrack -> BOOLEAN] /\ HintsFollow'
       /\ callOn' \in BOOLEAN /\ onAir' \in MicTrack \union {NoWire}
   BY <1>1 DEF UnbindSender, ClearCall, LetsGo, TransportIInv, CallTransportTypeOK, HintsFollow
 <2>3. Idle \in Setter /\ Idle.step = "none" BY DEF Idle, Setter
 <2>4. CallTransportTypeOK' BY <2>1, <2>2, <2>3 DEF TransportIInv, CallTransportTypeOK
 <2> QED
   BY <2>1, <2>2, <2>3, <2>4 DEF TransportIInv, WireOnAir, SetterAims, SetterKnows, RateSettled, CodecWritten,
      CodecSettled, Present
<1>2. CASE BindSender
 <2>1. NewWire \in Wire /\ wish.codec \in Codec \union {AUTO}
   BY DEF NewWire, Wire, Shown, TransportIInv, CallTransportTypeOK
 <2>2. wire' = PrefersCodec(NewWire, wish.codec) BY <1>2 DEF BindSender
 <2>3. /\ wire' \in Wire /\ ~wire'.ready /\ ~wire'.managed /\ wire'.rate = AUTO /\ wire'.used = AUTO
       /\ wire'.intent = IF wish.codec \in Lacked THEN AUTO ELSE wish.codec
   BY <2>1, <2>2, PreferenceWritten DEF NewWire
 <2>4. CallTransportTypeOK' BY <1>2, <2>3 DEF BindSender, TransportIInv, CallTransportTypeOK
 <2>5. UNCHANGED <<wish, setter, hints, onAir, callOn>> /\ onAir \in MicTrack /\ setter.step = "none"
   BY <1>2 DEF BindSender, TransportIInv, CallTransportTypeOK, WireOnAir
 <2> QED
   BY <2>3, <2>4, <2>5, CallTransportAssumption DEF TransportIInv, WireOnAir,
      SetterAims, SetterKnows, RateSettled, CodecWritten, CodecSettled, HintsFollow, Present
<1> QED BY <1>1, <1>2

LEMMA CodecIsSettled ==
    ASSUME TransportIInv, Negotiated \/ CodecRead
    PROVE  TransportIInv'
<1>1. CASE Negotiated
 <2>1. PICK c \in (Codec \ Lacked) \union {AUTO} : wire' = [wire EXCEPT !.ready = TRUE, !.used = c]
   BY <1>1 DEF Negotiated
 <2>2. wire \in Wire /\ c \in Codec \union {AUTO} /\ c \notin Lacked
   BY <1>1, CallTransportAssumption DEF Negotiated, TransportIInv, CallTransportTypeOK
 <2>3. /\ wire' \in Wire /\ wire'.rate = wire.rate /\ wire'.ready /\ wire'.managed = wire.managed
       /\ wire'.shown = wire.shown /\ wire'.effective = wire.effective /\ wire'.used = c
       /\ wire'.intent = wire.intent
   BY <2>1, <2>2 DEF Wire
 <2>4. /\ setter' \in Setter /\ ~setter'.live /\ queued' = TRUE
       /\ setter'.step = setter.step /\ setter'.before = setter.before
   BY <1>1, OutOfDate DEF Negotiated
 <2>5. /\ due' = FALSE /\ UNCHANGED <<wish, hints, onAir, callOn, slipped>>
       /\ reading' = (reading \/ callOn) /\ unread' = IF callOn THEN FALSE ELSE unread
   BY <1>1 DEF Negotiated
 <2>6. CallTransportTypeOK' BY <2>3, <2>4, <2>5 DEF TransportIInv, CallTransportTypeOK
 <2>7. WireOnAir' /\ SetterAims' /\ SetterKnows' /\ RateSettled'
   BY <2>2, <2>3, <2>4, <2>5, CallTransportAssumption
   DEF TransportIInv, WireOnAir, SetterAims, SetterKnows, RateSettled, Present
 <2>8. CodecWritten' /\ CodecSettled' /\ HintsFollow'
   BY <2>2, <2>3, <2>4, <2>5, CallTransportAssumption
   DEF TransportIInv, CodecWritten, CodecSettled, HintsFollow, Present
 <2> QED BY <2>6, <2>7, <2>8 DEF TransportIInv
<1>2. CASE CodecRead
 <2>1. reading' = FALSE /\ UNCHANGED <<wish, setter, queued, due, hints, onAir, callOn, slipped>>
   BY <1>2 DEF CodecRead
 <2>2. CASE UNCHANGED wire /\ unread' = TRUE
  <3>1. CallTransportTypeOK' BY <2>1, <2>2 DEF TransportIInv, CallTransportTypeOK
  <3>2. WireOnAir' /\ SetterAims' /\ SetterKnows' /\ RateSettled'
    BY <2>1, <2>2 DEF TransportIInv, WireOnAir, SetterAims, SetterKnows, RateSettled, Present
  <3>3. CodecWritten' /\ CodecSettled' /\ HintsFollow'
    BY <2>1, <2>2 DEF TransportIInv, CodecWritten, CodecSettled, HintsFollow, Present
  <3> QED BY <3>1, <3>2, <3>3 DEF TransportIInv
 <2>3. CASE /\ Present /\ unread' = FALSE
            /\ wire' = [wire EXCEPT !.codecShown =
                          IF wish.codec \in {AUTO, wire.used} THEN "applied" ELSE "unavailable"]
  <3>1. wire \in Wire BY <2>3 DEF TransportIInv, CallTransportTypeOK, Present
  <3>2. PICK says \in Shown : /\ wire' = [wire EXCEPT !.codecShown = says]
                               /\ says = IF wish.codec \in {AUTO, wire.used} THEN "applied" ELSE "unavailable"
    BY <2>3 DEF Shown
  <3>3. /\ wire' \in Wire /\ wire'.rate = wire.rate /\ wire'.ready = wire.ready
        /\ wire'.managed = wire.managed /\ wire'.shown = wire.shown /\ wire'.effective = wire.effective
        /\ wire'.used = wire.used /\ wire'.intent = wire.intent /\ wire'.codecShown = says
    BY <3>1, <3>2 DEF Wire
  <3>4. CallTransportTypeOK' BY <2>1, <2>3, <3>3 DEF TransportIInv, CallTransportTypeOK
  <3>5. WireOnAir' /\ SetterAims' /\ SetterKnows' /\ RateSettled'
    BY <2>1, <2>3, <3>1, <3>3, CallTransportAssumption
    DEF TransportIInv, WireOnAir, SetterAims, SetterKnows, RateSettled, Present
  <3>6. CodecWritten' /\ CodecSettled' /\ HintsFollow'
    BY <2>1, <2>3, <3>1, <3>2, <3>3, CallTransportAssumption
    DEF TransportIInv, CodecWritten, CodecSettled, HintsFollow, Present
  <3> QED BY <3>4, <3>5, <3>6 DEF TransportIInv
 <2> QED BY <1>2, <2>2, <2>3 DEF CodecRead
<1> QED BY <1>1, <1>2

\* The steps of one application write the sender's parameter and what is shown of it, nothing else.
WritesRate ==
    /\ UNCHANGED <<wish, reading, due, hints, onAir, callOn, unread>>
    /\ wire \in Wire /\ wire' \in Wire
    /\ wire'.ready = wire.ready /\ wire'.intent = wire.intent /\ wire'.used = wire.used
    /\ wire'.codecShown = wire.codecShown
    /\ setter' \in Setter /\ {queued', slipped'} \subseteq BOOLEAN

LEMMA RestStands ==
    ASSUME TransportIInv, WritesRate
    PROVE  /\ CallTransportTypeOK' /\ CodecWritten' /\ CodecSettled' /\ HintsFollow'
           /\ WireOnAir'
<1>1. CallTransportTypeOK' BY DEF TransportIInv, CallTransportTypeOK, WritesRate
<1>2. wire # NoWire /\ wire' # NoWire BY CallTransportAssumption DEF WritesRate
<1>3. CodecWritten' /\ CodecSettled' BY <1>2 DEF TransportIInv, CodecWritten, CodecSettled, Present, WritesRate
<1>4. HintsFollow' /\ WireOnAir' BY <1>2 DEF TransportIInv, HintsFollow, WireOnAir, WritesRate
<1> QED BY <1>1, <1>3, <1>4

LEMMA RateSteps ==
    ASSUME TransportIInv, WritesRate, SetterAims', SetterKnows', RateSettled'
    PROVE  TransportIInv'
BY RestStands DEF TransportIInv

LEMMA RateApplied ==
    ASSUME TransportIInv, ApplySender
    PROVE  TransportIInv'
<1>1. /\ setter.step = "none" /\ queued' = FALSE
      /\ UNCHANGED <<wish, reading, due, hints, onAir, callOn, slipped, unread>>
  BY DEF ApplySender
<1>2. CASE (~Present \/ ~wire.ready) /\ UNCHANGED <<wire, setter>>
  BY <1>1, <1>2 DEF TransportIInv, CallTransportTypeOK, WireOnAir, SetterAims, SetterKnows, RateSettled,
     CodecWritten, CodecSettled, HintsFollow, Present
<1>3. CASE /\ Present /\ wire.ready /\ wish.rate = AUTO /\ ~wire.managed
           /\ wire' = [wire EXCEPT !.shown = "applied", !.effective = wire.rate] /\ UNCHANGED setter
 <2>1. wire \in Wire BY <1>3 DEF TransportIInv, CallTransportTypeOK, Present
 <2>2. WritesRate /\ wire'.rate = wire.rate /\ wire'.managed = wire.managed /\ wire'.shown = "applied"
       /\ wire'.effective = wire.rate
   BY <1>1, <1>3, <2>1 DEF WritesRate, Wire, Shown, TransportIInv, CallTransportTypeOK
 <2>3. SetterAims' /\ SetterKnows' /\ RateSettled'
   BY <1>1, <1>3, <2>1, <2>2, CallTransportAssumption
   DEF TransportIInv, SetterAims, SetterKnows, RateSettled, Present
 <2> QED BY <2>2, <2>3, RateSteps
<1>4. CASE /\ Present /\ wire.ready /\ (wish.rate # AUTO \/ wire.managed)
           /\ wire' = [wire EXCEPT !.shown = "pending"]
           /\ setter' = [step |-> "set", target |-> wish.rate, before |-> wire.rate, live |-> TRUE]
 <2>1. wire \in Wire BY <1>4 DEF TransportIInv, CallTransportTypeOK, Present
 <2>2. wire' \in Wire /\ wire'.rate = wire.rate /\ wire'.managed = wire.managed /\ wire'.ready = wire.ready
       /\ wire'.intent = wire.intent /\ wire'.used = wire.used /\ wire'.codecShown = wire.codecShown
   BY <1>4, <2>1 DEF Wire, Shown
 <2>3. setter' \in Setter /\ setter'.step = "set" /\ setter'.target = wish.rate /\ setter'.before = wire.rate
       /\ setter'.live
   BY <1>4, <2>1 DEF Setter, Wire, TransportIInv, CallTransportTypeOK
 <2>4. WritesRate BY <1>1, <2>1, <2>2, <2>3 DEF WritesRate, TransportIInv, CallTransportTypeOK
 <2>5. SetterAims' /\ SetterKnows' /\ RateSettled'
   BY <1>1, <1>4, <2>1, <2>2, <2>3, CallTransportAssumption
   DEF TransportIInv, SetterAims, SetterKnows, RateSettled, Present
 <2> QED BY <2>4, <2>5, RateSteps
<1> QED BY <1>2, <1>3, <1>4 DEF ApplySender

\* An application under way has a sender.
LEMMA SenderOfStep ==
    ASSUME TransportIInv, setter.step # "none"
    PROVE  wire \in Wire /\ wire # NoWire /\ wire.rate \in Rate \union {AUTO}
           /\ setter \in Setter /\ setter.target \in Rate \union {AUTO} /\ setter.before \in Rate \union {AUTO}
BY DEF TransportIInv, WireOnAir, CallTransportTypeOK, Wire, Setter

LEMMA EndsIdle == Idle \in Setter /\ Idle.step = "none"
BY DEF Idle, Setter

LEMMA StepTaken ==
    ASSUME setter \in Setter, NEW step \in {"restore", "rollback"}, Step(step)
    PROVE  setter' \in Setter /\ setter'.step = step /\ setter'.target = setter.target
           /\ setter'.before = setter.before /\ setter'.live = setter.live
BY DEF Step, Setter

LEMMA RateAnswered ==
    ASSUME TransportIInv, SetAnswered
    PROVE  TransportIInv'
<1>1. /\ setter.step = "set" /\ UNCHANGED <<wish, queued, reading, due, hints, onAir, callOn, unread>>
  BY DEF SetAnswered
<1>2. /\ wire \in Wire /\ wire # NoWire /\ wire.rate \in Rate \union {AUTO}
      /\ setter \in Setter /\ setter.target \in Rate \union {AUTO} /\ setter.before = wire.rate
  BY <1>1, SenderOfStep DEF TransportIInv, SetterKnows
<1>3. PICK kept \in BOOLEAN :
        LET rate == IF kept THEN setter.target ELSE wire.rate
            exact == rate = setter.target
        IN  IF ~InForce
            THEN /\ setter' = Idle /\ wire' = [wire EXCEPT !.rate = rate]
                 /\ slipped' = (slipped \/ (~wire.managed /\ rate # AUTO))
            ELSE /\ wire' = [wire EXCEPT !.rate = rate, !.managed = TRUE, !.effective = rate,
                                         !.shown = IF exact THEN "applied" ELSE "unavailable"]
                 /\ IF exact THEN setter' = Idle ELSE Step("restore")
                 /\ slipped' = FALSE
  BY DEF SetAnswered
<1>4. PICK rate \in Rate \union {AUTO} : rate = IF kept THEN setter.target ELSE wire.rate BY <1>2
<1>5. CASE ~InForce
 <2>1. setter' = Idle /\ wire' = [wire EXCEPT !.rate = rate]
       /\ slipped' = (slipped \/ (~wire.managed /\ rate # AUTO))
   BY <1>3, <1>4, <1>5
 <2>2. WritesRate /\ wire'.managed = wire.managed /\ wire'.rate = rate
   BY <1>1, <1>2, <2>1, EndsIdle DEF WritesRate, Wire, TransportIInv, CallTransportTypeOK
 <2>3. setter'.step = "none" /\ (Present /\ wire.ready => queued)
   BY <1>1, <1>5, <2>1, EndsIdle DEF TransportIInv, SetterAims, InForce
 <2>4. wire'.ready = wire.ready /\ callOn' = callOn BY <2>2 DEF WritesRate
 <2>5. SetterAims' /\ RateSettled' BY <1>1, <1>2, <2>3, <2>4 DEF SetterAims, RateSettled, Present
 <2>6. ~wire.managed => wire.rate = AUTO \/ slipped BY <1>2 DEF TransportIInv, SetterKnows
 <2>7. SetterKnows' BY <2>1, <2>2, <2>3, <2>6 DEF SetterKnows
 <2> QED BY <2>2, <2>5, <2>7, RateSteps
<1>6. CASE InForce
 <2>1. PICK says \in Shown :
         /\ says = IF rate = setter.target THEN "applied" ELSE "unavailable"
         /\ wire' = [wire EXCEPT !.rate = rate, !.managed = TRUE, !.effective = rate, !.shown = says]
   BY <1>3, <1>4, <1>6 DEF Shown
 <2>2. (IF rate = setter.target THEN setter' = Idle ELSE Step("restore")) /\ slipped' = FALSE
   BY <1>3, <1>4, <1>6
 <2>3. wire' \in Wire /\ wire'.rate = rate /\ wire'.managed /\ wire'.effective = rate /\ wire'.shown = says
       /\ wire'.ready = wire.ready /\ wire'.intent = wire.intent /\ wire'.used = wire.used
       /\ wire'.codecShown = wire.codecShown
   BY <1>2, <1>4, <2>1 DEF Wire
 <2>4. setter.target = wish.rate /\ wire.ready /\ setter.live /\ Present
   BY <1>1, <1>6 DEF TransportIInv, SetterAims, InForce
 <2>5. CASE rate = setter.target
  <3>1. setter' \in Setter /\ setter'.step = "none" BY <2>2, <2>5, EndsIdle
  <3>2. WritesRate BY <1>1, <1>2, <2>2, <2>3, <3>1 DEF WritesRate, TransportIInv, CallTransportTypeOK
  <3>3. SetterAims' /\ SetterKnows' /\ RateSettled'
    BY <1>1, <1>4, <2>1, <2>3, <2>4, <2>5, <3>1 DEF SetterAims, SetterKnows, RateSettled, Present
  <3> QED BY <3>2, <3>3, RateSteps
 <2>6. CASE rate # setter.target
  <3>1. setter' \in Setter /\ setter'.step = "restore" /\ setter'.target = setter.target
        /\ setter'.live
    BY <1>2, <2>2, <2>4, <2>6, StepTaken
  <3>2. WritesRate BY <1>1, <1>2, <2>2, <2>3, <3>1 DEF WritesRate, TransportIInv, CallTransportTypeOK
  <3>3. SetterAims' /\ SetterKnows' /\ RateSettled'
    BY <1>1, <1>4, <2>1, <2>3, <2>4, <2>6, <3>1 DEF SetterAims, SetterKnows, RateSettled, Present
  <3> QED BY <3>2, <3>3, RateSteps
 <2> QED BY <2>5, <2>6
<1> QED BY <1>5, <1>6

LEMMA RateFails ==
    ASSUME TransportIInv, SetFails \/ SetTimesOut
    PROVE  TransportIInv'
<1>1. setter.step \in {"set", "rollback"} /\ UNCHANGED <<wish, queued, reading, due, hints, onAir, callOn, slipped, unread>>
  BY DEF SetFails, SetTimesOut
<1>2. wire \in Wire /\ wire # NoWire /\ setter \in Setter /\ setter.before = wire.rate
  BY <1>1, SenderOfStep DEF TransportIInv, SetterKnows
<1>3. CASE InForce
 <2>1. wire' = [wire EXCEPT !.shown = "failed"] BY <1>3 DEF SetFails, SetTimesOut
 <2>2. wire' \in Wire /\ wire'.rate = wire.rate /\ wire'.managed = wire.managed /\ wire'.ready = wire.ready
       /\ wire'.intent = wire.intent /\ wire'.used = wire.used /\ wire'.codecShown = wire.codecShown
       /\ wire'.shown = "failed"
   BY <1>2, <2>1 DEF Wire, Shown
 <2>3. /\ setter' \in Setter /\ setter'.step \in {"set", "rollback"} /\ setter'.before = setter.before
       /\ setter'.live = setter.live /\ setter'.target = setter.target
   BY <1>1, <1>2, <1>3, StepTaken DEF SetFails, SetTimesOut
 <2>4. WritesRate BY <1>1, <1>2, <2>2, <2>3 DEF WritesRate, TransportIInv, CallTransportTypeOK
 <2>5. SetterAims' /\ SetterKnows' /\ RateSettled'
   BY <1>1, <1>2, <1>3, <2>2, <2>3 DEF TransportIInv, SetterAims, SetterKnows, RateSettled, Present, InForce
 <2> QED BY <2>4, <2>5, RateSteps
<1>4. CASE ~InForce
 <2>1. UNCHANGED wire /\ setter' \in Setter /\ setter'.step = "none" BY <1>4, EndsIdle DEF SetFails, SetTimesOut
 <2>2. WritesRate BY <1>1, <1>2, <2>1 DEF WritesRate, TransportIInv, CallTransportTypeOK
 <2>3. SetterAims' /\ SetterKnows' /\ RateSettled'
   BY <1>1, <1>2, <1>4, <2>1 DEF TransportIInv, SetterAims, SetterKnows, RateSettled, Present, InForce
 <2> QED BY <2>2, <2>3, RateSteps
<1> QED BY <1>3, <1>4

LEMMA RateRestored ==
    ASSUME TransportIInv, TakenBack
    PROVE  TransportIInv'
<1>1. /\ setter.step \in {"restore", "rollback"} /\ setter' = Idle
      /\ UNCHANGED <<wish, queued, reading, due, hints, onAir, callOn, slipped, unread>>
  BY DEF TakenBack
<1>2. /\ wire \in Wire /\ wire # NoWire /\ wire.rate \in Rate \union {AUTO}
      /\ setter \in Setter /\ setter.before \in Rate \union {AUTO}
  BY <1>1, SenderOfStep
<1>3. PICK done \in BOOLEAN :
        LET rate == IF done THEN setter.before ELSE wire.rate
            says == IF done /\ setter.step = "restore" THEN "unavailable" ELSE "failed"
        IN  wire' = IF InForce THEN [wire EXCEPT !.rate = rate, !.shown = says,
                                        !.effective = IF says = "failed" THEN @ ELSE rate]
                    ELSE [wire EXCEPT !.rate = rate]
  BY DEF TakenBack
<1>4. PICK rate \in Rate \union {AUTO} : rate = IF done THEN setter.before ELSE wire.rate BY <1>2
<1>5. ~wire.managed => rate = AUTO \/ slipped BY <1>1, <1>2, <1>4 DEF TransportIInv, SetterKnows
<1>6. PICK says \in {"unavailable", "failed"} :
        says = IF done /\ setter.step = "restore" THEN "unavailable" ELSE "failed"
  OBVIOUS
<1>7. /\ wire' \in Wire /\ wire'.rate = rate /\ wire'.managed = wire.managed /\ wire'.ready = wire.ready
      /\ wire'.intent = wire.intent /\ wire'.used = wire.used /\ wire'.codecShown = wire.codecShown
      /\ InForce => wire'.shown \in {"unavailable", "failed"}
 <2>1. CASE InForce
  <3>1. PICK effective \in Rate \union {AUTO} : effective = IF says = "failed" THEN wire.effective ELSE rate
    BY <1>2, <1>4 DEF Wire
  <3>2. wire' = [wire EXCEPT !.rate = rate, !.shown = says, !.effective = effective]
    BY <1>3, <1>4, <1>6, <2>1, <3>1
  <3>3. wire \in Wire /\ rate \in Rate \union {AUTO} /\ says \in Shown BY <1>2, <1>4, <1>6 DEF Shown
  <3>4. wire' \in Wire BY ONLY <3>1, <3>2, <3>3 DEF Wire
  <3>5. /\ wire'.rate = rate /\ wire'.managed = wire.managed /\ wire'.ready = wire.ready
        /\ wire'.intent = wire.intent /\ wire'.used = wire.used /\ wire'.codecShown = wire.codecShown
        /\ wire'.shown = says
    BY ONLY <3>2, <3>3 DEF Wire
  <3> QED BY <1>6, <3>4, <3>5
 <2>2. CASE ~InForce
  <3>1. wire' = [wire EXCEPT !.rate = rate] BY <1>3, <1>4, <2>2
  <3> QED BY <1>2, <1>4, <2>2, <3>1 DEF Wire
 <2> QED BY <2>1, <2>2
<1>8. setter' \in Setter /\ setter'.step = "none" BY <1>1, EndsIdle
<1>9. WritesRate BY <1>1, <1>2, <1>7, <1>8 DEF WritesRate, TransportIInv, CallTransportTypeOK
<1>10. ~InForce /\ Present => queued BY <1>1 DEF TransportIInv, SetterAims, InForce
<1>11. SetterAims' /\ SetterKnows' /\ RateSettled'
  BY <1>1, <1>2, <1>5, <1>7, <1>8, <1>10 DEF SetterAims, SetterKnows, RateSettled, Present, InForce
<1> QED BY <1>9, <1>11, RateSteps

\* The invariant is inductive.
THEOREM TransportInductive == CallTransportSpec => []TransportIInv
<1>1. ASSUME TransportIInv, [CallTransportNext]_transportVars
      PROVE  TransportIInv'
 <2>1. CASE UNCHANGED transportVars
   BY <1>1, <2>1 DEF transportVars, TransportIInv, CallTransportTypeOK, WireOnAir, SetterAims, SetterKnows,
      RateSettled, CodecWritten, CodecSettled, HintsFollow, Present
 <2>2. CASE CallTransportNext
   BY <1>1, <2>2, WishChanges, TracksChange, SenderComesAndGoes, CodecIsSettled, RateApplied, RateAnswered, RateFails, RateRestored
   DEF CallTransportNext
 <2> QED BY <1>1, <2>1, <2>2
<1> QED BY <1>1, TransportBegins, PTL DEF CallTransportSpec

\* When nothing is under way on a sender, what is shown of the wishes is so (callTransport.ts).
THEOREM TransportSettlesAlways == CallTransportSpec => []TransportSettles
<1>1. TransportIInv => TransportSettles
  BY DEF TransportIInv, RateSettled, CodecSettled, HintsFollow, TransportSettles, TransportQuiet
<1> QED BY <1>1, TransportInductive, PTL

------------------------------------------------------------
(* SoundCues                                                               *)

\* What waits is of this session, and tones have a timer that ends them.
CueIInv ==
    /\ SoundTypeOK /\ CuesAreTimely
    /\ ~waitingCue.old
    /\ timer = Off => tone = 0

CueWaits == [cue : Cue \cup {"none"}, age : 0 .. Expiry + 1, old : BOOLEAN]
CueStarted == [cue : Cue \cup {"none"}, age : 0 .. Expiry + 1, old : BOOLEAN, gap : 0 .. Coalesce, alone : BOOLEAN]

\* What every operation on the cues leaves behind.
CuesLeft ==
    /\ timer' \in Off .. (Coalesce + CueLength) /\ tone' \in 0 .. CueLength /\ sinceRemote' \in 0 .. Coalesce
    /\ waitingCue' \in CueWaits /\ ~waitingCue'.old /\ (waitingCue' # NoCue => timer' # Off)
    /\ started' \in CueStarted /\ started'.age <= Expiry /\ ~started'.old /\ started'.alone
    /\ started'.cue = "remote" => started'.gap = Coalesce
    /\ timer' = Off => tone' = 0

LEMMA EmptyCue == NoCue \in CueWaits /\ ~NoCue.old /\ NoCue.cue = "none"
BY SoundAssumption DEF NoCue, CueWaits, Cue

LEMMA CuesNow ==
    ASSUME CueIInv
    PROVE  /\ timer \in Off .. (Coalesce + CueLength) /\ tone \in 0 .. CueLength /\ sinceRemote \in 0 .. Coalesce
           /\ waitingCue \in CueWaits /\ started \in CueStarted
           /\ timer \in Int /\ tone \in Int /\ sinceRemote \in Int
BY SoundAssumption DEF CueIInv, SoundTypeOK, CueWaits, CueStarted, Off

LEMMA CuesStay ==
    ASSUME CueIInv, UNCHANGED cueVars
    PROVE  CuesLeft
BY CuesNow DEF CueIInv, CuesAreTimely, cueVars, CuesLeft

\* The rest of the state, and the sound of what is off.
SettingsLeft ==
    /\ {playable', interacted', configured', applying', resuming'} \subseteq BOOLEAN
    /\ soundContext' \in {"none", "running", "suspended", "closed"}
    /\ tone' > 0 => soundContext' = "running" /\ (playable' \/ timer' = 0)

LEMMA CueSteps ==
    ASSUME CuesLeft, SettingsLeft
    PROVE  CueIInv'
BY DEF CuesLeft, SettingsLeft, CueIInv, SoundTypeOK, CuesAreTimely, CueWaits, CueStarted

LEMMA CuesEnd ==
    ASSUME CueIInv, NEW fade \in BOOLEAN, CancelSession(fade)
    PROVE  CuesLeft /\ (tone' > 0 => fade /\ soundContext = "running" /\ timer' = 0)
<1>1. waitingCue' = NoCue /\ UNCHANGED <<sinceRemote, started>>
      /\ \/ fade /\ soundContext = "running" /\ tone > 0 /\ tone' = 1 /\ timer' = 0
         \/ tone' = 0 /\ timer' = Off
  BY DEF CancelSession, StopTones, DropsWaiting
<1>2. timer' \in Off .. (Coalesce + CueLength) /\ tone' \in 0 .. CueLength
      /\ (tone' > 0 => fade /\ soundContext = "running" /\ timer' = 0) /\ (timer' = Off => tone' = 0)
  BY <1>1, CuesNow, SoundAssumption DEF Off
<1>3. waitingCue' \in CueWaits /\ ~waitingCue'.old BY <1>1, EmptyCue
<1> QED BY <1>1, <1>2, <1>3, CuesNow DEF CuesLeft, CueIInv, CuesAreTimely

LEMMA CueStarts ==
    ASSUME CueIInv, NEW event \in CueWaits, StartCue(event), ~event.old, event.age <= Expiry,
           tone = 0 \/ timer = 0, event.cue = "remote" => sinceRemote = Coalesce
    PROVE  CuesLeft
<1>1. sinceRemote' \in 0 .. Coalesce BY CuesNow, SoundAssumption DEF StartCue
<1>2. CASE /\ tone' \in 1 .. CueLength /\ timer' = tone' /\ waitingCue' = NoCue
           /\ started' = [cue |-> event.cue, age |-> event.age, old |-> event.old, gap |-> sinceRemote,
                          alone |-> tone = 0 \/ timer = 0]
 <2>1. timer' \in Off .. (Coalesce + CueLength) /\ tone' \in 0 .. CueLength /\ timer' # Off
   BY <1>2, SoundAssumption DEF Off
 <2>2. waitingCue' \in CueWaits /\ ~waitingCue'.old BY <1>2, EmptyCue
 <2>3. PICK alone \in BOOLEAN : alone = (tone = 0 \/ timer = 0) OBVIOUS
 <2>4. started' \in CueStarted /\ started'.age <= Expiry /\ ~started'.old /\ started'.alone
       /\ (started'.cue = "remote" => started'.gap = Coalesce)
   BY <1>2, <2>3, CuesNow DEF CueStarted, CueWaits
 <2> QED BY <1>1, <2>1, <2>2, <2>4 DEF CuesLeft
<1>3. CASE StopTones /\ waitingCue' = DropsWaiting /\ UNCHANGED started
 <2>1. tone' = 0 /\ timer' = Off /\ waitingCue' = NoCue /\ started' = started
   BY <1>3 DEF StopTones, DropsWaiting
 <2>2. timer' \in Off .. (Coalesce + CueLength) /\ tone' \in 0 .. CueLength BY <2>1, SoundAssumption DEF Off
 <2> QED BY <1>1, <2>1, <2>2, EmptyCue, CuesNow DEF CuesLeft, CueIInv, CuesAreTimely
<1> QED BY <1>2, <1>3 DEF StartCue

LEMMA CueIsTaken ==
    ASSUME CueIInv, NEW cue \in Cue, TakesCue(cue)
    PROVE  CuesLeft
<1>1. CueEvent(cue) \in CueWaits /\ ~CueEvent(cue).old /\ CueEvent(cue).age = 0 /\ CueEvent(cue).cue = cue
  BY SoundAssumption DEF CueEvent, CueWaits
<1>2. CASE /\ timer # Off /\ waitingCue' = IF TakesPlace(cue) THEN CueEvent(cue) ELSE waitingCue
           /\ UNCHANGED <<timer, tone, sinceRemote, started>>
 <2>1. waitingCue' \in CueWaits /\ ~waitingCue'.old BY <1>1, <1>2, CuesNow DEF CueIInv
 <2> QED BY <1>2, <2>1, CuesNow DEF CuesLeft, CueIInv, CuesAreTimely
<1>3. CASE /\ timer = Off /\ cue = "remote" /\ sinceRemote < Coalesce
           /\ waitingCue' = CueEvent(cue) /\ timer' = Coalesce - sinceRemote /\ UNCHANGED <<tone, sinceRemote, started>>
 <2>1. timer' \in Off .. (Coalesce + CueLength) /\ timer' # Off BY <1>3, CuesNow, SoundAssumption DEF Off
 <2> QED BY <1>1, <1>3, <2>1, CuesNow DEF CuesLeft, CueIInv, CuesAreTimely
<1>4. CASE timer = Off /\ (cue = "local" \/ sinceRemote = Coalesce) /\ StartCue(CueEvent(cue))
 <2>1. tone = 0 /\ CueEvent(cue).age <= Expiry /\ (CueEvent(cue).cue = "remote" => sinceRemote = Coalesce)
   BY <1>1, <1>4, SoundAssumption DEF CueIInv
 <2> QED BY <1>1, <1>4, <2>1, CueStarts
<1> QED BY <1>2, <1>3, <1>4 DEF TakesCue

LEMMA PlayKeeps ==
    ASSUME CueIInv, NEW cue \in Cue, Play(cue)
    PROVE  CueIInv'
<1>1. playable /\ UNCHANGED <<playable, interacted, configured>> BY DEF Play, Audible
<1>2. {playable, interacted, configured, applying, resuming} \subseteq BOOLEAN
      /\ soundContext \in {"none", "running", "suspended", "closed"}
      /\ (tone > 0 => soundContext = "running")
  BY DEF CueIInv, SoundTypeOK, CuesAreTimely
<1>3. CASE soundContext = "none" /\ configured /\ applying' = TRUE /\ UNCHANGED <<soundContext, resuming, cueVars>>
 <2>1. CuesLeft BY <1>3, CuesStay
 <2>2. SettingsLeft BY <1>1, <1>2, <1>3 DEF SettingsLeft, cueVars
 <2> QED BY <2>1, <2>2, CueSteps
<1>4. CASE soundContext' = "running" /\ TakesCue(cue) /\ UNCHANGED <<resuming, applying>>
 <2>1. CuesLeft BY <1>4, CueIsTaken
 <2>2. SettingsLeft BY <1>1, <1>2, <1>4 DEF SettingsLeft
 <2> QED BY <2>1, <2>2, CueSteps
<1>5. CASE /\ CancelSession(FALSE) /\ soundContext' \in {"suspended", "closed"}
           /\ {resuming', applying'} \subseteq BOOLEAN
 <2>1. CuesLeft /\ ~(tone' > 0) BY <1>5, CuesEnd
 <2>2. SettingsLeft BY <1>1, <1>2, <1>5, <2>1 DEF SettingsLeft
 <2> QED BY <2>1, <2>2, CueSteps
<1> QED BY <1>2, <1>3, <1>4, <1>5 DEF Play

LEMMA CueFinishes ==
    ASSUME CueIInv, FinishCue
    PROVE  CueIInv'
<1> DEFINE sounding == playable /\ soundContext = "running"
           delay == IF waitingCue.cue = "remote" THEN Coalesce - sinceRemote ELSE 0
<1>1. timer = 0 /\ UNCHANGED <<settingVars, resuming, soundContext>> BY DEF FinishCue
<1>2. {playable, interacted, configured, applying, resuming} \subseteq BOOLEAN
      /\ soundContext \in {"none", "running", "suspended", "closed"}
  BY DEF CueIInv, SoundTypeOK
<1>3. CASE (~sounding \/ ~Fresh(waitingCue)) /\ StopTones /\ waitingCue' = NoCue /\ UNCHANGED <<sinceRemote, started>>
 <2>1. tone' = 0 /\ timer' = Off /\ tone' \in 0 .. CueLength /\ timer' \in Off .. (Coalesce + CueLength)
   BY <1>3, SoundAssumption DEF StopTones, Off
 <2>2. CuesLeft BY <1>3, <2>1, EmptyCue, CuesNow DEF CuesLeft, CueIInv, CuesAreTimely
 <2>3. SettingsLeft BY <1>1, <1>2, <2>1 DEF SettingsLeft, settingVars
 <2> QED BY <2>2, <2>3, CueSteps
<1>4. CASE sounding /\ delay > 0 /\ tone' = 0 /\ timer' = delay /\ UNCHANGED <<waitingCue, sinceRemote, started>>
 <2>1. tone' = 0 /\ timer' # Off /\ tone' \in 0 .. CueLength /\ timer' \in Off .. (Coalesce + CueLength)
   BY <1>4, CuesNow, SoundAssumption DEF Off
 <2>2. CuesLeft BY <1>4, <2>1, CuesNow DEF CuesLeft, CueIInv, CuesAreTimely
 <2>3. SettingsLeft BY <1>1, <1>2, <2>1 DEF SettingsLeft, settingVars
 <2> QED BY <2>2, <2>3, CueSteps
<1>5. CASE sounding /\ Fresh(waitingCue) /\ ~(delay > 0) /\ StartCue(waitingCue)
 <2>1. waitingCue.cue = "remote" => sinceRemote = Coalesce BY <1>5, CuesNow, SoundAssumption
 <2>2. waitingCue \in CueWaits /\ ~waitingCue.old /\ waitingCue.age <= Expiry
   BY <1>5, CuesNow DEF CueIInv, Fresh
 <2>3. CuesLeft BY <1>1, <1>5, <2>1, <2>2, CueStarts
 <2>4. SettingsLeft BY <1>1, <1>2, <1>5 DEF SettingsLeft, settingVars
 <2> QED BY <2>3, <2>4, CueSteps
<1> QED BY <1>3, <1>4, <1>5 DEF FinishCue

LEMMA TickKeeps ==
    ASSUME CueIInv, Tick
    PROVE  CueIInv'
<1>1. /\ timer' = Down(timer) /\ tone' = Down(tone) /\ sinceRemote' = Least(sinceRemote + 1, Coalesce)
      /\ UNCHANGED <<settingVars, resuming, soundContext, started>>
  BY DEF Tick
<1>2. timer' \in Off .. (Coalesce + CueLength) /\ tone' \in 0 .. CueLength
      /\ (timer' = Off => timer = Off) /\ (tone' > 0 => tone > 0) /\ (timer = 0 => timer' = 0)
      /\ (tone = 0 => tone' = 0)
  BY <1>1, CuesNow, SoundAssumption DEF Down, Off
<1>3. sinceRemote' \in 0 .. Coalesce BY <1>1, CuesNow, SoundAssumption DEF Least
<1>4. waitingCue' \in CueWaits /\ ~waitingCue'.old /\ (waitingCue = NoCue => waitingCue' = NoCue)
 <2>1. CASE waitingCue = NoCue BY <2>1, EmptyCue DEF Tick
 <2>2. CASE waitingCue # NoCue
  <3>1. waitingCue \in CueWaits /\ ~waitingCue.old /\ waitingCue.age \in 0 .. Expiry + 1
    BY CuesNow DEF CueIInv, CueWaits
  <3>2. PICK age \in 0 .. Expiry + 1 : age = Least(waitingCue.age + 1, Expiry + 1)
    BY <3>1, SoundAssumption DEF Least
  <3>3. waitingCue' = [waitingCue EXCEPT !.age = age] BY <2>2, <3>2 DEF Tick
  <3> QED BY <2>2, <3>1, <3>3 DEF CueWaits
 <2> QED BY <2>1, <2>2
<1>5. CuesLeft BY <1>1, <1>2, <1>3, <1>4, CuesNow DEF CuesLeft, CueIInv, CuesAreTimely
<1>6. SettingsLeft BY <1>1, <1>2 DEF SettingsLeft, settingVars, CueIInv, SoundTypeOK, CuesAreTimely
<1> QED BY <1>5, <1>6, CueSteps

LEMMA OutputsKeep ==
    ASSUME CueIInv, MarkInteracted \/ Configure \/ CancelVoiceSoundSession \/ OnContextStateChange \/ ResumeEnds
                    \/ SoundOutputApplied \/ OutputFails
    PROVE  CueIInv'
<1>1. /\ {playable, interacted, configured, applying, resuming} \subseteq BOOLEAN
      /\ soundContext \in {"none", "running", "suspended", "closed"}
      /\ tone > 0 => soundContext = "running" /\ (playable \/ timer = 0)
  BY DEF CueIInv, SoundTypeOK, CuesAreTimely
<1>2. {playable', interacted', configured', applying', resuming'} \subseteq BOOLEAN
      /\ soundContext' \in {"none", "running", "suspended", "closed"}
  BY <1>1 DEF MarkInteracted, Configure, CancelVoiceSoundSession, OnContextStateChange, ResumeEnds,
     SoundOutputApplied, OutputFails, settingVars
<1>3. CASE UNCHANGED cueVars /\ (playable => playable') /\ (soundContext = "running" => soundContext' = "running")
 <2>1. CuesLeft BY <1>3, CuesStay
 <2>2. SettingsLeft BY <1>1, <1>2, <1>3 DEF SettingsLeft, cueVars
 <2> QED BY <2>1, <2>2, CueSteps
<1>4. CASE CancelSession(FALSE)
 <2>1. CuesLeft /\ ~(tone' > 0) BY <1>4, CuesEnd
 <2>2. SettingsLeft BY <1>2, <2>1 DEF SettingsLeft
 <2> QED BY <2>1, <2>2, CueSteps
<1>5. CASE CancelSession(TRUE) /\ soundContext' = soundContext
 <2>1. CuesLeft /\ (tone' > 0 => soundContext = "running" /\ timer' = 0) BY <1>5, CuesEnd
 <2>2. SettingsLeft BY <1>2, <1>5, <2>1 DEF SettingsLeft
 <2> QED BY <2>1, <2>2, CueSteps
<1>6. CASE MarkInteracted \/ ResumeEnds \/ OutputFails
  BY <1>3, <1>6 DEF MarkInteracted, ResumeEnds, OutputFails, settingVars
<1>7. CASE Configure
 <2>1. playable' = ~playable /\ soundContext' = soundContext
       /\ IF playable THEN CancelSession(TRUE) ELSE UNCHANGED cueVars
   BY <1>7 DEF Configure
 <2> QED BY <1>3, <1>5, <2>1
<1>8. CASE CancelVoiceSoundSession \/ OnContextStateChange
 <2>1. playable' = playable BY <1>8 DEF CancelVoiceSoundSession, OnContextStateChange, settingVars
 <2>2. CancelSession(FALSE) \/ (UNCHANGED cueVars /\ soundContext' = "running")
   BY <1>8 DEF CancelVoiceSoundSession, OnContextStateChange
 <2> QED BY <1>3, <1>4, <2>1, <2>2
<1>9. CASE SoundOutputApplied BY <1>3, <1>4, <1>9 DEF SoundOutputApplied
<1> QED BY <1>6, <1>7, <1>8, <1>9

\* A cue starts in time, in its session, alone and at its distance, and nothing sounds once the
\* sounds are off but what fades out (voiceSounds.ts).
THEOREM CuesTimely == SoundCuesSpec => []CuesAreTimely
<1>1. SoundCuesInit => CueIInv
 <2> SUFFICES ASSUME SoundCuesInit PROVE CueIInv OBVIOUS
 <2>1. SoundTypeOK
  <3>1. /\ {playable, interacted, configured, applying, resuming} \subseteq BOOLEAN
        /\ soundContext \in {"none", "running", "suspended", "closed"}
    BY DEF SoundCuesInit
  <3>4. timer \in Off .. (Coalesce + CueLength) /\ tone \in 0 .. CueLength /\ sinceRemote \in 0 .. Coalesce
   <4>1. timer = Off /\ tone = 0 /\ sinceRemote = Coalesce BY DEF SoundCuesInit
   <4> QED BY <4>1, SoundAssumption DEF Off
  <3>2. NoCue \in [cue : Cue \cup {"none"}, age : 0 .. Expiry + 1, old : BOOLEAN] BY SoundAssumption DEF NoCue
  <3>3. NeverStarted \in [cue : Cue \cup {"none"}, age : 0 .. Expiry + 1, old : BOOLEAN,
                          gap : 0 .. Coalesce, alone : BOOLEAN]
    BY SoundAssumption DEF NeverStarted
  <3> QED BY <3>1, <3>2, <3>3, <3>4 DEF SoundCuesInit, SoundTypeOK
 <2>2. CuesAreTimely /\ ~waitingCue.old BY SoundAssumption DEF SoundCuesInit, CuesAreTimely, NoCue, NeverStarted
 <2> QED BY <2>1, <2>2 DEF CueIInv, SoundCuesInit
<1>2. ASSUME CueIInv, [SoundCuesNext]_soundVars
      PROVE  CueIInv'
 <2>1. CASE UNCHANGED soundVars BY <1>2, <2>1 DEF soundVars, CueIInv, SoundTypeOK, CuesAreTimely
 <2>2. CASE SoundCuesNext BY <1>2, <2>2, PlayKeeps, CueFinishes, TickKeeps, OutputsKeep DEF SoundCuesNext
 <2> QED BY <1>2, <2>1, <2>2
<1>3. CueIInv => CuesAreTimely BY DEF CueIInv
<1> QED BY <1>1, <1>2, <1>3, PTL DEF SoundCuesSpec
=============================================================================

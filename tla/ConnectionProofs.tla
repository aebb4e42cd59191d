--------------------------- MODULE ConnectionProofs -------------------------
(***************************************************************************)
(* What lasts longer than a request: the drain of GracefulShutdown for     *)
(* every set of connections, the echo of WebSocket for any number of       *)
(* messages and fragments, and the news of SchemaEvents for any number of  *)
(* versions and subscribers.                                               *)
(***************************************************************************)
EXTENDS GracefulShutdown, SchemaEvents, WebSocket, SequenceTheorems, WellFoundedInduction,
        FunctionTheorems, FiniteSetTheorems, TLAPS

-----------------------------------------------------------------------------
(* The drain *)

\* Once the connection tasks are joined none is left, and what the exit severs
\* was not being served.
Joined == server \in {"done", "exited"} => \A c \in Conns : ~Serving(c)
CutUnserved == cut \subseteq Conns \X {"backlog", "upgraded"}
DrainIInv == ShutdownTypeOK /\ Joined /\ CutUnserved

LEMMA DrainStarts == ShutdownInit => DrainIInv
BY DEF ShutdownInit, DrainIInv, ShutdownTypeOK, Joined, CutUnserved, ConnState

\* The steps of the accepting task, and of the signal.
LEMMA ServerStep ==
    ASSUME DrainIInv, Signal \/ StopAccepting \/ Drained \/ Exit
    PROVE  DrainIInv'
<1> USE DEF DrainIInv
<1>1. CASE Signal
  BY <1>1 DEF Signal, ShutdownTypeOK, Joined, CutUnserved, Serving
<1>2. CASE StopAccepting
  BY <1>2 DEF StopAccepting, ShutdownTypeOK, Joined, CutUnserved, Serving
<1>3. CASE Drained
  BY <1>3 DEF Drained, ShutdownTypeOK, Joined, CutUnserved, Serving
<1>4. CASE Exit
  <2>1. \A c \in Conns : conn[c] \notin {"none", "closed"} => conn[c] \in {"backlog", "upgraded"}
    BY <1>4 DEF Exit, Joined, Serving, ShutdownTypeOK, ConnState
  <2>2. CutUnserved'
    BY <1>4, <2>1 DEF Exit, CutUnserved
  <2>3. cut' \subseteq Conns \X ConnState
    BY <2>2 DEF CutUnserved, ConnState
  <2>4. conn' \in [Conns -> ConnState] /\ \A c \in Conns : ~Serving(c)'
    BY <1>4 DEF Exit, ConnState, Serving
  <2> QED BY <1>4, <2>2, <2>3, <2>4 DEF Exit, ShutdownTypeOK, Joined
<1> QED BY <1>1, <1>2, <1>3, <1>4

\* The steps of one connection: its task, its acceptance and its client.
LEMMA ConnStep ==
    ASSUME DrainIInv, NEW c \in Conns,
           Accept(c) \/ ConnTask(c) \/ Upgrade(c) \/ Client(c)
    PROVE  DrainIInv'
<1> USE DEF DrainIInv
<1>1. PICK s \in ConnState :
        /\ conn' = [conn EXCEPT ![c] = s]
        /\ s \in {"idle", "busy", "streaming"} => (server = "accepting" \/ Serving(c))
  BY DEF Accept, ConnTask, WindUp, Answer, Upgrade, Client, Connect, Receive, HangUp,
         ConnState, Serving, ShutdownTypeOK
<1>2. /\ UNCHANGED <<server, signalled, flag, cut>>
      /\ told' = told \/ (flag /\ told' = told \cup {c})
  BY DEF Accept, ConnTask, WindUp, Answer, Upgrade, Client, Connect, Receive, HangUp
<1>3. ShutdownTypeOK'
  BY <1>1, <1>2 DEF ShutdownTypeOK
<1>4. Joined'
  BY <1>1, <1>2 DEF Joined, Serving, ShutdownTypeOK
<1>5. CutUnserved'
  BY <1>2 DEF CutUnserved
<1> QED BY <1>3, <1>4, <1>5

LEMMA DrainNext == DrainIInv /\ [ShutdownNext]_shutdownVars => DrainIInv'
<1> SUFFICES ASSUME DrainIInv, [ShutdownNext]_shutdownVars PROVE DrainIInv'
  OBVIOUS
<1>1. CASE UNCHANGED shutdownVars
  BY <1>1 DEF shutdownVars, DrainIInv, ShutdownTypeOK, Joined, CutUnserved, Serving
<1> QED BY <1>1, ServerStep, ConnStep DEF ShutdownNext

\* Nobody is told to wind up before the shutdown future has resolved, and the
\* state keeps its types (hyper_compat.rs:745).
THEOREM ShutdownTyped == ShutdownSpec => []ShutdownTypeOK
<1>1. DrainIInv => ShutdownTypeOK
  BY DEF DrainIInv
<1> QED BY <1>1, DrainStarts, DrainNext, PTL DEF ShutdownSpec

\* However many connections there are, the process never leaves while a
\* request is being answered.
THEOREM NoRequestCut == ShutdownSpec => []InFlightFinishes
<1>1. DrainIInv => InFlightFinishes
  BY DEF DrainIInv, CutUnserved, InFlightFinishes
<1> QED BY <1>1, DrainStarts, DrainNext, PTL DEF ShutdownSpec

\* What a connection whose task has been told to wind up may still be.
Winding == {"busy", "streaming", "upgraded", "closed"}
ToldWinding == \A c \in told : conn[c] \in Winding

LEMMA InitToldWinding == ShutdownInit => ToldWinding
BY DEF ShutdownInit, ToldWinding

\* No step moves a connection out of the winding states once it is told.
LEMMA ToldStep ==
    ASSUME ShutdownTypeOK, ToldWinding, [ShutdownNext]_shutdownVars
    PROVE  /\ ToldWinding'
           /\ \A c \in told : conn'[c] = conn[c] \/ conn'[c] \in {"closed", "upgraded"}
<1> USE DEF ToldWinding, Winding
<1>1. CASE UNCHANGED shutdownVars
  BY <1>1 DEF shutdownVars
<1>2. CASE Signal \/ StopAccepting \/ Drained
  BY <1>2 DEF Signal, StopAccepting, Drained
<1>3. CASE Exit
  <2>1. \A c \in told : c \in Conns /\ conn[c] # "none"
    BY DEF ShutdownTypeOK
  <2>2. told' = told /\ \A c \in told : conn'[c] = "closed"
    BY <1>3, <2>1 DEF Exit
  <2> QED BY <2>2
<1>4. ASSUME NEW d \in Conns, Accept(d) \/ ConnTask(d) \/ Upgrade(d) \/ Client(d)
      PROVE  /\ ToldWinding'
             /\ \A c \in told : conn'[c] = conn[c] \/ conn'[c] \in {"closed", "upgraded"}
  <2>1. CASE Accept(d) \/ Connect(d) \/ Receive(d)
    BY <1>4, <2>1 DEF Accept, Connect, Receive, ShutdownTypeOK
  <2>2. CASE WindUp(d)
    BY <1>4, <2>2 DEF WindUp, Serving, ShutdownTypeOK
  <2>3. CASE Answer(d)
    BY <1>4, <2>3 DEF Answer, ShutdownTypeOK
  <2>4. CASE Upgrade(d) \/ HangUp(d)
    BY <1>4, <2>4 DEF Upgrade, HangUp, ShutdownTypeOK
  <2> QED BY <1>4, <2>1, <2>2, <2>3, <2>4 DEF ConnTask, Client
<1> QED BY <1>1, <1>2, <1>3, <1>4 DEF ShutdownNext

\* However many connections there are, one that has been told to wind up takes
\* no new request, whatever its client sends and whenever its answer ends.
THEOREM ToldWindsUp == ShutdownSpec => ToldTakesNoMore
<1>1. DrainIInv => ShutdownTypeOK
  BY DEF DrainIInv
<1>2. ShutdownTypeOK /\ ToldWinding /\ [ShutdownNext]_shutdownVars =>
        [\A c \in Conns : (c \in told /\ conn[c] # "none") =>
            (conn'[c] = conn[c] \/ conn'[c] \in {"closed", "upgraded"})]_shutdownVars
  BY ToldStep
<1>3. ShutdownTypeOK /\ ToldWinding /\ [ShutdownNext]_shutdownVars => ToldWinding'
  BY ToldStep
<1> QED BY <1>1, <1>2, <1>3, DrainStarts, DrainNext, InitToldWinding, PTL DEF ShutdownSpec, ToldTakesNoMore

-----------------------------------------------------------------------------
(* The echo *)

(* What a connection holds of what was said: heard, written and not yet     *)
(* heard, in the task's hands, and on its way to the server.                *)

Openers == {"text", "binary"}
Parts == [of : Nat \ {0}, place : {1, 2}, size : Sizes \cup {0}]
Messages == [op : Openers, parts : {<<p>> : p \in Parts} \cup {<<p, q>> : p, q \in Parts}]
IsSeq(s) == \E S : s \in Seq(S)

\* The frames with data: the first of a message, the last of two, and strays.
Opens(f) == f.op \in Openers
Ends(f) == f.op = "continuation" /\ f.parts[1].place = 2
Stray(f) == f.op = "continuation" /\ f.parts[1].place = 1
HasData(f) == Opens(f) \/ Ends(f) \/ Stray(f)
DataFrame(f) == HasData(f) => \E p \in Parts : f.parts = <<p>>

\* The message a frame belongs to, and its rank among the frames with data: a
\* stray comes before the frame that opens the next message.
OfFrame(f) == f.parts[1].of
Rank(f) == 3 * OfFrame(f) + (IF Opens(f) THEN 1 ELSE IF Ends(f) THEN 2 ELSE 0)

DraftShape ==
    \/ draft = NoMessage
    \/ draft = [op |-> "close", parts |-> <<>>]
    \/ \E op \in Openers, p \in Parts :
          draft = [op |-> op, parts |-> <<p>>] /\ p.of = Len(said) + 1 /\ p.place = 1

UpShape ==
    \A i \in 1 .. Len(up) :
        DataFrame(up[i]) /\ (up[i].op \in Openers \cup {"continuation"} => HasData(up[i]))

SocketShape ==
    /\ IsSeq(up) /\ IsSeq(down) /\ said \in Seq(Messages) /\ heard \in Seq(Messages)
    /\ UpShape
    /\ \A m \in 1 .. Len(said) : said[m].parts[1].of = m
    /\ partial \in [op : Openers \cup {"continuation"}, parts : Seq(Parts)]
    /\ DraftShape

Drafting == draft.op \in Openers
Collecting == partial.op \in Openers

\* What was heard is what was said first.
HeardIsSaid ==
    /\ Len(heard) <= Len(said)
    /\ \A m \in 1 .. Len(heard) : heard[m] = said[m]

\* The frames on their way back are the next messages, up to the k-th.
WrittenUpTo(k) ==
    /\ Len(heard) <= k /\ k <= Len(said)
    /\ \A i \in 1 .. Len(down) : Opens(down[i]) =>
          /\ OfFrame(down[i]) \in Len(heard) + 1 .. k
          /\ said[OfFrame(down[i])] = [op |-> down[i].op, parts |-> down[i].parts]
    /\ \A i, j \in 1 .. Len(down) :
          i < j /\ Opens(down[i]) /\ Opens(down[j]) => OfFrame(down[i]) < OfFrame(down[j])
    /\ \A m \in Len(heard) + 1 .. k :
          \E i \in 1 .. Len(down) : Opens(down[i]) /\ OfFrame(down[i]) = m

\* Of the message after the r-th, recv has the first fragment.
CollectedAfter(r) ==
    Collecting => \E p \in Parts :
        /\ partial.parts = <<p>> /\ p.of = r + 1
        /\ \/ /\ r < Len(said) /\ said[r + 1].op = partial.op
              /\ \E q \in Parts : said[r + 1].parts = <<p, q>>
           \/ r = Len(said) /\ draft = partial

\* A frame on its way holds what its message says at its place.
Carries(f) ==
    /\ Opens(f) =>
          \/ /\ f.fin /\ OfFrame(f) <= Len(said)
             /\ said[OfFrame(f)] = [op |-> f.op, parts |-> f.parts]
          \/ /\ ~f.fin /\ OfFrame(f) <= Len(said) /\ said[OfFrame(f)].op = f.op
             /\ \E q \in Parts : said[OfFrame(f)].parts = <<f.parts[1], q>>
          \/ ~f.fin /\ OfFrame(f) = Len(said) + 1 /\ draft = [op |-> f.op, parts |-> f.parts]
    /\ Ends(f) => /\ f.fin /\ OfFrame(f) <= Len(said)
                  /\ \E p \in Parts : said[OfFrame(f)].parts = <<p, f.parts[1]>>

Lowest(r) == 3 * (r + 1) + (IF Collecting THEN 2 ELSE 0)
Highest == 3 * (Len(said) + 1) + (IF Drafting THEN 1 ELSE 0)
Begun == IF Drafting THEN Len(said) + 1 ELSE Len(said)

UpCarries == \A i \in 1 .. Len(up) : HasData(up[i]) => Carries(up[i])
UpWithin(r) ==
    \A i \in 1 .. Len(up) : HasData(up[i]) =>
        Lowest(r) <= Rank(up[i]) /\ Rank(up[i]) <= Highest
UpInOrder ==
    \A i, j \in 1 .. Len(up) : i < j /\ HasData(up[i]) /\ HasData(up[j]) =>
        Rank(up[i]) <= Rank(up[j]) /\ (Stray(up[i]) \/ Rank(up[i]) < Rank(up[j]))
UpComplete(r) ==
    /\ \A m \in r + 1 .. Begun :
          \/ Collecting /\ m = r + 1
          \/ \E i \in 1 .. Len(up) : Opens(up[i]) /\ OfFrame(up[i]) = m
    /\ \A m \in r + 1 .. Len(said) : \A p, q \in Parts : said[m].parts = <<p, q>> =>
          \E i \in 1 .. Len(up) : Ends(up[i]) /\ OfFrame(up[i]) = m

\* What is on its way to the server is what was said after the r-th message.
UpAfter(r) ==
    CollectedAfter(r) /\ UpCarries /\ UpWithin(r) /\ UpInOrder /\ UpComplete(r)

\* What recv has returned: the k messages that were written, and the one in hand.
InHand(k) == IF echoer = "send" THEN k + 1 ELSE k

OnTheWay ==
    \E k \in 0 .. Len(said) :
        /\ WrittenUpTo(k)
        /\ echoer = "send" => k < Len(said) /\ message = said[k + 1]
        /\ echoer # "ended" => UpAfter(InHand(k))

SocketInv ==
    /\ SocketShape /\ HeardIsSaid
    /\ line = "asked" =>
          /\ up = <<>> /\ down = <<>> /\ heard = <<>> /\ said = <<>>
          /\ draft = NoMessage /\ partial = NoMessage
    /\ echoer \in {"pong", "close"} => message.op = echoer
    /\ line = "open" => OnTheWay
-----------------------------------------------------------------------------
(* Queues and ranks                                                        *)

LEMMA QueueAppend ==
  ASSUME NEW s, IsSeq(s), NEW x
  PROVE  /\ IsSeq(Append(s, x)) /\ Len(s) \in Nat /\ Len(Append(s, x)) = Len(s) + 1
         /\ \A i \in 1 .. Len(s) : Append(s, x)[i] = s[i]
         /\ Append(s, x)[Len(s) + 1] = x
  <1>1. PICK S : s \in Seq(S)
    BY DEF IsSeq
  <1> DEFINE T == S \cup {x}
  <1>2. s \in Seq(T) /\ x \in T
    BY <1>1, SeqMonotonic
  <1> HIDE DEF T
  <1>3. Append(s, x) \in Seq(T) /\ Len(s) \in Nat
    BY <1>2, AppendProperties
  <1> QED
    BY <1>2, <1>3, AppendProperties DEF IsSeq

LEMMA QueueTail ==
  ASSUME NEW s, IsSeq(s), s # <<>>
  PROVE  /\ IsSeq(Tail(s)) /\ Len(s) \in Nat \ {0} /\ Len(Tail(s)) = Len(s) - 1
         /\ Head(s) = s[1]
         /\ \A i \in 1 .. Len(s) - 1 : Tail(s)[i] = s[i + 1]
  <1>1. PICK S : s \in Seq(S)
    BY DEF IsSeq
  <1>2. Tail(s) \in Seq(S)
    BY <1>1, HeadTailProperties
  <1>3. Len(s) \in Nat \ {0} /\ Len(Tail(s)) = Len(s) - 1
    BY <1>1, HeadTailProperties
  <1> QED
    BY <1>1, <1>2, <1>3, HeadTailProperties DEF IsSeq

\* A frame with data is of one kind, which its rank tells.
LEMMA Kinds ==
  ASSUME NEW f, DataFrame(f), HasData(f)
  PROVE  /\ OfFrame(f) \in Nat \ {0} /\ OfFrame(f) \in Nat /\ Rank(f) \in Nat
         /\ Opens(f) => Rank(f) = 3 * OfFrame(f) + 1 /\ ~Ends(f) /\ ~Stray(f)
         /\ Ends(f) => Rank(f) = 3 * OfFrame(f) + 2 /\ ~Opens(f) /\ ~Stray(f)
         /\ Stray(f) => Rank(f) = 3 * OfFrame(f) /\ ~Opens(f) /\ ~Ends(f)
         /\ f.parts = <<f.parts[1]>> /\ f.parts[1] \in Parts
  <1>1. PICK p \in Parts : f.parts = <<p>>
    BY DEF DataFrame
  <1>2. f.parts[1] = p /\ OfFrame(f) = p.of /\ p.of \in Nat \ {0}
    BY <1>1 DEF OfFrame, Parts
  <1>3. /\ Opens(f) => ~Ends(f) /\ ~Stray(f)
        /\ Ends(f) => ~Stray(f)
    BY DEF Opens, Ends, Stray, Openers
  <1> QED
    BY <1>1, <1>2, <1>3 DEF Rank, HasData

LEMMA Reading ==
  ASSUME SocketShape, up # <<>>
  PROVE  /\ Len(up) \in Nat /\ Len(up) >= 1 /\ Head(up) = up[1] /\ IsSeq(Tail(up))
         /\ Len(Tail(up)) = Len(up) - 1
         /\ \A i \in 1 .. Len(Tail(up)) : Tail(up)[i] = up[i + 1] /\ i + 1 \in 1 .. Len(up)
         /\ \A i \in 2 .. Len(up) : Tail(up)[i - 1] = up[i] /\ i - 1 \in 1 .. Len(Tail(up))
  BY QueueTail DEF SocketShape

LEMMA Said ==
  ASSUME SocketShape
  PROVE  /\ Len(said) \in Nat /\ Len(heard) \in Nat /\ Len(up) \in Nat /\ Len(down) \in Nat
         /\ \A m \in 1 .. Len(said) :
               /\ said[m] = [op |-> said[m].op, parts |-> said[m].parts]
               /\ said[m].op \in Openers
               /\ \/ \E p \in Parts : said[m].parts = <<p>>
                  \/ \E p, q \in Parts : said[m].parts = <<p, q>>
  <1>1. Len(up) \in Nat /\ Len(down) \in Nat
    BY QueueAppend DEF SocketShape
  <1>2. \A m \in 1 .. Len(said) : said[m] \in Messages
    BY DEF SocketShape
  <1>3. ASSUME NEW x \in Messages
        PROVE  /\ x = [op |-> x.op, parts |-> x.parts] /\ x.op \in Openers
               /\ \/ \E p \in Parts : x.parts = <<p>>
                  \/ \E p, q \in Parts : x.parts = <<p, q>>
    BY DEF Messages
  <1> QED
    BY <1>1, <1>2, <1>3 DEF SocketShape
-----------------------------------------------------------------------------
(* recv reads the next frame                                               *)

LEMMA RestShape ==
  ASSUME SocketShape, up # <<>>, up' = Tail(up)
  PROVE  IsSeq(up)' /\ UpShape'
  <1>1. \A i \in 1 .. Len(up') : up'[i] = up[i + 1] /\ i + 1 \in 1 .. Len(up)
    BY Reading
  <1>2. UpShape'
    BY <1>1 DEF UpShape, SocketShape
  <1> QED
    BY <1>2, Reading

\* What a shorter queue keeps, whatever the frame at its head was.
LEMMA RestFits ==
  ASSUME SocketShape, up # <<>>, up' = Tail(up), UNCHANGED <<said, draft>>, UpCarries, UpInOrder
  PROVE  UpInOrder' /\ UpCarries'
  <1>1. \A i \in 1 .. Len(up') : up'[i] = up[i + 1] /\ i + 1 \in 1 .. Len(up)
    BY Reading
  <1>2. UpInOrder'
    <2> SUFFICES ASSUME NEW i \in 1 .. Len(up'), NEW j \in 1 .. Len(up'), i < j,
                        HasData(up'[i]), HasData(up'[j])
                 PROVE  /\ Rank(up'[i]) <= Rank(up'[j])
                        /\ Stray(up'[i]) \/ Rank(up'[i]) < Rank(up'[j])
      BY DEF UpInOrder
    <2>1. i + 1 < j + 1 /\ up'[i] = up[i + 1] /\ up'[j] = up[j + 1]
      BY <1>1, Reading
    <2> QED
      BY <1>1, <2>1 DEF UpInOrder
  <1>3. UpCarries'
    <2> SUFFICES ASSUME NEW i \in 1 .. Len(up'), HasData(up'[i]) PROVE Carries(up[i])'
      BY DEF UpCarries
    <2>1. up'[i] = up[i + 1] /\ Carries(up[i + 1])
      BY <1>1 DEF UpCarries
    <2> QED
      BY <2>1 DEF Carries
  <1> QED
    BY <1>2, <1>3

LEMMA InQueue ==
  ASSUME SocketShape, NEW i \in 1 .. Len(up), HasData(up[i])
  PROVE  DataFrame(up[i])
  BY DEF SocketShape, UpShape

LEMMA StillThere ==
  ASSUME SocketShape, up # <<>>, up' = Tail(up), NEW i \in 1 .. Len(up), i # 1
  PROVE  i - 1 \in 1 .. Len(up') /\ up'[i - 1] = up[i]
  BY Reading

\* The messages after the r-th are on their way without the frames that carry
\* nothing of them.
LEMMA SkipsFrame ==
  ASSUME SocketShape, NEW r \in Nat, UpAfter(r), up # <<>>, up' = Tail(up),
         UNCHANGED <<said, draft>>, ~Opens(up[1]), ~Ends(up[1]),
         (Collecting' <=> Collecting), Collecting => partial' = partial
  PROVE  UpAfter(r)'
  <1>1. CollectedAfter(r)'
    BY DEF UpAfter, CollectedAfter
  <1>2. UpInOrder' /\ UpCarries'
    BY RestFits DEF UpAfter
  <1>3. UpWithin(r)'
    <2>1. Lowest(r)' = Lowest(r) /\ Highest' = Highest
      BY DEF Lowest, Highest, Drafting
    <2> QED
      BY <2>1, Reading DEF UpAfter, UpWithin
  <1>4. UpComplete(r)'
    <2>1. Begun' = Begun
      BY DEF Begun, Drafting
    <2>2. ASSUME NEW i \in 1 .. Len(up), Opens(up[i]) \/ Ends(up[i])
          PROVE  i - 1 \in 1 .. Len(up') /\ up'[i - 1] = up[i]
      <3>1. i # 1
        BY <2>2
      <3> QED
        BY <3>1, Reading
    <2>3. ASSUME NEW m \in r + 1 .. Begun, ~(Collecting /\ m = r + 1)
          PROVE  \E i \in 1 .. Len(up') : Opens(up'[i]) /\ OfFrame(up'[i]) = m
      <3>1. PICK i \in 1 .. Len(up) : Opens(up[i]) /\ OfFrame(up[i]) = m
        BY <2>3 DEF UpAfter, UpComplete
      <3> QED
        BY <2>2, <3>1
    <2>4. ASSUME NEW m \in r + 1 .. Len(said), NEW p \in Parts, NEW q \in Parts,
                 said[m].parts = <<p, q>>
          PROVE  \E i \in 1 .. Len(up') : Ends(up'[i]) /\ OfFrame(up'[i]) = m
      <3>1. PICK i \in 1 .. Len(up) : Ends(up[i]) /\ OfFrame(up[i]) = m
        BY <2>4 DEF UpAfter, UpComplete
      <3> QED
        BY <2>2, <3>1
    <2> QED
      BY <2>1, <2>3, <2>4, ZenonT(60) DEF UpComplete
  <1> QED
    BY <1>1, <1>2, <1>3, <1>4 DEF UpAfter

\* A first fragment that arrives is of the next message, and none is collected.
LEMMA FirstIsNext ==
  ASSUME SocketShape, NEW r \in Nat, r <= Len(said), UpAfter(r), up # <<>>, Opens(up[1])
  PROVE  ~Collecting /\ OfFrame(up[1]) = r + 1
  <1> DEFINE o == OfFrame(up[1])
  <1>1. HasData(up[1]) /\ 1 \in 1 .. Len(up)
    BY Reading DEF HasData
  <1>2. o \in Nat /\ Rank(up[1]) = 3 * o + 1 /\ ~Stray(up[1])
    BY <1>1, InQueue, Kinds
  <1>3. /\ Lowest(r) <= 3 * o + 1 /\ 3 * o + 1 <= Highest
        /\ \A j \in 2 .. Len(up) : HasData(up[j]) => 3 * o + 1 < Rank(up[j])
    <2>1. Len(up) \in Nat
      BY Said
    <2> QED
      BY <1>1, <1>2, <2>1 DEF UpAfter, UpWithin, UpInOrder
  <1> HIDE DEF o
  <1>4. ~Collecting
    <2> SUFFICES ASSUME Collecting PROVE FALSE
      OBVIOUS
    <2>1. o >= r + 2
      BY <1>2, <1>3 DEF Lowest
    <2>2. PICK p \in Parts :
            \/ r < Len(said) /\ \E q \in Parts : said[r + 1].parts = <<p, q>>
            \/ r = Len(said)
      BY DEF UpAfter, CollectedAfter
    <2>3. CASE r = Len(said)
      BY <1>2, <1>3, <2>1, <2>3, Said DEF Highest
    <2>4. CASE r < Len(said)
      <3>1. PICK i \in 1 .. Len(up) : Ends(up[i]) /\ OfFrame(up[i]) = r + 1
        BY <2>2, <2>4, Said DEF UpAfter, UpComplete
      <3>2. HasData(up[i]) /\ Rank(up[i]) = 3 * (r + 1) + 2 /\ i # 1
        BY <3>1, InQueue, Kinds, <1>1 DEF HasData
      <3> QED
        BY <1>2, <1>3, <2>1, <3>2, Said
    <2> QED
      BY <2>2, <2>3, <2>4
  <1>5. o >= r + 1
    BY <1>2, <1>3, <1>4 DEF Lowest
  <1>6. r + 1 \in r + 1 .. Begun
    <2>1. CASE Drafting
      BY <2>1, Said DEF Begun
    <2>2. CASE ~Drafting
      BY <1>2, <1>3, <1>5, <2>2, Said DEF Begun, Highest
    <2> QED
      BY <2>1, <2>2
  <1>7. PICK i \in 1 .. Len(up) : Opens(up[i]) /\ OfFrame(up[i]) = r + 1
    BY <1>4, <1>6 DEF UpAfter, UpComplete
  <1>8. HasData(up[i]) /\ Rank(up[i]) = 3 * (r + 1) + 1
    BY <1>7, InQueue, Kinds DEF HasData
  <1>9. i = 1
    BY <1>2, <1>3, <1>5, <1>8, Said
  <1> QED
    BY <1>4, <1>7, <1>9 DEF o

\* A last fragment that arrives is of the message whose first is collected.
LEMMA LastIsNext ==
  ASSUME SocketShape, NEW r \in Nat, r <= Len(said), UpAfter(r), up # <<>>, Ends(up[1])
  PROVE  Collecting /\ OfFrame(up[1]) = r + 1 /\ r < Len(said)
  <1> DEFINE o == OfFrame(up[1])
  <1>1. HasData(up[1]) /\ 1 \in 1 .. Len(up)
    BY Reading DEF HasData
  <1>2. o \in Nat /\ Rank(up[1]) = 3 * o + 2 /\ ~Stray(up[1]) /\ ~Opens(up[1])
    BY <1>1, InQueue, Kinds
  <1>3. /\ Lowest(r) <= 3 * o + 2 /\ o <= Len(said)
        /\ \A j \in 2 .. Len(up) : HasData(up[j]) => 3 * o + 2 < Rank(up[j])
    <2>1. Len(up) \in Nat
      BY Said
    <2>2. o <= Len(said)
      <3>1. Carries(up[1])
        BY <1>1 DEF UpAfter, UpCarries
      <3> QED
        BY <3>1 DEF Carries
    <2> QED
      BY <1>1, <1>2, <2>1, <2>2 DEF UpAfter, UpWithin, UpInOrder
  <1> HIDE DEF o
  <1>4. o >= r + 1 /\ r < Len(said)
    BY <1>2, <1>3, Said DEF Lowest
  <1>5. Collecting
    <2> SUFFICES ASSUME ~Collecting PROVE FALSE
      OBVIOUS
    <2>1. r + 1 \in r + 1 .. Begun
      BY <1>4, Said DEF Begun
    <2>2. PICK i \in 1 .. Len(up) : Opens(up[i]) /\ OfFrame(up[i]) = r + 1
      BY <2>1 DEF UpAfter, UpComplete
    <2>3. HasData(up[i]) /\ Rank(up[i]) = 3 * (r + 1) + 1 /\ i # 1
      BY <1>2, <2>2, InQueue, Kinds DEF HasData
    <2> QED
      BY <1>2, <1>3, <1>4, <2>3, Said
  <1>6. PICK p \in Parts, q \in Parts : said[r + 1].parts = <<p, q>>
    BY <1>4, <1>5, Said DEF UpAfter, CollectedAfter
  <1>7. PICK i \in 1 .. Len(up) : Ends(up[i]) /\ OfFrame(up[i]) = r + 1
    BY <1>4, <1>6, Said DEF UpAfter, UpComplete
  <1>8. HasData(up[i]) /\ Rank(up[i]) = 3 * (r + 1) + 2
    BY <1>7, InQueue, Kinds DEF HasData
  <1>9. i = 1
    BY <1>2, <1>3, <1>4, <1>8, Said
  <1> QED
    BY <1>4, <1>5, <1>7, <1>9 DEF o

\* A stray continuation arrives when no message is being collected.
LEMMA StrayComesBetween ==
  ASSUME SocketShape, NEW r \in Nat, r <= Len(said), UpAfter(r), up # <<>>, Stray(up[1])
  PROVE  ~Collecting
  <1> SUFFICES ASSUME Collecting PROVE FALSE
    OBVIOUS
  <1> DEFINE o == OfFrame(up[1])
  <1>1. HasData(up[1]) /\ 1 \in 1 .. Len(up)
    BY Reading DEF HasData
  <1>2. o \in Nat /\ Rank(up[1]) = 3 * o /\ ~Ends(up[1])
    BY <1>1, InQueue, Kinds
  <1>3. /\ 3 * (r + 1) + 2 <= 3 * o /\ 3 * o <= Highest
        /\ \A j \in 2 .. Len(up) : HasData(up[j]) => 3 * o <= Rank(up[j])
    <2>1. Len(up) \in Nat
      BY Said
    <2> QED
      BY <1>1, <1>2, <2>1 DEF UpAfter, UpWithin, UpInOrder, Lowest
  <1> HIDE DEF o
  <1>4. r < Len(said)
    BY <1>2, <1>3, Said DEF Highest
  <1>5. PICK p \in Parts, q \in Parts : said[r + 1].parts = <<p, q>>
    BY <1>4, Said DEF UpAfter, CollectedAfter
  <1>6. PICK i \in 1 .. Len(up) : Ends(up[i]) /\ OfFrame(up[i]) = r + 1
    BY <1>4, <1>5, Said DEF UpAfter, UpComplete
  <1>7. HasData(up[i]) /\ Rank(up[i]) = 3 * (r + 1) + 2 /\ i # 1
    BY <1>2, <1>6, InQueue, Kinds DEF HasData
  <1> QED
    BY <1>2, <1>3, <1>7, Said

\* The first fragment of a message of two: recv keeps it, and waits for the last.
LEMMA CollectsFirst ==
  ASSUME SocketShape, NEW r \in Nat, r <= Len(said), UpAfter(r), up # <<>>, up' = Tail(up),
         UNCHANGED <<said, draft>>, Opens(up[1]), ~up[1].fin,
         partial' = [op |-> up[1].op, parts |-> up[1].parts]
  PROVE  UpAfter(r)'
  <1>1. ~Collecting /\ OfFrame(up[1]) = r + 1
    BY FirstIsNext
  <1>2. HasData(up[1]) /\ 1 \in 1 .. Len(up)
    BY Reading DEF HasData
  <1>3. /\ Rank(up[1]) = 3 * (r + 1) + 1 /\ ~Stray(up[1]) /\ ~Ends(up[1])
        /\ up[1].parts = <<up[1].parts[1]>> /\ up[1].parts[1] \in Parts
    BY <1>1, <1>2, InQueue, Kinds
  <1>4. Collecting' /\ Drafting' = Drafting
    BY DEF Collecting, Opens, Drafting
  <1>5. CollectedAfter(r)'
    <2> DEFINE p == up[1].parts[1]
    <2>1. Carries(up[1])
      BY <1>2 DEF UpAfter, UpCarries
    <2>2. p.of = r + 1
      BY <1>1 DEF OfFrame
    <2>3. \/ /\ r < Len(said) /\ said[r + 1].op = up[1].op
             /\ \E q \in Parts : said[r + 1].parts = <<p, q>>
          \/ r = Len(said) /\ draft = [op |-> up[1].op, parts |-> up[1].parts]
      BY <1>1, <2>1, Said DEF Carries
    <2>4. partial'.parts = <<p>> /\ partial'.op = up[1].op
      BY <1>3
    <2> QED
      BY <1>3, <2>2, <2>3, <2>4 DEF CollectedAfter
  <1>6. UpInOrder' /\ UpCarries'
    BY RestFits DEF UpAfter
  <1>7. UpWithin(r)'
    <2>1. Highest' = Highest /\ Lowest(r)' = 3 * (r + 1) + 2
      BY <1>4 DEF Lowest, Highest
    <2>2. ASSUME NEW i \in 1 .. Len(up'), HasData(up'[i])
          PROVE  3 * (r + 1) + 2 <= Rank(up'[i]) /\ Rank(up'[i]) <= Highest
      <3>1. up'[i] = up[i + 1] /\ i + 1 \in 1 .. Len(up) /\ 1 < i + 1
        BY Reading
      <3>2. Rank(up[1]) < Rank(up[i + 1]) /\ Rank(up[i + 1]) <= Highest
        BY <1>2, <1>3, <2>2, <3>1 DEF UpAfter, UpInOrder, UpWithin
      <3>3. Rank(up[i + 1]) \in Nat
        BY <2>2, <3>1, InQueue, Kinds
      <3> QED
        BY <1>3, <3>1, <3>2, <3>3
    <2> QED
      BY <2>1, <2>2 DEF UpWithin
  <1>8. UpComplete(r)'
    <2>1. Begun' = Begun
      BY <1>4 DEF Begun
    <2>2. ASSUME NEW m \in r + 1 .. Begun, m # r + 1
          PROVE  \E i \in 1 .. Len(up') : Opens(up'[i]) /\ OfFrame(up'[i]) = m
      <3>1. PICK i \in 1 .. Len(up) : Opens(up[i]) /\ OfFrame(up[i]) = m
        BY <1>1, <2>2 DEF UpAfter, UpComplete
      <3>2. i # 1
        BY <1>1, <2>2, <3>1
      <3> QED
        BY <3>1, <3>2, StillThere
    <2>3. ASSUME NEW m \in r + 1 .. Len(said), NEW p \in Parts, NEW q \in Parts,
                 said[m].parts = <<p, q>>
          PROVE  \E i \in 1 .. Len(up') : Ends(up'[i]) /\ OfFrame(up'[i]) = m
      <3>1. PICK i \in 1 .. Len(up) : Ends(up[i]) /\ OfFrame(up[i]) = m
        BY <2>3 DEF UpAfter, UpComplete
      <3>2. i # 1
        BY <1>3, <3>1
      <3> QED
        BY <3>1, <3>2, StillThere
    <2> QED
      BY <1>4, <2>1, <2>2, <2>3, ZenonT(60) DEF UpComplete
  <1> QED
    BY <1>5, <1>6, <1>7, <1>8 DEF UpAfter

\* The last frame of the next message: the others are of the messages after it.
LEMMA CompletesNext ==
  ASSUME SocketShape, NEW r \in Nat, r < Len(said), UpAfter(r), up # <<>>, up' = Tail(up),
         UNCHANGED <<said, draft>>, partial' = NoMessage, OfFrame(up[1]) = r + 1,
         \/ Ends(up[1])
         \/ Opens(up[1]) /\ \A p, q \in Parts : said[r + 1].parts # <<p, q>>
  PROVE  UpAfter(r + 1)'
  <1>1. HasData(up[1]) /\ 1 \in 1 .. Len(up) /\ Len(said) \in Nat
    BY Reading, Said DEF HasData
  <1>2. /\ Rank(up[1]) = 3 * (r + 1) + (IF Ends(up[1]) THEN 2 ELSE 1)
        /\ ~Stray(up[1])
    BY <1>1, InQueue, Kinds
  <1>3. ~Collecting' /\ Drafting' = Drafting
    BY DEF Collecting, Drafting, NoMessage, Openers
  <1>4. CollectedAfter(r + 1)'
    BY <1>3 DEF CollectedAfter
  <1>5. UpInOrder' /\ UpCarries'
    BY RestFits DEF UpAfter
  <1>6. UpWithin(r + 1)'
    <2>1. Highest' = Highest /\ Lowest(r + 1)' = 3 * (r + 2)
      BY <1>3 DEF Lowest, Highest
    <2>2. ASSUME NEW i \in 1 .. Len(up'), HasData(up'[i])
          PROVE  3 * (r + 2) <= Rank(up'[i]) /\ Rank(up'[i]) <= Highest
      <3>1. up'[i] = up[i + 1] /\ i + 1 \in 1 .. Len(up) /\ 1 < i + 1
        BY Reading
      <3>2. Rank(up[1]) < Rank(up[i + 1]) /\ Rank(up[i + 1]) <= Highest
        BY <1>1, <1>2, <2>2, <3>1 DEF UpAfter, UpInOrder, UpWithin
      <3>3. Rank(up[i + 1]) \in Nat /\ DataFrame(up[i + 1])
        BY <2>2, <3>1, InQueue, Kinds
      <3>4. CASE Ends(up[1])
        BY <1>2, <3>1, <3>2, <3>3, <3>4
      <3>5. CASE ~Ends(up[1])
        <4>1. ASSUME Rank(up[i + 1]) = 3 * (r + 1) + 2 PROVE FALSE
          <5>1. Ends(up[i + 1]) /\ OfFrame(up[i + 1]) = r + 1
            BY <2>2, <3>1, <3>3, <4>1, Kinds DEF HasData
          <5>2. Carries(up[i + 1]) /\ up[i + 1].parts[1] \in Parts
            BY <2>2, <3>1, <3>3, Kinds DEF UpAfter, UpCarries
          <5> QED
            BY <3>5, <5>1, <5>2 DEF Carries
        <4> DEFINE n == Rank(up[i + 1])
        <4>2. n \in Nat /\ 3 * (r + 1) + 1 < n /\ n # 3 * (r + 1) + 2 /\ n <= Highest
          BY <1>2, <3>2, <3>3, <3>5, <4>1
        <4> HIDE DEF n
        <4> DEFINE low == 3 * (r + 1) + 1
        <4>3. low + 2 = 3 * (r + 2) /\ low + 1 = 3 * (r + 1) + 2 /\ low \in Nat
          OBVIOUS
        <4>4. low < n /\ n # low + 1
          BY <4>2, <4>3
        <4> HIDE DEF low
        <4>5. 3 * (r + 2) <= n
          BY <4>2, <4>3, <4>4
        <4> QED
          BY <3>1, <4>2, <4>5 DEF n
      <3> QED
        BY <3>4, <3>5
    <2> QED
      BY <2>1, <2>2 DEF UpWithin
  <1>7. UpComplete(r + 1)'
    <2>1. Begun' = Begun
      BY <1>3 DEF Begun
    <2>2. ASSUME NEW m \in (r + 1) + 1 .. Begun
          PROVE  \E i \in 1 .. Len(up') : Opens(up'[i]) /\ OfFrame(up'[i]) = m
      <3>1. m \in r + 1 .. Begun /\ m # r + 1
        BY Said DEF Begun
      <3>2. PICK i \in 1 .. Len(up) : Opens(up[i]) /\ OfFrame(up[i]) = m
        BY <3>1 DEF UpAfter, UpComplete
      <3>3. i # 1
        BY <3>1, <3>2
      <3> QED
        BY <3>2, <3>3, StillThere
    <2>3. ASSUME NEW m \in (r + 1) + 1 .. Len(said), NEW p \in Parts, NEW q \in Parts,
                 said[m].parts = <<p, q>>
          PROVE  \E i \in 1 .. Len(up') : Ends(up'[i]) /\ OfFrame(up'[i]) = m
      <3>1. m \in r + 1 .. Len(said) /\ m # r + 1
        BY <1>1
      <3>2. PICK i \in 1 .. Len(up) : Ends(up[i]) /\ OfFrame(up[i]) = m
        BY <2>3, <3>1 DEF UpAfter, UpComplete
      <3>3. i # 1
        BY <3>1, <3>2
      <3> QED
        BY <3>2, <3>3, StillThere
    <2> QED
      BY <2>1, <2>2, <2>3, ZenonT(60) DEF UpComplete
  <1> QED
    BY <1>4, <1>5, <1>6, <1>7 DEF UpAfter

\* recv without data: a control frame, or one of an opcode nobody knows.
LEMMA RecvControl ==
  ASSUME SocketInv, echoer = "recv", line \in {"open", "cut"}, up # <<>>, up' = Tail(up),
         up[1].op \notin Openers \cup {"continuation"}, echoer' # "send",
         UNCHANGED <<down, line, draft, said, heard, partial>>,
         echoer' \in {"pong", "close"} => message'.op = echoer'
  PROVE  SocketInv'
  <1>1. SocketShape' /\ HeardIsSaid'
    BY RestShape DEF SocketInv, SocketShape, HeardIsSaid, DraftShape
  <1>2. ASSUME line = "open" PROVE OnTheWay'
    <2>1. PICK k \in 0 .. Len(said) : WrittenUpTo(k) /\ UpAfter(k)
      BY <1>2 DEF SocketInv, OnTheWay, InHand
    <2>2. k \in Nat /\ SocketShape
      BY Said DEF SocketInv
    <2>3. ~Opens(up[1]) /\ ~Ends(up[1])
      BY DEF Opens, Ends
    <2>4. UpAfter(k)'
      BY <2>1, <2>2, <2>3, SkipsFrame DEF Collecting
    <2>5. WrittenUpTo(k)'
      BY <2>1 DEF WrittenUpTo
    <2> QED
      BY <2>1, <2>4, <2>5 DEF OnTheWay, InHand
  <1> QED
    BY <1>1, <1>2 DEF SocketInv

LEMMA RecvStep ==
  ASSUME SocketInv, RecvPing \/ RecvIgnored \/ RecvClose
  PROVE  SocketInv'
  <1>1. PICK f \in Range(up) :
          /\ Arrives(f) /\ f.op \in {"ping", "pong", "unknown", "close"}
          /\ \/ RecvPing /\ message' = [op |-> "pong", parts |-> f.parts]
             \/ RecvIgnored
             \/ RecvClose /\ message' = [op |-> "close", parts |-> f.parts]
    BY DEF RecvPing, RecvIgnored, RecvClose
  <1>2. /\ echoer = "recv" /\ line \in {"open", "cut"} /\ up # <<>> /\ up' = Tail(up)
        /\ f = up[1]
    BY <1>1, Reading DEF Arrives, SocketInv
  <1>3. up[1].op \notin Openers \cup {"continuation"}
    BY <1>1, <1>2 DEF Openers
  <1>4. echoer' # "send" /\ (echoer' \in {"pong", "close"} => message'.op = echoer')
    BY <1>1, <1>2 DEF RecvPing, RecvIgnored, RecvClose
  <1>5. UNCHANGED <<down, line, draft, said, heard, partial>>
    BY DEF RecvPing, RecvIgnored, RecvClose
  <1> QED
    BY <1>2, <1>3, <1>4, <1>5, RecvControl

LEMMA TwoParts ==
  ASSUME NEW p \in Parts, NEW q \in Parts
  PROVE  <<p>> \o <<q>> = <<p, q>>
  <1> DEFINE s == <<p>>
             t == <<q>>
             u == <<p, q>>
  <1>1. s \in Seq(Parts) /\ t \in Seq(Parts) /\ u \in Seq(Parts)
    OBVIOUS
  <1>2. Len(s) = 1 /\ Len(t) = 1 /\ Len(u) = 2 /\ s[1] = p /\ t[1] = q /\ u[1] = p /\ u[2] = q
    OBVIOUS
  <1> HIDE DEF s, t, u
  <1>3. s \o t \in Seq(Parts) /\ Len(s \o t) = 2 /\ (s \o t)[1] = p /\ (s \o t)[2] = q
    BY <1>1, <1>2, ConcatProperties
  <1>4. s \o t = u
    BY <1>1, <1>2, <1>3, SeqEqual
  <1> QED
    BY <1>4 DEF s, t, u

\* The message a frame completes.
LEMMA WholeIsSaid ==
  ASSUME SocketShape, NEW r \in Nat, r <= Len(said), UpAfter(r), up # <<>>,
         (Opens(up[1]) /\ up[1].fin) \/ Ends(up[1])
  PROVE  /\ up[1].fin /\ r < Len(said) /\ OfFrame(up[1]) = r + 1
         /\ Collected(up[1]) = said[r + 1] /\ Collected(up[1]).op \in Openers
         /\ \/ Ends(up[1])
            \/ Opens(up[1]) /\ \A p, q \in Parts : said[r + 1].parts # <<p, q>>
  <1> DEFINE f == up[1]
  <1>1. HasData(f) /\ 1 \in 1 .. Len(up) /\ Len(said) \in Nat
    BY Reading, Said DEF HasData
  <1>2. Carries(f) /\ f.parts = <<f.parts[1]>> /\ f.parts[1] \in Parts
    BY <1>1, InQueue, Kinds DEF UpAfter, UpCarries
  <1>3. CASE Opens(f) /\ f.fin
    <2>1. OfFrame(f) = r + 1
      BY <1>3, FirstIsNext
    <2>2. r < Len(said) /\ said[r + 1] = [op |-> f.op, parts |-> f.parts]
      BY <1>1, <1>2, <1>3, <2>1 DEF Carries
    <2>3. f.op # "continuation"
      BY <1>3 DEF Opens, Openers
    <2>4. \A p, q \in Parts : said[r + 1].parts # <<p, q>>
      BY <1>2, <2>2
    <2> QED
      BY <1>3, <2>1, <2>2, <2>3, <2>4 DEF Collected, Opens
  <1>4. CASE Ends(f)
    <2>1. Collecting /\ OfFrame(f) = r + 1 /\ r < Len(said)
      BY <1>4, LastIsNext
    <2>2. f.fin /\ \E p \in Parts : said[r + 1].parts = <<p, f.parts[1]>>
      BY <1>2, <1>4, <2>1 DEF Carries
    <2>3. PICK p \in Parts : /\ partial.parts = <<p>> /\ said[r + 1].op = partial.op
                             /\ \E q \in Parts : said[r + 1].parts = <<p, q>>
      BY <1>1, <2>1 DEF UpAfter, CollectedAfter
    <2>4. said[r + 1].parts = <<p, f.parts[1]>>
      BY <2>2, <2>3
    <2>5. said[r + 1] = [op |-> partial.op, parts |-> <<p, f.parts[1]>>]
      BY <1>1, <2>1, <2>3, <2>4, Said
    <2>6. <<p>> \o <<f.parts[1]>> = <<p, f.parts[1]>>
      BY <1>2, TwoParts
    <2>7. Collected(f) = [op |-> partial.op, parts |-> partial.parts \o f.parts]
      BY <1>4 DEF Collected, Ends, SocketShape
    <2> QED
      BY <1>2, <1>4, <2>1, <2>2, <2>3, <2>5, <2>6, <2>7 DEF Collecting
  <1> QED
    BY <1>3, <1>4

LEMMA CollectedType ==
  ASSUME SocketShape, up # <<>>, HasData(up[1])
  PROVE  /\ Collected(up[1]) \in [op : Openers \cup {"continuation"}, parts : Seq(Parts)]
         /\ Opens(up[1]) => Collected(up[1]) = [op |-> up[1].op, parts |-> up[1].parts]
         /\ Stray(up[1]) => Collected(up[1]).op = partial.op
  <1> DEFINE f == up[1]
  <1>1. PICK p \in Parts : f.parts = <<p>>
    BY Reading, InQueue DEF DataFrame
  <1>2. f.parts \in Seq(Parts) /\ partial.parts \in Seq(Parts)
    BY <1>1 DEF SocketShape
  <1>3. CASE Opens(f)
    <2>1. f.op \in Openers /\ f.op # "continuation" /\ ~Stray(f)
      BY <1>3 DEF Opens, Openers, Stray
    <2> QED
      BY <1>2, <2>1 DEF Collected
  <1>4. CASE ~Opens(f)
    <2>1. f.op = "continuation"
      BY <1>4 DEF HasData, Ends, Stray
    <2>2. Collected(f) = [op |-> partial.op, parts |-> partial.parts \o f.parts]
      BY <2>1 DEF Collected, SocketShape
    <2>3. partial.parts \o f.parts \in Seq(Parts)
      BY <1>2, ConcatProperties
    <2>4. partial.op \in Openers \cup {"continuation"}
      BY DEF SocketShape
    <2> QED
      BY <1>4, <2>2, <2>3, <2>4
  <1> QED
    BY <1>3, <1>4

LEMMA DataStep ==
  ASSUME SocketInv, RecvData
  PROVE  SocketInv'
  <1> DEFINE f == up[1]
  <1>1. /\ echoer = "recv" /\ line \in {"open", "cut"} /\ up # <<>> /\ up' = Tail(up)
        /\ f.op \in {"text", "binary", "continuation"}
        /\ LET whole == Collected(f) IN
           IF f.fin /\ whole.op # "continuation"
           THEN /\ echoer' = "send" /\ message' = whole /\ partial' = NoMessage
           ELSE /\ partial' = whole /\ UNCHANGED <<echoer, message>>
        /\ UNCHANGED <<down, line, draft, said, heard, pings>>
    <2>1. PICK g \in Range(up) :
            /\ Arrives(g) /\ g.op \in {"text", "binary", "continuation"}
            /\ LET whole == Collected(g) IN
               IF g.fin /\ whole.op # "continuation"
               THEN /\ echoer' = "send" /\ message' = whole /\ partial' = NoMessage
               ELSE /\ partial' = whole /\ UNCHANGED <<echoer, message>>
      BY DEF RecvData
    <2>2. g = f
      BY <2>1, Reading DEF Arrives, SocketInv
    <2> QED
      BY <2>1, <2>2 DEF RecvData, Arrives
  <1>2. SocketShape /\ 1 \in 1 .. Len(up) /\ Len(said) \in Nat
    BY <1>1, Reading, Said DEF SocketInv
  <1>3. HasData(f)
    BY <1>1, <1>2 DEF SocketShape, UpShape, Openers
  <1>4. SocketShape' /\ HeardIsSaid'
    <2>1. partial' \in [op : Openers \cup {"continuation"}, parts : Seq(Parts)]
      <3>1. NoMessage \in [op : Openers \cup {"continuation"}, parts : Seq(Parts)]
        BY DEF NoMessage
      <3> QED
        BY <1>1, <1>2, <1>3, <3>1, CollectedType
    <2>2. IsSeq(up)' /\ UpShape'
      BY <1>1, <1>2, RestShape
    <2> QED
      BY <1>1, <2>1, <2>2 DEF SocketInv, SocketShape, HeardIsSaid, DraftShape
  <1>5. ASSUME line = "open" PROVE OnTheWay'
    <2>1. PICK k \in 0 .. Len(said) : WrittenUpTo(k) /\ UpAfter(k)
      BY <1>1, <1>5 DEF SocketInv, OnTheWay, InHand
    <2>2. k \in Nat /\ k <= Len(said)
      BY <1>2
    <2>3. WrittenUpTo(k)'
      BY <1>1, <2>1 DEF WrittenUpTo
    <2>4. CASE (Opens(f) /\ f.fin) \/ Ends(f)
      <3>1. /\ f.fin /\ k < Len(said) /\ OfFrame(f) = k + 1
            /\ Collected(f) = said[k + 1] /\ Collected(f).op # "continuation"
            /\ \/ Ends(f)
               \/ Opens(f) /\ \A p, q \in Parts : said[k + 1].parts # <<p, q>>
        BY <1>1, <1>2, <2>1, <2>2, <2>4, WholeIsSaid DEF Openers
      <3>2. echoer' = "send" /\ message' = said[k + 1] /\ partial' = NoMessage
        BY <1>1, <3>1
      <3>3. UpAfter(k + 1)'
        BY <1>1, <1>2, <2>1, <2>2, <3>1, <3>2, CompletesNext
      <3> QED
        BY <1>1, <2>1, <2>3, <3>1, <3>2, <3>3 DEF OnTheWay, InHand
    <2>5. CASE Opens(f) /\ ~f.fin
      <3>1. partial' = [op |-> f.op, parts |-> f.parts] /\ echoer' = "recv"
        BY <1>1, <1>2, <1>3, <2>5, CollectedType
      <3>2. UpAfter(k)'
        BY <1>1, <1>2, <2>1, <2>2, <2>5, <3>1, CollectsFirst
      <3> QED
        BY <1>1, <2>1, <2>3, <3>1, <3>2 DEF OnTheWay, InHand
    <2>6. CASE Stray(f)
      <3>1. ~Collecting
        BY <1>1, <1>2, <2>1, <2>2, <2>6, StrayComesBetween
      <3>2. Collected(f).op = "continuation"
        BY <1>1, <1>2, <1>3, <2>6, <3>1, CollectedType DEF Collecting, SocketShape
      <3>3. partial' = Collected(f) /\ echoer' = "recv"
        BY <1>1, <3>2
      <3>4. ~Collecting'
        BY <3>2, <3>3 DEF Collecting, Openers
      <3>5. ~Opens(f) /\ ~Ends(f)
        BY <2>6 DEF Opens, Ends, Stray, Openers
      <3>6. UpAfter(k)'
        BY <1>1, <1>2, <2>1, <2>2, <3>1, <3>4, <3>5, SkipsFrame
      <3> QED
        BY <1>1, <2>1, <2>3, <3>3, <3>6 DEF OnTheWay, InHand
    <2> QED
      BY <1>3, <2>4, <2>5, <2>6 DEF HasData
  <1>6. echoer' \notin {"pong", "close"}
    BY <1>1
  <1> QED
    BY <1>1, <1>4, <1>5, <1>6 DEF SocketInv

-----------------------------------------------------------------------------
(* The client sends a frame                                                *)

LEMMA LongerShape ==
  ASSUME SocketShape, NEW x, DataFrame(x),
         x.op \in Openers \cup {"continuation"} => HasData(x), up' = Append(up, x)
  PROVE  /\ IsSeq(up)' /\ UpShape' /\ Len(up) \in Nat /\ Len(up') = Len(up) + 1
         /\ \A i \in 1 .. Len(up) : up'[i] = up[i] /\ i \in 1 .. Len(up')
         /\ up'[Len(up) + 1] = x /\ Len(up) + 1 \in 1 .. Len(up')
         /\ \A i \in 1 .. Len(up') : i \in 1 .. Len(up) \/ i = Len(up) + 1
  <1>1. /\ IsSeq(up)' /\ Len(up) \in Nat /\ Len(up') = Len(up) + 1
        /\ \A i \in 1 .. Len(up) : up'[i] = up[i]
        /\ up'[Len(up) + 1] = x
    BY QueueAppend DEF SocketShape
  <1>2. \A i \in 1 .. Len(up') : i \in 1 .. Len(up) \/ i = Len(up) + 1
    BY <1>1
  <1>3. UpShape'
    BY <1>1, <1>2 DEF UpShape, SocketShape
  <1> QED
    BY <1>1, <1>2, <1>3

LEMMA LongerInOrder ==
  ASSUME SocketShape, NEW x, DataFrame(x),
         x.op \in Openers \cup {"continuation"} => HasData(x), up' = Append(up, x),
         UpInOrder,
         HasData(x) => \A i \in 1 .. Len(up) : HasData(up[i]) =>
            Rank(up[i]) <= Rank(x) /\ (Stray(up[i]) \/ Rank(up[i]) < Rank(x))
  PROVE  UpInOrder'
  <1> SUFFICES ASSUME NEW i \in 1 .. Len(up'), NEW j \in 1 .. Len(up'), i < j,
                      HasData(up'[i]), HasData(up'[j])
               PROVE  /\ Rank(up'[i]) <= Rank(up'[j])
                      /\ Stray(up'[i]) \/ Rank(up'[i]) < Rank(up'[j])
    BY DEF UpInOrder
  <1>1. i \in 1 .. Len(up) /\ up'[i] = up[i]
    BY LongerShape
  <1>2. CASE j \in 1 .. Len(up)
    BY <1>1, <1>2, LongerShape DEF UpInOrder
  <1>3. CASE j = Len(up) + 1
    BY <1>1, <1>3, LongerShape
  <1> QED
    BY <1>2, <1>3, LongerShape

LEMMA SendsControl ==
  ASSUME SocketShape, NEW r \in Nat, UpAfter(r), NEW x,
         x.op \notin Openers \cup {"continuation"}, up' = Append(up, x),
         UNCHANGED <<said, partial>>,
         \/ UNCHANGED draft
         \/ draft = NoMessage /\ draft' = [op |-> "close", parts |-> <<>>]
  PROVE  UpAfter(r)' /\ IsSeq(up)' /\ UpShape' /\ DraftShape'
  <1>1. ~HasData(x) /\ DataFrame(x)
    BY DEF HasData, Opens, Ends, Stray, DataFrame
  <1>2. /\ IsSeq(up)' /\ UpShape' /\ Len(up) \in Nat /\ Len(up') = Len(up) + 1
        /\ \A i \in 1 .. Len(up) : up'[i] = up[i] /\ i \in 1 .. Len(up')
        /\ up'[Len(up) + 1] = x /\ Len(up) + 1 \in 1 .. Len(up')
        /\ \A i \in 1 .. Len(up') : i \in 1 .. Len(up) \/ i = Len(up) + 1
    BY <1>1, LongerShape
  <1>3. UpInOrder'
    BY <1>1, LongerInOrder DEF UpAfter
  <1>4. (Drafting' <=> Drafting) /\ (Collecting' <=> Collecting)
    BY DEF Drafting, NoMessage, Openers, Collecting
  <1>5. DraftShape'
    BY DEF SocketShape, DraftShape
  <1>6. CollectedAfter(r)'
    <2>1. Collecting => draft # NoMessage \/ partial # draft
      BY DEF Collecting, NoMessage, Openers
    <2> QED
      BY <1>4, <2>1 DEF UpAfter, CollectedAfter
  <1>7. UpCarries'
    <2> SUFFICES ASSUME NEW i \in 1 .. Len(up'), HasData(up'[i]) PROVE Carries(up[i])'
      BY DEF UpCarries
    <2>1. up'[i] = up[i] /\ Carries(up[i])
      BY <1>1, <1>2 DEF UpAfter, UpCarries
    <2>2. Opens(up[i]) => draft # NoMessage \/ draft # [op |-> up[i].op, parts |-> up[i].parts]
      BY DEF Opens, Openers, NoMessage
    <2> QED
      BY <2>1, <2>2 DEF Carries
  <1>8. UpWithin(r)'
    <2>1. Lowest(r)' = Lowest(r) /\ Highest' = Highest
      BY <1>4 DEF Lowest, Highest
    <2> QED
      BY <1>1, <1>2, <2>1 DEF UpAfter, UpWithin
  <1>9. UpComplete(r)'
    <2>1. Begun' = Begun
      BY <1>4 DEF Begun
    <2> QED
      BY <1>2, <1>4, <2>1 DEF UpAfter, UpComplete
  <1> QED
    BY <1>2, <1>3, <1>5, <1>6, <1>7, <1>8, <1>9 DEF UpAfter

\* A frame with data is sent after those of the messages said before it.
LEMMA SendsData ==
  ASSUME SocketShape, NEW r \in Nat, r <= Len(said), UpAfter(r), NEW x, DataFrame(x),
         HasData(x), up' = Append(up, x), UNCHANGED partial, NEW n \in Nat,
         Len(said') = n, n >= Len(said),
         \A m \in 1 .. Len(said) : said'[m] = said[m],
         OfFrame(x) = Len(said) + 1,
         Ends(x) <=> Drafting,
         Highest' >= Rank(x), Highest' >= Highest,
         Carries(x)', CollectedAfter(r)',
         \A i \in 1 .. Len(up) : HasData(up[i]) /\ Carries(up[i]) => Carries(up[i])',
         Begun' = IF Opens(x) \/ Drafting THEN Len(said) + 1 ELSE Len(said),
         n > Len(said) /\ (\E p, q \in Parts : said'[Len(said) + 1].parts = <<p, q>>) => Ends(x),
         n <= Len(said) + 1
  PROVE  UpAfter(r)'
  <1>0. x.op \in Openers \cup {"continuation"} => HasData(x)
    OBVIOUS
  <1>1. /\ IsSeq(up)' /\ UpShape' /\ Len(up) \in Nat /\ Len(up') = Len(up) + 1
        /\ \A i \in 1 .. Len(up) : up'[i] = up[i] /\ i \in 1 .. Len(up')
        /\ up'[Len(up) + 1] = x /\ Len(up) + 1 \in 1 .. Len(up')
        /\ \A i \in 1 .. Len(up') : i \in 1 .. Len(up) \/ i = Len(up) + 1
    BY <1>0, LongerShape
  <1> DEFINE L == Len(said)
  <1>2. L \in Nat
    BY Said
  <1>3. /\ Opens(x) => Rank(x) = 3 * (L + 1) + 1
        /\ Ends(x) => Rank(x) = 3 * (L + 1) + 2
        /\ Stray(x) => Rank(x) = 3 * (L + 1)
        /\ Rank(x) \in Nat
        /\ Opens(x) \/ Ends(x) \/ Stray(x)
        /\ ~(Opens(x) /\ Ends(x)) /\ ~(Stray(x) /\ Ends(x))
    BY Kinds DEF HasData
  <1>4. Highest = 3 * (L + 1) + (IF Drafting THEN 1 ELSE 0)
    BY DEF Highest
  <1>5. Collecting' <=> Collecting
    BY DEF Collecting
  <1> HIDE DEF L
  <1>6. ASSUME NEW i \in 1 .. Len(up), HasData(up[i])
        PROVE  Rank(up[i]) <= Rank(x) /\ (Stray(up[i]) \/ Rank(up[i]) < Rank(x))
    <2>1. Rank(up[i]) <= Highest /\ DataFrame(up[i])
      BY <1>6, InQueue DEF UpAfter, UpWithin
    <2>2. PICK o \in Nat : o = OfFrame(up[i])
      BY <1>6, <2>1, Kinds
    <2>3. /\ Rank(up[i]) \in Nat
          /\ Stray(up[i]) \/ Rank(up[i]) = 3 * o + 1 \/ Rank(up[i]) = 3 * o + 2
      BY <1>6, <2>1, <2>2, Kinds DEF HasData
    <2> QED
      BY <1>2, <1>3, <1>4, <2>1, <2>3
  <1>7. UpInOrder'
    BY <1>0, <1>6, LongerInOrder DEF UpAfter
  <1>8. UpCarries'
    <2> SUFFICES ASSUME NEW i \in 1 .. Len(up'), HasData(up'[i]) PROVE Carries(up[i])'
      BY DEF UpCarries
    <2>1. CASE i \in 1 .. Len(up)
      <3>1. up'[i] = up[i] /\ Carries(up[i])
        BY <1>1, <2>1 DEF UpAfter, UpCarries
      <3> QED
        BY <2>1, <3>1
    <2>2. CASE i = Len(up) + 1
      BY <1>1, <2>2
    <2> QED
      BY <1>1, <2>1, <2>2
  <1>9. UpWithin(r)'
    <2>1. Lowest(r)' = Lowest(r)
      BY <1>5 DEF Lowest
    <2>2. Lowest(r) <= Rank(x)
      <3>1. CASE ~Collecting
        BY <1>2, <1>3, <3>1 DEF Lowest, L
      <3>2. CASE Collecting
        <4>1. r < L \/ (r = L /\ Drafting)
          <5>1. PICK p \in Parts :
                  \/ /\ r < Len(said) /\ said[r + 1].op = partial.op
                     /\ \E q \in Parts : said[r + 1].parts = <<p, q>>
                  \/ r = Len(said) /\ draft = partial
            BY <3>2 DEF UpAfter, CollectedAfter
          <5>2. draft = partial => Drafting
            BY <3>2 DEF Collecting, Drafting
          <5> QED
            BY <5>1, <5>2 DEF L
        <4> QED
          BY <1>2, <1>3, <3>2, <4>1 DEF Lowest
      <3> QED
        BY <3>1, <3>2
    <2>3. ASSUME NEW i \in 1 .. Len(up), HasData(up[i])
          PROVE  Lowest(r) <= Rank(up[i]) /\ Rank(up[i]) <= Highest'
      <3>1. Lowest(r) <= Rank(up[i]) /\ Rank(up[i]) <= Highest
        BY <2>3 DEF UpAfter, UpWithin
      <3>2. Rank(up[i]) \in Nat /\ Highest \in Nat /\ Highest' \in Int
        <4>1. Highest \in Nat
          BY <1>2, <1>4
        <4>2. Highest' \in Int
          BY DEF Highest
        <4> QED
          BY <2>3, <4>1, <4>2, InQueue, Kinds
      <3> QED
        BY <3>1, <3>2
    <2>4. ASSUME NEW i \in 1 .. Len(up'), HasData(up'[i])
          PROVE  Lowest(r) <= Rank(up'[i]) /\ Rank(up'[i]) <= Highest'
      BY <1>1, <2>2, <2>3, <2>4
    <2> QED
      BY <2>1, <2>4 DEF UpWithin
  <1>10. UpComplete(r)'
    <2>1. Begun = IF Drafting THEN L + 1 ELSE L
      BY DEF Begun, L
    <2>2. ASSUME NEW m \in r + 1 .. Begun', ~(Collecting /\ m = r + 1)
          PROVE  \E i \in 1 .. Len(up') : Opens(up'[i]) /\ OfFrame(up'[i]) = m
      <3>1. CASE m <= Begun
        <4>1. m \in r + 1 .. Begun
          BY <1>2, <2>1, <3>1 DEF L
        <4>2. PICK i \in 1 .. Len(up) : Opens(up[i]) /\ OfFrame(up[i]) = m
          BY <2>2, <4>1 DEF UpAfter, UpComplete
        <4> QED
          BY <1>1, <4>2
      <3>2. CASE ~(m <= Begun)
        <4>1. Opens(x) /\ m = L + 1
          BY <1>2, <2>1, <3>2 DEF L
        <4> QED
          BY <1>1, <4>1 DEF L
      <3> QED
        BY <3>1, <3>2
    <2>3. ASSUME NEW m \in r + 1 .. n, NEW p \in Parts, NEW q \in Parts,
                 said'[m].parts = <<p, q>>
          PROVE  \E i \in 1 .. Len(up') : Ends(up'[i]) /\ OfFrame(up'[i]) = m
      <3>1. CASE m <= L
        <4>1. m \in r + 1 .. Len(said) /\ said[m].parts = <<p, q>>
          BY <1>2, <2>3, <3>1 DEF L
        <4>2. PICK i \in 1 .. Len(up) : Ends(up[i]) /\ OfFrame(up[i]) = m
          BY <4>1 DEF UpAfter, UpComplete
        <4> QED
          BY <1>1, <4>2
      <3>2. CASE ~(m <= L)
        <4>1. m = L + 1 /\ n > L
          BY <1>2, <3>2 DEF L
        <4> QED
          BY <1>1, <2>3, <4>1 DEF L
      <3> QED
        BY <3>1, <3>2
    <2> QED
      BY <1>5, <2>2, <2>3 DEF UpComplete
  <1> QED
    BY <1>7, <1>8, <1>9, <1>10 DEF UpAfter

\* What the client does to its own side leaves the rest of the connection.
LEMMA SpeaksStep ==
  ASSUME SocketInv, line = "open", UNCHANGED <<down, line, heard, echoer, partial, message>>,
         IsSeq(up)', UpShape', DraftShape', said' \in Seq(Messages),
         \A m \in 1 .. Len(said') : said'[m].parts[1].of = m,
         Len(said) <= Len(said'), \A m \in 1 .. Len(said) : said'[m] = said[m],
         \A r \in Nat : r <= Len(said) /\ UpAfter(r) => UpAfter(r)'
  PROVE  SocketInv'
  <1>1. SocketShape /\ Len(said) \in Nat /\ Len(heard) \in Nat /\ Len(said') \in Nat
    BY Said DEF SocketInv
  <1>2. SocketShape'
    BY DEF SocketInv, SocketShape
  <1>3. HeardIsSaid'
    BY <1>1 DEF SocketInv, HeardIsSaid
  <1>4. OnTheWay'
    <2>1. PICK k \in 0 .. Len(said) :
            /\ WrittenUpTo(k)
            /\ echoer = "send" => k < Len(said) /\ message = said[k + 1]
            /\ echoer # "ended" => UpAfter(InHand(k))
      BY DEF SocketInv, OnTheWay
    <2>2. k \in 0 .. Len(said') /\ k <= Len(said) /\ k \in Nat
      BY <1>1
    <2>3. WrittenUpTo(k)'
      <3>1. Len(heard) <= k /\ k <= Len(said')
        BY <1>1, <2>1, <2>2 DEF WrittenUpTo
      <3>2. ASSUME NEW i \in 1 .. Len(down), Opens(down[i])
            PROVE  /\ OfFrame(down[i]) \in Len(heard) + 1 .. k
                   /\ said'[OfFrame(down[i])] = [op |-> down[i].op, parts |-> down[i].parts]
        <4>1. /\ OfFrame(down[i]) \in Len(heard) + 1 .. k
              /\ said[OfFrame(down[i])] = [op |-> down[i].op, parts |-> down[i].parts]
          BY <2>1, <3>2 DEF WrittenUpTo
        <4>2. OfFrame(down[i]) \in 1 .. Len(said)
          BY <1>1, <2>2, <4>1
        <4> QED
          BY <4>1, <4>2
      <3> QED
        BY <2>1, <3>1, <3>2 DEF WrittenUpTo
    <2>4. echoer = "send" => k < Len(said') /\ message = said'[k + 1]
      BY <1>1, <2>1, <2>2
    <2>5. ASSUME echoer # "ended" PROVE UpAfter(InHand(k))'
      <3>1. InHand(k)' = InHand(k) /\ InHand(k) \in Nat /\ InHand(k) <= Len(said)
        BY <1>1, <2>1, <2>2 DEF InHand
      <3>2. UpAfter(InHand(k))
        BY <2>1, <2>5
      <3> DEFINE r == InHand(k)
      <3>3. r \in Nat /\ r <= Len(said) /\ UpAfter(r) /\ r' = r
        BY <3>1, <3>2
      <3> HIDE DEF r
      <3>4. UpAfter(r)'
        BY <3>3
      <3> QED
        BY <3>3, <3>4 DEF r
    <2> QED
      BY <2>2, <2>3, <2>4, <2>5 DEF OnTheWay
  <1> QED
    BY <1>2, <1>3, <1>4 DEF SocketInv

LEMMA Framed ==
  ASSUME NEW m
  PROVE  Frame(m).op = m.op /\ Frame(m).fin = TRUE /\ Frame(m).parts = m.parts
  BY DEF Frame

\* A frame on its way carries its message when more has been said.
LEMMA StillCarries ==
  ASSUME SocketShape, NEW x, DataFrame(x),
         x.op \in Openers \cup {"continuation"} => HasData(x), up' = Append(up, x),
         Len(said) <= Len(said'), Len(said') \in Nat,
         \A m \in 1 .. Len(said) : said'[m] = said[m],
         Drafting =>
            \/ draft' = draft /\ Len(said') = Len(said)
            \/ /\ Len(said) + 1 <= Len(said') /\ said'[Len(said) + 1].op = draft.op
               /\ \E q \in Parts : said'[Len(said) + 1].parts = <<draft.parts[1], q>>,
         NEW i \in 1 .. Len(up), HasData(up[i]), Carries(up[i])
  PROVE  Carries(up[i])'
  <1> DEFINE f == up[i]
             o == OfFrame(f)
  <1>1. up'[i] = f
    BY LongerShape
  <1>2. o \in Nat \ {0} /\ Len(said) \in Nat
    BY InQueue, Kinds, Said
  <1>3. o <= Len(said) => said'[o] = said[o] /\ o <= Len(said')
    BY <1>2
  <1>4. CASE Opens(f) /\ o <= Len(said)
    <2>1. ~Ends(f)
      BY <1>4, InQueue, Kinds
    <2> QED
      BY <1>1, <1>2, <1>3, <1>4, <2>1 DEF Carries
  <1>5. CASE Ends(f)
    <2>1. ~Opens(f)
      BY <1>5, InQueue, Kinds
    <2> QED
      BY <1>1, <1>3, <1>5, <2>1 DEF Carries
  <1>6. CASE Opens(f) /\ ~(o <= Len(said))
    <2>1. ~Ends(f)
      BY <1>6, InQueue, Kinds
    <2>2. ~f.fin /\ o = Len(said) + 1 /\ draft = [op |-> f.op, parts |-> f.parts]
      BY <1>6 DEF Carries
    <2>3. Drafting /\ draft.op = f.op /\ draft.parts[1] = f.parts[1]
      BY <1>6, <2>2 DEF Drafting, Opens
    <2>4. \/ draft' = draft /\ Len(said') = Len(said)
          \/ /\ o <= Len(said') /\ said'[o].op = f.op
             /\ \E q \in Parts : said'[o].parts = <<f.parts[1], q>>
      BY <2>2, <2>3
    <2> QED
      BY <1>1, <1>6, <2>1, <2>2, <2>4 DEF Carries
  <1>7. CASE Stray(f)
    <2>1. ~Opens(f) /\ ~Ends(f)
      BY <1>7, InQueue, Kinds
    <2> QED
      BY <1>1, <2>1 DEF Carries
  <1> QED
    BY <1>4, <1>5, <1>6, <1>7 DEF HasData

LEMMA ControlsStep ==
  ASSUME SocketInv, ClientControls
  PROVE  SocketInv'
  <1>1. PICK op \in {"ping", "pong", "unknown"} \cup
                    (IF draft = NoMessage THEN {"continuation"} ELSE {}) :
          Sends(Frame([op |-> op,
                       parts |-> IF op = "continuation" THEN <<Part(0)>> ELSE <<>>]))
    BY DEF ClientControls
  <1> DEFINE sent == [op |-> op, parts |-> IF op = "continuation" THEN <<Part(0)>> ELSE <<>>]
  <1>2. PICK x : /\ x.op = op /\ line = "open" /\ up' = Append(up, x)
                 /\ x.parts = IF op = "continuation" THEN <<Part(0)>> ELSE <<>>
    <2>1. Frame(sent).op = op /\ Frame(sent).parts = sent.parts
      BY Framed
    <2> QED
      BY <1>1, <2>1 DEF Sends
  <1> HIDE DEF sent
  <1>4. UNCHANGED <<down, line, draft, said, heard, echoer, partial, message>>
    BY DEF ClientControls
  <1>5. SocketShape /\ Len(said) \in Nat
    BY Said DEF SocketInv
  <1>6. CASE op # "continuation"
    <2>1. x.op \notin Openers \cup {"continuation"}
      BY <1>1, <1>2, <1>6 DEF Openers
    <2>2. \A r \in Nat : UpAfter(r) => UpAfter(r)'
      BY <1>2, <1>4, <1>5, <2>1, SendsControl
    <2>3. IsSeq(up)' /\ UpShape'
      <3>1. DataFrame(x) /\ (x.op \in Openers \cup {"continuation"} => HasData(x))
        BY <2>1 DEF DataFrame, HasData, Opens, Ends, Stray
      <3> QED
        BY <1>2, <1>5, <3>1, LongerShape
    <2>4. DraftShape'
      BY <1>4, <1>5 DEF SocketShape, DraftShape
    <2>5. said' \in Seq(Messages) /\ \A m \in 1 .. Len(said') : said'[m].parts[1].of = m
      BY <1>4, <1>5 DEF SocketShape
    <2> QED
      BY <1>2, <1>4, <1>5, <2>2, <2>3, <2>4, <2>5, SpeaksStep
  <1>7. CASE op = "continuation"
    <2>1. draft = NoMessage /\ ~Drafting
      BY <1>1, <1>7 DEF Drafting, NoMessage, Openers
    <2>2. x.parts = <<Part(0)>> /\ Part(0) = [of |-> Len(said) + 1, place |-> 1, size |-> 0]
      BY <1>2, <1>7, <2>1 DEF Part, NoMessage
    <2>3. Part(0) \in Parts
      BY <1>5, <2>2 DEF Parts
    <2>4. /\ Stray(x) /\ ~Opens(x) /\ ~Ends(x) /\ HasData(x) /\ DataFrame(x)
          /\ OfFrame(x) = Len(said) + 1
      BY <1>2, <1>7, <2>2, <2>3 DEF Stray, Opens, Ends, HasData, DataFrame, OfFrame, Openers
    <2>5. Rank(x) = 3 * (Len(said) + 1)
      BY <2>4, Kinds
    <2>6. Highest' = Highest /\ Highest = 3 * (Len(said) + 1) /\ Begun' = Len(said)
          /\ (Drafting' <=> Drafting)
      BY <1>4, <2>1 DEF Highest, Drafting, Begun
    <2>7. /\ Carries(x)'
          /\ \A i \in 1 .. Len(up) : HasData(up[i]) /\ Carries(up[i]) => Carries(up[i])'
      <3>1. Carries(x)'
        BY <2>4 DEF Carries
      <3> QED
        BY <1>2, <1>4, <1>5, <2>1, <2>4, <3>1, StillCarries
    <2>8. ASSUME NEW r \in Nat, r <= Len(said), UpAfter(r) PROVE UpAfter(r)'
      <3>1. CollectedAfter(r)'
        BY <1>4, <2>8 DEF UpAfter, CollectedAfter, Collecting
      <3> DEFINE n == Len(said)
      <3>2. n \in Nat /\ Len(said') = n /\ n >= Len(said) /\ n <= Len(said) + 1 /\ ~(n > Len(said))
        BY <1>4, <1>5
      <3>3. Highest' >= Rank(x) /\ Highest' >= Highest
        BY <1>5, <2>5, <2>6
      <3> HIDE DEF n
      <3> QED
        BY <1>2, <1>4, <1>5, <2>1, <2>4, <2>6, <2>7, <2>8, <3>1, <3>2, <3>3, SendsData
    <2>9. IsSeq(up)' /\ UpShape'
      BY <1>2, <1>5, <2>4, LongerShape
    <2>10. DraftShape'
      BY <1>4, <1>5 DEF SocketShape, DraftShape
    <2>11. said' \in Seq(Messages) /\ \A m \in 1 .. Len(said') : said'[m].parts[1].of = m
      BY <1>4, <1>5 DEF SocketShape
    <2> QED
      BY <1>2, <1>4, <1>5, <2>8, <2>9, <2>10, <2>11, SpeaksStep
  <1> QED
    BY <1>6, <1>7

LEMMA ClosesStep ==
  ASSUME SocketInv, ClientCloses
  PROVE  SocketInv'
  <1> DEFINE x == Frame([op |-> "close", parts |-> <<>>])
  <1>1. x.op \notin Openers \cup {"continuation"}
    <2>1. x.op = "close"
      BY DEF Frame
    <2> QED
      BY <2>1 DEF Openers
  <1>2. /\ line = "open" /\ up' = Append(up, x) /\ draft = NoMessage
        /\ draft' = [op |-> "close", parts |-> <<>>]
        /\ UNCHANGED <<down, line, said, heard, echoer, partial, pings, message>>
    BY DEF ClientCloses, Sends
  <1> HIDE DEF x
  <1>3. SocketShape /\ Len(said) \in Nat
    BY Said DEF SocketInv
  <1>4. \A r \in Nat : UpAfter(r) => UpAfter(r)'
    BY <1>1, <1>2, <1>3, SendsControl
  <1>5. IsSeq(up)' /\ UpShape'
    <2>1. DataFrame(x) /\ (x.op \in Openers \cup {"continuation"} => HasData(x))
      BY <1>1 DEF DataFrame, HasData, Opens, Ends, Stray
    <2> QED
      BY <1>2, <1>3, <2>1, LongerShape
  <1>6. DraftShape'
    BY <1>2 DEF DraftShape
  <1>7. said' \in Seq(Messages) /\ \A m \in 1 .. Len(said') : said'[m].parts[1].of = m
    BY <1>2, <1>3 DEF SocketShape
  <1> QED
    BY <1>2, <1>3, <1>4, <1>5, <1>6, <1>7, SpeaksStep

LEMMA SaysMore ==
  ASSUME SocketShape, NEW w \in Messages, w.parts[1].of = Len(said) + 1, said' = Append(said, w)
  PROVE  /\ said' \in Seq(Messages) /\ Len(said') = Len(said) + 1 /\ Len(said) \in Nat
         /\ \A m \in 1 .. Len(said) : said'[m] = said[m]
         /\ said'[Len(said) + 1] = w
         /\ \A m \in 1 .. Len(said') : said'[m].parts[1].of = m
  <1>1. /\ said' \in Seq(Messages) /\ Len(said') = Len(said) + 1 /\ Len(said) \in Nat
        /\ \A m \in 1 .. Len(said) : said'[m] = said[m]
        /\ said'[Len(said) + 1] = w
    BY AppendProperties DEF SocketShape
  <1>2. ASSUME NEW m \in 1 .. Len(said') PROVE said'[m].parts[1].of = m
    <2>1. m \in 1 .. Len(said) \/ m = Len(said) + 1
      BY <1>1
    <2> QED
      BY <1>1, <2>1 DEF SocketShape
  <1> QED
    BY <1>1, <1>2

LEMMA Fragment ==
  ASSUME NEW m, NEW b
  PROVE  /\ [Frame(m) EXCEPT !.fin = b].op = m.op /\ [Frame(m) EXCEPT !.fin = b].fin = b
         /\ [Frame(m) EXCEPT !.fin = b].parts = m.parts
  <1>1. PICK h : h = LengthHead(SizeOf(m.parts))
    OBVIOUS
  <1>2. Frame(m) = [op |-> m.op, fin |-> TRUE, parts |-> m.parts, head |-> h]
    BY <1>1, Zenon DEF Frame
  <1>3. [Frame(m) EXCEPT !.fin = b] = [op |-> m.op, fin |-> b, parts |-> m.parts, head |-> h]
    BY <1>2
  <1> QED
    BY <1>3

LEMMA BeginsStep ==
  ASSUME SocketInv, ClientBegins
  PROVE  SocketInv'
  <1>1. PICK op \in {"text", "binary"}, size \in Sizes, fin \in BOOLEAN :
          LET whole == [op |-> op, parts |-> <<Part(size)>>] IN
          /\ Sends([Frame(whole) EXCEPT !.fin = fin])
          /\ IF fin THEN said' = Append(said, whole) /\ UNCHANGED draft
             ELSE draft' = whole /\ UNCHANGED said
    BY DEF ClientBegins
  <1>2. PICK p : p = Part(size)
    OBVIOUS
  <1>3. /\ draft = NoMessage /\ UNCHANGED <<down, line, heard, echoer, partial, pings, message>>
        /\ SocketShape /\ Len(said) \in Nat /\ ~Drafting
    BY Said DEF SocketInv, ClientBegins, Drafting, NoMessage, Openers
  <1>4. p \in Parts /\ p.of = Len(said) + 1 /\ p.place = 1
    <2>1. p = [of |-> Len(said) + 1, place |-> 1, size |-> size]
      BY <1>2, <1>3 DEF Part, NoMessage
    <2> QED
      BY <1>3, <2>1 DEF Parts
  <1> DEFINE whole == [op |-> op, parts |-> <<p>>]
  <1>5. PICK x : /\ x.op = op /\ x.parts = <<p>> /\ x.fin = fin
                 /\ line = "open" /\ up' = Append(up, x)
    <2>1. /\ [Frame(whole) EXCEPT !.fin = fin].op = op /\ [Frame(whole) EXCEPT !.fin = fin].fin = fin
          /\ [Frame(whole) EXCEPT !.fin = fin].parts = <<p>>
      BY Fragment
    <2> QED
      BY <1>1, <1>2, <2>1 DEF Sends
  <1>6. IF fin THEN said' = Append(said, whole) /\ UNCHANGED draft
        ELSE draft' = whole /\ UNCHANGED said
    BY <1>1, <1>2
  <1>7. whole \in Messages /\ whole.parts[1].of = Len(said) + 1
    BY <1>4 DEF Messages, Openers
  <1> HIDE DEF whole
  <1>8. /\ Opens(x) /\ ~Stray(x) /\ ~Ends(x) /\ HasData(x) /\ DataFrame(x)
        /\ OfFrame(x) = Len(said) + 1
    BY <1>4, <1>5 DEF Opens, Openers, Stray, Ends, HasData, DataFrame, OfFrame
  <1>9. Rank(x) = 3 * (Len(said) + 1) + 1
    BY <1>8, Kinds
  <1>10. Highest = 3 * (Len(said) + 1)
    BY <1>3 DEF Highest
  <1>11. IsSeq(up)' /\ UpShape'
    BY <1>3, <1>5, <1>8, LongerShape
  <1>12. CASE fin
    <2>1. said' = Append(said, whole) /\ draft' = draft /\ (Drafting' <=> Drafting)
      BY <1>6, <1>12 DEF Drafting
    <2>2. /\ said' \in Seq(Messages) /\ Len(said') = Len(said) + 1
          /\ \A m \in 1 .. Len(said) : said'[m] = said[m]
          /\ said'[Len(said) + 1] = whole
          /\ \A m \in 1 .. Len(said') : said'[m].parts[1].of = m
      BY <1>3, <1>7, <2>1, SaysMore
    <2>3. Highest' = 3 * (Len(said) + 2) /\ Begun' = Len(said) + 1
      BY <1>3, <2>1, <2>2 DEF Highest, Begun
    <2>4. Carries(x)'
      BY <1>3, <1>5, <1>8, <1>12, <2>2 DEF Carries, whole
    <2>5. \A i \in 1 .. Len(up) : HasData(up[i]) /\ Carries(up[i]) => Carries(up[i])'
      BY <1>3, <1>5, <1>8, <2>2, StillCarries
    <2>6. ASSUME NEW r \in Nat, r <= Len(said), UpAfter(r) PROVE UpAfter(r)'
      <3>1. CollectedAfter(r)'
        <4> SUFFICES ASSUME Collecting' PROVE CollectedAfter(r)'
          BY DEF CollectedAfter
        <4>1. Collecting /\ partial' = partial
          BY <1>3 DEF Collecting
        <4>2. PICK q \in Parts :
                /\ partial.parts = <<q>> /\ q.of = r + 1
                /\ \/ /\ r < Len(said) /\ said[r + 1].op = partial.op
                      /\ \E t \in Parts : said[r + 1].parts = <<q, t>>
                   \/ r = Len(said) /\ draft = partial
          BY <2>6, <4>1 DEF UpAfter, CollectedAfter
        <4>3. r < Len(said)
          BY <1>3, <4>1, <4>2 DEF Collecting, Drafting
        <4>4. said'[r + 1] = said[r + 1] /\ r < Len(said')
          BY <1>3, <2>2, <4>3
        <4> QED
          BY <4>1, <4>2, <4>3, <4>4 DEF CollectedAfter
      <3>2. Highest' >= Rank(x) /\ Highest' >= Highest
        BY <1>3, <1>9, <1>10, <2>3
      <3>3. \A t, q \in Parts : said'[Len(said) + 1].parts # <<t, q>>
        BY <2>2 DEF whole
      <3>4. Len(said') \in Nat /\ Len(said') >= Len(said) /\ Len(said') <= Len(said) + 1
        BY <1>3, <2>2
      <3> DEFINE n == Len(said) + 1
      <3>5. n \in Nat /\ Len(said') = n /\ n >= Len(said) /\ n <= Len(said) + 1
        BY <1>3, <2>2
      <3> HIDE DEF n
      <3> QED
        BY <1>3, <1>5, <1>8, <2>2, <2>3, <2>4, <2>5, <2>6, <3>1, <3>2, <3>3, <3>5, SendsData
    <2>7. DraftShape'
      BY <1>3, <2>1 DEF DraftShape
    <2>8. Len(said) <= Len(said')
      BY <1>3, <2>2
    <2> QED
      BY <1>3, <1>5, <1>11, <2>2, <2>6, <2>7, <2>8, SpeaksStep
  <1>13. CASE ~fin
    <2>1. draft' = whole /\ said' = said /\ Drafting'
      BY <1>6, <1>13 DEF Drafting, Openers, whole
    <2>2. Highest' = 3 * (Len(said) + 1) + 1 /\ Begun' = Len(said) + 1
      BY <1>3, <2>1 DEF Highest, Begun
    <2>3. Carries(x)'
      BY <1>3, <1>5, <1>8, <1>13, <2>1 DEF Carries, whole
    <2>4. \A i \in 1 .. Len(up) : HasData(up[i]) /\ Carries(up[i]) => Carries(up[i])'
      BY <1>3, <1>5, <1>8, <2>1, StillCarries
    <2>5. ASSUME NEW r \in Nat, r <= Len(said), UpAfter(r) PROVE UpAfter(r)'
      <3>1. CollectedAfter(r)'
        <4> SUFFICES ASSUME Collecting' PROVE CollectedAfter(r)'
          BY DEF CollectedAfter
        <4>1. Collecting /\ partial' = partial
          BY <1>3 DEF Collecting
        <4>2. PICK q \in Parts :
                /\ partial.parts = <<q>> /\ q.of = r + 1
                /\ \/ /\ r < Len(said) /\ said[r + 1].op = partial.op
                      /\ \E t \in Parts : said[r + 1].parts = <<q, t>>
                   \/ r = Len(said) /\ draft = partial
          BY <2>5, <4>1 DEF UpAfter, CollectedAfter
        <4>3. r < Len(said)
          BY <1>3, <4>1, <4>2 DEF Collecting, Drafting
        <4> QED
          BY <2>1, <4>1, <4>2, <4>3 DEF CollectedAfter
      <3>2. Highest' >= Rank(x) /\ Highest' >= Highest
        BY <1>3, <1>9, <1>10, <2>2
      <3> DEFINE n == Len(said)
      <3>3. n \in Nat /\ Len(said') = n /\ n >= Len(said) /\ n <= Len(said) + 1 /\ ~(n > Len(said))
        BY <1>3, <2>1
      <3> HIDE DEF n
      <3> QED
        BY <1>3, <1>5, <1>8, <2>1, <2>2, <2>3, <2>4, <2>5, <3>1, <3>2, <3>3, SendsData
    <2>6. DraftShape'
      BY <1>4, <2>1 DEF DraftShape, Openers, whole
    <2>7. said' \in Seq(Messages) /\ \A m \in 1 .. Len(said') : said'[m].parts[1].of = m
      BY <1>3, <2>1 DEF SocketShape
    <2> QED
      BY <1>3, <1>5, <1>11, <2>1, <2>5, <2>6, <2>7, SpeaksStep
  <1> QED
    BY <1>12, <1>13

LEMMA EndsStep ==
  ASSUME SocketInv, ClientEnds
  PROVE  SocketInv'
  <1>1. PICK size \in Sizes :
          LET rest == [op |-> "continuation", parts |-> <<Part(size)>>] IN
          /\ Sends(Frame(rest))
          /\ said' = Append(said, [draft EXCEPT !.parts = @ \o rest.parts])
    BY DEF ClientEnds
  <1>2. /\ draft.op \in Openers /\ draft' = NoMessage /\ Drafting /\ ~Drafting'
        /\ UNCHANGED <<down, line, heard, echoer, partial, pings, message>>
        /\ SocketShape /\ Len(said) \in Nat
    BY Said DEF SocketInv, ClientEnds, Drafting, NoMessage, Openers
  <1>3. PICK op \in Openers, p \in Parts :
          draft = [op |-> op, parts |-> <<p>>] /\ p.of = Len(said) + 1 /\ p.place = 1
    BY <1>2 DEF SocketShape, DraftShape, NoMessage, Openers
  <1>4. PICK q : q = Part(size)
    OBVIOUS
  <1>5. q \in Parts /\ q.of = Len(said) + 1 /\ q.place = 2
    <2>1. Len(draft.parts) = 1
      BY <1>3
    <2>2. q = [of |-> Len(said) + 1, place |-> 2, size |-> size]
      BY <1>4, <2>1 DEF Part
    <2> QED
      BY <1>2, <2>2 DEF Parts
  <1>6. PICK x : /\ x.op = "continuation" /\ x.parts = <<q>> /\ x.fin = TRUE
                 /\ line = "open" /\ up' = Append(up, x)
    <2> DEFINE rest == [op |-> "continuation", parts |-> <<q>>]
    <2>1. Frame(rest).op = rest.op /\ Frame(rest).fin = TRUE /\ Frame(rest).parts = rest.parts
      BY Framed
    <2> QED
      BY <1>1, <1>4, <2>1 DEF Sends
  <1> DEFINE w == [op |-> op, parts |-> <<p, q>>]
  <1>7. said' = Append(said, w)
    <2>1. <<p>> \o <<q>> = <<p, q>>
      BY <1>5, TwoParts
    <2> QED
      BY <1>1, <1>3, <1>4, <2>1
  <1>8. w \in Messages /\ w.parts[1].of = Len(said) + 1
    BY <1>3, <1>5 DEF Messages
  <1> HIDE DEF w
  <1>9. /\ Ends(x) /\ ~Stray(x) /\ ~Opens(x) /\ HasData(x) /\ DataFrame(x)
        /\ OfFrame(x) = Len(said) + 1
    BY <1>5, <1>6 DEF Opens, Openers, Stray, Ends, HasData, DataFrame, OfFrame
  <1>10. Rank(x) = 3 * (Len(said) + 1) + 2
    BY <1>9, Kinds
  <1>11. Highest = 3 * (Len(said) + 1) + 1
    BY <1>2 DEF Highest
  <1>12. IsSeq(up)' /\ UpShape'
    BY <1>2, <1>6, <1>9, LongerShape
  <1>13. /\ said' \in Seq(Messages) /\ Len(said') = Len(said) + 1
         /\ \A m \in 1 .. Len(said) : said'[m] = said[m]
         /\ said'[Len(said) + 1] = w
         /\ \A m \in 1 .. Len(said') : said'[m].parts[1].of = m
    BY <1>2, <1>7, <1>8, SaysMore
  <1>14. said'[Len(said) + 1].op = draft.op /\ said'[Len(said) + 1].parts = <<draft.parts[1], q>>
    BY <1>3, <1>13 DEF w
  <1>15. Highest' = 3 * (Len(said) + 2) /\ Begun' = Len(said) + 1
    BY <1>2, <1>13 DEF Highest, Begun
  <1>16. Carries(x)'
    <2>1. x.fin /\ OfFrame(x) <= Len(said') /\ said'[OfFrame(x)].parts = <<p, x.parts[1]>>
      BY <1>2, <1>3, <1>6, <1>9, <1>13, <1>14
    <2> QED
      BY <1>3, <1>9, <2>1 DEF Carries
  <1>17. \A i \in 1 .. Len(up) : HasData(up[i]) /\ Carries(up[i]) => Carries(up[i])'
    <2>1. Len(said) + 1 <= Len(said') /\ Len(said) <= Len(said') /\ Len(said') \in Nat
      BY <1>2, <1>13
    <2> QED
      BY <1>2, <1>5, <1>6, <1>9, <1>13, <1>14, <2>1, StillCarries
  <1>18. ASSUME NEW r \in Nat, r <= Len(said), UpAfter(r) PROVE UpAfter(r)'
    <2>1. CollectedAfter(r)'
      <3> SUFFICES ASSUME Collecting' PROVE CollectedAfter(r)'
        BY DEF CollectedAfter
      <3>1. Collecting /\ partial' = partial
        BY <1>2 DEF Collecting
      <3>2. PICK s \in Parts :
              /\ partial.parts = <<s>> /\ s.of = r + 1
              /\ \/ /\ r < Len(said) /\ said[r + 1].op = partial.op
                    /\ \E t \in Parts : said[r + 1].parts = <<s, t>>
                 \/ r = Len(said) /\ draft = partial
        BY <1>18, <3>1 DEF UpAfter, CollectedAfter
      <3>3. CASE r < Len(said)
        <4>1. said'[r + 1] = said[r + 1] /\ r < Len(said')
          BY <1>2, <1>13, <3>3
        <4> QED
          BY <3>1, <3>2, <3>3, <4>1 DEF CollectedAfter
      <3>4. CASE r = Len(said) /\ draft = partial
        <4>1. /\ r < Len(said') /\ said'[r + 1].op = partial.op
              /\ said'[r + 1].parts = <<s, q>>
          BY <1>2, <1>13, <1>14, <3>2, <3>4
        <4> QED
          BY <1>5, <3>1, <3>2, <4>1 DEF CollectedAfter
      <3> QED
        BY <3>2, <3>3, <3>4
    <2>2. Highest' >= Rank(x) /\ Highest' >= Highest
      BY <1>2, <1>10, <1>11, <1>15
    <2> DEFINE n == Len(said) + 1
    <2>3. n \in Nat /\ Len(said') = n /\ n >= Len(said) /\ n <= Len(said) + 1
      BY <1>2, <1>13
    <2> HIDE DEF n
    <2> QED
      BY <1>2, <1>6, <1>9, <1>13, <1>15, <1>16, <1>17, <1>18, <2>1, <2>2, <2>3, SendsData
  <1>19. DraftShape'
    BY <1>2 DEF DraftShape
  <1>20. Len(said) <= Len(said')
    BY <1>2, <1>13
  <1> QED
    BY <1>2, <1>6, <1>12, <1>13, <1>18, <1>19, <1>20, SpeaksStep

LEMMA WritesFrame ==
  ASSUME SocketShape, NEW k \in Nat, k <= Len(said), WrittenUpTo(k), NEW x, down' = Append(down, x),
         UNCHANGED <<said, heard>>
  PROVE  /\ IsSeq(down)'
         /\ ~Opens(x) => WrittenUpTo(k)'
         /\ (/\ k < Len(said) /\ Opens(x) /\ OfFrame(x) = k + 1
             /\ said[k + 1] = [op |-> x.op, parts |-> x.parts]) => WrittenUpTo(k + 1)'
  <1>1. /\ IsSeq(down)' /\ Len(down) \in Nat /\ Len(down') = Len(down) + 1
        /\ \A i \in 1 .. Len(down) : down'[i] = down[i]
        /\ down'[Len(down) + 1] = x
    BY QueueAppend DEF SocketShape
  <1>2. \A i \in 1 .. Len(down') : i \in 1 .. Len(down) \/ i = Len(down) + 1
    BY <1>1
  <1>3. \A i \in 1 .. Len(down) : i \in 1 .. Len(down')
    BY <1>1
  <1>4. Len(heard) \in Nat /\ Len(said) \in Nat /\ Len(heard) <= k
    BY Said DEF WrittenUpTo
  <1>5. ASSUME ~Opens(x) PROVE WrittenUpTo(k)'
    <2>1. ASSUME NEW i \in 1 .. Len(down'), Opens(down'[i])
          PROVE  i \in 1 .. Len(down) /\ down'[i] = down[i]
      BY <1>1, <1>2, <1>5, <2>1
    <2>2. ASSUME NEW m \in Len(heard) + 1 .. k
          PROVE  \E i \in 1 .. Len(down') : Opens(down'[i]) /\ OfFrame(down'[i]) = m
      <3>1. PICK i \in 1 .. Len(down) : Opens(down[i]) /\ OfFrame(down[i]) = m
        BY DEF WrittenUpTo
      <3> QED
        BY <1>1, <1>3, <3>1
    <2> QED
      BY <2>1, <2>2, ZenonT(60) DEF WrittenUpTo
  <1>6. ASSUME k < Len(said), Opens(x), OfFrame(x) = k + 1,
               said[k + 1] = [op |-> x.op, parts |-> x.parts]
        PROVE  WrittenUpTo(k + 1)'
    <2>1. Len(heard) <= k + 1 /\ k + 1 <= Len(said)
      BY <1>4, <1>6
    <2>2. ASSUME NEW i \in 1 .. Len(down'), Opens(down'[i])
          PROVE  /\ OfFrame(down'[i]) \in Len(heard) + 1 .. k + 1
                 /\ said[OfFrame(down'[i])] = [op |-> down'[i].op, parts |-> down'[i].parts]
      <3>1. CASE i \in 1 .. Len(down)
        <4>1. /\ OfFrame(down[i]) \in Len(heard) + 1 .. k
              /\ said[OfFrame(down[i])] = [op |-> down[i].op, parts |-> down[i].parts]
          BY <1>1, <2>2, <3>1 DEF WrittenUpTo
        <4> QED
          BY <1>1, <1>4, <3>1, <4>1
      <3>2. CASE i = Len(down) + 1
        BY <1>1, <1>4, <1>6, <3>2
      <3> QED
        BY <1>2, <3>1, <3>2
    <2>3. ASSUME NEW i \in 1 .. Len(down'), NEW j \in 1 .. Len(down'), i < j,
                 Opens(down'[i]), Opens(down'[j])
          PROVE  OfFrame(down'[i]) < OfFrame(down'[j])
      <3>1. i \in 1 .. Len(down) /\ down'[i] = down[i]
        BY <1>1, <2>3
      <3>2. CASE j \in 1 .. Len(down)
        BY <1>1, <2>3, <3>1, <3>2 DEF WrittenUpTo
      <3>3. CASE j = Len(down) + 1
        <4>1. OfFrame(down[i]) \in Len(heard) + 1 .. k
          BY <2>3, <3>1 DEF WrittenUpTo
        <4> QED
          BY <1>1, <1>4, <1>6, <3>1, <3>3, <4>1
      <3> QED
        BY <1>2, <3>2, <3>3
    <2>4. ASSUME NEW m \in Len(heard) + 1 .. k + 1
          PROVE  \E i \in 1 .. Len(down') : Opens(down'[i]) /\ OfFrame(down'[i]) = m
      <3>1. CASE m = k + 1
        <4>1. Len(down) + 1 \in 1 .. Len(down')
          BY <1>1
        <4> QED
          BY <1>1, <1>6, <3>1, <4>1
      <3>2. CASE m # k + 1
        <4>1. m \in Len(heard) + 1 .. k
          BY <1>4, <3>2
        <4>2. PICK i \in 1 .. Len(down) : Opens(down[i]) /\ OfFrame(down[i]) = m
          BY <4>1 DEF WrittenUpTo
        <4> QED
          BY <1>1, <1>3, <4>2
      <3> QED
        BY <3>1, <3>2
    <2> QED
      BY <2>1, <2>2, <2>3, <2>4 DEF WrittenUpTo
  <1> QED
    BY <1>1, <1>5, <1>6

LEMMA SameUp ==
  ASSUME UNCHANGED <<up, said, draft, partial>>, NEW r, UpAfter(r)
  PROVE  UpAfter(r)'
  BY ZenonT(60) DEF UpAfter, CollectedAfter, UpCarries, UpWithin, UpInOrder, UpComplete, Collecting,
         Drafting, Carries, Lowest, Highest, Begun

LEMMA WriteStep ==
  ASSUME SocketInv, Write
  PROVE  SocketInv'
  <1>1. /\ echoer \in {"send", "pong", "close"} /\ line = "open" /\ line' = "open"
        /\ down' = Append(down, Frame(message))
        /\ echoer' = IF echoer = "close" THEN "ended" ELSE "recv"
        /\ partial' = IF echoer = "close" THEN NoMessage ELSE partial
        /\ UNCHANGED <<up, line, draft, said, heard>>
        /\ SocketShape /\ Len(said) \in Nat
    BY Said DEF Write, SocketInv
  <1>2. PICK x : x.op = message.op /\ x.parts = message.parts /\ down' = Append(down, x)
    BY <1>1, Framed
  <1>3. PICK k \in 0 .. Len(said) :
          /\ WrittenUpTo(k)
          /\ echoer = "send" => k < Len(said) /\ message = said[k + 1]
          /\ echoer # "ended" => UpAfter(InHand(k))
    BY <1>1 DEF SocketInv, OnTheWay
  <1>4. k \in Nat /\ k <= Len(said)
    BY <1>1
  <1>5. SocketShape'
    <2>1. IsSeq(down)'
      BY <1>1, <1>2, <1>3, <1>4, WritesFrame
    <2>2. NoMessage \in [op : Openers \cup {"continuation"}, parts : Seq(Parts)]
      BY DEF NoMessage
    <2> QED
      BY <1>1, <2>1, <2>2 DEF SocketShape, UpShape, DraftShape
  <1>6. HeardIsSaid'
    BY <1>1 DEF SocketInv, HeardIsSaid
  <1>7. CASE echoer = "send"
    <2>1. /\ k + 1 \in 1 .. Len(said) /\ said[k + 1].op \in Openers
          /\ said[k + 1] = [op |-> said[k + 1].op, parts |-> said[k + 1].parts]
          /\ said[k + 1].parts[1].of = k + 1
      BY <1>1, <1>3, <1>4, <1>7, Said DEF SocketShape
    <2>2. /\ Opens(x) /\ OfFrame(x) = k + 1
          /\ said[k + 1] = [op |-> x.op, parts |-> x.parts]
      BY <1>2, <1>3, <1>7, <2>1 DEF Opens, OfFrame
    <2>3. WrittenUpTo(k + 1)'
      BY <1>1, <1>2, <1>3, <1>4, <1>7, <2>2, WritesFrame
    <2>4. UpAfter(k + 1)
      BY <1>3, <1>7 DEF InHand
    <2>5. UpAfter(k + 1)' /\ echoer' = "recv"
      BY <1>1, <1>7, <2>4, SameUp
    <2>6. k + 1 \in 0 .. Len(said')
      BY <1>1, <2>1, <1>4
    <2> QED
      BY <1>1, <1>5, <1>6, <2>3, <2>5, <2>6 DEF SocketInv, OnTheWay, InHand
  <1>8. CASE echoer # "send"
    <2>1. ~Opens(x)
      BY <1>1, <1>2, <1>8 DEF Opens, Openers, SocketInv
    <2>2. WrittenUpTo(k)'
      BY <1>1, <1>2, <1>3, <1>4, <2>1, WritesFrame
    <2>3. ASSUME echoer' # "ended" PROVE UpAfter(k)' /\ echoer' = "recv"
      <3>1. UpAfter(k) /\ partial' = partial
        BY <1>1, <1>3, <1>8, <2>3 DEF InHand
      <3> QED
        BY <1>1, <2>3, <3>1, SameUp
    <2>4. echoer' \in {"recv", "ended"}
      BY <1>1
    <2> QED
      BY <1>1, <1>5, <1>6, <2>2, <2>3, <2>4 DEF SocketInv, OnTheWay, InHand
  <1> QED
    BY <1>7, <1>8

LEMMA HearsStep ==
  ASSUME SocketInv, ClientHears
  PROVE  SocketInv'
  <1> DEFINE f == down[1]
  <1>1. /\ line = "open" /\ down # <<>> /\ down' = Tail(down)
        /\ heard' = IF Opens(f) THEN Append(heard, [op |-> f.op, parts |-> f.parts]) ELSE heard
        /\ UNCHANGED <<up, line, draft, said, echoer, partial, message>>
        /\ SocketShape
    <2>1. /\ line = "open" /\ down # <<>> /\ down' = Tail(down)
          /\ heard' = IF Head(down).op \in {"text", "binary"}
                      THEN Append(heard, [op |-> Head(down).op, parts |-> Head(down).parts])
                      ELSE heard
          /\ UNCHANGED <<up, line, draft, said, echoer, partial, message>>
          /\ SocketShape
      BY DEF ClientHears, SocketInv
    <2>2. Head(down) = down[1]
      BY <2>1, QueueTail DEF SocketShape
    <2> QED
      BY <2>1, <2>2 DEF Opens, Openers
  <1>2. /\ IsSeq(down)' /\ Len(down) \in Nat \ {0} /\ Len(down') = Len(down) - 1
        /\ \A i \in 1 .. Len(down) - 1 : down'[i] = down[i + 1]
    BY <1>1, QueueTail DEF SocketShape
  <1>3. /\ \A i \in 1 .. Len(down') : i + 1 \in 2 .. Len(down) /\ down'[i] = down[i + 1]
        /\ \A i \in 2 .. Len(down) : i - 1 \in 1 .. Len(down') /\ down'[i - 1] = down[i]
        /\ 1 \in 1 .. Len(down) /\ Len(said) \in Nat /\ Len(heard) \in Nat
    BY <1>1, <1>2, Said
  <1>4. PICK k \in 0 .. Len(said) :
          /\ WrittenUpTo(k)
          /\ echoer = "send" => k < Len(said) /\ message = said[k + 1]
          /\ echoer # "ended" => UpAfter(InHand(k))
    BY <1>1 DEF SocketInv, OnTheWay
  <1>5. ASSUME Opens(f) PROVE OfFrame(f) = Len(heard) + 1 /\ Len(heard) < k
    <2>1. OfFrame(f) \in Len(heard) + 1 .. k
      BY <1>3, <1>4, <1>5 DEF WrittenUpTo
    <2>2. Len(heard) + 1 \in Len(heard) + 1 .. k
      BY <1>3, <2>1
    <2>3. PICK i \in 1 .. Len(down) : Opens(down[i]) /\ OfFrame(down[i]) = Len(heard) + 1
      BY <1>4, <2>2 DEF WrittenUpTo
    <2>4. 1 < i => OfFrame(f) < Len(heard) + 1
      BY <1>3, <1>4, <1>5, <2>3 DEF WrittenUpTo
    <2> QED
      BY <1>2, <1>3, <2>1, <2>3, <2>4
  <1>6. /\ heard' \in Seq(Messages)
        /\ Len(heard') = IF Opens(f) THEN Len(heard) + 1 ELSE Len(heard)
        /\ Len(heard') <= k
        /\ \A m \in 1 .. Len(heard') : heard'[m] = said[m]
    <2>1. CASE ~Opens(f)
      BY <1>1, <1>4, <2>1 DEF SocketInv, SocketShape, HeardIsSaid, WrittenUpTo
    <2>2. CASE Opens(f)
      <3> DEFINE L == Len(heard)
      <3>1. said[L + 1] = [op |-> f.op, parts |-> f.parts]
        BY <1>3, <1>4, <1>5, <2>2 DEF WrittenUpTo
      <3>2. said[L + 1] \in Messages
        <4>1. L + 1 \in 1 .. Len(said)
          BY <1>3, <1>5, <2>2
        <4> QED
          BY <1>1, <4>1 DEF SocketShape
      <3>3. /\ heard' \in Seq(Messages) /\ Len(heard') = L + 1
            /\ \A m \in 1 .. L : heard'[m] = heard[m]
            /\ heard'[L + 1] = said[L + 1]
        BY <1>1, <2>2, <3>1, <3>2, AppendProperties DEF SocketShape
      <3>4. \A m \in 1 .. L : heard[m] = said[m]
        BY DEF SocketInv, HeardIsSaid
      <3> HIDE DEF L
      <3>5. L \in Nat /\ L < k /\ L = Len(heard)
        BY <1>3, <1>5, <2>2 DEF L
      <3>6. \A m \in 1 .. L + 1 : m \in 1 .. L \/ m = L + 1
        BY <3>5
      <3> QED
        BY <2>2, <3>3, <3>4, <3>5, <3>6
    <2> QED
      BY <2>1, <2>2
  <1>7. HeardIsSaid'
    BY <1>1, <1>3, <1>4, <1>6 DEF HeardIsSaid
  <1>8. SocketShape'
    BY <1>1, <1>2, <1>6 DEF SocketShape, UpShape, DraftShape
  <1>9. WrittenUpTo(k)'
    <2>1. ASSUME NEW i \in 1 .. Len(down'), Opens(down'[i])
          PROVE  /\ OfFrame(down'[i]) \in Len(heard') + 1 .. k
                 /\ said[OfFrame(down'[i])] = [op |-> down'[i].op, parts |-> down'[i].parts]
      <3>1. /\ OfFrame(down[i + 1]) \in Len(heard) + 1 .. k
            /\ said[OfFrame(down[i + 1])] = [op |-> down[i + 1].op, parts |-> down[i + 1].parts]
            /\ 1 < i + 1 /\ i + 1 \in 1 .. Len(down)
        <4>1. 1 < i + 1 /\ i + 1 \in 1 .. Len(down) /\ Opens(down[i + 1])
          BY <1>2, <1>3, <2>1
        <4> QED
          BY <1>4, <4>1 DEF WrittenUpTo
      <3>2. Opens(f) => OfFrame(f) < OfFrame(down[i + 1])
        BY <1>3, <1>4, <2>1, <3>1 DEF WrittenUpTo
      <3>3. OfFrame(down[i + 1]) \in Len(heard') + 1 .. k
        BY <1>3, <1>5, <1>6, <3>1, <3>2
      <3> QED
        BY <1>3, <3>1, <3>3
    <2>2. ASSUME NEW i \in 1 .. Len(down'), NEW j \in 1 .. Len(down'), i < j,
                 Opens(down'[i]), Opens(down'[j])
          PROVE  OfFrame(down'[i]) < OfFrame(down'[j])
      <3>1. i + 1 \in 1 .. Len(down) /\ j + 1 \in 1 .. Len(down) /\ i + 1 < j + 1
        BY <1>2, <1>3, <2>2
      <3> QED
        BY <1>3, <1>4, <2>2, <3>1 DEF WrittenUpTo
    <2>3. ASSUME NEW m \in Len(heard') + 1 .. k
          PROVE  \E i \in 1 .. Len(down') : Opens(down'[i]) /\ OfFrame(down'[i]) = m
      <3>1. m \in Len(heard) + 1 .. k
        BY <1>3, <1>6
      <3>2. PICK i \in 1 .. Len(down) : Opens(down[i]) /\ OfFrame(down[i]) = m
        BY <1>4, <3>1 DEF WrittenUpTo
      <3>3. i # 1
        BY <1>3, <1>5, <1>6, <3>2
      <3>4. i \in 2 .. Len(down)
        BY <1>2, <3>3
      <3> QED
        BY <1>3, <3>2, <3>4
    <2> QED
      BY <1>1, <1>4, <1>6, <2>1, <2>2, <2>3 DEF WrittenUpTo
  <1>10. OnTheWay'
    <2>1. ASSUME echoer # "ended" PROVE UpAfter(InHand(k))' /\ InHand(k)' = InHand(k)
      <3>1. InHand(k)' = InHand(k)
        BY <1>1 DEF InHand
      <3>2. PICK r : r = InHand(k)
        OBVIOUS
      <3>3. UpAfter(r)'
        BY <1>1, <1>4, <2>1, <3>2, SameUp
      <3> QED
        BY <3>1, <3>2, <3>3
    <2> QED
      BY <1>1, <1>4, <1>9, <2>1 DEF OnTheWay
  <1> QED
    BY <1>1, <1>7, <1>8, <1>10 DEF SocketInv

-----------------------------------------------------------------------------

LEMMA OpensSocket ==
  ASSUME SocketInv, UpgradeSocket
  PROVE  SocketInv'
  <1>1. /\ up = <<>> /\ down = <<>> /\ heard = <<>> /\ said = <<>>
        /\ draft = NoMessage /\ partial = NoMessage /\ echoer' = "recv" /\ SocketShape
        /\ UNCHANGED <<up, down, draft, said, heard, partial, pings, message>>
    BY DEF UpgradeSocket, SocketInv
  <1>2. Len(up) = 0 /\ Len(down) = 0 /\ Len(heard) = 0 /\ Len(said) = 0
    BY <1>1
  <1>3. ~Collecting /\ ~Drafting
    BY <1>1 DEF Collecting, Drafting, NoMessage, Openers
  <1>4. UpAfter(0)
    BY <1>2, <1>3 DEF UpAfter, CollectedAfter, UpCarries, UpWithin, UpInOrder, UpComplete, Begun
  <1>5. WrittenUpTo(0)
    BY <1>2 DEF WrittenUpTo
  <1>6. UpAfter(0)' /\ WrittenUpTo(0)'
    BY <1>1, <1>4, <1>5, SameUp DEF WrittenUpTo
  <1>7. 0 \in 0 .. Len(said')
    BY <1>1, <1>2
  <1>8. OnTheWay'
    BY <1>1, <1>6, <1>7 DEF OnTheWay, InHand
  <1>9. SocketShape' /\ HeardIsSaid'
    BY <1>1 DEF SocketInv, SocketShape, HeardIsSaid, UpShape, DraftShape
  <1>10. line' = "open" /\ echoer' = "recv"
    BY DEF UpgradeSocket
  <1> QED
    BY <1>8, <1>9, <1>10 DEF SocketInv

\* A connection that is not up: what is on its way no longer matters.
LEMMA GoneKeeps ==
  ASSUME SocketInv, SocketShape', UNCHANGED <<said, heard>>, line' \in {"cut", "refused"},
         echoer' \in {"pong", "close"} => message'.op = echoer'
  PROVE  SocketInv'
  BY DEF SocketInv, HeardIsSaid

LEMMA GoneStep ==
  ASSUME SocketInv, RefuseUpgrade \/ RecvNone \/ WriteFails \/ ClientDrops
  PROVE  SocketInv'
  <1>1. NoMessage \in [op : Openers \cup {"continuation"}, parts : Seq(Parts)]
    BY DEF NoMessage
  <1>2. IsSeq(<<>>)
    <2>1. <<>> \in Seq({})
      OBVIOUS
    <2> QED
      BY <2>1 DEF IsSeq
  <1>3. SocketShape
    BY DEF SocketInv
  <1>4. CASE RefuseUpgrade
    <2>1. SocketShape'
      BY <1>3, <1>4 DEF RefuseUpgrade, SocketShape, UpShape, DraftShape
    <2> QED
      BY <1>4, <2>1, GoneKeeps DEF RefuseUpgrade, SocketInv
  <1>5. CASE RecvNone
    <2>1. SocketShape'
      BY <1>1, <1>3, <1>5 DEF RecvNone, SocketShape, UpShape, DraftShape
    <2> QED
      BY <1>5, <2>1, GoneKeeps DEF RecvNone
  <1>6. CASE WriteFails
    <2>1. SocketShape'
      BY <1>1, <1>3, <1>6 DEF WriteFails, SocketShape, UpShape, DraftShape
    <2> QED
      BY <1>6, <2>1, GoneKeeps DEF WriteFails
  <1>7. CASE ClientDrops
    <2>1. SocketShape'
      BY <1>2, <1>3, <1>7 DEF ClientDrops, SocketShape, UpShape, DraftShape
    <2> QED
      BY <1>7, <2>1, GoneKeeps DEF ClientDrops, SocketInv
  <1> QED
    BY <1>4, <1>5, <1>6, <1>7

LEMMA SocketStarts ==
  ASSUME WebSocketInit
  PROVE  SocketInv
  <1>1. /\ up = <<>> /\ down = <<>> /\ heard = <<>> /\ said = <<>> /\ line = "asked"
        /\ draft = NoMessage /\ partial = NoMessage /\ echoer = "none"
    BY DEF WebSocketInit
  <1>2. IsSeq(<<>>)
    <2>1. <<>> \in Seq({})
      OBVIOUS
    <2> QED
      BY <2>1 DEF IsSeq
  <1>3. NoMessage \in [op : Openers \cup {"continuation"}, parts : Seq(Parts)]
    BY DEF NoMessage
  <1>4. SocketShape
    BY <1>1, <1>2, <1>3 DEF SocketShape, UpShape, DraftShape
  <1> QED
    BY <1>1, <1>4 DEF SocketInv, HeardIsSaid

LEMMA SocketStep ==
  ASSUME SocketInv, [WebSocketNext]_wsVars
  PROVE  SocketInv'
  <1>1. CASE UNCHANGED wsVars
    <2>1. UNCHANGED <<up, down, line, draft, said, heard, echoer, partial, message>>
      BY <1>1 DEF wsVars
    <2>2. SocketShape' /\ HeardIsSaid'
      BY <2>1 DEF SocketInv, SocketShape, UpShape, DraftShape, HeardIsSaid
    <2>3. ASSUME OnTheWay PROVE OnTheWay'
      <3>1. PICK k \in 0 .. Len(said) :
              /\ WrittenUpTo(k)
              /\ echoer = "send" => k < Len(said) /\ message = said[k + 1]
              /\ echoer # "ended" => UpAfter(InHand(k))
        BY <2>3 DEF OnTheWay
      <3>2. PICK r : r = InHand(k)
        OBVIOUS
      <3>3. WrittenUpTo(k)' /\ InHand(k)' = r
        BY <2>1, <3>1, <3>2 DEF WrittenUpTo, InHand
      <3>4. echoer # "ended" => UpAfter(r)'
        BY <2>1, <3>1, <3>2, SameUp
      <3> QED
        BY <2>1, <3>1, <3>3, <3>4 DEF OnTheWay
    <2> QED
      BY <2>1, <2>2, <2>3 DEF SocketInv
  <1>2. CASE WebSocketServer
    BY <1>2, OpensSocket, GoneStep, RecvStep, DataStep, WriteStep DEF WebSocketServer
  <1>3. CASE ClientBegins \/ ClientEnds \/ ClientControls \/ ClientCloses
    BY <1>3, BeginsStep, EndsStep, ControlsStep, ClosesStep
  <1>4. CASE ClientHears \/ ClientDrops
    BY <1>4, HearsStep, GoneStep
  <1> QED
    BY <1>1, <1>2, <1>3, <1>4 DEF WebSocketNext

LEMMA HeardInOrder ==
  ASSUME SocketInv
  PROVE  EchoesInOrder
  <1>1. /\ said \in Seq(Messages) /\ heard \in Seq(Messages) /\ Len(heard) <= Len(said)
        /\ \A m \in 1 .. Len(heard) : heard[m] = said[m]
    BY DEF SocketInv, SocketShape, HeardIsSaid
  <1>2. SubSeq(said, 1, Len(heard)) = heard
    <2>1. Len(said) \in Nat /\ Len(heard) \in Nat
      BY <1>1
    <2>2. \A i \in 1 .. Len(heard) : said[i] \in Messages
      BY <1>1, <2>1
    <2>3. /\ SubSeq(said, 1, Len(heard)) \in Seq(Messages)
          /\ Len(SubSeq(said, 1, Len(heard))) = Len(heard)
          /\ \A i \in 1 .. Len(heard) : SubSeq(said, 1, Len(heard))[i] = said[i]
      BY <1>1, <2>1, <2>2, SubSeqProperties
    <2> QED
      BY <1>1, <2>3, SeqEqual
  <1> QED
    BY <1>1, <1>2 DEF EchoesInOrder, IsPrefix

\* WebSocketConnection::recv and ws_echo_handler (hyper_compat.rs:303-357,
\* handlers_hyper.rs:1848-1865): what a client hears is a beginning of what it said,
\* for any number of messages, fragments and control frames between them.
THEOREM EchoesOrdered == WebSocketSpec => []EchoesInOrder
  <1>1. WebSocketInit => SocketInv
    BY SocketStarts
  <1>2. SocketInv /\ [WebSocketNext]_wsVars => SocketInv'
    BY SocketStep
  <1>3. SocketInv => EchoesInOrder
    BY HeardInOrder
  <1> QED
    BY <1>1, <1>2, <1>3, PTL DEF WebSocketSpec

\* What was heard is the beginning of what was said, step after step: the frames the
\* server handles without an answer are steps in which the channel rests.
LEMMA ChannelStep ==
  ASSUME SocketInv, SocketInv', [WebSocketNext]_wsVars
  PROVE  [Channel!ChannelNext]_<<said, heard>>
  <1>1. /\ said \in Seq(Messages) /\ heard \in Seq(Messages) /\ Len(heard) \in Nat /\ Len(said) \in Nat
        /\ Len(heard') <= Len(said') /\ \A m \in 1 .. Len(heard') : heard'[m] = said'[m]
    BY DEF SocketInv, SocketShape, HeardIsSaid
  <1>2. ASSUME NEW x, said' = Append(said, x), UNCHANGED heard
        PROVE  Channel!Say
    <2>1. IsSeq(said)
      BY <1>1 DEF IsSeq
    <2>2. Len(said') = Len(said) + 1 /\ \A n \in 1 .. Len(said) : said'[n] = said[n]
      BY <1>2, <2>1, QueueAppend
    <2> QED
      BY <1>2, <2>2 DEF Channel!Say
  <1>3. ASSUME NEW x, heard' = Append(heard, x), UNCHANGED said
        PROVE  Channel!GiveBack
    <2>1. IsSeq(heard)
      BY <1>1 DEF IsSeq
    <2>2. Len(heard') = Len(heard) + 1 /\ heard'[Len(heard) + 1] = x
      BY <1>3, <2>1, QueueAppend
    <2>3. Len(heard) < Len(said) /\ x = said[Len(heard) + 1]
      BY <1>1, <1>3, <2>2
    <2> QED
      BY <1>3, <2>3 DEF Channel!GiveBack
  <1>4. CASE ClientBegins \/ ClientEnds
    <2>1. UNCHANGED heard /\ (UNCHANGED said \/ \E x : said' = Append(said, x))
      BY <1>4 DEF ClientBegins, ClientEnds
    <2> QED
      BY <1>2, <2>1 DEF Channel!ChannelNext
  <1>5. CASE ClientHears
    <2>1. UNCHANGED said /\ (UNCHANGED heard \/ \E x : heard' = Append(heard, x))
      BY <1>5 DEF ClientHears
    <2> QED
      BY <1>3, <2>1 DEF Channel!ChannelNext
  <1>6. CASE WebSocketServer \/ ClientControls \/ ClientCloses \/ ClientDrops \/ UNCHANGED wsVars
    BY <1>6 DEF WebSocketServer, UpgradeSocket, RefuseUpgrade, RecvPing, RecvIgnored, RecvClose,
                RecvData, RecvNone, Write, WriteFails, ClientControls, ClientCloses, ClientDrops, wsVars
  <1> QED
    BY <1>4, <1>5, <1>6 DEF WebSocketNext

\* The echo endpoint (handlers_hyper.rs:1848-1865) over recv and write_frame
\* (hyper_compat.rs:274-357) is a channel that gives back what was said: each step of
\* the connection is a step of EchoChannel or leaves what was said and heard alone.
THEOREM EchoIsAChannel == WebSocketSpec => EchoesAsChannel
  <1>1. WebSocketInit => SocketInv /\ Channel!ChannelInit
    BY SocketStarts DEF WebSocketInit, Channel!ChannelInit
  <1>2. SocketInv /\ [WebSocketNext]_wsVars => SocketInv'
    BY SocketStep
  <1>3. SocketInv /\ SocketInv' /\ [WebSocketNext]_wsVars => [Channel!ChannelNext]_<<said, heard>>
    BY ChannelStep
  <1> QED
    BY <1>1, <1>2, <1>3, PTL
       DEF WebSocketSpec, EchoesAsChannel, Channel!ChannelSpec, Channel!channelVars

-----------------------------------------------------------------------------
(* The pongs a client awaits, for any size of the wire                      *)

PlacesOf(s, op) == {i \in 1 .. Len(s) : s[i].op = op}
Number(s, op) == Cardinality(PlacesOf(s, op))

LEMMA NumberType ==
  ASSUME NEW s, IsSeq(s), NEW op
  PROVE  IsFiniteSet(PlacesOf(s, op)) /\ Number(s, op) \in Nat
  <1>1. Len(s) \in Nat
    BY QueueAppend
  <1>2. IsFiniteSet(1 .. Len(s)) /\ PlacesOf(s, op) \in SUBSET (1 .. Len(s))
    BY <1>1, FS_Interval DEF PlacesOf
  <1>3. IsFiniteSet(PlacesOf(s, op))
    BY <1>2, FS_Subset
  <1> QED
    BY <1>3, FS_CardinalityType DEF Number

LEMMA NumberOfNone == \A op : Number(<<>>, op) = 0
  <1>1. \A op : PlacesOf(<<>>, op) = {}
    BY DEF PlacesOf
  <1> QED
    BY <1>1, FS_EmptySet DEF Number

LEMMA NumberAppend ==
  ASSUME NEW s, IsSeq(s), NEW x, NEW op
  PROVE  Number(Append(s, x), op) = Number(s, op) + (IF x.op = op THEN 1 ELSE 0)
  <1>1. /\ Len(s) \in Nat /\ Len(Append(s, x)) = Len(s) + 1
        /\ \A i \in 1 .. Len(s) : Append(s, x)[i] = s[i]
        /\ Append(s, x)[Len(s) + 1] = x
    BY QueueAppend
  <1>2. Len(s) + 1 \notin PlacesOf(s, op)
    BY <1>1 DEF PlacesOf
  <1>3. CASE x.op = op
    <2>1. PlacesOf(Append(s, x), op) = PlacesOf(s, op) \cup {Len(s) + 1}
      BY <1>1, <1>3 DEF PlacesOf
    <2>2. Cardinality(PlacesOf(s, op) \cup {Len(s) + 1}) = Cardinality(PlacesOf(s, op)) + 1
      BY <1>2, NumberType, FS_AddElement
    <2> QED
      BY <1>3, <2>1, <2>2 DEF Number
  <1>4. CASE x.op # op
    <2>1. PlacesOf(Append(s, x), op) = PlacesOf(s, op)
      BY <1>1, <1>4 DEF PlacesOf
    <2>2. Number(s, op) \in Nat
      BY NumberType
    <2> QED
      BY <1>4, <2>1, <2>2 DEF Number
  <1> QED
    BY <1>3, <1>4

LEMMA NumberTail ==
  ASSUME NEW s, IsSeq(s), s # <<>>, NEW op
  PROVE  Number(s, op) = Number(Tail(s), op) + (IF s[1].op = op THEN 1 ELSE 0)
  <1>1. /\ IsSeq(Tail(s)) /\ Len(s) \in Nat \ {0} /\ Len(Tail(s)) = Len(s) - 1
        /\ \A i \in 1 .. Len(s) - 1 : Tail(s)[i] = s[i + 1]
    BY QueueTail
  <1> DEFINE Later == {i \in 2 .. Len(s) : s[i].op = op}
             back == [i \in PlacesOf(Tail(s), op) |-> i + 1]
  <1>2. back \in [PlacesOf(Tail(s), op) -> Later]
    BY <1>1 DEF PlacesOf
  <1>3. \A i, j \in PlacesOf(Tail(s), op) : back[i] = back[j] => i = j
    BY <1>1 DEF PlacesOf
  <1>4. \A k \in Later : \E i \in PlacesOf(Tail(s), op) : back[i] = k
    <2> TAKE k \in Later
    <2>1. k - 1 \in 1 .. Len(Tail(s)) /\ Tail(s)[k - 1].op = op
      <3>1. k \in 2 .. Len(s) /\ s[k].op = op /\ k - 1 \in 1 .. Len(s) - 1 /\ (k - 1) + 1 = k
        BY <1>1
      <3> QED
        BY <1>1, <3>1
    <2>2. k - 1 \in PlacesOf(Tail(s), op) /\ (k - 1) + 1 = k
      BY <2>1, <1>1 DEF PlacesOf
    <2> QED
      BY <2>2
  <1>5. back \in Bijection(PlacesOf(Tail(s), op), Later)
    BY <1>2, <1>3, <1>4, Fun_IsBij
  <1>6. IsFiniteSet(Later) /\ Cardinality(Later) = Number(Tail(s), op)
    <2>1. ExistsBijection(PlacesOf(Tail(s), op), Later)
      BY <1>5 DEF ExistsBijection
    <2>2. IsFiniteSet(PlacesOf(Tail(s), op))
      BY <1>1, NumberType
    <2> HIDE DEF Later
    <2> QED
      BY <2>1, <2>2, FS_Bijection DEF Number
  <1>7. CASE s[1].op = op
    <2>1. PlacesOf(s, op) = Later \cup {1} /\ 1 \notin Later
      BY <1>1, <1>7 DEF PlacesOf
    <2> HIDE DEF Later
    <2>2. Cardinality(Later \cup {1}) = Cardinality(Later) + 1
      BY <1>6, <2>1, FS_AddElement
    <2> QED
      BY <1>6, <1>7, <2>1, <2>2 DEF Number
  <1>8. CASE s[1].op # op
    <2>1. PlacesOf(s, op) = Later
      BY <1>1, <1>8 DEF PlacesOf
    <2>2. Number(s, op) \in Nat
      BY NumberType
    <2> HIDE DEF Later
    <2> QED
      BY <1>6, <1>8, <2>1, <2>2 DEF Number
  <1> QED
    BY <1>7, <1>8

\* The wires are no longer than Wire, the client awaits no more pongs than it sent
\* pings, and the task has a message in hand exactly while it writes.
SocketTask ==
    /\ line \in {"asked", "open", "cut", "refused"}
    /\ echoer \in {"none", "recv", "send", "pong", "close", "ended"}
    /\ Len(up) <= Wire /\ Len(down) <= Wire
    /\ pings \in [sent : Nat, awaited : Nat] /\ pings.awaited <= pings.sent
    /\ echoer = "send" => message.op \in Openers
    /\ echoer \notin {"send", "pong", "close"} => message = NoMessage

\* Every ping that waits, is in hand or is answered on its way is awaited.
Pending == IF echoer = "pong" THEN 1 ELSE 0
PongsOwed ==
    line = "open" => Number(up, "ping") + Pending + Number(down, "pong") <= pings.awaited

LEMMA WireLength == Wire \in Nat \ {0}
  BY WireAssumption

LEMMA TaskStarts ==
  ASSUME WebSocketInit
  PROVE  SocketTask /\ PongsOwed
  <1>1. Len(up) = 0 /\ Len(down) = 0
    BY DEF WebSocketInit
  <1>2. pings \in [sent : Nat, awaited : Nat] /\ pings.awaited <= pings.sent
    BY DEF WebSocketInit
  <1>3. message = NoMessage
    BY DEF WebSocketInit
  <1> QED
    BY <1>1, <1>2, <1>3, WireLength DEF WebSocketInit, SocketTask, PongsOwed

LEMMA TaskOpens ==
  ASSUME SocketInv, SocketTask, UpgradeSocket \/ RefuseUpgrade
  PROVE  SocketTask' /\ PongsOwed'
  <1>1. /\ up = <<>> /\ down = <<>> /\ UNCHANGED <<up, down, pings, message>>
        /\ line' \in {"open", "refused"} /\ echoer' \in {echoer, "recv"}
        /\ line' = "open" => echoer' = "recv"
    BY DEF UpgradeSocket, RefuseUpgrade, SocketInv
  <1>2. SocketTask'
    BY <1>1 DEF SocketTask, UpgradeSocket, RefuseUpgrade
  <1>3. Number(up', "ping") = 0 /\ Number(down', "pong") = 0
    BY <1>1, NumberOfNone
  <1>4. pings.awaited \in Nat
    BY DEF SocketTask
  <1> QED
    BY <1>1, <1>2, <1>3, <1>4 DEF PongsOwed, Pending

LEMMA TaskReads ==
  ASSUME SocketInv, SocketTask, PongsOwed,
         RecvPing \/ RecvIgnored \/ RecvClose \/ RecvData
  PROVE  SocketTask' /\ PongsOwed'
  <1>1. /\ up # <<>> /\ up' = Tail(up) /\ echoer = "recv" /\ UNCHANGED <<down, line, pings>>
    BY DEF RecvPing, RecvIgnored, RecvClose, RecvData, Arrives
  <1>2. /\ Len(up) \in Nat /\ Len(up') = Len(up) - 1 /\ Head(up) = up[1]
    BY <1>1, Reading DEF SocketInv
  <1>3. \/ up[1].op = "ping" /\ echoer' = "pong"
        \/ up[1].op # "ping" /\ echoer' # "pong"
    BY <1>1, <1>2 DEF RecvPing, RecvIgnored, RecvClose, RecvData, Arrives
  <1>4. /\ echoer' \in {"recv", "send", "pong", "close"}
        /\ echoer' = "send" => message'.op \in Openers
        /\ echoer' = "recv" => message' = NoMessage
    <2>1. CASE RecvPing \/ RecvIgnored \/ RecvClose
      BY <2>1, <1>1 DEF RecvPing, RecvIgnored, RecvClose, Arrives, SocketTask
    <2>2. CASE RecvData
      <3>1. PICK frame \in Range(up) :
              /\ frame.op \in {"text", "binary", "continuation"}
              /\ IF frame.fin /\ Collected(frame).op # "continuation"
                 THEN echoer' = "send" /\ message' = Collected(frame)
                 ELSE UNCHANGED <<echoer, message>>
        BY <2>2 DEF RecvData
      <3>2. partial \in [op : Openers \cup {"continuation"}, parts : Seq(Parts)]
        BY DEF SocketInv, SocketShape
      <3>3. Collected(frame).op = IF frame.op = "continuation" THEN partial.op ELSE frame.op
        BY <3>2 DEF Collected
      <3>4. Collected(frame).op \in Openers \cup {"continuation"}
        BY <3>1, <3>2, <3>3 DEF Openers
      <3> QED
        BY <1>1, <3>1, <3>4 DEF SocketTask
    <2> QED
      BY <2>1, <2>2
  <1>5. SocketTask'
    BY <1>1, <1>2, <1>4, WireLength DEF SocketTask
  <1>6. /\ IsSeq(up) /\ IsSeq(down) /\ IsSeq(Tail(up))
    BY <1>1, Reading DEF SocketInv, SocketShape
  <1>7. PICK n, m, k \in Nat : n = Number(up, "ping") /\ m = Number(Tail(up), "ping")
                               /\ k = Number(down, "pong")
    BY <1>6, NumberType
  <1>8. n = m + (IF up[1].op = "ping" THEN 1 ELSE 0)
    BY <1>1, <1>6, <1>7, NumberTail
  <1>9. Number(up', "ping") = m /\ Number(down', "pong") = k
    BY <1>1, <1>7
  <1>10. pings.awaited \in Nat
    BY DEF SocketTask
  <1>11. CASE line = "open"
    <2>1. n + 0 + k <= pings.awaited
      BY <1>1, <1>7, <1>11 DEF PongsOwed, Pending
    <2>2. m + Pending' <= n
      BY <1>3, <1>7, <1>8 DEF Pending
    <2>3. Pending' \in Nat
      BY DEF Pending
    <2>4. m + Pending' + k <= pings.awaited
      BY <2>1, <2>2, <2>3, <1>7, <1>10
    <2> QED
      BY <1>1, <1>9, <2>4, <1>5 DEF PongsOwed
  <1> QED
    BY <1>1, <1>5, <1>11 DEF PongsOwed

LEMMA TaskEnds ==
  ASSUME SocketInv, SocketTask, PongsOwed, RecvNone \/ WriteFails \/ ClientDrops \/ UNCHANGED wsVars
  PROVE  SocketTask' /\ PongsOwed'
  <1>1. CASE RecvNone \/ WriteFails
    BY <1>1 DEF RecvNone, WriteFails, SocketTask, PongsOwed
  <1>2. CASE ClientDrops
    <2>1. Len(down') = 0
      BY <1>2 DEF ClientDrops
    <2>2. SocketTask'
      BY <1>2, <2>1, WireLength DEF ClientDrops, SocketTask
    <2> QED
      BY <1>2, <2>2 DEF ClientDrops, PongsOwed
  <1>3. CASE UNCHANGED wsVars
    BY <1>3 DEF wsVars, SocketTask, PongsOwed, Pending
  <1> QED
    BY <1>1, <1>2, <1>3

LEMMA TaskWrites ==
  ASSUME SocketInv, SocketTask, PongsOwed, Write
  PROVE  SocketTask' /\ PongsOwed'
  <1>1. /\ IsSeq(up) /\ IsSeq(down)
    BY DEF SocketInv, SocketShape
  <1>2. /\ echoer \in {"send", "pong", "close"} /\ line = "open" /\ Len(down) < Wire
        /\ UNCHANGED <<up, line, pings>> /\ message' = NoMessage /\ echoer' \in {"ended", "recv"}
    BY DEF Write
  <1>3. PICK f : f = Frame(message) /\ f.op = message.op
    BY Framed
  <1>4. down' = Append(down, f)
    BY <1>3 DEF Write
  <1>5. Len(down) \in Nat /\ Len(down') = Len(down) + 1
    BY <1>1, <1>4, QueueAppend
  <1>6. SocketTask'
    BY <1>2, <1>5, WireLength DEF SocketTask
  <1>7. f.op = "pong" <=> echoer = "pong"
    <2>1. echoer = "send" => f.op \in {"text", "binary"}
      BY <1>3 DEF SocketTask, Openers
    <2>2. echoer \in {"pong", "close"} => f.op = echoer
      BY <1>3 DEF SocketInv
    <2> QED
      BY <1>2, <2>1, <2>2
  <1>8. PICK n, k \in Nat : n = Number(up, "ping") /\ k = Number(down, "pong")
    BY <1>1, NumberType
  <1>9. Number(down', "pong") = k + (IF f.op = "pong" THEN 1 ELSE 0)
    BY <1>1, <1>4, <1>8, NumberAppend
  <1>10. Number(down', "pong") = k + Pending /\ Pending \in Nat
    BY <1>7, <1>9 DEF Pending
  <1>11. n + Pending + k <= pings.awaited
    BY <1>2, <1>8 DEF PongsOwed
  <1>12. Number(up', "ping") = n /\ Pending' = 0
    BY <1>2, <1>8 DEF Pending
  <1>13. pings.awaited \in Nat /\ pings'.awaited = pings.awaited
    BY <1>2 DEF SocketTask
  <1>14. n + 0 + (k + Pending) <= pings.awaited
    BY <1>8, <1>10, <1>11, <1>13
  <1> QED
    BY <1>6, <1>10, <1>12, <1>13, <1>14 DEF PongsOwed

LEMMA ClientSends ==
  ASSUME SocketInv, SocketTask, PongsOwed, NEW frame, Sends(frame),
         UNCHANGED <<down, line, echoer, message>>,
         \/ pings' = pings /\ frame.op # "ping"
         \/ pings' = [sent |-> pings.sent + 1, awaited |-> pings.awaited] /\ frame.op # "ping"
         \/ pings' = [sent |-> pings.sent + 1, awaited |-> pings.awaited + 1]
  PROVE  SocketTask' /\ PongsOwed'
  <1>1. /\ IsSeq(up) /\ IsSeq(down)
    BY DEF SocketInv, SocketShape
  <1>2. line = "open" /\ Len(up) < Wire /\ up' = Append(up, frame)
    BY DEF Sends
  <1>3. Len(up) \in Nat /\ Len(up') = Len(up) + 1
    BY <1>1, <1>2, QueueAppend
  <1>4. pings.sent \in Nat /\ pings.awaited \in Nat /\ pings.awaited <= pings.sent
    BY DEF SocketTask
  <1>5. pings' \in [sent : Nat, awaited : Nat] /\ pings'.awaited <= pings'.sent
        /\ pings'.awaited \in Nat
        /\ pings'.awaited >= pings.awaited + (IF frame.op = "ping" THEN 1 ELSE 0)
    <2>1. CASE pings' = pings /\ frame.op # "ping"
      BY <2>1, <1>4 DEF SocketTask
    <2>2. CASE pings' = [sent |-> pings.sent + 1, awaited |-> pings.awaited] /\ frame.op # "ping"
      BY <2>2, <1>4
    <2>3. CASE pings' = [sent |-> pings.sent + 1, awaited |-> pings.awaited + 1]
      BY <2>3, <1>4
    <2> QED
      BY <2>1, <2>2, <2>3
  <1>6. SocketTask'
    BY <1>2, <1>3, <1>5, WireLength DEF SocketTask
  <1>7. PICK n, k \in Nat : n = Number(up, "ping") /\ k = Number(down, "pong")
    BY <1>1, NumberType
  <1>8. Number(up', "ping") = n + (IF frame.op = "ping" THEN 1 ELSE 0)
    BY <1>1, <1>2, <1>7, NumberAppend
  <1>9. Number(down', "pong") = k /\ Pending' = Pending /\ Pending \in Nat
    BY <1>7 DEF Pending
  <1>10. n + Pending + k <= pings.awaited
    BY <1>2, <1>7 DEF PongsOwed
  <1>11. Number(up', "ping") + Pending + k <= pings'.awaited
    BY <1>4, <1>5, <1>7, <1>8, <1>9, <1>10
  <1> QED
    BY <1>6, <1>9, <1>11 DEF PongsOwed

LEMMA ClientSpeaks ==
  ASSUME SocketInv, SocketTask, PongsOwed,
         ClientBegins \/ ClientEnds \/ ClientControls \/ ClientCloses
  PROVE  SocketTask' /\ PongsOwed'
  <1>1. UNCHANGED <<down, line, echoer, message>>
    BY DEF ClientBegins, ClientEnds, ClientControls, ClientCloses
  <1>2. CASE ClientBegins
    <2>1. PICK op \in {"text", "binary"}, size \in Sizes, fin \in BOOLEAN :
            Sends([Frame([op |-> op, parts |-> <<Part(size)>>]) EXCEPT !.fin = fin])
      BY <1>2 DEF ClientBegins
    <2>2. PICK frame : /\ frame = [Frame([op |-> op, parts |-> <<Part(size)>>]) EXCEPT !.fin = fin]
                       /\ frame.op = op
      <3>1. [Frame([op |-> op, parts |-> <<Part(size)>>]) EXCEPT !.fin = fin].op
              = [op |-> op, parts |-> <<Part(size)>>].op
        BY Fragment
      <3> QED
        BY <3>1
    <2>3. pings' = pings
      BY <1>2 DEF ClientBegins
    <2> QED
      BY <1>1, <2>1, <2>2, <2>3, ClientSends
  <1>3. CASE ClientEnds
    <2>1. PICK size \in Sizes : Sends(Frame([op |-> "continuation", parts |-> <<Part(size)>>]))
      BY <1>3 DEF ClientEnds
    <2>2. PICK frame : /\ frame = Frame([op |-> "continuation", parts |-> <<Part(size)>>])
                       /\ frame.op = "continuation"
      <3>1. Frame([op |-> "continuation", parts |-> <<Part(size)>>]).op = [op |-> "continuation", parts |-> <<Part(size)>>].op
        BY Framed
      <3> QED
        BY <3>1
    <2>3. pings' = pings
      BY <1>3 DEF ClientEnds
    <2> QED
      BY <1>1, <2>1, <2>2, <2>3, ClientSends
  <1>4. CASE ClientControls
    <2>1. PICK op \in {"ping", "pong", "unknown", "continuation"} :
            /\ Sends(Frame([op |-> op,
                            parts |-> IF op = "continuation" THEN <<Part(0)>> ELSE <<>>]))
            /\ pings' = [sent |-> pings.sent + 1,
                         awaited |-> IF op = "ping" THEN pings.awaited + 1 ELSE pings.awaited]
      BY <1>4 DEF ClientControls
    <2>2. PICK frame : /\ frame = Frame([op |-> op,
                                    parts |-> IF op = "continuation" THEN <<Part(0)>> ELSE <<>>])
                       /\ frame.op = op
      <3>1. Frame([op |-> op, parts |-> IF op = "continuation" THEN <<Part(0)>> ELSE <<>>]).op = [op |-> op, parts |-> IF op = "continuation" THEN <<Part(0)>> ELSE <<>>].op
        BY Framed
      <3> QED
        BY <3>1
    <2> QED
      BY <1>1, <2>1, <2>2, ClientSends
  <1>5. CASE ClientCloses
    <2>1. Sends(Frame([op |-> "close", parts |-> <<>>])) /\ pings' = pings
      BY <1>5 DEF ClientCloses
    <2>2. PICK frame : frame = Frame([op |-> "close", parts |-> <<>>]) /\ frame.op = "close"
      <3>1. Frame([op |-> "close", parts |-> <<>>]).op = [op |-> "close", parts |-> <<>>].op
        BY Framed
      <3> QED
        BY <3>1
    <2> QED
      BY <1>1, <2>1, <2>2, ClientSends
  <1> QED
    BY <1>2, <1>3, <1>4, <1>5

LEMMA ClientReads ==
  ASSUME SocketInv, SocketTask, PongsOwed, ClientHears
  PROVE  SocketTask' /\ PongsOwed'
  <1>1. /\ IsSeq(up) /\ IsSeq(down)
    BY DEF SocketInv, SocketShape
  <1>2. /\ line = "open" /\ down # <<>> /\ down' = Tail(down)
        /\ pings' = IF Head(down).op = "pong" THEN [pings EXCEPT !.awaited = @ - 1] ELSE pings
        /\ UNCHANGED <<up, line, echoer, message>>
    BY DEF ClientHears
  <1>3. /\ IsSeq(Tail(down)) /\ Len(down) \in Nat \ {0} /\ Len(down') = Len(down) - 1
        /\ Head(down) = down[1]
    BY <1>1, <1>2, QueueTail
  <1>4. PICK n, k, m \in Nat : n = Number(up, "ping") /\ k = Number(down, "pong")
                               /\ m = Number(Tail(down), "pong")
    BY <1>1, <1>3, NumberType
  <1>5. k = m + (IF down[1].op = "pong" THEN 1 ELSE 0)
    BY <1>1, <1>2, <1>4, NumberTail
  <1>6. n + Pending + k <= pings.awaited /\ Pending \in Nat
    BY <1>2, <1>4 DEF PongsOwed, Pending
  <1>7. pings \in [sent : Nat, awaited : Nat] /\ pings.awaited <= pings.sent
    BY DEF SocketTask
  <1>8. /\ pings' \in [sent : Nat, awaited : Nat] /\ pings'.awaited <= pings'.sent
        /\ n + Pending + m <= pings'.awaited
    <2>1. CASE down[1].op = "pong"
      <3>1. PICK a, s \in Nat : a = pings.awaited /\ s = pings.sent
        BY <1>7
      <3>2. a - 1 \in Nat /\ n + Pending + m <= a - 1 /\ a - 1 <= s
        BY <1>4, <1>5, <1>6, <1>7, <2>1, <3>1
      <3>3. pings' = [pings EXCEPT !.awaited = a - 1]
        BY <1>2, <1>3, <2>1, <3>1
      <3>4. pings'.awaited = a - 1 /\ pings'.sent = s /\ pings' \in [sent : Nat, awaited : Nat]
        BY <1>7, <3>1, <3>2, <3>3
      <3> QED
        BY <3>2, <3>4
    <2>2. CASE down[1].op # "pong"
      BY <1>2, <1>3, <1>4, <1>5, <1>6, <1>7, <2>2
    <2> QED
      BY <2>1, <2>2
  <1>9. SocketTask'
    BY <1>2, <1>3, <1>8, WireLength DEF SocketTask
  <1>10. Number(up', "ping") = n /\ Number(down', "pong") = m /\ Pending' = Pending
    BY <1>2, <1>4 DEF Pending
  <1> QED
    BY <1>8, <1>9, <1>10 DEF PongsOwed

LEMMA SocketTyping ==
  ASSUME SocketInv, SocketTask
  PROVE  WebSocketTypeOK
  <1>1. pings.awaited \in 0 .. pings.sent
    BY DEF SocketTask
  <1>2. echoer \in {"send", "pong", "close"} => message # NoMessage
    <2>1. echoer \in {"send", "pong", "close"} => message.op \in {"text", "binary", "pong", "close"}
      BY DEF SocketInv, SocketTask, Openers
    <2> QED
      BY <2>1 DEF NoMessage
  <1> QED
    BY <1>1, <1>2 DEF SocketTask, WebSocketTypeOK

\* ws_echo_handler and WebSocketConnection (handlers_hyper.rs:1848-1865,
\* hyper_compat.rs:303-357): the client never hears a pong it did not ask for, the wires
\* hold what they can, and the task has something in hand exactly while it writes.
THEOREM SocketTyped == WebSocketSpec => []WebSocketTypeOK
  <1>1. WebSocketInit => SocketInv /\ SocketTask /\ PongsOwed
    BY SocketStarts, TaskStarts
  <1>2. SocketInv /\ SocketTask /\ PongsOwed /\ [WebSocketNext]_wsVars
          => (SocketInv /\ SocketTask /\ PongsOwed)'
    BY SocketStep, TaskOpens, TaskReads, TaskEnds, TaskWrites, ClientSpeaks, ClientReads
       DEF WebSocketNext, WebSocketServer
  <1>3. SocketInv /\ SocketTask => WebSocketTypeOK
    BY SocketTyping
  <1> QED
    BY <1>1, <1>2, <1>3, PTL DEF WebSocketSpec

-----------------------------------------------------------------------------
(* Least and last numbers *)

LEMMA NatHasLeast ==
  ASSUME NEW T, T \subseteq Nat, T # {}
  PROVE  \E m \in T : \A k \in T : m <= k
  <1> DEFINE R == OpToRel(<, Nat)
  <1>1. PICK m \in T : \A k \in T : <<k, m>> \notin R
    <2>1. IsWellFoundedOn(R, Nat)
      BY NatLessThanWellFounded
    <2> HIDE DEF R
    <2> QED
      BY <2>1, WFMin
  <1>2. \A k \in T : ~(k < m)
    BY <1>1 DEF OpToRel
  <1> QED
    BY <1>2
LEMMA HasLast ==
  ASSUME NEW T, NEW n \in Nat, T \subseteq 0 .. n, T # {}
  PROVE  \E m \in T : \A k \in T : k <= m
  <1> DEFINE U == {b \in Nat : \A k \in T : k <= b}
  <1>1. U \subseteq Nat /\ n \in U
    OBVIOUS
  <1>2. PICK b \in U : \A k \in U : b <= k
    BY <1>1, NatHasLeast
  <1>3. b \in T
    <2> SUFFICES ASSUME b \notin T PROVE FALSE
      OBVIOUS
    <2>1. b \in Nat /\ \A k \in T : k <= b
      OBVIOUS
    <2>2. ASSUME NEW k \in T PROVE k \in Nat /\ k <= b - 1
      BY <2>1
    <2>3. PICK k \in T : TRUE
      OBVIOUS
    <2>4. b - 1 \in Nat
      BY <2>1, <2>2, <2>3
    <2>5. b - 1 \in U
      BY <2>2, <2>4
    <2> QED
      BY <1>2, <2>1, <2>5
  <1> QED
    BY <1>3

-----------------------------------------------------------------------------
(* The lengths frames carry *)

\* The length a reader takes from a head is the one write_frame put there.
LEMMA LengthsRead ==
  ASSUME NEW n \in Nat
  PROVE  LengthRead(LengthHead(n)) = n
  <1>1. PICK k \in Nat : k = 2 ^ 16 /\ k > 127
    OBVIOUS
  <1>2. CASE n < 126
    BY <1>2 DEF LengthHead, LengthRead
  <1>3. CASE n >= 126 /\ n < k
    <2>1. LengthHead(n) = <<126, n \div 256, n % 256>>
      BY <1>1, <1>3 DEF LengthHead
    <2>2. LengthRead(<<126, n \div 256, n % 256>>) = (n \div 256) * 256 + (n % 256)
      <3>1. PICK a, b \in Nat : a = n \div 256 /\ b = n % 256
        OBVIOUS
      <3>2. LengthRead(<<126, a, b>>) = a * 256 + b
        BY DEF LengthRead
      <3> QED
        BY <3>1, <3>2
    <2>3. (n \div 256) * 256 + (n % 256) = n
      OBVIOUS
    <2> QED
      BY <2>1, <2>2, <2>3
  <1>4. CASE n >= 126 /\ n >= k
    <2>1. LengthHead(n) = <<127, n>>
      BY <1>1, <1>4 DEF LengthHead
    <2> QED
      BY <2>1 DEF LengthRead
  <1> QED
    BY <1>1, <1>2, <1>3, <1>4

\* The sum a recursive function makes of the sizes is a number: there is such a
\* function up to every length, and where it first failed to be one, it would not.
LEMMA SizeIsNumber ==
  ASSUME NEW parts \in Seq(Parts)
  PROVE  SizeOf(parts) \in Nat
  <1>1. \A i \in 1 .. Len(parts) : parts[i].size \in Nat
    <2>1. Sizes \cup {0} \subseteq Nat
      BY WireAssumption
    <2>2. ASSUME NEW p \in Parts PROVE p.size \in Sizes \cup {0}
      BY DEF Parts
    <2>3. \A p \in Parts : p.size \in Nat
      BY <2>1, <2>2
    <2> QED
      BY <2>3, ElementOfSeq
  <1> DEFINE IsSum(f, n) == \A i \in 0 .. n : f[i] = IF i = 0 THEN 0 ELSE f[i - 1] + parts[i].size
             Unsummed == {n \in 0 .. Len(parts) : ~\E f \in [0 .. n -> Nat] : IsSum(f, n)}
  <1>2. Len(parts) \in Nat
    OBVIOUS
  <1>3. Unsummed = {}
    <2> SUFFICES ASSUME Unsummed # {} PROVE FALSE
      OBVIOUS
    <2>1. PICK n \in Unsummed : \A m \in Unsummed : n <= m
      <3>1. Unsummed \in SUBSET Nat
        BY <1>2
      <3> HIDE DEF Unsummed
      <3> QED
        BY <3>1, NatHasLeast
    <2>2. n \in 0 .. Len(parts) /\ n \in Nat
      BY <1>2
    <2>3. CASE n = 0
      <3>1. PICK f : f = [i \in 0 .. 0 |-> 0]
        OBVIOUS
      <3>2. f \in [0 .. 0 -> Nat] /\ IsSum(f, 0)
        BY <3>1
      <3> QED
        BY <2>3, <3>2
    <2>4. CASE n # 0
      <3>1. n - 1 \in 0 .. Len(parts) /\ n - 1 \notin Unsummed
        <4>1. n - 1 \in 0 .. Len(parts) /\ ~(n <= n - 1)
          BY <1>2, <2>2, <2>4
        <4> HIDE DEF Unsummed
        <4> QED
          BY <2>1, <4>1
      <3>2. PICK f \in [0 .. n - 1 -> Nat] : IsSum(f, n - 1)
        BY <3>1
      <3>3. parts[n].size \in Nat
        <4>1. n \in 1 .. Len(parts)
          BY <2>2, <2>4
        <4> QED
          BY <4>1, <1>1
      <3>4. PICK g : g = [i \in 0 .. n |-> IF i = n THEN f[n - 1] + parts[n].size ELSE f[i]]
        OBVIOUS
      <3>5. g \in [0 .. n -> Nat]
        BY <2>2, <2>4, <3>3, <3>4
      <3>6. IsSum(g, n)
        BY <2>2, <2>4, <3>2, <3>4
      <3> QED
        BY <3>5, <3>6
    <2> QED
      BY <2>3, <2>4
  <1>4. PICK f \in [0 .. Len(parts) -> Nat] : IsSum(f, Len(parts))
    BY <1>2, <1>3
  <1> DEFINE upTo == CHOOSE g : g = [i \in 0 .. Len(parts) |-> IF i = 0 THEN 0 ELSE g[i - 1] + parts[i].size]
  <1>5. f = [i \in 0 .. Len(parts) |-> IF i = 0 THEN 0 ELSE f[i - 1] + parts[i].size]
    BY <1>4
  <1>6. upTo = [i \in 0 .. Len(parts) |-> IF i = 0 THEN 0 ELSE upTo[i - 1] + parts[i].size]
    BY <1>5
  <1>7. SizeOf(parts) = upTo[Len(parts)]
    BY DEF SizeOf
  <1>8. {i \in 0 .. Len(parts) : upTo[i] \notin Nat} = {}
    <2> DEFINE Odd == {i \in 0 .. Len(parts) : upTo[i] \notin Nat}
    <2> SUFFICES ASSUME Odd # {} PROVE FALSE
      OBVIOUS
    <2>1. PICK n \in Odd : \A m \in Odd : n <= m
      <3>1. Odd \in SUBSET Nat
        BY <1>2
      <3> HIDE DEF Odd
      <3> QED
        BY <3>1, NatHasLeast
    <2>2. n \in 0 .. Len(parts) /\ n \in Nat /\ upTo[n] \notin Nat
      BY <1>2
    <2> HIDE DEF upTo
    <2>3. n # 0
      BY <1>6, <2>2
    <2>4. n - 1 \in 0 .. Len(parts) /\ ~(n <= n - 1) /\ n \in 1 .. Len(parts)
      BY <1>2, <2>2, <2>3
    <2>5. n - 1 \notin Odd
      <3> HIDE DEF Odd
      <3> QED
        BY <2>1, <2>4
    <2>6. upTo[n - 1] \in Nat
      BY <2>4, <2>5
    <2>7. parts[n].size \in Nat
      BY <1>1, <2>4
    <2>8. upTo[n] = upTo[n - 1] + parts[n].size
      BY <1>6, <2>2, <2>3
    <2> QED
      BY <2>2, <2>6, <2>7, <2>8
  <1> QED
    BY <1>2, <1>7, <1>8

\* What the client has sent and the task is about to write is made of fragments, so
\* that it has a length; and a frame on its way back says its own.
FramesInv ==
    /\ \A i \in 1 .. Len(up) : up[i].parts \in Seq(Parts)
    /\ message.parts \in Seq(Parts)
    /\ \A i \in 1 .. Len(down) : LengthRead(down[i].head) = SizeOf(down[i].parts)

LEMMA FrameSaysLength ==
  ASSUME NEW m, m.parts \in Seq(Parts)
  PROVE  LengthRead(Frame(m).head) = SizeOf(Frame(m).parts)
  <1>1. PICK n \in Nat : n = SizeOf(m.parts)
    BY SizeIsNumber
  <1>2. PICK h : h = LengthHead(n) /\ LengthRead(h) = n
    BY LengthsRead
  <1>3. Frame(m) = [op |-> m.op, fin |-> TRUE, parts |-> m.parts, head |-> h]
    BY <1>1, <1>2, Zenon DEF Frame
  <1>4. Frame(m).parts = m.parts /\ Frame(m).head = h
    BY <1>3
  <1> QED
    BY <1>1, <1>2, <1>4

LEMMA NoParts == NoMessage.parts \in Seq(Parts) /\ <<>> \in Seq(Parts)
  BY DEF NoMessage

LEMMA FramesStart ==
  ASSUME WebSocketInit
  PROVE  FramesInv
  BY NoParts DEF WebSocketInit, FramesInv

LEMMA FramesRead ==
  ASSUME SocketInv, FramesInv, RecvPing \/ RecvIgnored \/ RecvClose \/ RecvData
  PROVE  FramesInv'
  <1>1. up # <<>> /\ up' = Tail(up) /\ down' = down
    BY DEF RecvPing, RecvIgnored, RecvClose, RecvData, Arrives
  <1>2. /\ IsSeq(up) /\ Len(up) \in Nat \ {0} /\ Len(up') = Len(up) - 1 /\ Head(up) = up[1]
        /\ \A i \in 1 .. Len(up') : up'[i] = up[i + 1]
    BY <1>1, QueueTail DEF SocketInv, SocketShape
  <1>3. \A i \in 1 .. Len(up') : up'[i].parts \in Seq(Parts)
    <2>1. ASSUME NEW i \in 1 .. Len(up') PROVE i + 1 \in 1 .. Len(up)
      BY <1>2
    <2> QED
      BY <1>2, <2>1 DEF FramesInv
  <1>4. Head(up).parts \in Seq(Parts)
    BY <1>2 DEF FramesInv
  <1>5. message'.parts \in Seq(Parts)
    <2>1. CASE RecvPing \/ RecvIgnored \/ RecvClose
      BY <1>4, <2>1 DEF RecvPing, RecvIgnored, RecvClose, Arrives, FramesInv
    <2>2. CASE RecvData
      <3>1. PICK frame \in Range(up) :
              /\ frame = Head(up)
              /\ message' = Collected(frame) \/ message' = message
        BY <2>2 DEF RecvData, Arrives
      <3>2. partial \in [op : Openers \cup {"continuation"}, parts : Seq(Parts)]
        BY DEF SocketInv, SocketShape
      <3>3. Collected(frame).parts =
              IF frame.op = "continuation" THEN partial.parts \o frame.parts ELSE frame.parts
        BY <3>2 DEF Collected
      <3>4. partial.parts \o frame.parts \in Seq(Parts)
        BY <1>4, <3>1, <3>2
      <3> QED
        BY <1>4, <3>1, <3>3, <3>4 DEF FramesInv
    <2> QED
      BY <2>1, <2>2
  <1> QED
    BY <1>1, <1>3, <1>5 DEF FramesInv

LEMMA FrameWritten ==
  ASSUME SocketInv, FramesInv, Write
  PROVE  FramesInv'
  <1>1. PICK f : f = Frame(message) /\ LengthRead(f.head) = SizeOf(f.parts)
    BY FrameSaysLength DEF FramesInv
  <1>2. down' = Append(down, f) /\ up' = up /\ message' = NoMessage
    BY <1>1 DEF Write
  <1>3. /\ Len(down) \in Nat /\ Len(down') = Len(down) + 1 /\ down'[Len(down) + 1] = f
        /\ \A i \in 1 .. Len(down) : down'[i] = down[i]
    BY <1>2, QueueAppend DEF SocketInv, SocketShape
  <1>4. ASSUME NEW i \in 1 .. Len(down')
        PROVE  LengthRead(down'[i].head) = SizeOf(down'[i].parts)
    <2>1. i \in 1 .. Len(down) \/ i = Len(down) + 1
      BY <1>3
    <2> QED
      BY <1>1, <1>3, <2>1 DEF FramesInv
  <1> QED
    BY <1>2, <1>4, NoParts DEF FramesInv

LEMMA FrameSent ==
  ASSUME SocketInv, FramesInv, NEW frame, Sends(frame), frame.parts \in Seq(Parts),
         UNCHANGED <<down, message>>
  PROVE  FramesInv'
  <1>1. /\ Len(up) \in Nat /\ Len(up') = Len(up) + 1 /\ up'[Len(up) + 1] = frame
        /\ \A i \in 1 .. Len(up) : up'[i] = up[i]
    BY QueueAppend DEF Sends, SocketInv, SocketShape
  <1>2. ASSUME NEW i \in 1 .. Len(up') PROVE up'[i].parts \in Seq(Parts)
    <2>1. i \in 1 .. Len(up) \/ i = Len(up) + 1
      BY <1>1
    <2> QED
      BY <1>1, <2>1 DEF FramesInv
  <1> QED
    BY <1>2 DEF FramesInv

LEMMA FramesSpoken ==
  ASSUME SocketInv, FramesInv, ClientBegins \/ ClientEnds \/ ClientControls \/ ClientCloses
  PROVE  FramesInv'
  <1>1. UNCHANGED <<down, message>>
    BY DEF ClientBegins, ClientEnds, ClientControls, ClientCloses
  <1>2. Len(said) \in Nat
    BY Said DEF SocketInv
  <1>3. ASSUME NEW size \in Sizes \cup {0}, Len(draft.parts) \in {0, 1}
        PROVE  <<Part(size)>> \in Seq(Parts)
    <2>1. PICK k, n : k = Len(draft.parts) + 1 /\ n = Len(said) + 1
      OBVIOUS
    <2>2. k \in {1, 2}
      <3>1. CASE Len(draft.parts) = 0
        BY <2>1, <3>1
      <3>2. CASE Len(draft.parts) = 1
        BY <2>1, <3>2
      <3> QED
        BY <1>3, <3>1, <3>2
    <2>3. n \in Nat \ {0}
      BY <1>2, <2>1
    <2>4. Part(size) = [of |-> n, place |-> k, size |-> size]
      BY <2>1 DEF Part
    <2>5. [of |-> n, place |-> k, size |-> size] \in Parts
      BY <1>3, <2>2, <2>3 DEF Parts
    <2> QED
      BY <2>4, <2>5
  <1>4. draft = NoMessage => Len(draft.parts) \in {0, 1}
    BY DEF NoMessage
  <1>5. CASE ClientBegins
    <2>1. PICK op \in {"text", "binary"}, size \in Sizes, fin \in BOOLEAN :
            Sends([Frame([op |-> op, parts |-> <<Part(size)>>]) EXCEPT !.fin = fin])
      BY <1>5 DEF ClientBegins
    <2>2. PICK frame : /\ frame = [Frame([op |-> op, parts |-> <<Part(size)>>]) EXCEPT !.fin = fin]
                       /\ frame.parts = <<Part(size)>>
      <3>1. [Frame([op |-> op, parts |-> <<Part(size)>>]) EXCEPT !.fin = fin].parts
              = [op |-> op, parts |-> <<Part(size)>>].parts
        BY Fragment
      <3> QED
        BY <3>1
    <2>3. <<Part(size)>> \in Seq(Parts)
      BY <1>3, <1>4, <1>5 DEF ClientBegins
    <2> QED
      BY <1>1, <2>1, <2>2, <2>3, FrameSent
  <1>6. CASE ClientEnds
    <2>1. PICK size \in Sizes : Sends(Frame([op |-> "continuation", parts |-> <<Part(size)>>]))
      BY <1>6 DEF ClientEnds
    <2>2. PICK frame : /\ frame = Frame([op |-> "continuation", parts |-> <<Part(size)>>])
                       /\ frame.parts = <<Part(size)>>
      <3>1. Frame([op |-> "continuation", parts |-> <<Part(size)>>]).parts
              = [op |-> "continuation", parts |-> <<Part(size)>>].parts
        BY Framed
      <3> QED
        BY <3>1
    <2>3. Len(draft.parts) \in {0, 1}
      <3>1. draft.op \in Openers /\ DraftShape
        BY <1>6 DEF ClientEnds, Openers, SocketInv, SocketShape
      <3>2. PICK op \in Openers, p \in Parts : draft = [op |-> op, parts |-> <<p>>]
        BY <3>1 DEF DraftShape, NoMessage, Openers
      <3> QED
        BY <3>2
    <2>4. <<Part(size)>> \in Seq(Parts)
      BY <1>3, <2>3
    <2> QED
      BY <1>1, <2>1, <2>2, <2>4, FrameSent
  <1>7. CASE ClientControls
    <2>1. PICK op \in {"ping", "pong", "unknown"} \cup
                      (IF draft = NoMessage THEN {"continuation"} ELSE {}) :
            Sends(Frame([op |-> op,
                         parts |-> IF op = "continuation" THEN <<Part(0)>> ELSE <<>>]))
      BY <1>7 DEF ClientControls
    <2>2. PICK parts : /\ parts = IF op = "continuation" THEN <<Part(0)>> ELSE <<>>
                       /\ parts \in Seq(Parts)
      <3>1. op = "continuation" => draft = NoMessage
        BY <2>1
      <3>2. op = "continuation" => <<Part(0)>> \in Seq(Parts)
        BY <1>3, <1>4, <3>1
      <3> QED
        BY <3>2, NoParts
    <2>3. PICK frame : frame = Frame([op |-> op, parts |-> parts]) /\ frame.parts = parts
      <3>1. Frame([op |-> op, parts |-> parts]).parts = [op |-> op, parts |-> parts].parts
        BY Framed
      <3> QED
        BY <3>1
    <2> QED
      BY <1>1, <2>1, <2>2, <2>3, FrameSent
  <1>8. CASE ClientCloses
    <2>1. Sends(Frame([op |-> "close", parts |-> <<>>]))
      BY <1>8 DEF ClientCloses
    <2>2. PICK frame : frame = Frame([op |-> "close", parts |-> <<>>]) /\ frame.parts = <<>>
      <3>1. Frame([op |-> "close", parts |-> <<>>]).parts = [op |-> "close", parts |-> <<>>].parts
        BY Framed
      <3> QED
        BY <3>1
    <2> QED
      BY <1>1, <2>1, <2>2, NoParts, FrameSent
  <1> QED
    BY <1>5, <1>6, <1>7, <1>8

LEMMA FramesRest ==
  ASSUME SocketInv, FramesInv,
         \/ UpgradeSocket \/ RefuseUpgrade \/ RecvNone \/ WriteFails
         \/ ClientHears \/ ClientDrops \/ UNCHANGED wsVars
  PROVE  FramesInv'
  <1>1. CASE UpgradeSocket \/ RefuseUpgrade \/ RecvNone \/ WriteFails \/ UNCHANGED wsVars
    <2>1. up' = up /\ down' = down /\ message' \in {message, NoMessage}
      BY <1>1 DEF UpgradeSocket, RefuseUpgrade, RecvNone, WriteFails, wsVars
    <2> QED
      BY <2>1, NoParts DEF FramesInv
  <1>2. CASE ClientHears
    <2>1. down # <<>> /\ down' = Tail(down) /\ UNCHANGED <<up, message>>
      BY <1>2 DEF ClientHears
    <2>2. /\ Len(down) \in Nat \ {0} /\ Len(down') = Len(down) - 1
          /\ \A i \in 1 .. Len(down') : down'[i] = down[i + 1]
      BY <2>1, QueueTail DEF SocketInv, SocketShape
    <2>3. ASSUME NEW i \in 1 .. Len(down')
          PROVE  LengthRead(down'[i].head) = SizeOf(down'[i].parts)
      <3>1. i + 1 \in 1 .. Len(down) /\ down'[i] = down[i + 1]
        BY <2>2
      <3> QED
        BY <3>1 DEF FramesInv
    <2> QED
      BY <2>1, <2>3 DEF FramesInv
  <1>3. CASE ClientDrops
    <2>1. Len(down') = 0 /\ UNCHANGED <<up, message>>
      BY <1>3 DEF ClientDrops
    <2> QED
      BY <2>1 DEF FramesInv
  <1> QED
    BY <1>1, <1>2, <1>3

\* write_frame (hyper_compat.rs:274-301): whatever the client sent and recv put
\* together, the head of a frame the server writes says how long its payload is, in
\* the form for its size, so that the client reads every frame and finds the next.
THEOREM LengthsTrue == WebSocketSpec => []LengthsAreTrue
  <1>1. WebSocketInit => SocketInv /\ FramesInv
    BY SocketStarts, FramesStart
  <1>2. SocketInv /\ FramesInv /\ [WebSocketNext]_wsVars => (SocketInv /\ FramesInv)'
    BY SocketStep, FramesRead, FrameWritten, FramesSpoken, FramesRest
       DEF WebSocketNext, WebSocketServer
  <1>3. SocketInv /\ FramesInv => LengthsAreTrue
    <2>1. SocketInv => DOMAIN down = 1 .. Len(down)
      BY DEF SocketInv, SocketShape, IsSeq
    <2> QED
      BY <2>1 DEF FramesInv, LengthsAreTrue
  <1> QED
    BY <1>1, <1>2, <1>3, PTL DEF WebSocketSpec

-----------------------------------------------------------------------------
(* The news *)

USE EventsAssumption

(* The registry grows and is sorted by created_at; nothing on the broker,   *)
(* on the link or with a subscriber names a version it does not hold.       *)

Version == [stage : Stages, at : Nat]
Registrar == [at : {"idle", "audit", "send", "publish"}, version : Nat]
Follower == [open : BOOLEAN, pos : Nat, heard : Nat, fetched : Nat]

EventsShape ==
    /\ topic \in {"schemas", "history"} /\ bridge \in BOOLEAN
    /\ versions \in Seq(Version) /\ Len(versions) <= MaxVersions
    /\ wallclock \in 0 .. MaxInstant
    /\ registrar \in [Registrars -> Registrar]
    /\ events \in Seq(Nat) /\ link \in Seq(Nat)
    /\ subscriber \in [Subscribers -> Follower]
    /\ commits \in 0 .. MaxCommits /\ polled \in 0 .. commits

InOrder ==
    \A m, n \in 1 .. Len(versions) : m <= n => versions[m].at <= versions[n].at
ClockAhead == \A n \in 1 .. Len(versions) : versions[n].at <= wallclock

SentIsRegistered ==
    /\ \A r \in Registrars : registrar[r].version <= Len(versions)
    /\ \A n \in 1 .. Len(events) : events[n] <= Len(versions)
    /\ \A n \in 1 .. Len(link) : link[n] <= Len(versions)

Follows(s) ==
    /\ subscriber[s].pos <= Len(events)
    /\ subscriber[s].heard <= Len(versions) /\ subscriber[s].fetched <= Len(versions)
    /\ subscriber[s].fetched # 0 => subscriber[s].fetched >= subscriber[s].heard

EventsInv ==
    /\ EventsShape /\ InOrder /\ ClockAhead /\ SentIsRegistered
    /\ \A s \in Subscribers : Follows(s)

\* max_by_key finds the last version of a stage, for created_at never decreases.
LEMMA LatestIsLast ==
  ASSUME EventsInv, NEW n \in 1 .. Len(versions)
  PROVE  LatestIn(versions[n].stage) \in n .. Len(versions)
  <1> DEFINE g == versions[n].stage
             T == OfStage(g)
             Beats(m, k) == \/ versions[k].at < versions[m].at
                            \/ versions[k].at = versions[m].at /\ k <= m
             l == LatestIn(g)
  <1>1. n \in T /\ T \subseteq 1 .. Len(versions) /\ Len(versions) \in Nat
    BY DEF OfStage, EventsInv, EventsShape
  <1>2. \A k \in 1 .. Len(versions) : versions[k].at \in Nat
    <2>1. \A k \in 1 .. Len(versions) : versions[k] \in Version
      BY DEF EventsInv, EventsShape
    <2> QED
      BY <2>1 DEF Version
  <1>3. PICK m \in T : \A k \in T : k <= m
    <2> HIDE DEF T
    <2>1. T \subseteq 0 .. Len(versions) /\ T # {}
      BY <1>1
    <2> QED
      BY <1>1, <2>1, HasLast
  <1>4. \A k \in T : Beats(m, k)
    <2> SUFFICES ASSUME NEW k \in T PROVE Beats(m, k)
      OBVIOUS
    <2>1. k \in 1 .. Len(versions) /\ m \in 1 .. Len(versions) /\ k <= m
      BY <1>1, <1>3
    <2>2. versions[k].at <= versions[m].at
      BY <2>1 DEF EventsInv, InOrder
    <2> QED
      BY <1>2, <2>1, <2>2
  <1>5. l \in T /\ \A k \in T : Beats(l, k)
    BY <1>4, Zenon DEF LatestIn
  <1>6. l \in 1 .. Len(versions) /\ Beats(l, n)
    BY <1>1, <1>5
  <1>7. l < n => versions[l].at <= versions[n].at
    BY <1>6 DEF EventsInv, InOrder
  <1> HIDE DEF l
  <1>8. n <= l
    BY <1>2, <1>6, <1>7
  <1> QED
    BY <1>6, <1>8 DEF l

LEMMA RegistryGrows ==
  ASSUME EventsInv, NEW r \in Registrars, Register(r)
  PROVE  EventsInv'
  <1>1. PICK g \in Stages : versions' = Append(versions, [stage |-> g, at |-> wallclock])
    BY DEF Register, RegisterIn
  <1> DEFINE n == Len(versions)
  <1>2. /\ versions' \in Seq(Version) /\ Len(versions') = n + 1 /\ n \in Nat
        /\ \A k \in 1 .. n : versions'[k] = versions[k]
        /\ versions'[n + 1].at = wallclock
    <2>1. [stage |-> g, at |-> wallclock] \in Version
      BY DEF EventsInv, EventsShape, Version
    <2>2. versions \in Seq(Version)
      BY DEF EventsInv, EventsShape
    <2> QED
      BY <1>1, <2>1, <2>2, AppendProperties
  <1> HIDE DEF n
  <1>3. /\ registrar' = [registrar EXCEPT ![r] = [at |-> "audit", version |-> n + 1]]
        /\ n < MaxVersions
        /\ UNCHANGED <<wallclock, events, link, bridge, subscriber, topic, commits, polled>>
    BY DEF Register, Called, broker, stream, n
  <1>4. EventsShape'
    <2>1. registrar' \in [Registrars -> Registrar]
      BY <1>2, <1>3 DEF EventsInv, EventsShape, Registrar
    <2>2. Len(versions') <= MaxVersions
      BY <1>2, <1>3
    <2> QED
      BY <1>2, <1>3, <2>1, <2>2 DEF EventsInv, EventsShape
  <1>5. ClockAhead'
    <2> SUFFICES ASSUME NEW k \in 1 .. n + 1 PROVE versions'[k].at <= wallclock
      BY <1>2, <1>3 DEF ClockAhead
    <2>1. CASE k \in 1 .. n
      BY <1>2, <2>1 DEF EventsInv, ClockAhead, n
    <2>2. CASE k = n + 1
      BY <1>2, <2>2 DEF EventsInv, EventsShape
    <2> QED
      BY <1>2, <2>1, <2>2
  <1>6. InOrder'
    <2> SUFFICES ASSUME NEW j \in 1 .. n + 1, NEW k \in 1 .. n + 1, j <= k
                 PROVE  versions'[j].at <= versions'[k].at
      BY <1>2 DEF InOrder
    <2>1. CASE k \in 1 .. n
      BY <1>2, <2>1 DEF EventsInv, InOrder, n
    <2>2. CASE k = n + 1
      BY <1>2, <1>3, <1>5, <2>2 DEF ClockAhead
    <2> QED
      BY <1>2, <2>1, <2>2
  <1>7. SentIsRegistered'
    <2>1. \A q \in Registrars : registrar'[q].version <= n + 1
      <3> SUFFICES ASSUME NEW q \in Registrars PROVE registrar'[q].version <= n + 1
        OBVIOUS
      <3>1. registrar[q].version \in Nat /\ registrar[q].version <= n
        BY DEF EventsInv, EventsShape, SentIsRegistered, Registrar, n
      <3>2. registrar'[q] = IF q = r THEN [at |-> "audit", version |-> n + 1] ELSE registrar[q]
        BY <1>3 DEF EventsInv, EventsShape
      <3> QED
        BY <1>2, <3>1, <3>2
    <2>2. \A k \in 1 .. Len(events) : events[k] <= n + 1
      BY <1>2 DEF EventsInv, EventsShape, SentIsRegistered, n
    <2>3. \A k \in 1 .. Len(link) : link[k] <= n + 1
      BY <1>2 DEF EventsInv, EventsShape, SentIsRegistered, n
    <2> QED
      BY <1>2, <1>3, <2>1, <2>2, <2>3 DEF SentIsRegistered
  <1>8. \A s \in Subscribers : Follows(s)'
    BY <1>2, <1>3 DEF EventsInv, EventsShape, Follows, Follower, n
  <1> QED
    BY <1>4, <1>5, <1>6, <1>7, <1>8 DEF EventsInv

\* A step that sends or publishes what is in the registry.
LEMMA RegistryRests ==
  ASSUME EventsInv, UNCHANGED registry
  PROVE  InOrder' /\ ClockAhead'
  BY DEF EventsInv, InOrder, ClockAhead, registry

LEMMA RegistrarsStep ==
  ASSUME EventsInv, NEW r \in Registrars, Registering(r) \/ LeaveStream(r)
  PROVE  EventsInv'
  <1>1. InOrder' /\ ClockAhead' /\ UNCHANGED <<versions, wallclock>>
    BY RegistryRests
       DEF Registering, AuditRegistered, SendNews, PublishNews, LeaveStream, registry
  <1>2. /\ registrar' \in [Registrars -> Registrar]
        /\ \A q \in Registrars : registrar'[q].version <= Len(versions)
    <2>1. PICK p \in {"idle", "audit", "send", "publish"}, v \in {0, registrar[r].version} :
             registrar' = [registrar EXCEPT ![r] = [at |-> p, version |-> v]]
      BY DEF Registering, AuditRegistered, SendNews, PublishNews, LeaveStream, EventsInv,
             EventsShape, Registrar
    <2> QED
      BY <2>1 DEF EventsInv, EventsShape, SentIsRegistered, Registrar
  <1>3. registrar[r].version \in Nat /\ registrar[r].version <= Len(versions)
    BY DEF EventsInv, EventsShape, SentIsRegistered, Registrar
  <1>4. /\ events' \in Seq(Nat) /\ Len(events') >= Len(events)
        /\ \A n \in 1 .. Len(events') : events'[n] <= Len(versions)
    <2>1. CASE events' = events
      BY <2>1 DEF EventsInv, EventsShape, SentIsRegistered
    <2>2. CASE events' = Append(events, registrar[r].version)
      <3>1. /\ events' \in Seq(Nat) /\ Len(events') = Len(events) + 1 /\ Len(events) \in Nat
            /\ \A n \in 1 .. Len(events) : events'[n] = events[n]
            /\ events'[Len(events) + 1] = registrar[r].version
        BY <1>3, <2>2, AppendProperties DEF EventsInv, EventsShape
      <3> QED
        BY <1>3, <3>1 DEF EventsInv, SentIsRegistered
    <2> QED
      BY <2>1, <2>2
         DEF Registering, AuditRegistered, SendNews, PublishNews, LeaveStream, broker
  <1>5. link' \in Seq(Nat) /\ \A n \in 1 .. Len(link') : link'[n] <= Len(versions)
    <2>1. CASE link' = link
      BY <2>1 DEF EventsInv, EventsShape, SentIsRegistered
    <2>2. CASE link' = Append(link, registrar[r].version)
      <3>1. /\ link' \in Seq(Nat) /\ Len(link') = Len(link) + 1 /\ Len(link) \in Nat
            /\ \A n \in 1 .. Len(link) : link'[n] = link[n]
            /\ link'[Len(link) + 1] = registrar[r].version
        BY <1>3, <2>2, AppendProperties DEF EventsInv, EventsShape
      <3> QED
        BY <1>3, <3>1, SMTT(20) DEF EventsInv, SentIsRegistered
    <2> QED
      BY <2>1, <2>2
         DEF Registering, AuditRegistered, SendNews, PublishNews, LeaveStream, broker
  <1>6. UNCHANGED <<bridge, subscriber, topic, commits, polled>>
    BY DEF Registering, AuditRegistered, SendNews, PublishNews, LeaveStream, broker, stream
  <1>7. EventsShape'
    BY <1>1, <1>2, <1>4, <1>5, <1>6 DEF EventsInv, EventsShape
  <1>8. SentIsRegistered'
    BY <1>1, <1>2, <1>4, <1>5 DEF SentIsRegistered
  <1>9. \A s \in Subscribers : Follows(s)'
    BY <1>1, <1>4, <1>6 DEF EventsInv, EventsShape, Follows, Follower
  <1> QED
    BY <1>1, <1>7, <1>8, <1>9 DEF EventsInv

LEMMA BridgeStep ==
  ASSUME EventsInv, RemoteNews \/ Forwards \/ BridgeEnds
  PROVE  EventsInv'
  <1>1. /\ InOrder' /\ ClockAhead'
        /\ UNCHANGED <<versions, wallclock, registrar, subscriber, topic, commits, polled>>
    BY RegistryRests DEF RemoteNews, Forwards, BridgeEnds, registry, stream
  <1>2. Forwards => /\ link' = Tail(link) /\ link # <<>> /\ link'\in Seq(Nat)
                    /\ Len(link') = Len(link) - 1
                    /\ \A n \in 1 .. Len(link') : link'[n] = link[n + 1]
    BY HeadTailProperties DEF Forwards, EventsInv, EventsShape
  <1>3. link' \in Seq(Nat) /\ \A n \in 1 .. Len(link') : link'[n] <= Len(versions)
    <2>1. CASE RemoteNews
      <3>1. link' = Append(link, 0) /\ link \in Seq(Nat) /\ 0 <= Len(versions)
        BY <2>1 DEF RemoteNews, EventsInv, EventsShape
      <3> QED
        BY <3>1, AppendProperties DEF EventsInv, SentIsRegistered
    <2>2. CASE Forwards
      <3>1. \A n \in 1 .. Len(link) : link[n] <= Len(versions)
        BY DEF EventsInv, SentIsRegistered
      <3>2. Len(link) \in Nat /\ Len(link') \in Nat
        BY <1>2, <2>2 DEF EventsInv, EventsShape
      <3> QED
        BY <1>2, <2>2, <3>1, <3>2
    <2>3. CASE BridgeEnds
      BY <2>3 DEF BridgeEnds
    <2> QED
      BY <2>1, <2>2, <2>3
  <1>4. /\ events' \in Seq(Nat) /\ Len(events') >= Len(events)
        /\ \A n \in 1 .. Len(events') : events'[n] <= Len(versions)
    <2>1. CASE events' = events
      BY <2>1 DEF EventsInv, EventsShape, SentIsRegistered
    <2>2. CASE Forwards /\ events' = Append(events, Head(link))
      <3>1. Head(link) \in Nat /\ Head(link) <= Len(versions)
        BY <1>2, <2>2, HeadTailProperties DEF EventsInv, EventsShape, SentIsRegistered
      <3> QED
        BY <2>2, <3>1, AppendProperties DEF EventsInv, EventsShape, SentIsRegistered
    <2> QED
      BY <2>1, <2>2 DEF RemoteNews, Forwards, BridgeEnds
  <1>5. bridge' \in BOOLEAN
    BY DEF RemoteNews, Forwards, BridgeEnds, EventsInv, EventsShape
  <1>6. EventsShape'
    BY <1>1, <1>3, <1>4, <1>5 DEF EventsInv, EventsShape
  <1>7. SentIsRegistered'
    BY <1>1, <1>3, <1>4 DEF EventsInv, SentIsRegistered
  <1>8. \A s \in Subscribers : Follows(s)'
    BY <1>1, <1>4 DEF EventsInv, EventsShape, Follows, Follower
  <1> QED
    BY <1>1, <1>6, <1>7, <1>8 DEF EventsInv

\* A subscriber fetches what its news is about, or moves on without what it fetched.
LEMMA SubscribersStep ==
  ASSUME EventsInv, NEW s \in Subscribers,
         Subscribe(s) \/ Hear(s) \/ GetSchema(s) \/ Unsubscribe(s)
  PROVE  EventsInv'
  <1>1. /\ InOrder' /\ ClockAhead' /\ UNCHANGED <<versions, wallclock, registrar>>
        /\ UNCHANGED <<events, link, bridge, topic, commits, polled>>
    BY RegistryRests
       DEF Subscribe, Hear, GetSchema, Unsubscribe, registry, broker, stream
  <1> DEFINE Fits(f) == /\ f \in Follower
                        /\ f.pos <= Len(events) /\ f.heard <= Len(versions)
                        /\ f.fetched <= Len(versions)
                        /\ f.fetched # 0 => f.fetched >= f.heard
             old == subscriber[s]
  <1>2. Fits(old) /\ Len(versions) \in Nat /\ Len(events) \in Nat
    BY DEF EventsInv, EventsShape, Follows
  <1>3. \E f : subscriber' = [subscriber EXCEPT ![s] = f] /\ Fits(f)
    <2>1. ASSUME Subscribe(s) \/ Unsubscribe(s) PROVE <1>3!:
      <3>1. PICK p \in {0, Len(events)}, o \in BOOLEAN : subscriber' = [subscriber EXCEPT ![s] =
              [open |-> o, pos |-> p, heard |-> 0, fetched |-> 0]]
        BY <2>1 DEF Subscribe, Unsubscribe, Off, News
      <3>2. Fits([open |-> o, pos |-> p, heard |-> 0, fetched |-> 0])
        BY <1>2 DEF Follower
      <3> QED
        BY <3>1, <3>2
    <2>2. ASSUME Hear(s) PROVE <1>3!:
      <3>1. CASE old.pos < Oldest
        <4>1. SkipTo(s) \in 0 .. Len(events)
          BY <1>2 DEF SkipTo, Oldest, News
        <4>2. Fits([old EXCEPT !.pos = SkipTo(s)])
          BY <1>2, <4>1 DEF Follower
        <4>3. subscriber' = [subscriber EXCEPT ![s] = [old EXCEPT !.pos = SkipTo(s)]]
          BY <2>2, <3>1 DEF Hear, EventsInv, EventsShape, Follower
        <4> QED
          BY <4>2, <4>3
      <3>2. CASE ~(old.pos < Oldest)
        <4>1. old.pos \in Nat /\ old.pos < Len(events)
          BY <1>2, <2>2 DEF Hear, News, Follower
        <4>2. PICK p \in Nat : p = old.pos + 1 /\ p \in 1 .. Len(events)
          BY <1>2, <4>1
        <4>3. PICK h \in Nat : h = events[p] /\ h <= Len(versions)
          BY <4>2, SMTT(20) DEF EventsInv, EventsShape, SentIsRegistered
        <4> DEFINE g == [old EXCEPT !.pos = p, !.fetched = 0, !.heard = h]
        <4>4. subscriber' = [subscriber EXCEPT ![s] = g]
          BY <2>2, <3>2, <4>2, <4>3 DEF Hear, EventsInv, EventsShape, Follower
        <4>5. g \in Follower /\ g.pos = p /\ g.heard = h /\ g.fetched = 0
          <5>1. old \in Follower
            BY <1>2
          <5> QED
            BY <5>1 DEF Follower
        <4> HIDE DEF g
        <4>6. Fits(g)
          BY <1>2, <4>2, <4>3, <4>5
        <4> QED
          BY <4>4, <4>6
      <3> QED
        BY <3>1, <3>2
    <2>3. ASSUME GetSchema(s) PROVE <1>3!:
      <3> DEFINE l == LatestIn(versions[old.heard].stage)
      <3>1. old.heard \in 1 .. Len(versions)
        BY <2>3 DEF GetSchema, EventsInv, EventsShape
      <3>2. l \in old.heard .. Len(versions)
        BY <3>1, LatestIsLast
      <3>3. subscriber' = [subscriber EXCEPT ![s] = [old EXCEPT !.fetched = l]]
        BY <2>3 DEF GetSchema, EventsInv, EventsShape, Follower
      <3> HIDE DEF l
      <3>4. Fits([old EXCEPT !.fetched = l])
        BY <1>2, <3>1, <3>2 DEF Follower
      <3> QED
        BY <3>3, <3>4
    <2> QED
      BY <2>1, <2>2, <2>3
  <1>0. PICK f : subscriber' = [subscriber EXCEPT ![s] = f] /\ Fits(f)
    BY <1>3, Zenon
  <1>4. EventsShape'
    BY <1>1, <1>0 DEF EventsInv, EventsShape
  <1>5. SentIsRegistered'
    BY <1>1 DEF EventsInv, SentIsRegistered
  <1>6. \A q \in Subscribers : Follows(q)'
    BY <1>1, <1>0 DEF EventsInv, EventsShape, Follows
  <1> QED
    BY <1>1, <1>4, <1>5, <1>6 DEF EventsInv

LEMMA ClocksStep ==
  ASSUME EventsInv, Wallclock \/ CommitChange \/ Poll
  PROVE  EventsInv'
  <1>1. UNCHANGED <<versions, registrar, events, link, bridge, subscriber, topic>>
    BY DEF Wallclock, CommitChange, Poll, registry, broker, stream
  <1>2. wallclock' \in wallclock .. MaxInstant
    BY DEF Wallclock, CommitChange, Poll, registry, EventsInv, EventsShape
  <1>3. commits' \in 0 .. MaxCommits /\ polled' \in 0 .. commits'
    BY DEF Wallclock, CommitChange, Poll, stream, EventsInv, EventsShape
  <1>4. EventsShape'
    BY <1>1, <1>2, <1>3 DEF EventsInv, EventsShape
  <1>5. ClockAhead'
    <2> SUFFICES ASSUME NEW n \in 1 .. Len(versions) PROVE versions[n].at <= wallclock'
      BY <1>1 DEF ClockAhead
    <2>1. versions[n] \in Version
      BY DEF EventsInv, EventsShape
    <2> QED
      BY <1>2, <2>1 DEF EventsInv, EventsShape, ClockAhead, Version
  <1>6. InOrder' /\ SentIsRegistered' /\ \A s \in Subscribers : Follows(s)'
    BY <1>1 DEF EventsInv, InOrder, SentIsRegistered, Follows
  <1> QED
    BY <1>4, <1>5, <1>6 DEF EventsInv

LEMMA EventsInvariant == EventsSpec => []EventsInv
  <1>1. EventsInit => EventsInv
    <2> SUFFICES ASSUME EventsInit PROVE EventsInv
      OBVIOUS
    <2>1. EventsShape
      BY DEF EventsInit, EventsShape, Registrar, Follower, Off
    <2> QED
      BY <2>1 DEF EventsInit, EventsInv, InOrder, ClockAhead, SentIsRegistered, Follows, Off
  <1>2. EventsInv /\ [EventsNext]_eventsVars => EventsInv'
    <2> SUFFICES ASSUME EventsInv, [EventsNext]_eventsVars PROVE EventsInv'
      OBVIOUS
    <2>1. CASE UNCHANGED eventsVars
      BY <2>1 DEF eventsVars, EventsInv, EventsShape, InOrder, ClockAhead, SentIsRegistered,
                  Follows
    <2> QED
      BY <2>1, RegistryGrows, RegistrarsStep, BridgeStep, SubscribersStep, ClocksStep
         DEF EventsNext
  <1> QED
    BY <1>1, <1>2, PTL DEF EventsSpec

\* The registry, the broadcast channel, the bridge and the streams of schema events
\* (handlers_hyper.rs:459-786, edfs.rs:45-138) keep their types.
THEOREM EventsTyped == EventsSpec => []EventsTypeOK
  <1>1. EventsInv => EventsTypeOK
    <2> SUFFICES ASSUME EventsInv PROVE EventsTypeOK
      OBVIOUS
    <2>1. \A n \in DOMAIN versions : n \in 1 .. Len(versions) /\ versions[n] \in Version
      BY DEF EventsInv, EventsShape
    <2>2. \A n \in DOMAIN versions :
             versions[n].stage \in Stages /\ versions[n].at \in 0 .. wallclock
      <3> SUFFICES ASSUME NEW n \in DOMAIN versions
                   PROVE  versions[n].stage \in Stages /\ versions[n].at \in 0 .. wallclock
        OBVIOUS
      <3>1. versions[n].stage \in Stages /\ versions[n].at \in Nat
        BY <2>1 DEF Version
      <3>2. versions[n].at <= wallclock /\ wallclock \in Nat
        BY <2>1 DEF EventsInv, EventsShape, ClockAhead
      <3> QED
        BY <3>1, <3>2
    <2>3. registrar \in [Registrars -> [at : {"idle", "audit", "send", "publish"},
                                        version : 0 .. MaxVersions]]
      BY DEF EventsInv, EventsShape, SentIsRegistered, Registrar
    <2>4. subscriber \in [Subscribers -> [open : BOOLEAN, pos : 0 .. News,
                             heard : 0 .. MaxVersions, fetched : 0 .. MaxVersions]]
      BY DEF EventsInv, EventsShape, Follows, Follower, News
    <2>5. /\ \A n \in DOMAIN events : events[n] \in 0 .. Len(versions)
          /\ \A n \in DOMAIN link : link[n] \in 0 .. Len(versions)
      BY SMTT(20) DEF EventsInv, EventsShape, SentIsRegistered
    <2> QED
      BY <2>2, <2>3, <2>4, <2>5 DEF EventsTypeOK, EventsInv, EventsShape
  <1> QED
    BY <1>1, EventsInvariant, PTL

\* register_schema_and_respond (handlers_hyper.rs:547-610) enters a version into the
\* registry before anybody hears of it: whoever fetches the schema of a stage after
\* news of it gets that version or a later one.
THEOREM NewsReadable == EventsSpec => []NewsIsReadable
  <1>1. EventsInv => NewsIsReadable
    BY DEF EventsInv, Follows, NewsIsReadable
  <1> QED
    BY <1>1, EventsInvariant, PTL
=============================================================================

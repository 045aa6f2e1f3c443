--------------------------- MODULE HostStreamProofs ---------------------------
(***************************************************************************)
(* Proofs about HostStream, for any users, attempts, hosts and pools of    *)
(* queries, and any number of inputs, results and faults.                  *)
(***************************************************************************)
EXTENDS HostStream, TLAPS

-----------------------------------------------------------------------------
(* The inductive invariant.                                                 *)

Inputs == [user : User, n : Nat]
Held == Inputs \cup {<<>>}
Streams == Stream \cup {NoStream}
QueryTypes == Query \cup {0}
Pools == {Server[s] : s \in Stream} \X Query

ClientTypes ==
    [call : {"idle", "run", "ok", "error", "panic"}, sender : {"off", "wait", "done"},
     receiver : {"off", "recv", "out", "done"}, item : Nat, done : BOOLEAN]
WireTypes ==
    [up : Seq(Inputs), down : Seq(Nat), end : {"open", "eof", "status"}, cut : BOOLEAN]
ServerTypes ==
    [handler : {"none", "first", "start", "run", "close", "back"}, err : BOOLEAN,
     relay : {"off", "wait", "send", "done"}, item : Nat,
     taker : {"off", "recv", "hold", "select", "done"}, held : Held,
     to : Streams, query : QueryTypes]
MachineTypes ==
    [pc : {"off", "run", "end"}, got : Seq(Held), made : 0..MaxOut]

Types ==
    /\ client \in [Stream -> ClientTypes]
    /\ wire \in [Stream -> WireTypes]
    /\ server \in [Stream -> ServerTypes]
    /\ machine \in [Stream -> MachineTypes]
    /\ chan \in [Pools -> Streams]
    /\ taken \in [User -> 0..MaxIn]
    /\ out \in [Stream -> Seq(Nat)]
    /\ faults \in 0..MaxFaults

\* A stream that has accepted its connect message has a query; while its handler runs
\* the query has the stream's own channel.
OwnQuery(s) ==
    /\ server[s].taker # "off" => server[s].query \in Query
    /\ s \notin Watch /\ server[s].handler \in {"start", "run", "close"} =>
          server[s].query \in Query /\ chan[QueryOf(s)] = s
Queries == \A s \in Stream : OwnQuery(s)

\* Nothing has come of stream s: no input, no result, and none on its way.
Quiet(s) ==
    /\ machine[s].got = <<>> /\ machine[s].made = 0 /\ out[s] = <<>>
    /\ server[s].relay # "send" /\ client[s].receiver # "out" /\ wire[s].down = <<>>

\* The state machine is called by a handler that waits for it.  A stream is quiet until
\* the state machine is called, which a read that fails never does; and a call that has an
\* error has not reached a handler, or one whose read failed.
UnstartedAt(s) ==
    /\ machine[s].pc = "run" => server[s].handler = "run"
    /\ machine[s].pc = "off" => Quiet(s)
    /\ server[s].handler \in {"none", "first", "start"} => machine[s].pc = "off"
    /\ server[s].err => machine[s].pc = "off" /\ server[s].handler \in {"close", "back"}
    /\ client[s].call = "idle" => server[s].handler = "none"
    /\ client[s].call = "error" => server[s].handler = "none" \/ server[s].err
Unstarted == \A s \in Stream : UnstartedAt(s)

IInv == Types /\ Queries /\ Unstarted

\* The user of a stream is a user who has it among the attempts.
LEMMA UserOfType == \A s \in Stream : UserOf[s] \in User /\ s \in Range(Attempts[UserOf[s]])
BY Zenon DEF Stream, UserOf

\* The initial states satisfy the invariant.
LEMMA InitInv == Init => IInv
<1> SUFFICES ASSUME Init PROVE IInv
    OBVIOUS
<1>1. Types
  BY BoundsAssumption DEF Init, Types, ClientTypes, WireTypes, ServerTypes, MachineTypes,
                          Pools, Held, Streams, QueryTypes
<1>2. Queries
  BY Zenon DEF Init, Queries, OwnQuery
<1>3. Unstarted
  BY Zenon DEF Init, Unstarted, UnstartedAt, Quiet
<1> QED BY Zenon, <1>1, <1>2, <1>3 DEF IInv


\* What the steps that update several fields of a record leave alone.
LEMMA AcceptEffect ==
  ASSUME Types, NEW s \in Stream, Accept(s)
  PROVE  /\ server[s].handler = "first" /\ server'[s].handler = "start"
         /\ server'[s].relay = "wait" /\ server'[s].err = server[s].err
         /\ server'[s].item = server[s].item /\ server'[s].held = server[s].held
         /\ server'[s].to = server[s].to
         /\ server'[s].taker = IF s \in Watch THEN server[s].taker ELSE "recv"
         /\ \A q \in Stream \ {s} : server'[q] = server[q]
         /\ UNCHANGED <<client, wire, machine, taken, out>>
<1>1. CASE s \in Watch
  BY <1>1 DEF Types, Accept, ServerTypes
<1>2. CASE s \notin Watch
  <2>1. PICK x \in Query : server' = [server EXCEPT ![s].handler = "start", ![s].relay = "wait",
                                                  ![s].taker = "recv", ![s].query = x]
    BY Zenon, <1>2 DEF Accept
  <2>2. /\ server'[s].handler = "start" /\ server'[s].relay = "wait"
        /\ server'[s].err = server[s].err
        /\ server'[s].item = server[s].item /\ server'[s].held = server[s].held
        /\ server'[s].to = server[s].to /\ server'[s].taker = "recv"
        /\ \A q \in Stream \ {s} : server'[q] = server[q]
    BY <2>1 DEF Types, ServerTypes
  <2> QED
    BY Zenon, <1>2, <2>2 DEF Accept
<1> QED
  BY Zenon, <1>1, <1>2

\* A message taken by the sender goes to its connection and nowhere else.
LEMMA SenderTakesEffect ==
  ASSUME Types, NEW s \in Stream, SenderTakes(s)
  PROVE  /\ \A q \in Stream : /\ wire'[q].down = wire[q].down /\ wire'[q].end = wire[q].end
                              /\ wire'[q].cut = wire[q].cut
                              /\ client'[q].call = client[q].call
                              /\ client'[q].receiver = client[q].receiver
                              /\ client'[q].item = client[q].item
         /\ UNCHANGED <<server, machine, out>>
<1>1. CASE Alive(s)
  <2>1. PICK v : wire' = [wire EXCEPT ![s].up = v]
    BY Zenon, <1>1 DEF SenderTakes
  <2>2. \A q \in Stream : /\ wire'[q].down = wire[q].down /\ wire'[q].end = wire[q].end
                          /\ wire'[q].cut = wire[q].cut
    BY Zenon, <2>1 DEF Types, WireTypes
  <2> QED
    BY Zenon, <1>1, <2>2 DEF SenderTakes
<1>2. CASE ~Alive(s)
  <2>1. client' = [client EXCEPT ![s].sender = "done"]
    BY Zenon, <1>2 DEF SenderTakes
  <2>2. \A q \in Stream : /\ client'[q].call = client[q].call
                          /\ client'[q].receiver = client[q].receiver
                          /\ client'[q].item = client[q].item
    BY <2>1 DEF Types, ClientTypes
  <2> QED
    BY Zenon, <1>2, <2>2 DEF SenderTakes
<1> QED
  BY Zenon, <1>1, <1>2

\* A message taken by the server changes no message that is on its way back and no
\* other part of a server than its taker.
LEMMA TakerTakesEffect ==
  ASSUME Types, NEW s \in Stream, TakerTakes(s)
  PROVE  /\ \A q \in Stream : /\ wire'[q].down = wire[q].down /\ wire'[q].end = wire[q].end
                              /\ wire'[q].cut = wire[q].cut
                              /\ server'[q].handler = server[q].handler
                              /\ server'[q].err = server[q].err
                              /\ server'[q].relay = server[q].relay
                              /\ server'[q].item = server[q].item
         /\ UNCHANGED <<client, machine, out>>
<1>1. PICK v : server' = [server EXCEPT ![s].taker = "hold", ![s].held = v]
  BY Zenon DEF TakerTakes
<1>2. \A q \in Stream : /\ server'[q].handler = server[q].handler
                        /\ server'[q].err = server[q].err
                        /\ server'[q].relay = server[q].relay
                        /\ server'[q].item = server[q].item
  BY <1>1 DEF Types, ServerTypes
<1>3. \A q \in Stream : /\ wire'[q].down = wire[q].down /\ wire'[q].end = wire[q].end
                        /\ wire'[q].cut = wire[q].cut
  <2>1. CASE s \in Local
    BY Zenon, <2>1 DEF TakerTakes
  <2>2. CASE s \notin Local
    <3>1. PICK w : wire' = [wire EXCEPT ![s].up = w]
      BY Zenon, <2>2 DEF TakerTakes
    <3> QED
      BY Zenon, <3>1 DEF Types, WireTypes
  <2> QED
    BY Zenon, <2>1, <2>2
<1> QED
  BY Zenon, <1>2, <1>3 DEF TakerTakes

\* One step of a stream keeps what is known of streams that have not started.
LEMMA StreamUnstarted ==
  ASSUME Types, Unstarted, NEW s \in Stream, StreamStep(s)
  PROVE  Unstarted'
<1>1. CASE SenderDone(s)
  BY <1>1 DEF Types, Unstarted, UnstartedAt, Quiet, SenderDone, ClientTypes
<1>2. CASE ReceiverTakes(s)
  BY SMTT(20), <1>2 DEF Types, Unstarted, UnstartedAt, Quiet, ReceiverTakes, ClientTypes, WireTypes
<1>3. CASE Deliver(s)
  BY <1>3 DEF Types, Unstarted, UnstartedAt, Quiet, Deliver, ClientTypes
<1>4. CASE ReceiverEof(s)
  BY <1>4 DEF Types, Unstarted, UnstartedAt, Quiet, ReceiverEof, ClientTypes
<1>5. CASE ReceiverError(s)
  BY <1>5 DEF Types, Unstarted, UnstartedAt, Quiet, ReceiverError, ClientTypes
<1>6. CASE Return(s)
  BY <1>6 DEF Types, Unstarted, UnstartedAt, Quiet, Return, ClientTypes
<1>7. CASE Accept(s)
  <2>1. /\ server[s].handler = "first" /\ server'[s].handler = "start"
        /\ server'[s].relay = "wait" /\ server'[s].err = server[s].err
        /\ \A q \in Stream \ {s} : server'[q] = server[q]
        /\ UNCHANGED <<client, wire, machine, out>>
    BY Zenon, <1>7, AcceptEffect
  <2> QED
    BY <2>1 DEF Unstarted, UnstartedAt, Quiet
<1>8. CASE AcceptFails(s)
  BY <1>8 DEF Types, Unstarted, UnstartedAt, Quiet, AcceptFails, ServerTypes
<1>9. CASE ReadStarts(s)
  BY <1>9 DEF Types, Unstarted, UnstartedAt, Quiet, ReadStarts, ServerTypes, MachineTypes
<1>10. CASE RelaySends(s)
  BY SMTT(20), <1>10 DEF Types, Unstarted, UnstartedAt, Quiet, RelaySends, ServerTypes, WireTypes
<1>11. CASE RelayDone(s)
  BY <1>11 DEF Types, Unstarted, UnstartedAt, Quiet, RelayDone, ServerTypes
<1>12. CASE TakerEnds(s)
  BY <1>12 DEF Types, Unstarted, UnstartedAt, Quiet, TakerEnds, ServerTypes
<1>13. CASE TakerSelects(s)
  BY <1>13 DEF Types, Unstarted, UnstartedAt, Quiet, TakerSelects, ServerTypes
<1>14. CASE TakerDrops(s)
  BY <1>14 DEF Types, Unstarted, UnstartedAt, Quiet, TakerDrops, ServerTypes
<1>15. CASE HandlerReturns(s)
  BY SMTT(20), <1>15 DEF Types, Unstarted, UnstartedAt, Quiet, HandlerReturns, ServerTypes, ClientTypes,
               WireTypes
<1>16. CASE Start(s)
  BY <1>16 DEF Types, Unstarted, UnstartedAt, Quiet, Start, ClientTypes, ServerTypes, Turn
<1>17. CASE StartFails(s)
  BY <1>17 DEF Types, Unstarted, UnstartedAt, Quiet, StartFails, ClientTypes, Turn
<1>18. CASE SenderTakes(s)
  <2>1. /\ \A q \in Stream : /\ wire'[q].down = wire[q].down
                             /\ client'[q].call = client[q].call
                             /\ client'[q].receiver = client[q].receiver
        /\ UNCHANGED <<server, machine, out>>
    BY Zenon, <1>18, SenderTakesEffect
  <2> QED
    BY <2>1 DEF Unstarted, UnstartedAt, Quiet
<1>19. CASE TakerTakes(s)
  <2>1. /\ \A q \in Stream : /\ wire'[q].down = wire[q].down
                             /\ server'[q].handler = server[q].handler
                             /\ server'[q].err = server[q].err
                             /\ server'[q].relay = server[q].relay
        /\ UNCHANGED <<client, machine, out>>
    BY Zenon, <1>19, TakerTakesEffect
  <2> QED
    BY <2>1 DEF Unstarted, UnstartedAt, Quiet
<1>20. CASE ReadFails(s)
  BY <1>20 DEF Types, Unstarted, UnstartedAt, Quiet, ReadFails, ServerTypes
<1>21. CASE MachineSends(s)
  BY SMTT(20), <1>21 DEF Types, Unstarted, UnstartedAt, Quiet, MachineSends, MachineTypes, ServerTypes
<1>22. CASE MachineEnds(s)
  BY <1>22 DEF Types, Unstarted, UnstartedAt, Quiet, MachineEnds, MachineTypes, ServerTypes
<1>23. CASE Cut(s)
  BY <1>23 DEF Types, Unstarted, UnstartedAt, Quiet, Cut, WireTypes, Severed
<1>24. CASE \E t \in Stream : MachineTakes(s, t)
  <2>1. PICK t \in Stream : MachineTakes(s, t)
    BY Zenon, <1>24
  <2>2. \A q \in Stream : /\ server'[q].handler = server[q].handler
                          /\ server'[q].err = server[q].err
                          /\ server'[q].relay = server[q].relay
    BY <2>1 DEF Types, MachineTakes, ServerTypes
  <2>3. \A q \in Stream : /\ machine'[q].pc = machine[q].pc
                          /\ q # s => machine'[q] = machine[q]
    BY Zenon, <2>1 DEF Types, MachineTakes, MachineTypes
  <2>4. machine[s].pc = "run" /\ UNCHANGED <<client, wire, out>>
    BY Zenon, <2>1 DEF MachineTakes
  <2> QED
    BY <2>2, <2>3, <2>4 DEF Unstarted, UnstartedAt, Quiet
<1> QED
  BY Zenon, <1>1, <1>2, <1>3, <1>4, <1>5, <1>6, <1>7, <1>8, <1>9, <1>10, <1>11, <1>12, <1>13, <1>14,
     <1>15, <1>16, <1>17, <1>18, <1>19, <1>20, <1>21, <1>22, <1>23, <1>24
  DEF StreamStep, ClientStep, ServerStep

\* An input is taken from a user who has one left.
LEMMA InputTaken ==
  ASSUME Types, NEW u \in User, TakeInput(u)
  PROVE  Input(u) \in Inputs /\ taken' \in [User -> 0..MaxIn]
BY BoundsAssumption DEF Types, TakeInput, Input, Inputs

\* A stream that is cut.
LEMMA SeveredType ==
  ASSUME Types, NEW s \in Stream
  PROVE  Severed(s) \in WireTypes
<1>1. wire[s] \in WireTypes
  BY Zenon DEF Types
<1> DEFINE e == <<>>
<1>2. e \in Seq(Inputs) /\ e \in Seq(Nat)
  OBVIOUS
<1>3. Severed(s) = [wire[s] EXCEPT !.up = e, !.down = e, !.cut = TRUE]
  BY Zenon DEF Severed
<1> HIDE DEF e
<1> QED
  BY Zenon, <1>1, <1>2, <1>3 DEF WireTypes

\* One step of a stream keeps the types.
LEMMA StreamTypes ==
  ASSUME Types, Queries, NEW s \in Stream, StreamStep(s)
  PROVE  Types'
<1>1. CASE SenderDone(s)
  BY ZenonT(30), <1>1 DEF Types, SenderDone, ClientTypes
<1>2. CASE ReceiverTakes(s)
  <2> DEFINE n == Head(wire[s].down)
             rest == Tail(wire[s].down)
             c == [client[s] EXCEPT !.receiver = "out", !.item = n]
             w == [wire[s] EXCEPT !.down = rest]
  <2>1. client[s] \in ClientTypes /\ wire[s] \in WireTypes
    BY Zenon DEF Types
  <2>2. wire[s].down \in Seq(Nat) /\ wire[s].down # <<>>
    BY Zenon, <1>2, <2>1 DEF ReceiverTakes, WireTypes
  <2>3. n \in Nat /\ rest \in Seq(Nat)
    BY <2>2
  <2>4. /\ client' = [client EXCEPT ![s] = c] /\ wire' = [wire EXCEPT ![s] = w]
        /\ UNCHANGED <<server, machine, chan, taken, out, faults>>
    BY Zenon, <1>2 DEF ReceiverTakes
  <2> HIDE DEF n, rest
  <2>5. c \in ClientTypes
    BY Zenon, <2>1, <2>3 DEF ClientTypes
  <2>6. w \in WireTypes
    BY Zenon, <2>1, <2>3 DEF WireTypes
  <2> HIDE DEF c, w
  <2> QED
    BY Zenon, <2>4, <2>5, <2>6 DEF Types
<1>3. CASE Deliver(s)
  <2> DEFINE c == [client[s] EXCEPT !.receiver = "recv", !.item = 0]
  <2>1. client[s] \in ClientTypes
    BY Zenon DEF Types
  <2>2. c \in ClientTypes
    BY Zenon, <2>1 DEF ClientTypes
  <2>3. client' = [client EXCEPT ![s] = c]
    BY Zenon, <1>3 DEF Deliver
  <2> HIDE DEF c
  <2>4. out' \in [Stream -> Seq(Nat)]
    BY <1>3 DEF Types, Deliver, ClientTypes
  <2> QED
    BY ZenonT(30), <1>3, <2>2, <2>3, <2>4 DEF Types, Deliver
<1>4. CASE ReceiverEof(s)
  <2> DEFINE c == [client[s] EXCEPT !.receiver = "done", !.done = TRUE]
  <2>1. client[s] \in ClientTypes
    BY Zenon DEF Types
  <2>2. c \in ClientTypes
    BY Zenon, <2>1 DEF ClientTypes
  <2>3. client' = [client EXCEPT ![s] = c]
    BY Zenon, <1>4 DEF ReceiverEof
  <2> HIDE DEF c
  <2> QED
    BY Zenon, <1>4, <2>2, <2>3 DEF Types, ReceiverEof
<1>5. CASE ReceiverError(s)
  BY ZenonT(30), <1>5 DEF Types, ReceiverError, ClientTypes
<1>6. CASE Return(s)
  BY ZenonT(30), <1>6 DEF Types, Return, ClientTypes
<1>7. CASE Accept(s)
  <2> DEFINE r1 == [server[s] EXCEPT !.handler = "start", !.relay = "wait"]
             r2(x) == [server[s] EXCEPT !.handler = "start", !.relay = "wait",
                                        !.taker = "recv", !.query = x]
  <2>1. server[s] \in ServerTypes
    BY Zenon DEF Types
  <2>2. r1 \in ServerTypes
    BY Zenon, <2>1 DEF ServerTypes
  <2>3. \A x \in Query : r2(x) \in ServerTypes
    BY Zenon, <2>1 DEF ServerTypes, QueryTypes
  <2>4. CASE s \in Watch
    <3>1. server' = [server EXCEPT ![s] = r1] /\ UNCHANGED chan
      BY Zenon, <1>7, <2>4 DEF Accept
    <3> HIDE DEF r1
    <3> QED
      BY Zenon, <1>7, <2>2, <3>1 DEF Types, Accept
  <2>5. CASE s \notin Watch
    <3>0. PICK x \in {y \in Query : Free(y, s)} :
            /\ server' = [server EXCEPT ![s].handler = "start", ![s].relay = "wait",
                                        ![s].taker = "recv", ![s].query = x]
            /\ chan' = [chan EXCEPT ![<<Server[s], x>>] = s]
      BY Zenon, <1>7, <2>5 DEF Accept
    <3>1. /\ x \in Query /\ server' = [server EXCEPT ![s] = r2(x)]
          /\ chan' = [chan EXCEPT ![<<Server[s], x>>] = s]
      BY Zenon, <3>0
    <3>2. r2(x) \in ServerTypes
      BY Zenon, <2>3, <3>1
    <3>3. chan' \in [Pools -> Streams]
      BY Zenon, <3>1 DEF Types, Streams
    <3> HIDE DEF r2
    <3>4. server' \in [Stream -> ServerTypes]
      BY Zenon, <3>1, <3>2 DEF Types
    <3> QED
      BY Zenon, <1>7, <3>3, <3>4 DEF Types, Accept
  <2> QED
    BY Zenon, <2>4, <2>5
<1>8. CASE AcceptFails(s)
  <2> DEFINE r == [server[s] EXCEPT !.handler = "back"]
  <2>1. server[s] \in ServerTypes
    BY Zenon DEF Types
  <2>2. r \in ServerTypes
    BY Zenon, <2>1 DEF ServerTypes
  <2>3. server' = [server EXCEPT ![s] = r]
    BY Zenon, <1>8 DEF AcceptFails
  <2> HIDE DEF r
  <2> QED
    BY Zenon, <1>8, <2>2, <2>3 DEF Types, AcceptFails
<1>9. CASE ReadStarts(s)
  <2> DEFINE r == [server[s] EXCEPT !.handler = "run"]
             m == [machine[s] EXCEPT !.pc = "run"]
  <2>1. server[s] \in ServerTypes /\ machine[s] \in MachineTypes
    BY Zenon DEF Types
  <2>2. r \in ServerTypes
    BY Zenon, <2>1 DEF ServerTypes
  <2>3. m \in MachineTypes
    BY Zenon, <2>1 DEF MachineTypes
  <2>4. server' = [server EXCEPT ![s] = r] /\ machine' = [machine EXCEPT ![s] = m]
    BY Zenon, <1>9 DEF ReadStarts
  <2> HIDE DEF r, m
  <2> QED
    BY ZenonT(30), <1>9, <2>2, <2>3, <2>4 DEF Types, ReadStarts
<1>10. CASE RelaySends(s)
  <2> DEFINE r == [server[s] EXCEPT !.relay = "wait", !.item = 0]
             more == Append(wire[s].down, server[s].item)
             got == Append(out[s], server[s].item)
             w == [wire[s] EXCEPT !.down = more]
  <2>1. server[s] \in ServerTypes /\ wire[s] \in WireTypes /\ out[s] \in Seq(Nat)
    BY Zenon DEF Types
  <2>2. server[s].item \in Nat /\ wire[s].down \in Seq(Nat)
    BY Zenon, <2>1 DEF ServerTypes, WireTypes
  <2>3. more \in Seq(Nat) /\ got \in Seq(Nat)
    BY <2>1, <2>2
  <2>4. r \in ServerTypes
    BY Zenon, <2>1 DEF ServerTypes
  <2>5. /\ server' = [server EXCEPT ![s] = r]
        /\ wire' = wire \/ wire' = [wire EXCEPT ![s] = w]
        /\ out' = out \/ out' = [out EXCEPT ![s] = got]
        /\ UNCHANGED <<client, machine, chan, taken, faults>>
    BY Zenon, <1>10 DEF RelaySends
  <2> HIDE DEF more, got
  <2>6. w \in WireTypes
    BY Zenon, <2>1, <2>3 DEF WireTypes
  <2> HIDE DEF r, w
  <2> QED
    BY Zenon, <2>3, <2>4, <2>5, <2>6 DEF Types
<1>11. CASE RelayDone(s)
  <2> DEFINE r == [server[s] EXCEPT !.relay = "done"]
  <2>1. server[s] \in ServerTypes
    BY Zenon DEF Types
  <2>2. r \in ServerTypes
    BY Zenon, <2>1 DEF ServerTypes
  <2>3. server' = [server EXCEPT ![s] = r]
    BY Zenon, <1>11 DEF RelayDone
  <2> HIDE DEF r
  <2> QED
    BY Zenon, <1>11, <2>2, <2>3 DEF Types, RelayDone
<1>12. CASE TakerEnds(s)
  <2> DEFINE r == [server[s] EXCEPT !.taker = "done"]
  <2>1. server[s] \in ServerTypes
    BY Zenon DEF Types
  <2>2. r \in ServerTypes
    BY Zenon, <2>1 DEF ServerTypes
  <2>3. server' = [server EXCEPT ![s] = r]
    BY Zenon, <1>12 DEF TakerEnds
  <2> HIDE DEF r
  <2> QED
    BY Zenon, <1>12, <2>2, <2>3 DEF Types, TakerEnds
<1>13. CASE TakerSelects(s)
  <2> DEFINE r == [server[s] EXCEPT !.taker = "select", !.to = chan[QueryOf(s)]]
  <2>1. server[s] \in ServerTypes
    BY Zenon DEF Types
  <2>2. chan[QueryOf(s)] \in Streams
    BY Zenon, <1>13 DEF Types, Queries, OwnQuery, QueryOf, TakerSelects, Pools
  <2>3. r \in ServerTypes
    BY Zenon, <2>1, <2>2 DEF ServerTypes
  <2>4. server' = [server EXCEPT ![s] = r]
    BY Zenon, <1>13 DEF TakerSelects
  <2> HIDE DEF r
  <2> QED
    BY Zenon, <1>13, <2>3, <2>4 DEF Types, TakerSelects
<1>14. CASE TakerDrops(s)
  <2> DEFINE r == [server[s] EXCEPT !.taker = "done", !.to = NoStream, !.held = <<>>]
  <2>1. server[s] \in ServerTypes
    BY Zenon DEF Types
  <2>2. r \in ServerTypes
    BY Zenon, <2>1 DEF ServerTypes, Streams, Held
  <2>3. server' = [server EXCEPT ![s] = r]
    BY Zenon, <1>14 DEF TakerDrops
  <2> HIDE DEF r
  <2> QED
    BY ZenonT(30), <1>14, <2>2, <2>3 DEF Types, TakerDrops
<1>15. CASE HandlerReturns(s)
  <2> DEFINE r == [server[s] EXCEPT !.handler = "back"]
             w == [wire[s] EXCEPT !.end = IF server[s].err THEN "status" ELSE "eof"]
             c == [client[s] EXCEPT !.call = IF server[s].err THEN "error" ELSE "ok"]
  <2>1. server[s] \in ServerTypes /\ wire[s] \in WireTypes /\ client[s] \in ClientTypes
    BY Zenon DEF Types
  <2>2. r \in ServerTypes
    BY Zenon, <2>1 DEF ServerTypes
  <2>3. w \in WireTypes
    BY Zenon, <2>1 DEF WireTypes
  <2>4. c \in ClientTypes
    BY Zenon, <2>1 DEF ClientTypes
  <2>5. /\ server' = [server EXCEPT ![s] = r] /\ wire' = [wire EXCEPT ![s] = w]
        /\ client' = client \/ client' = [client EXCEPT ![s] = c]
        /\ chan' = chan \/ chan' = [chan EXCEPT ![QueryOf(s)] = NoStream]
    BY Zenon, <1>15 DEF HandlerReturns
  <2> HIDE DEF r, w, c
  <2>6. /\ server' \in [Stream -> ServerTypes] /\ wire' \in [Stream -> WireTypes]
        /\ client' \in [Stream -> ClientTypes] /\ chan' \in [Pools -> Streams]
    BY Zenon, <2>2, <2>3, <2>4, <2>5 DEF Types, Streams
  <2> QED
    BY Zenon, <1>15, <2>6 DEF Types, HandlerReturns
<1>16. CASE Start(s)
  <2> DEFINE c == [client[s] EXCEPT !.call = "run",
                              !.sender = IF s \in Local \cup Watch THEN "done" ELSE "wait",
                              !.receiver = IF s \in Local THEN "done" ELSE "recv"]
             r == [server[s] EXCEPT !.handler = "first"]
  <2>1. client[s] \in ClientTypes /\ server[s] \in ServerTypes
    BY Zenon DEF Types
  <2>2. c \in ClientTypes
    BY Zenon, <2>1 DEF ClientTypes
  <2>3. r \in ServerTypes
    BY Zenon, <2>1 DEF ServerTypes
  <2>4. client' = [client EXCEPT ![s] = c] /\ server' = [server EXCEPT ![s] = r]
    BY Zenon, <1>16 DEF Start
  <2> HIDE DEF c, r
  <2>5. UNCHANGED <<wire, machine, chan, taken, out, faults>>
    BY Zenon, <1>16 DEF Start
  <2> QED
    BY Zenon, <2>2, <2>3, <2>4, <2>5 DEF Types
<1>17. CASE StartFails(s)
  <2> DEFINE c == [client[s] EXCEPT !.call = IF s \in Watch THEN "panic" ELSE "error"]
  <2>1. client[s] \in ClientTypes
    BY Zenon DEF Types
  <2>2. c \in ClientTypes
    BY Zenon, <2>1 DEF ClientTypes
  <2>3. client' = [client EXCEPT ![s] = c]
    BY Zenon, <1>17 DEF StartFails
  <2>4. faults' \in 0..MaxFaults
    BY <1>17, BoundsAssumption DEF Types, StartFails, Fault
  <2> HIDE DEF c
  <2> QED
    BY Zenon, <1>17, <2>2, <2>3, <2>4 DEF Types, StartFails
<1>18. CASE SenderTakes(s)
  <2> DEFINE more == Append(wire[s].up, Input(UserOf[s]))
             w == [wire[s] EXCEPT !.up = more]
             c == [client[s] EXCEPT !.sender = "done"]
  <2>1. wire[s] \in WireTypes /\ client[s] \in ClientTypes
    BY Zenon DEF Types
  <2>2. TakeInput(UserOf[s]) /\ Input(UserOf[s]) \in Inputs /\ taken' \in [User -> 0..MaxIn]
    BY Zenon, <1>18, InputTaken, UserOfType DEF SenderTakes
  <2>3. wire[s].up \in Seq(Inputs)
    BY Zenon, <2>1 DEF WireTypes
  <2>4. more \in Seq(Inputs)
    BY <2>2, <2>3
  <2>5. c \in ClientTypes
    BY Zenon, <2>1 DEF ClientTypes
  <2>6. /\ wire' = wire \/ wire' = [wire EXCEPT ![s] = w]
        /\ client' = client \/ client' = [client EXCEPT ![s] = c]
    BY Zenon, <1>18 DEF SenderTakes
  <2> HIDE DEF more
  <2>7. w \in WireTypes
    BY Zenon, <2>1, <2>4 DEF WireTypes
  <2> HIDE DEF w, c
  <2>8. wire' \in [Stream -> WireTypes] /\ client' \in [Stream -> ClientTypes]
    BY Zenon, <2>5, <2>6, <2>7 DEF Types
  <2> QED
    BY Zenon, <1>18, <2>2, <2>8 DEF Types, SenderTakes
<1>19. CASE TakerTakes(s)
  <2> DEFINE r(v) == [server[s] EXCEPT !.taker = "hold", !.held = v]
             rest == Tail(wire[s].up)
             w == [wire[s] EXCEPT !.up = rest]
  <2>1. server[s] \in ServerTypes /\ wire[s] \in WireTypes
    BY Zenon DEF Types
  <2>2. \A v \in Inputs : r(v) \in ServerTypes
    BY Zenon, <2>1 DEF ServerTypes, Held
  <2>3. CASE s \in Local
    <3>1. Input(UserOf[s]) \in Inputs /\ taken' \in [User -> 0..MaxIn]
      BY Zenon, <1>19, <2>3, InputTaken, UserOfType DEF TakerTakes
    <3>2. server' = [server EXCEPT ![s] = r(Input(UserOf[s]))] /\ UNCHANGED wire
      BY Zenon, <1>19, <2>3 DEF TakerTakes
    <3>3. r(Input(UserOf[s])) \in ServerTypes
      BY Zenon, <2>2, <3>1
    <3> HIDE DEF r
    <3>4. server' \in [Stream -> ServerTypes]
      BY Zenon, <3>2, <3>3 DEF Types
    <3> QED
      BY Zenon, <1>19, <3>1, <3>2, <3>4 DEF Types, TakerTakes
  <2>4. CASE s \notin Local
    <3>1. wire[s].up # <<>> /\ UNCHANGED taken
      BY Zenon, <1>19, <2>4 DEF TakerTakes
    <3>2. wire[s].up \in Seq(Inputs)
      BY Zenon, <2>1 DEF WireTypes
    <3>3. Head(wire[s].up) \in Inputs /\ rest \in Seq(Inputs)
      BY <3>1, <3>2
    <3>4. /\ server' = [server EXCEPT ![s] = r(Head(wire[s].up))]
          /\ wire' = [wire EXCEPT ![s] = w]
      BY Zenon, <1>19, <2>4 DEF TakerTakes
    <3>5. r(Head(wire[s].up)) \in ServerTypes
      BY Zenon, <2>2, <3>3
    <3> HIDE DEF r, rest
    <3>6. w \in WireTypes
      BY Zenon, <2>1, <3>3 DEF WireTypes
    <3> HIDE DEF w
    <3>7. server' \in [Stream -> ServerTypes] /\ wire' \in [Stream -> WireTypes]
      BY Zenon, <3>4, <3>5, <3>6 DEF Types
    <3> QED
      BY Zenon, <1>19, <3>1, <3>7 DEF Types, TakerTakes
  <2> QED
    BY Zenon, <2>3, <2>4
<1>20. CASE ReadFails(s)
  <2> DEFINE r == [server[s] EXCEPT !.handler = "close", !.err = TRUE]
  <2>1. server[s] \in ServerTypes
    BY Zenon DEF Types
  <2>2. r \in ServerTypes
    BY Zenon, <2>1 DEF ServerTypes
  <2>3. server' = [server EXCEPT ![s] = r]
    BY Zenon, <1>20 DEF ReadFails
  <2>4. faults' \in 0..MaxFaults
    BY <1>20, BoundsAssumption DEF Types, ReadFails, Fault
  <2> HIDE DEF r
  <2> QED
    BY Zenon, <1>20, <2>2, <2>3, <2>4 DEF Types, ReadFails
<1>21. CASE MachineSends(s)
  <2> DEFINE n == machine[s].made + 1
             r == [server[s] EXCEPT !.relay = "send", !.item = n]
             m == [machine[s] EXCEPT !.made = n]
  <2>1. server[s] \in ServerTypes /\ machine[s] \in MachineTypes
    BY Zenon DEF Types
  <2>2. n \in Nat /\ n \in 0..MaxOut
    BY <1>21, <2>1, BoundsAssumption DEF MachineSends, MachineTypes
  <2>3. /\ server' = [server EXCEPT ![s] = r] /\ machine' = [machine EXCEPT ![s] = m]
        /\ UNCHANGED <<client, wire, chan, taken, out, faults>>
    BY Zenon, <1>21 DEF MachineSends
  <2> HIDE DEF n
  <2>4. r \in ServerTypes
    BY Zenon, <2>1, <2>2 DEF ServerTypes
  <2>5. m \in MachineTypes
    BY Zenon, <2>1, <2>2 DEF MachineTypes
  <2> HIDE DEF r, m
  <2> QED
    BY Zenon, <2>3, <2>4, <2>5 DEF Types
<1>22. CASE MachineEnds(s)
  <2> DEFINE r == [server[s] EXCEPT !.handler = "close"]
             m == [machine[s] EXCEPT !.pc = "end"]
  <2>1. server[s] \in ServerTypes /\ machine[s] \in MachineTypes
    BY Zenon DEF Types
  <2>2. r \in ServerTypes
    BY Zenon, <2>1 DEF ServerTypes
  <2>3. m \in MachineTypes
    BY Zenon, <2>1 DEF MachineTypes
  <2>4. server' = [server EXCEPT ![s] = r] /\ machine' = [machine EXCEPT ![s] = m]
    BY Zenon, <1>22 DEF MachineEnds
  <2> HIDE DEF r, m
  <2> QED
    BY ZenonT(30), <1>22, <2>2, <2>3, <2>4 DEF Types, MachineEnds
<1>23. CASE Cut(s)
  <2>1. wire' = [wire EXCEPT ![s] = Severed(s)] /\ Severed(s) \in WireTypes
    BY Zenon, <1>23, SeveredType DEF Cut
  <2>2. faults' \in 0..MaxFaults
    BY <1>23, BoundsAssumption DEF Types, Cut, Fault
  <2> QED
    BY Zenon, <1>23, <2>1, <2>2 DEF Types, Cut
<1>24. CASE \E t \in Stream : MachineTakes(s, t)
  <2>1. PICK t \in Stream : MachineTakes(s, t)
    BY Zenon, <1>24
  <2> DEFINE r == [server[t] EXCEPT !.taker = "recv", !.to = NoStream, !.held = <<>>]
             g == Append(machine[s].got, server[t].held)
             m == [machine[s] EXCEPT !.got = g]
  <2>2. /\ server[t] \in ServerTypes /\ server[t].held \in Held
        /\ machine[s] \in MachineTypes /\ machine[s].got \in Seq(Held)
    BY Zenon DEF Types, ServerTypes, MachineTypes
  <2>3. r \in ServerTypes
    BY Zenon, <2>2 DEF ServerTypes, Streams, Held
  <2>4. g \in Seq(Held)
    BY <2>2
  <2>5. /\ server' = [server EXCEPT ![t] = r] /\ machine' = [machine EXCEPT ![s] = m]
        /\ UNCHANGED <<client, wire, chan, taken, out, faults>>
    BY Zenon, <2>1 DEF MachineTakes
  <2> HIDE DEF r, g
  <2>6. m \in MachineTypes
    BY Zenon, <2>2, <2>4 DEF MachineTypes
  <2> HIDE DEF m
  <2> QED
    BY Zenon, <2>3, <2>5, <2>6 DEF Types
<1> QED
  BY Zenon, <1>1, <1>2, <1>3, <1>4, <1>5, <1>6, <1>7, <1>8, <1>9, <1>10, <1>11, <1>12, <1>13, <1>14,
     <1>15, <1>16, <1>17, <1>18, <1>19, <1>20, <1>21, <1>22, <1>23, <1>24
  DEF StreamStep, ClientStep, ServerStep

\* A step at stream q that neither gives it a query nor starts its handler.
QueryKept(q) ==
    /\ server'[q].query = server[q].query
    /\ server[q].taker = "off" => server'[q].taker = "off"
    /\ server'[q].handler \in {"start", "run", "close"} =>
          server[q].handler \in {"start", "run", "close"}

\* A step that changes no handler and no query keeps the queries apart.
LEMMA QueriesKept ==
  ASSUME Queries, \A q \in Stream : QueryKept(q), UNCHANGED chan
  PROVE  Queries'
BY Zenon DEF Queries, OwnQuery, QueryOf, QueryKept

\* One step of a stream keeps the queries apart.
LEMMA StreamQueries ==
  ASSUME Types, Queries, Unstarted, NEW s \in Stream, StreamStep(s)
  PROVE  Queries'
<1>1. CASE SenderDone(s)
  BY Zenon, <1>1 DEF Queries, OwnQuery, QueryOf, SenderDone
<1>2. CASE ReceiverTakes(s)
  BY Zenon, <1>2 DEF Queries, OwnQuery, QueryOf, ReceiverTakes
<1>3. CASE Deliver(s)
  BY Zenon, <1>3 DEF Queries, OwnQuery, QueryOf, Deliver
<1>4. CASE ReceiverEof(s)
  BY Zenon, <1>4 DEF Queries, OwnQuery, QueryOf, ReceiverEof
<1>5. CASE ReceiverError(s)
  BY Zenon, <1>5 DEF Queries, OwnQuery, QueryOf, ReceiverError
<1>6. CASE Return(s)
  BY Zenon, <1>6 DEF Queries, OwnQuery, QueryOf, Return
<1>7. CASE Accept(s)
  <2>1. \A q \in Stream \ {s} : server'[q] = server[q]
    BY Zenon, <1>7, AcceptEffect
  <2>2. CASE s \in Watch
    <3>1. /\ server'[s].taker = server[s].taker /\ server'[s].query = server[s].query
          /\ UNCHANGED chan
      BY <1>7, <2>2 DEF Types, ServerTypes, Accept
    <3> QED
      BY <2>1, <2>2, <3>1 DEF Queries, OwnQuery, QueryOf
  <2>3. CASE s \notin Watch
    <3>1. PICK x \in {y \in Query : Free(y, s)} :
            /\ server' = [server EXCEPT ![s].handler = "start", ![s].relay = "wait",
                                        ![s].taker = "recv", ![s].query = x]
            /\ chan' = [chan EXCEPT ![<<Server[s], x>>] = s]
      BY Zenon, <1>7, <2>3 DEF Accept
    <3>2. x \in Query /\ server'[s].query = x /\ <<Server[s], x>> \in Pools
      BY <3>1 DEF Types, ServerTypes, Pools
    <3>3. chan'[<<Server[s], x>>] = s
      BY Zenon, <3>1, <3>2 DEF Types
    <3>4. OwnQuery(s)'
      BY Zenon, <3>2, <3>3 DEF OwnQuery, QueryOf
    <3>5. ASSUME NEW q \in Stream \ {s} PROVE OwnQuery(q)'
      <4>1. OwnQuery(q)
        BY Zenon DEF Queries
      <4>2. CASE q \notin Watch /\ server[q].handler \in {"start", "run", "close"}
        <5>1. QueryOf(q) # <<Server[s], x>>
          BY Zenon, <3>1, <4>2 DEF Free
        <5>2. chan'[QueryOf(q)] = chan[QueryOf(q)]
          BY Zenon, <3>1, <4>1, <4>2, <5>1 DEF Types, OwnQuery, QueryOf, Pools
        <5> QED
          BY Zenon, <2>1, <4>1, <4>2, <5>2 DEF OwnQuery, QueryOf
      <4>3. CASE ~(q \notin Watch /\ server[q].handler \in {"start", "run", "close"})
        BY Zenon, <2>1, <4>1, <4>3 DEF OwnQuery, QueryOf
      <4> QED
        BY Zenon, <4>2, <4>3
    <3> QED
      BY Zenon, <3>4, <3>5 DEF Queries
  <2> QED
    BY Zenon, <2>2, <2>3
<1>8. CASE AcceptFails(s)
  <2>1. \A q \in Stream : QueryKept(q)
    BY <1>8 DEF Types, ServerTypes, QueryKept, AcceptFails
  <2>2. UNCHANGED chan
    BY Zenon, <1>8 DEF AcceptFails
  <2> QED
    BY Zenon, <2>1, <2>2, QueriesKept
<1>9. CASE ReadStarts(s)
  <2>1. \A q \in Stream : QueryKept(q)
    BY <1>9 DEF Types, ServerTypes, QueryKept, ReadStarts
  <2>2. UNCHANGED chan
    BY Zenon, <1>9 DEF ReadStarts
  <2> QED
    BY Zenon, <2>1, <2>2, QueriesKept
<1>10. CASE RelaySends(s)
  <2>1. \A q \in Stream : QueryKept(q)
    BY <1>10 DEF Types, ServerTypes, QueryKept, RelaySends
  <2>2. UNCHANGED chan
    BY Zenon, <1>10 DEF RelaySends
  <2> QED
    BY Zenon, <2>1, <2>2, QueriesKept
<1>11. CASE RelayDone(s)
  <2>1. \A q \in Stream : QueryKept(q)
    BY <1>11 DEF Types, ServerTypes, QueryKept, RelayDone
  <2>2. UNCHANGED chan
    BY Zenon, <1>11 DEF RelayDone
  <2> QED
    BY Zenon, <2>1, <2>2, QueriesKept
<1>12. CASE TakerEnds(s)
  <2>1. \A q \in Stream : QueryKept(q)
    BY <1>12 DEF Types, ServerTypes, QueryKept, TakerEnds
  <2>2. UNCHANGED chan
    BY Zenon, <1>12 DEF TakerEnds
  <2> QED
    BY Zenon, <2>1, <2>2, QueriesKept
<1>13. CASE TakerSelects(s)
  <2>1. \A q \in Stream : QueryKept(q)
    BY <1>13 DEF Types, ServerTypes, QueryKept, TakerSelects
  <2>2. UNCHANGED chan
    BY Zenon, <1>13 DEF TakerSelects
  <2> QED
    BY Zenon, <2>1, <2>2, QueriesKept
<1>14. CASE TakerDrops(s)
  <2>1. \A q \in Stream : QueryKept(q)
    BY <1>14 DEF Types, ServerTypes, QueryKept, TakerDrops
  <2>2. UNCHANGED chan
    BY Zenon, <1>14 DEF TakerDrops
  <2> QED
    BY Zenon, <2>1, <2>2, QueriesKept
<1>15. CASE HandlerReturns(s)
  <2>1. /\ server'[s].handler = "back" /\ server'[s].taker = server[s].taker
        /\ server'[s].query = server[s].query
        /\ \A q \in Stream \ {s} : server'[q] = server[q]
    BY Zenon, <1>15 DEF Types, ServerTypes, HandlerReturns
  <2>2. OwnQuery(s)'
    BY Zenon, <2>1 DEF Queries, OwnQuery
  <2>3. ASSUME NEW q \in Stream \ {s} PROVE OwnQuery(q)'
    <3>1. OwnQuery(q) /\ OwnQuery(s) /\ server[s].handler = "close"
      BY Zenon, <1>15 DEF Queries, HandlerReturns
    <3>2. CASE q \notin Watch /\ server[q].handler \in {"start", "run", "close"}
      <4>1. s \notin Watch => QueryOf(q) # QueryOf(s)
        BY Zenon, <3>1, <3>2 DEF OwnQuery
      <4>2. chan'[QueryOf(q)] = chan[QueryOf(q)]
        BY Zenon, <1>15, <3>1, <3>2, <4>1 DEF Types, OwnQuery, HandlerReturns, QueryOf, Pools
      <4> QED
        BY Zenon, <2>1, <3>1, <3>2, <4>2 DEF OwnQuery, QueryOf
    <3>3. CASE ~(q \notin Watch /\ server[q].handler \in {"start", "run", "close"})
      BY Zenon, <2>1, <3>1, <3>3 DEF OwnQuery, QueryOf
    <3> QED
      BY Zenon, <3>2, <3>3
  <2> QED
    BY Zenon, <2>2, <2>3 DEF Queries
<1>16. CASE Start(s)
  <2>1. \A q \in Stream : QueryKept(q)
    BY <1>16 DEF Types, ServerTypes, QueryKept, Start
  <2>2. UNCHANGED chan
    BY Zenon, <1>16 DEF Start
  <2> QED
    BY Zenon, <2>1, <2>2, QueriesKept
<1>17. CASE StartFails(s)
  BY Zenon, <1>17 DEF Queries, OwnQuery, QueryOf, StartFails
<1>18. CASE SenderTakes(s)
  BY Zenon, <1>18 DEF Queries, OwnQuery, QueryOf, SenderTakes
<1>19. CASE TakerTakes(s)
  <2>1. PICK v : server' = [server EXCEPT ![s].taker = "hold", ![s].held = v]
    BY Zenon, <1>19 DEF TakerTakes
  <2>2. server[s].taker = "recv" /\ UNCHANGED chan
    BY Zenon, <1>19 DEF TakerTakes
  <2>3. \A q \in Stream : QueryKept(q)
    BY <2>1, <2>2 DEF Types, ServerTypes, QueryKept
  <2> QED
    BY Zenon, <2>2, <2>3, QueriesKept
<1>20. CASE ReadFails(s)
  <2>1. \A q \in Stream : QueryKept(q)
    BY <1>20 DEF Types, ServerTypes, QueryKept, ReadFails
  <2>2. UNCHANGED chan
    BY Zenon, <1>20 DEF ReadFails
  <2> QED
    BY Zenon, <2>1, <2>2, QueriesKept
<1>21. CASE MachineSends(s)
  <2>1. \A q \in Stream : QueryKept(q)
    BY <1>21 DEF Types, ServerTypes, QueryKept, MachineSends
  <2>2. UNCHANGED chan
    BY Zenon, <1>21 DEF MachineSends
  <2> QED
    BY Zenon, <2>1, <2>2, QueriesKept
<1>22. CASE MachineEnds(s)
  <2>1. \A q \in Stream : QueryKept(q)
    BY <1>22 DEF Types, ServerTypes, QueryKept, MachineEnds, Unstarted, UnstartedAt
  <2>2. UNCHANGED chan
    BY Zenon, <1>22 DEF MachineEnds
  <2> QED
    BY Zenon, <2>1, <2>2, QueriesKept
<1>23. CASE Cut(s)
  BY Zenon, <1>23 DEF Queries, OwnQuery, QueryOf, Cut
<1>24. CASE \E t \in Stream : MachineTakes(s, t)
  <2>1. PICK t \in Stream : MachineTakes(s, t)
    BY Zenon, <1>24
  <2>2. \A q \in Stream : QueryKept(q)
    BY <2>1 DEF Types, ServerTypes, QueryKept, MachineTakes
  <2>3. UNCHANGED chan
    BY Zenon, <2>1 DEF MachineTakes
  <2> QED
    BY Zenon, <2>2, <2>3, QueriesKept
<1> QED
  BY Zenon, <1>1, <1>2, <1>3, <1>4, <1>5, <1>6, <1>7, <1>8, <1>9, <1>10, <1>11, <1>12, <1>13, <1>14,
     <1>15, <1>16, <1>17, <1>18, <1>19, <1>20, <1>21, <1>22, <1>23, <1>24
  DEF StreamStep, ClientStep, ServerStep

\* A user's cancelling cuts the attempts of the call, and nothing else.
LEMMA CancelInv ==
  ASSUME IInv, NEW u \in User, Cancel(u)
  PROVE  IInv'
<1>1. Types /\ Queries /\ Unstarted
  BY Zenon DEF IInv
<1>2. \A s \in Stream : wire'[s] = wire[s] \/ wire'[s] = Severed(s)
  BY Zenon DEF Cancel
<1>3. UNCHANGED <<client, server, machine, chan, taken, out, faults>>
  BY Zenon DEF Cancel
<1>4. Types'
  <2>1. \A s \in Stream : Severed(s) \in WireTypes
    BY Zenon, <1>1, SeveredType
  <2>2. wire' \in [Stream -> WireTypes]
    BY Zenon, <1>1, <2>1 DEF Types, Cancel
  <2> QED
    BY Zenon, <1>1, <1>3, <2>2 DEF Types
<1>5. Queries'
  BY Zenon, <1>1, <1>3 DEF Queries, OwnQuery, QueryOf
<1>6. Unstarted'
  <2>1. \A s \in Stream : wire[s] \in WireTypes
    BY Zenon, <1>1 DEF Types
  <2>2. \A s \in Stream : Severed(s).down = <<>>
    BY Zenon, <2>1 DEF Severed, WireTypes
  <2>3. \A s \in Stream : wire[s].down = <<>> => wire'[s].down = <<>>
    BY Zenon, <1>2, <2>2
  <2> QED
    BY <1>1, <1>3, <2>3 DEF Unstarted, UnstartedAt, Quiet
<1> QED
  BY Zenon, <1>4, <1>5, <1>6 DEF IInv

\* Every step preserves the invariant.
LEMMA NextInv == IInv /\ [Next]_vars => IInv'
<1> SUFFICES ASSUME IInv, [Next]_vars PROVE IInv'
  OBVIOUS
<1>1. ASSUME NEW s \in Stream, StreamStep(s) PROVE IInv'
  BY Zenon, <1>1, StreamTypes, StreamQueries, StreamUnstarted DEF IInv
<1>2. ASSUME NEW u \in User, Cancel(u) PROVE IInv'
  BY Zenon, <1>2, CancelInv
<1>3. CASE UNCHANGED vars
  BY <1>3 DEF vars, IInv, Types, Queries, OwnQuery, QueryOf, Unstarted, UnstartedAt, Quiet
<1> QED
  BY Zenon, <1>1, <1>2, <1>3 DEF Next

-----------------------------------------------------------------------------
(* Results.                                                                 *)

\* The path of the results of stream q: a stream of the own host has none on the wire and
\* no receiver, a cut loses what is on the wire, the trailer follows the last result, and
\* the receiver ends when it has found the trailer or the cut.
FlowAt(q) ==
    /\ q \in Local => wire[q].down = <<>> /\ client[q].receiver \in {"off", "done"}
    /\ wire[q].cut => wire[q].down = <<>>
    /\ wire[q].end # "open" => server[q].handler = "back" /\ server[q].relay = "done"
    /\ q \notin Local /\ client[q].receiver = "done" /\ ~wire[q].cut =>
          wire[q].down = <<>> /\ wire[q].end # "open"
    /\ client[q].call = "ok" => q \in Local \/ client[q].receiver = "done"
    /\ client[q].call = "idle" => client[q].receiver = "off"
Flow == \A q \in Stream : FlowAt(q)

\* One step of a stream keeps the path.
LEMMA StreamFlow ==
  ASSUME Types, Unstarted, Flow, NEW s \in Stream, StreamStep(s)
  PROVE  Flow'
<1>1. CASE SenderDone(s)
  BY <1>1 DEF Types, Flow, FlowAt, SenderDone, ClientTypes
<1>2. CASE ReceiverTakes(s)
  BY SMTT(20), <1>2 DEF Types, Flow, FlowAt, ReceiverTakes, ClientTypes, WireTypes
<1>3. CASE Deliver(s)
  BY <1>3 DEF Types, Flow, FlowAt, Deliver, ClientTypes
<1>4. CASE ReceiverEof(s)
  BY <1>4 DEF Types, Flow, FlowAt, ReceiverEof, ClientTypes
<1>5. CASE ReceiverError(s)
  BY <1>5 DEF Types, Flow, FlowAt, ReceiverError, ClientTypes
<1>6. CASE Return(s)
  BY <1>6 DEF Types, Flow, FlowAt, Return, ClientTypes
<1>7. CASE Accept(s)
  <2>1. ASSUME NEW q \in Stream PROVE FlowAt(q)'
    <3>1. FlowAt(q)
      BY Zenon DEF Flow
    <3>2. CASE q = s
      BY Zenon, <1>7, <3>1, <3>2, AcceptEffect DEF FlowAt
    <3>3. CASE q # s
      BY Zenon, <1>7, <3>1, <3>3, AcceptEffect DEF FlowAt
    <3> QED
      BY Zenon, <3>2, <3>3
  <2> QED
    BY Zenon, <2>1 DEF Flow
<1>8. CASE AcceptFails(s)
  BY <1>8 DEF Types, Flow, FlowAt, AcceptFails, ServerTypes
<1>9. CASE ReadStarts(s)
  BY <1>9 DEF Types, Flow, FlowAt, ReadStarts, ServerTypes
<1>10. CASE RelaySends(s)
  <2>1. /\ server[s].relay = "send" /\ server'[s].relay = "wait"
        /\ server'[s].handler = server[s].handler
        /\ \A q \in Stream \ {s} : server'[q] = server[q]
        /\ UNCHANGED client
    BY Zenon, <1>10 DEF Types, RelaySends, ServerTypes
  <2>2. CASE UNCHANGED wire
    BY <2>1, <2>2 DEF Flow, FlowAt
  <2>3. CASE s \notin Local /\ Alive(s)
    <3>1. PICK v : wire' = [wire EXCEPT ![s].down = v] \/ UNCHANGED wire
      BY Zenon, <1>10 DEF RelaySends
    <3>2. /\ wire'[s].end = wire[s].end /\ wire'[s].cut = wire[s].cut
          /\ \A q \in Stream \ {s} : wire'[q] = wire[q]
      BY Zenon, <3>1 DEF Types, WireTypes
    <3> QED
      BY <2>1, <2>3, <3>2 DEF Flow, FlowAt, Alive
  <2> QED
    BY Zenon, <1>10, <2>2, <2>3 DEF RelaySends
<1>11. CASE RelayDone(s)
  BY <1>11 DEF Types, Flow, FlowAt, RelayDone, ServerTypes
<1>12. CASE TakerEnds(s)
  BY <1>12 DEF Types, Flow, FlowAt, TakerEnds, ServerTypes
<1>13. CASE TakerSelects(s)
  BY <1>13 DEF Types, Flow, FlowAt, TakerSelects, ServerTypes
<1>14. CASE TakerDrops(s)
  BY <1>14 DEF Types, Flow, FlowAt, TakerDrops, ServerTypes
<1>15. CASE HandlerReturns(s)
  BY SMTT(20), <1>15 DEF Types, Flow, FlowAt, HandlerReturns, ServerTypes, ClientTypes, WireTypes
<1>16. CASE Start(s)
  BY <1>16 DEF Types, Flow, FlowAt, Start, ClientTypes, ServerTypes, Turn, Unstarted, UnstartedAt
<1>17. CASE StartFails(s)
  BY <1>17 DEF Types, Flow, FlowAt, StartFails, ClientTypes, Turn
<1>18. CASE SenderTakes(s)
  BY <1>18, SenderTakesEffect DEF Flow, FlowAt
<1>19. CASE TakerTakes(s)
  BY <1>19, TakerTakesEffect DEF Flow, FlowAt
<1>20. CASE ReadFails(s)
  BY <1>20 DEF Types, Flow, FlowAt, ReadFails, ServerTypes
<1>21. CASE MachineSends(s)
  BY <1>21 DEF Types, Flow, FlowAt, MachineSends, MachineTypes, ServerTypes
<1>22. CASE MachineEnds(s)
  BY <1>22 DEF Types, Flow, FlowAt, MachineEnds, MachineTypes, ServerTypes, Unstarted, UnstartedAt
<1>23. CASE Cut(s)
  BY <1>23 DEF Types, Flow, FlowAt, Cut, WireTypes, Severed
<1>24. CASE \E t \in Stream : MachineTakes(s, t)
  BY <1>24 DEF Types, Flow, FlowAt, MachineTakes, ServerTypes
<1> QED
  BY Zenon, <1>1, <1>2, <1>3, <1>4, <1>5, <1>6, <1>7, <1>8, <1>9, <1>10, <1>11, <1>12, <1>13, <1>14, <1>15, <1>16, <1>17, <1>18, <1>19, <1>20, <1>21, <1>22, <1>23, <1>24
  DEF StreamStep, ClientStep, ServerStep

\* The results in o rise and are among the first n.
Rising(o, n) ==
    /\ \A i, j \in DOMAIN o : i < j => o[i] < o[j]
    /\ \A i \in DOMAIN o : o[i] <= n
Below(o, k) == \A i \in DOMAIN o : o[i] < k

\* The first n results are, in this order: those the user has in o, the one the receiver
\* has, k, if b is 1, those on the wire in d, and the one the relay has if e is 1.
InFlight(o, b, k, d, e, n) ==
    /\ Len(o) + b + Len(d) + e = n
    /\ \A i \in DOMAIN o : o[i] = i
    /\ b = 1 => k = Len(o) + 1
    /\ \A i \in DOMAIN d : d[i] = Len(o) + b + i

Received(q) == IF client[q].receiver = "out" THEN 1 ELSE 0
Relayed(q) == IF server[q].relay = "send" THEN 1 ELSE 0

\* The results of stream q rise on their way to the user, and none is missing until the
\* stream is cut.
ResultsAt(q) ==
    /\ Rising(out[q], machine[q].made)
    /\ client[q].receiver = "out" =>
          Below(out[q], client[q].item) /\ client[q].item <= machine[q].made
    /\ server[q].relay = "send" =>
          /\ server[q].item = machine[q].made
          /\ q \in Local => Below(out[q], machine[q].made)
    /\ ~wire[q].cut => InFlight(out[q], Received(q), client[q].item, wire[q].down, Relayed(q),
                                machine[q].made)
Results == \A q \in Stream : ResultsAt(q)

\* What appending to a sequence leaves where.
LEMMA Appended ==
  ASSUME NEW S, NEW o \in Seq(S), NEW k \in S
  PROVE  /\ Append(o, k) \in Seq(S) /\ Len(Append(o, k)) = Len(o) + 1 /\ Len(o) \in Nat
         /\ DOMAIN o = 1..Len(o) /\ DOMAIN Append(o, k) = 1..(Len(o) + 1)
         /\ \A i \in 1..Len(o) : Append(o, k)[i] = o[i]
         /\ Append(o, k)[Len(o) + 1] = k
OBVIOUS

\* What taking the head of a sequence leaves.
LEMMA Tailed ==
  ASSUME NEW S, NEW o \in Seq(S), o # <<>>
  PROVE  /\ Tail(o) \in Seq(S) /\ Len(Tail(o)) = Len(o) - 1 /\ Len(o) \in Nat /\ Len(o) > 0
         /\ DOMAIN o = 1..Len(o) /\ DOMAIN Tail(o) = 1..(Len(o) - 1)
         /\ Head(o) = o[1] /\ Head(o) \in S
         /\ \A i \in 1..(Len(o) - 1) : Tail(o)[i] = o[i + 1]
OBVIOUS

\* A result greater than the others is appended to them.
LEMMA RisingAppend ==
  ASSUME NEW o \in Seq(Nat), NEW k \in Nat, NEW n \in Nat, Rising(o, n), Below(o, k), k <= n
  PROVE  Rising(Append(o, k), n)
BY SMTT(20) DEF Rising, Below

\* Another result is made.
LEMMA RisingMade ==
  ASSUME NEW o \in Seq(Nat), NEW n \in Nat, Rising(o, n)
  PROVE  Rising(o, n + 1) /\ Below(o, n + 1)
BY DEF Rising, Below

\* The user takes the result the receiver has.
LEMMA InFlightDelivered ==
  ASSUME NEW o \in Seq(Nat), NEW d \in Seq(Nat), NEW k \in Nat, NEW n \in Nat, NEW e \in Nat,
         InFlight(o, 1, k, d, e, n)
  PROVE  InFlight(Append(o, k), 0, 0, d, e, n)
<1> DEFINE p == Append(o, k)
<1>1. /\ Len(p) = Len(o) + 1 /\ Len(o) \in Nat /\ Len(d) \in Nat
      /\ DOMAIN o = 1..Len(o) /\ DOMAIN p = 1..(Len(o) + 1)
      /\ \A i \in 1..Len(o) : p[i] = o[i]
      /\ p[Len(o) + 1] = k /\ DOMAIN d = 1..Len(d)
  BY Appended
<1> HIDE DEF p
<1>2. InFlight(p, 0, 0, d, e, n)
  BY SMTT(20), <1>1 DEF InFlight
<1> QED
  BY Zenon, <1>2 DEF p

\* The receiver takes the first result on the wire.
LEMMA InFlightReceived ==
  ASSUME NEW o \in Seq(Nat), NEW d \in Seq(Nat), NEW k, NEW n \in Nat, NEW e \in Nat,
         InFlight(o, 0, k, d, e, n), d # <<>>
  PROVE  /\ InFlight(o, 1, Head(d), Tail(d), e, n)
         /\ Below(o, Head(d)) /\ Head(d) <= n
<1> DEFINE h == Head(d)
           t == Tail(d)
<1>1. /\ Len(t) = Len(d) - 1 /\ Len(d) \in Nat /\ Len(d) > 0 /\ Len(o) \in Nat
      /\ DOMAIN d = 1..Len(d) /\ DOMAIN t = 1..(Len(d) - 1) /\ DOMAIN o = 1..Len(o)
      /\ h = d[1] /\ \A i \in 1..(Len(d) - 1) : t[i] = d[i + 1]
  BY Tailed
<1> HIDE DEF h, t
<1>2. /\ Len(o) + 0 + Len(d) + e = n /\ \A i \in 1..Len(o) : o[i] = i
      /\ \A i \in 1..Len(d) : d[i] = Len(o) + 0 + i
  BY Zenon, <1>1 DEF InFlight
<1>3. /\ Len(o) + 1 + Len(t) + e = n /\ h = Len(o) + 1 /\ h <= n
  <2>1. 1 \in 1..Len(d) /\ Len(o) + 0 + 1 = Len(o) + 1
    BY <1>1
  <2>2. h = Len(o) + 1
    BY Zenon, <1>1, <1>2, <2>1
  <2>3. ASSUME NEW x \in Nat, NEW y \in Nat, y > 0, x + 0 + y + e = n
        PROVE  x + 1 + (y - 1) + e = n /\ x + 1 <= n
    BY <2>3
  <2>4. Len(o) + 1 + (Len(d) - 1) + e = n /\ Len(o) + 1 <= n
    BY Zenon, <1>1, <1>2, <2>3
  <2>5. Len(o) + 1 + Len(t) + e = n
    BY Zenon, <1>1, <2>4
  <2> QED
    BY Zenon, <2>2, <2>4, <2>5
<1>4. \A i \in 1..(Len(d) - 1) : t[i] = Len(o) + 1 + i
  BY SMTT(20), <1>1, <1>2
<1>5. InFlight(o, 1, h, t, e, n)
  BY Zenon, <1>1, <1>2, <1>3, <1>4 DEF InFlight
<1>6. Below(o, h)
  BY SMTT(20), <1>1, <1>2, <1>3 DEF Below
<1> QED
  BY Zenon, <1>3, <1>5, <1>6 DEF h, t

\* The relay puts the last result on the wire.
LEMMA InFlightRelayed ==
  ASSUME NEW o \in Seq(Nat), NEW d \in Seq(Nat), NEW k, NEW n \in Nat, NEW b \in Nat,
         InFlight(o, b, k, d, 1, n)
  PROVE  InFlight(o, b, k, Append(d, n), 0, n)
<1> DEFINE p == Append(d, n)
<1>1. /\ Len(p) = Len(d) + 1 /\ Len(o) \in Nat /\ Len(d) \in Nat
      /\ DOMAIN d = 1..Len(d) /\ DOMAIN p = 1..(Len(d) + 1)
      /\ \A i \in 1..Len(d) : p[i] = d[i]
      /\ p[Len(d) + 1] = n
  BY Appended
<1> HIDE DEF p
<1>2. /\ Len(o) + b + Len(d) + 1 = n /\ \A i \in DOMAIN o : o[i] = i
      /\ b = 1 => k = Len(o) + 1
      /\ \A i \in 1..Len(d) : d[i] = Len(o) + b + i
  BY Zenon, <1>1 DEF InFlight
<1>3. Len(o) + b + Len(p) + 0 = n
  BY <1>1, <1>2
<1>4. ASSUME NEW i \in 1..(Len(d) + 1) PROVE p[i] = Len(o) + b + i
  <2>1. CASE i = Len(d) + 1
    BY <1>1, <1>2, <2>1
  <2>2. CASE i # Len(d) + 1
    <3>1. i \in 1..Len(d)
      BY <1>1, <2>2
    <3> QED
      BY Zenon, <1>1, <1>2, <3>1
  <2> QED
    BY Zenon, <2>1, <2>2
<1>5. InFlight(o, b, k, p, 0, n)
  BY Zenon, <1>1, <1>2, <1>3, <1>4 DEF InFlight
<1> QED
  BY Zenon, <1>5 DEF p

\* The relay gives the last result to the user.
LEMMA InFlightGiven ==
  ASSUME NEW o \in Seq(Nat), NEW k, NEW n \in Nat,
         InFlight(o, 0, k, <<>>, 1, n)
  PROVE  InFlight(Append(o, n), 0, k, <<>>, 0, n)
<1> DEFINE p == Append(o, n)
<1>1. /\ Len(p) = Len(o) + 1 /\ Len(o) \in Nat
      /\ DOMAIN o = 1..Len(o) /\ DOMAIN p = 1..(Len(o) + 1)
      /\ \A i \in 1..Len(o) : p[i] = o[i]
      /\ p[Len(o) + 1] = n
  BY Appended
<1> HIDE DEF p
<1>2. InFlight(p, 0, k, <<>>, 0, n)
  BY <1>1 DEF InFlight
<1> QED
  BY Zenon, <1>2 DEF p

\* The relay is given another result.
LEMMA InFlightMade ==
  ASSUME NEW o \in Seq(Nat), NEW d \in Seq(Nat), NEW k, NEW n \in Nat, NEW b \in Nat,
         InFlight(o, b, k, d, 0, n)
  PROVE  InFlight(o, b, k, d, 1, n + 1)
<1>1. Len(o) \in Nat /\ Len(d) \in Nat
  OBVIOUS
<1>2. Len(o) + b + Len(d) + 0 = n
  BY Zenon DEF InFlight
<1>3. Len(o) + b + Len(d) + 1 = n + 1
  BY <1>1, <1>2
<1> QED
  BY Zenon, <1>3 DEF InFlight

\* A step that leaves the results of stream q where they are, or cuts the stream.
ResultsKept(q) ==
    /\ out'[q] = out[q] /\ machine'[q].made = machine[q].made
    /\ client'[q].receiver = "out" <=> client[q].receiver = "out"
    /\ client'[q].item = client[q].item
    /\ server'[q].relay = "send" <=> server[q].relay = "send"
    /\ server'[q].item = server[q].item
    /\ wire'[q].cut \/ (wire'[q].down = wire[q].down /\ wire'[q].cut = wire[q].cut)

\* Such a step keeps the order of the results of q.
LEMMA KeptResults ==
  ASSUME NEW q \in Stream, ResultsAt(q), ResultsKept(q)
  PROVE  ResultsAt(q)'
<1>1. Received(q)' = Received(q) /\ Relayed(q)' = Relayed(q)
  BY Zenon DEF ResultsKept, Received, Relayed
<1> QED
  BY Zenon, <1>1 DEF ResultsAt, ResultsKept

\* The types of what the results of stream q pass through.
LEMMA ResultTypes ==
  ASSUME Types, NEW q \in Stream
  PROVE  /\ out[q] \in Seq(Nat) /\ wire[q].down \in Seq(Nat) /\ machine[q].made \in Nat
         /\ client[q].item \in Nat /\ Received(q) \in Nat /\ Relayed(q) \in Nat
<1>1. /\ client[q] \in ClientTypes /\ wire[q] \in WireTypes
      /\ machine[q] \in MachineTypes /\ out[q] \in Seq(Nat)
  BY Zenon DEF Types
<1>2. wire[q].down \in Seq(Nat) /\ client[q].item \in Nat /\ machine[q].made \in 0..MaxOut
  BY Zenon, <1>1 DEF ClientTypes, WireTypes, MachineTypes
<1>3. \A n \in 0..MaxOut : n \in Nat
  BY BoundsAssumption
<1>4. Received(q) \in {0, 1} /\ Relayed(q) \in {0, 1}
  BY Zenon DEF Received, Relayed
<1>5. 0 \in Nat /\ 1 \in Nat
  OBVIOUS
<1> QED
  BY Zenon, <1>1, <1>2, <1>3, <1>4, <1>5

\* The receiver takes a result.
LEMMA ReceiverTakesResults ==
  ASSUME Types, Results, NEW s \in Stream, ReceiverTakes(s)
  PROVE  Results'
<1>1. /\ client[s].receiver = "recv" /\ wire[s].down # <<>> /\ ~wire[s].cut
      /\ UNCHANGED <<server, machine, out>>
  BY Zenon DEF ReceiverTakes
<1>2. /\ client'[s].receiver = "out" /\ client'[s].item = Head(wire[s].down)
      /\ \A q \in Stream \ {s} : client'[q] = client[q]
  BY Zenon DEF Types, ReceiverTakes, ClientTypes
<1>3. /\ wire'[s].down = Tail(wire[s].down) /\ wire'[s].cut = wire[s].cut
      /\ \A q \in Stream \ {s} : wire'[q] = wire[q]
  BY Zenon DEF Types, ReceiverTakes, WireTypes
<1>4. ResultsAt(s)'
  <2> DEFINE d == wire[s].down
  <2>1. /\ ResultsAt(s) /\ Received(s) = 0 /\ Received(s)' = 1 /\ Relayed(s)' = Relayed(s)
    BY Zenon, <1>1, <1>2 DEF Results, Received, Relayed
  <2>2. InFlight(out[s], 0, client[s].item, d, Relayed(s), machine[s].made)
    BY Zenon, <1>1, <2>1 DEF ResultsAt
  <2>3. /\ InFlight(out[s], 1, Head(d), Tail(d), Relayed(s), machine[s].made)
        /\ Below(out[s], Head(d)) /\ Head(d) <= machine[s].made
    BY Zenon, <1>1, <2>2, ResultTypes, InFlightReceived
  <2> QED
    BY Zenon, <1>1, <1>2, <1>3, <2>1, <2>3 DEF ResultsAt
<1>5. \A q \in Stream \ {s} : ResultsKept(q)
  BY Zenon, <1>1, <1>2, <1>3 DEF ResultsKept
<1> QED
  BY Zenon, <1>4, <1>5, KeptResults DEF Results

\* The user takes a result from the receiver.
LEMMA DeliverResults ==
  ASSUME Types, Results, Flow, NEW s \in Stream, Deliver(s)
  PROVE  Results'
<1> DEFINE k == client[s].item
           o == Append(out[s], k)
<1>1. /\ client[s].receiver = "out" /\ UNCHANGED <<wire, server, machine>>
  BY Zenon DEF Deliver
<1>2. /\ client'[s].receiver = "recv" /\ client'[s].item = 0
      /\ \A q \in Stream \ {s} : client'[q] = client[q]
  BY Zenon DEF Types, Deliver, ClientTypes
<1>3. out'[s] = o /\ \A q \in Stream \ {s} : out'[q] = out[q]
  BY Zenon DEF Types, Deliver
<1>4. ResultsAt(s)'
  <2>1. /\ ResultsAt(s) /\ Received(s) = 1 /\ Received(s)' = 0 /\ Relayed(s)' = Relayed(s)
        /\ s \notin Local
    BY Zenon, <1>1, <1>2 DEF Results, Received, Relayed, Flow, FlowAt
  <2>2. Rising(o, machine[s].made)
    BY Zenon, <1>1, <2>1, ResultTypes, RisingAppend DEF ResultsAt
  <2>3. ~wire[s].cut => InFlight(o, 0, 0, wire[s].down, Relayed(s), machine[s].made)
    BY Zenon, <2>1, ResultTypes, InFlightDelivered DEF ResultsAt
  <2> HIDE DEF o
  <2> QED
    BY Zenon, <1>1, <1>2, <1>3, <2>1, <2>2, <2>3 DEF ResultsAt
<1>5. \A q \in Stream \ {s} : ResultsKept(q)
  BY Zenon, <1>1, <1>2, <1>3 DEF ResultsKept
<1> QED
  BY Zenon, <1>4, <1>5, KeptResults DEF Results

\* The state machine makes a result.
LEMMA MachineSendsResults ==
  ASSUME Types, Results, Unstarted, NEW s \in Stream, MachineSends(s)
  PROVE  Results'
<1> DEFINE n == machine[s].made
<1>1. /\ server[s].relay = "wait" /\ UNCHANGED <<client, wire, out>>
  BY Zenon DEF MachineSends
<1>2. /\ server'[s].relay = "send" /\ server'[s].item = n + 1
      /\ \A q \in Stream \ {s} : server'[q] = server[q]
  BY Zenon DEF Types, MachineSends, ServerTypes
<1>3. machine'[s].made = n + 1 /\ \A q \in Stream \ {s} : machine'[q] = machine[q]
  BY Zenon DEF Types, MachineSends, MachineTypes
<1>4. ResultsAt(s)'
  <2>1. /\ ResultsAt(s) /\ Received(s)' = Received(s) /\ Relayed(s) = 0 /\ Relayed(s)' = 1
    BY Zenon, <1>1, <1>2 DEF Results, Received, Relayed
  <2>2. n \in Nat /\ client[s].item \in Nat
    BY Zenon, ResultTypes
  <2>3. Rising(out[s], n + 1) /\ Below(out[s], n + 1)
    BY Zenon, <2>1, ResultTypes, RisingMade DEF ResultsAt
  <2>4. client[s].item <= n => client[s].item <= n + 1
    BY <2>2
  <2>5. ~wire[s].cut =>
          InFlight(out[s], Received(s), client[s].item, wire[s].down, 1, n + 1)
    BY Zenon, <2>1, ResultTypes, InFlightMade DEF ResultsAt
  <2> QED
    BY Zenon, <1>1, <1>2, <1>3, <2>1, <2>3, <2>4, <2>5 DEF ResultsAt
<1>5. \A q \in Stream \ {s} : ResultsKept(q)
  BY Zenon, <1>1, <1>2, <1>3 DEF ResultsKept
<1> QED
  BY Zenon, <1>4, <1>5, KeptResults DEF Results

\* The relay sends a result to the user, to the wire or, when the stream is cut, nowhere.
LEMMA RelaySendsResults ==
  ASSUME Types, Results, Flow, NEW s \in Stream, RelaySends(s)
  PROVE  Results'
<1> DEFINE n == machine[s].made
<1>1. /\ server[s].relay = "send" /\ UNCHANGED <<client, machine>>
  BY Zenon DEF RelaySends
<1>2. /\ server'[s].relay = "wait" /\ \A q \in Stream \ {s} : server'[q] = server[q]
  BY Zenon DEF Types, RelaySends, ServerTypes
<1>3. /\ ResultsAt(s) /\ Received(s)' = Received(s) /\ Relayed(s) = 1 /\ Relayed(s)' = 0
      /\ server[s].item = n /\ FlowAt(s)
  BY Zenon, <1>1, <1>2 DEF Results, ResultsAt, Received, Relayed, Flow
<1>4. n \in Nat /\ n <= n
  <2>1. n \in Nat
    BY Zenon, ResultTypes
  <2> QED
    BY <2>1
<1>5. CASE s \in Local /\ out' = [out EXCEPT ![s] = Append(@, server[s].item)] /\ UNCHANGED wire
  <2>1. /\ out'[s] = Append(out[s], n) /\ \A q \in Stream \ {s} : out'[q] = out[q]
        /\ UNCHANGED wire
    BY Zenon, <1>3, <1>5 DEF Types
  <2>2. Received(s) = 0 /\ wire[s].down = <<>> /\ client[s].receiver # "out"
    BY Zenon, <1>3, <1>5 DEF FlowAt, Received
  <2>3. Rising(Append(out[s], n), n)
    BY Zenon, <1>1, <1>3, <1>4, <1>5, ResultTypes, RisingAppend DEF ResultsAt
  <2>4. ~wire[s].cut => InFlight(out[s], 0, client[s].item, <<>>, 1, n)
    BY Zenon, <1>3, <2>2 DEF ResultsAt
  <2>5. ~wire[s].cut => InFlight(Append(out[s], n), 0, client[s].item, <<>>, 0, n)
    BY Zenon, <2>4, ResultTypes, InFlightGiven
  <2>6. ResultsAt(s)'
    BY Zenon, <1>1, <1>2, <1>3, <2>1, <2>2, <2>3, <2>5 DEF ResultsAt
  <2>7. \A q \in Stream \ {s} : ResultsKept(q)
    BY Zenon, <1>1, <1>2, <2>1 DEF ResultsKept
  <2> QED
    BY Zenon, <2>6, <2>7, KeptResults DEF Results
<1>6. CASE /\ s \notin Local /\ Alive(s) /\ UNCHANGED out
           /\ wire' = [wire EXCEPT ![s].down = Append(@, server[s].item)]
  <2> DEFINE d == Append(wire[s].down, server[s].item)
  <2>1. wire' = [wire EXCEPT ![s].down = d]
    BY Zenon, <1>6
  <2> HIDE DEF d
  <2>2. /\ wire'[s].down = d /\ wire'[s].cut = wire[s].cut
        /\ \A q \in Stream \ {s} : wire'[q] = wire[q]
    BY Zenon, <2>1 DEF Types, WireTypes
  <2>3. InFlight(out[s], Received(s), client[s].item, wire[s].down, 1, n)
    BY Zenon, <1>3, <1>6 DEF ResultsAt, Alive
  <2>4. InFlight(out[s], Received(s), client[s].item, Append(wire[s].down, n), 0, n)
    BY Zenon, <2>3, ResultTypes, InFlightRelayed
  <2>5. d = Append(wire[s].down, n)
    BY Zenon, <1>3 DEF d
  <2>6. ResultsAt(s)'
    BY Zenon, <1>1, <1>2, <1>3, <1>6, <2>2, <2>4, <2>5 DEF ResultsAt
  <2>7. \A q \in Stream \ {s} : ResultsKept(q)
    BY Zenon, <1>1, <1>2, <1>6, <2>2 DEF ResultsKept
  <2> QED
    BY Zenon, <2>6, <2>7, KeptResults DEF Results
<1>7. CASE (IF s \in Local THEN wire[s].cut ELSE ~Alive(s)) /\ UNCHANGED <<out, wire>>
  <2>1. wire[s].cut /\ UNCHANGED <<out, wire>>
    BY Zenon, <1>1, <1>3, <1>7 DEF Alive, FlowAt
  <2>2. ResultsAt(s)'
    BY Zenon, <1>1, <1>2, <1>3, <2>1 DEF ResultsAt
  <2>3. \A q \in Stream \ {s} : ResultsKept(q)
    BY Zenon, <1>1, <1>2, <2>1 DEF ResultsKept
  <2> QED
    BY Zenon, <2>2, <2>3, KeptResults DEF Results
<1> QED
  BY Zenon, <1>5, <1>6, <1>7 DEF RelaySends

\* The steps of stream s that leave all results where they are, or cut the stream.
LEMMA StreamResultsKept ==
  ASSUME Types, Unstarted, Flow, NEW s \in Stream, StreamStep(s),
         ~ReceiverTakes(s), ~Deliver(s), ~RelaySends(s), ~MachineSends(s)
  PROVE  \A q \in Stream : ResultsKept(q)
<1>1. CASE SenderDone(s)
  BY <1>1 DEF Types, ResultsKept, SenderDone, ClientTypes
<1>2. CASE ReceiverEof(s)
  BY <1>2 DEF Types, ResultsKept, ReceiverEof, ClientTypes
<1>3. CASE ReceiverError(s)
  BY Zenon, <1>3 DEF Types, ResultsKept, ReceiverError, ClientTypes
<1>4. CASE Return(s)
  BY Zenon, <1>4 DEF Types, ResultsKept, Return, ClientTypes
<1>5. CASE Accept(s)
  <2>1. /\ server[s].relay # "send" /\ server'[s].relay = "wait"
        /\ server'[s].item = server[s].item
        /\ \A q \in Stream \ {s} : server'[q] = server[q]
        /\ UNCHANGED <<client, wire, machine, out>>
    BY Zenon, <1>5, AcceptEffect DEF Unstarted, UnstartedAt, Quiet
  <2> QED
    BY Zenon, <2>1 DEF ResultsKept
<1>6. CASE AcceptFails(s)
  BY <1>6 DEF Types, ResultsKept, AcceptFails, ServerTypes
<1>7. CASE ReadStarts(s)
  BY <1>7 DEF Types, ResultsKept, ReadStarts, ServerTypes, MachineTypes
<1>8. CASE RelayDone(s)
  BY <1>8 DEF Types, ResultsKept, RelayDone, ServerTypes
<1>9. CASE TakerEnds(s)
  BY <1>9 DEF Types, ResultsKept, TakerEnds, ServerTypes
<1>10. CASE TakerSelects(s)
  BY <1>10 DEF Types, ResultsKept, TakerSelects, ServerTypes
<1>11. CASE TakerDrops(s)
  BY <1>11 DEF Types, ResultsKept, TakerDrops, ServerTypes
<1>12. CASE HandlerReturns(s)
  BY <1>12 DEF Types, ResultsKept, HandlerReturns, ServerTypes, ClientTypes, WireTypes
<1>13. CASE Start(s)
  BY <1>13 DEF Types, ResultsKept, Start, ClientTypes, ServerTypes, Turn, Flow, FlowAt
<1>14. CASE StartFails(s)
  BY <1>14 DEF Types, ResultsKept, StartFails, ClientTypes
<1>15. CASE SenderTakes(s)
  BY Zenon, <1>15, SenderTakesEffect DEF ResultsKept
<1>16. CASE TakerTakes(s)
  BY Zenon, <1>16, TakerTakesEffect DEF ResultsKept
<1>17. CASE ReadFails(s)
  BY <1>17 DEF Types, ResultsKept, ReadFails, ServerTypes
<1>18. CASE MachineEnds(s)
  BY <1>18 DEF Types, ResultsKept, MachineEnds, MachineTypes, ServerTypes
<1>19. CASE Cut(s)
  BY Zenon, <1>19 DEF Types, ResultsKept, Cut, WireTypes, Severed
<1>20. CASE \E t \in Stream : MachineTakes(s, t)
  BY SMTT(20), <1>20 DEF Types, ResultsKept, MachineTakes, ServerTypes, MachineTypes
<1> QED
  BY Zenon, <1>1, <1>2, <1>3, <1>4, <1>5, <1>6, <1>7, <1>8, <1>9, <1>10, <1>11, <1>12, <1>13, <1>14, <1>15, <1>16, <1>17, <1>18, <1>19, <1>20
  DEF StreamStep, ClientStep, ServerStep

\* One step of a stream keeps the order of the results.
LEMMA StreamResults ==
  ASSUME Types, Unstarted, Flow, Results, NEW s \in Stream, StreamStep(s)
  PROVE  Results'
<1>1. CASE ReceiverTakes(s) \/ Deliver(s) \/ RelaySends(s) \/ MachineSends(s)
  BY Zenon, <1>1, ReceiverTakesResults, DeliverResults, RelaySendsResults, MachineSendsResults
<1>2. CASE ~(ReceiverTakes(s) \/ Deliver(s) \/ RelaySends(s) \/ MachineSends(s))
  BY Zenon, <1>2, StreamResultsKept, KeptResults DEF Results
<1> QED
  BY Zenon, <1>1, <1>2

\* A user's cancelling only cuts streams.
LEMMA CancelResults ==
  ASSUME Types, Flow, Results, NEW u \in User, Cancel(u)
  PROVE  Flow' /\ Results'
<1>1. UNCHANGED <<client, server, machine, out>>
  BY Zenon DEF Cancel
<1>2. \A q \in Stream : wire[q] \in WireTypes /\ (wire'[q] = wire[q] \/ wire'[q] = Severed(q))
  BY Zenon DEF Types, Cancel
<1>3. \A q \in Stream : Severed(q).down = <<>> /\ Severed(q).cut /\ Severed(q).end = wire[q].end
  BY Zenon, <1>2 DEF Severed, WireTypes
<1>4. \A q \in Stream : ResultsKept(q)
  BY Zenon, <1>1, <1>2, <1>3 DEF ResultsKept
<1>5. \A q \in Stream : FlowAt(q)'
  BY ZenonT(30), <1>1, <1>2, <1>3 DEF Flow, FlowAt
<1> QED
  BY Zenon, <1>4, <1>5, KeptResults DEF Flow, Results

\* The results are in order in the initial states.
LEMMA InitResults == Init => Flow /\ Results
<1> SUFFICES ASSUME Init PROVE Flow /\ Results
  OBVIOUS
<1>1. Flow
  BY Zenon DEF Init, Flow, FlowAt
<1>2. \A q \in Stream : /\ out[q] = <<>> /\ wire[q].down = <<>> /\ machine[q].made = 0
                        /\ Received(q) = 0 /\ Relayed(q) = 0
                        /\ client[q].receiver # "out" /\ server[q].relay # "send"
  BY Zenon DEF Init, Received, Relayed
<1>3. Rising(<<>>, 0) /\ \A k : InFlight(<<>>, 0, k, <<>>, 0, 0)
  BY DEF Rising, InFlight
<1>4. Results
  BY Zenon, <1>2, <1>3 DEF Results, ResultsAt
<1> QED
  BY Zenon, <1>1, <1>4

\* The results stay in order.
LEMMA NextResults == IInv /\ Flow /\ Results /\ [Next]_vars => Flow' /\ Results'
<1> SUFFICES ASSUME IInv, Flow, Results, [Next]_vars PROVE Flow' /\ Results'
  OBVIOUS
<1>1. ASSUME NEW s \in Stream, StreamStep(s) PROVE Flow' /\ Results'
  BY Zenon, <1>1, StreamFlow, StreamResults DEF IInv
<1>2. ASSUME NEW u \in User, Cancel(u) PROVE Flow' /\ Results'
  BY Zenon, <1>2, CancelResults DEF IInv
<1>3. CASE UNCHANGED vars
  <2>1. \A q \in Stream : ResultsKept(q)
    BY Zenon, <1>3 DEF vars, ResultsKept
  <2>2. Flow'
    BY Zenon, <1>3 DEF vars, Flow, FlowAt
  <2> QED
    BY Zenon, <2>1, <2>2, KeptResults DEF Results
<1> QED
  BY Zenon, <1>1, <1>2, <1>3 DEF Next

\* Results that rise arrive in order; those that nothing has cut are the first ones, and
\* all of them when the trailer has been found.
LEMMA ResultsOrdered ==
  ASSUME Types, Flow, Results
  PROVE  ResultsInOrder
<1> SUFFICES ASSUME NEW s \in Stream
    PROVE  /\ \A i \in DOMAIN out[s] : i < Len(out[s]) => out[s][i] < out[s][i + 1]
           /\ ~wire[s].cut => out[s] = [i \in 1..Len(out[s]) |-> i]
           /\ client[s].call = "ok" /\ wire[s].end = "eof" /\ ~wire[s].cut =>
                 Len(out[s]) = machine[s].made
  BY Zenon DEF ResultsInOrder
<1> DEFINE o == out[s]
           n == machine[s].made
           d == wire[s].down
<1>1. o \in Seq(Nat) /\ n \in Nat /\ d \in Seq(Nat) /\ ResultsAt(s) /\ FlowAt(s)
  BY Zenon, ResultTypes DEF Results, Flow
<1>2. Rising(o, n)
  BY Zenon, <1>1 DEF ResultsAt
<1>3. ~wire[s].cut => InFlight(o, Received(s), client[s].item, d, Relayed(s), n)
  BY Zenon, <1>1 DEF ResultsAt
<1>4. client[s].call = "ok" /\ wire[s].end = "eof" /\ ~wire[s].cut =>
         Received(s) = 0 /\ Relayed(s) = 0 /\ d = <<>>
  BY Zenon, <1>1 DEF FlowAt, Received, Relayed
<1> HIDE DEF o, n, d
<1>5. \A i \in DOMAIN o : i < Len(o) => o[i] < o[i + 1]
  BY <1>1, <1>2 DEF Rising
<1>6. ~wire[s].cut => \A i \in DOMAIN o : o[i] = i
  BY Zenon, <1>3 DEF InFlight
<1>7. ~wire[s].cut => o = [i \in 1..Len(o) |-> i]
  BY <1>1, <1>6
<1>8. InFlight(o, 0, client[s].item, <<>>, 0, n) => Len(o) + 0 + Len(<<>>) + 0 = n
  BY Zenon DEF InFlight
<1>9. Len(o) + 0 + Len(<<>>) + 0 = Len(o)
  BY <1>1
<1>10. client[s].call = "ok" /\ wire[s].end = "eof" /\ ~wire[s].cut => Len(o) = n
  BY Zenon, <1>3, <1>4, <1>8, <1>9
<1> QED
  BY Zenon, <1>5, <1>7, <1>10 DEF o, n

-----------------------------------------------------------------------------
(* Inputs.                                                                  *)

\* The places of an input: on the wire, in the hand of the handler's receiver, and the
\* positions of what the state machine has received.
OnWire(q) == <<"up", q, 0>>
InHand(q) == <<"held", q, 0>>
Reached(q, i) == <<"got", q, i>>
Place == {OnWire(q) : q \in Stream} \cup {InHand(q) : q \in Stream}
            \cup {Reached(q, i) : q \in Stream, i \in Nat}
At(p) == p[2]

\* The inputs at place p.
Hand(r) == IF r.taker \in {"hold", "select"} THEN {r.held} ELSE {}
Item(g, i) == IF i \in DOMAIN g THEN {g[i]} ELSE {}
Has(p) ==
    IF p[1] = "up" THEN Range(wire[p[2]].up)
    ELSE IF p[1] = "held" THEN Hand(server[p[2]]) ELSE Item(machine[p[2]].got, p[3])

\* Of two places at one stream, the inputs at p have been taken from the user before those at r.
Ahead(p, r) ==
    /\ p[2] = r[2]
    /\ \/ p[1] = "got" /\ r[1] \in {"up", "held"}
       \/ p[1] = "got" /\ r[1] = "got" /\ p[3] < r[3]
       \/ p[1] = "held" /\ r[1] = "up"

\* A receiver of another stream of user u may have found the query of s.
Late(s, u) ==
    \E t \in Range(Attempts[u]) \ {s} : server[t].handler = "back" /\ Server[t] = Server[s]

Bounded == \A p \in Place : \A m \in Has(p) : m \in Inputs /\ m.n <= taken[m.user]
Once == \A p, r \in Place : p # r => \A m \in Has(p) : m \notin Has(r)
Owned == \A q \in Stream : \A m \in Has(OnWire(q)) \cup Has(InHand(q)) : m.user = UserOf[q]
Foreign ==
    \A q \in Stream, i \in Nat : \A m \in Has(Reached(q, i)) :
        m.user = UserOf[q] \/ Late(q, m.user)
RisingAt(q) == \A i, j \in DOMAIN wire[q].up : i < j => wire[q].up[i].n < wire[q].up[j].n
UpRising == \A q \in Stream : RisingAt(q)
Ordered ==
    \A p, r \in Place :
        LET u == UserOf[At(p)]
        IN  Ahead(p, r) /\ ~Late(At(p), u) =>
               \A m \in Has(p), k \in Has(r) : m.user = u /\ k.user = u => m.n < k.n
Passage == Bounded /\ Once /\ Owned /\ Foreign /\ UpRising /\ Ordered

\* The places, which are apart.
LEMMA PlaceTypes ==
  /\ \A q \in Stream : OnWire(q) \in Place /\ InHand(q) \in Place
  /\ \A q \in Stream, i \in Nat : Reached(q, i) \in Place
BY DEF Place

\* There are three kinds of them.
LEMMA PlaceCases ==
  ASSUME NEW p \in Place
  PROVE  \E q \in Stream, i \in Nat : p = OnWire(q) \/ p = InHand(q) \/ p = Reached(q, i)
BY DEF Place

\* Two that differ are apart.
LEMMA PlacesApart ==
  /\ \A q, r : OnWire(q) # InHand(r) /\ \A i : OnWire(q) # Reached(r, i) /\ InHand(q) # Reached(r, i)
  /\ \A q, r : (OnWire(q) = OnWire(r) => q = r) /\ (InHand(q) = InHand(r) => q = r)
BY Zenon DEF OnWire, InHand, Reached

\* Two positions that differ are apart.
LEMMA PositionsApart ==
  \A q, r, i, j : Reached(q, i) = Reached(r, j) => q = r /\ i = j
BY Zenon DEF Reached

\* Each is at its stream.
LEMMA PlaceAt == \A q : At(OnWire(q)) = q /\ At(InHand(q)) = q /\ \A i : At(Reached(q, i)) = q
BY Zenon DEF OnWire, InHand, Reached, At

\* Each is at a stream.
LEMMA PlaceStream == \A p \in Place : At(p) \in Stream
BY PlaceCases, PlaceAt

\* The inputs on the wire, before and after a step.
LEMMA HasOnWire ==
  \A q : Has(OnWire(q)) = Range(wire[q].up) /\ Has(OnWire(q))' = Range(wire'[q].up)
BY Zenon DEF Has, OnWire

\* The inputs in the hand of a receiver.
LEMMA HasInHand ==
  \A q : Has(InHand(q)) = Hand(server[q]) /\ Has(InHand(q))' = Hand(server'[q])
BY Zenon DEF Has, InHand

\* The inputs that have reached a state machine.
LEMMA HasReached ==
  \A q, i : /\ Has(Reached(q, i)) = Item(machine[q].got, i)
            /\ Has(Reached(q, i))' = Item(machine'[q].got, i)
BY Zenon DEF Has, Reached

\* A place whose part of the state stays keeps its inputs.
LEMMA ReachedStays ==
  ASSUME NEW q, NEW i, machine'[q].got = machine[q].got
  PROVE  Has(Reached(q, i))' = Has(Reached(q, i))
BY HasReached

\* The same of the hand of a receiver.
LEMMA InHandStays ==
  ASSUME NEW q, server'[q] = server[q]
  PROVE  Has(InHand(q))' = Has(InHand(q))
BY HasInHand

\* The same of the wire.
LEMMA OnWireStays ==
  ASSUME NEW q, wire'[q].up = wire[q].up
  PROVE  Has(OnWire(q))' = Has(OnWire(q))
BY HasOnWire

\* Which of two places is ahead, by their kinds.
LEMMA AheadForms ==
  /\ \A q, r : /\ ~Ahead(OnWire(q), OnWire(r)) /\ ~Ahead(OnWire(q), InHand(r))
               /\ ~Ahead(InHand(q), InHand(r)) /\ (Ahead(InHand(q), OnWire(r)) <=> q = r)
  /\ \A q, r, i : /\ ~Ahead(OnWire(q), Reached(r, i)) /\ ~Ahead(InHand(q), Reached(r, i))
                  /\ Ahead(Reached(q, i), OnWire(r)) <=> q = r
                  /\ Ahead(Reached(q, i), InHand(r)) <=> q = r
  /\ \A q, r, i, j : Ahead(Reached(q, i), Reached(r, j)) <=> q = r /\ i < j
<1>1. \A q, r : /\ ~Ahead(OnWire(q), OnWire(r)) /\ ~Ahead(OnWire(q), InHand(r))
                /\ ~Ahead(InHand(q), InHand(r)) /\ (Ahead(InHand(q), OnWire(r)) <=> q = r)
  BY DEF Ahead, OnWire, InHand
<1>2. \A q, r, i : /\ ~Ahead(OnWire(q), Reached(r, i)) /\ ~Ahead(InHand(q), Reached(r, i))
                   /\ Ahead(Reached(q, i), OnWire(r)) <=> q = r
                   /\ Ahead(Reached(q, i), InHand(r)) <=> q = r
  BY DEF Ahead, OnWire, InHand, Reached
<1>3. \A q, r, i, j : Ahead(Reached(q, i), Reached(r, j)) <=> q = r /\ i < j
  BY DEF Ahead, Reached
<1> QED
  BY Zenon, <1>1, <1>2, <1>3

\* The order of the places of one stream.
LEMMA AheadOnPath ==
  /\ \A q : Ahead(InHand(q), OnWire(q))
  /\ \A q, i : Ahead(Reached(q, i), OnWire(q)) /\ Ahead(Reached(q, i), InHand(q))
  /\ \A q : \A i, j \in Nat : i < j => Ahead(Reached(q, i), Reached(q, j))
BY Zenon, AheadForms

\* No place is ahead of itself.
LEMMA AheadItself == \A p \in Place : ~Ahead(p, p)
<1>1. \A i \in Nat : ~(i < i)
  OBVIOUS
<1> QED
  BY <1>1, PlaceCases, AheadForms

\* None is behind the wire.
LEMMA BehindWire ==
  ASSUME NEW q \in Stream, NEW r \in Place
  PROVE  ~Ahead(OnWire(q), r)
<1>1. PICK t \in Stream, j \in Nat : r = OnWire(t) \/ r = InHand(t) \/ r = Reached(t, j)
  BY Zenon, PlaceCases
<1>2. CASE r = OnWire(t)
  BY <1>2, AheadForms
<1>3. CASE r = InHand(t)
  BY <1>3, AheadForms
<1>4. CASE r = Reached(t, j)
  BY <1>4, AheadForms
<1> QED
  BY Zenon, <1>1, <1>2, <1>3, <1>4

\* Only the wire is behind the hand.
LEMMA BehindHand ==
  ASSUME NEW q \in Stream, NEW r \in Place, Ahead(InHand(q), r)
  PROVE  r = OnWire(q)
<1>1. PICK t \in Stream, j \in Nat : r = OnWire(t) \/ r = InHand(t) \/ r = Reached(t, j)
  BY Zenon, PlaceCases
<1>2. CASE r = OnWire(t)
  BY <1>2, AheadForms
<1>3. CASE r = InHand(t)
  BY <1>3, AheadForms
<1>4. CASE r = Reached(t, j)
  BY <1>4, AheadForms
<1> QED
  BY Zenon, <1>1, <1>2, <1>3, <1>4

\* What is behind a position of what the state machine has received.
LEMMA BehindReached ==
  ASSUME NEW q \in Stream, NEW i \in Nat, NEW r \in Place, Ahead(Reached(q, i), r)
  PROVE  r = OnWire(q) \/ r = InHand(q) \/ \E k \in Nat : i < k /\ r = Reached(q, k)
<1>1. PICK t \in Stream, j \in Nat : r = OnWire(t) \/ r = InHand(t) \/ r = Reached(t, j)
  BY Zenon, PlaceCases
<1>2. CASE r = OnWire(t)
  BY <1>2, AheadForms
<1>3. CASE r = InHand(t)
  BY <1>3, AheadForms
<1>4. CASE r = Reached(t, j)
  BY <1>4, AheadForms
<1> QED
  BY Zenon, <1>1, <1>2, <1>3, <1>4

\* What the state machine has received is ahead of the hand.
LEMMA AheadOfHand ==
  ASSUME NEW q \in Stream, NEW r \in Place, Ahead(r, InHand(q))
  PROVE  \E k \in Nat : r = Reached(q, k)
<1>1. PICK t \in Stream, j \in Nat : r = OnWire(t) \/ r = InHand(t) \/ r = Reached(t, j)
  BY Zenon, PlaceCases
<1>2. CASE r = OnWire(t)
  BY <1>2, AheadForms
<1>3. CASE r = InHand(t)
  BY <1>3, AheadForms
<1>4. CASE r = Reached(t, j)
  BY <1>4, AheadForms
<1> QED
  BY Zenon, <1>1, <1>2, <1>3, <1>4

\* Only earlier positions are ahead of a position.
LEMMA AheadOfReached ==
  ASSUME NEW q \in Stream, NEW i \in Nat, NEW r \in Place, Ahead(r, Reached(q, i))
  PROVE  \E k \in Nat : k < i /\ r = Reached(q, k)
<1>1. PICK t \in Stream, j \in Nat : r = OnWire(t) \/ r = InHand(t) \/ r = Reached(t, j)
  BY Zenon, PlaceCases
<1>2. CASE r = OnWire(t)
  BY <1>2, AheadForms
<1>3. CASE r = InHand(t)
  BY <1>3, AheadForms
<1>4. CASE r = Reached(t, j)
  BY <1>4, AheadForms
<1> QED
  BY Zenon, <1>1, <1>2, <1>3, <1>4

\* A step that adds at most input m, and that at place w.
Moved(m, w) == \A p \in Place : \A k \in Has(p)' : k \in Has(p) \/ (p = w /\ k = m)

\* Handlers that have returned stay so, and the counters do not fall.
BackStays == \A q \in Stream : server[q].handler = "back" => server'[q].handler = "back"
TakenGrows == \A u \in User : taken[u] <= taken'[u]

\* What may be late stays so.
LEMMA LateStays ==
  ASSUME BackStays, NEW q, NEW u \in User, Late(q, u)
  PROVE  Late(q, u)'
BY Zenon DEF BackStays, Late, Stream

\* The inputs stay apart when one that is at no other place is added.
LEMMA OnceMoved ==
  ASSUME Once, NEW m, NEW w \in Place, Moved(m, w),
         \A p \in Place : p # w => m \notin Has(p)'
  PROVE  Once'
<1> SUFFICES ASSUME NEW p \in Place, NEW r \in Place, p # r, NEW k \in Has(p)', k \in Has(r)'
             PROVE  FALSE
  BY Zenon DEF Once
<1>1. k \in Has(p) \/ (p = w /\ k = m)
  BY Zenon DEF Moved
<1>2. k \in Has(r) \/ (r = w /\ k = m)
  BY Zenon DEF Moved
<1>3. ~(k \in Has(p) /\ k \in Has(r))
  BY Zenon DEF Once
<1> QED
  BY Zenon, <1>1, <1>2, <1>3

\* The counters grow.
LEMMA NumbersGrow ==
  ASSUME Types, Types', TakenGrows, NEW k \in Inputs, k.n <= taken[k.user]
  PROVE  k.n <= taken'[k.user]
<1>1. \A u \in User : taken[u] \in Nat /\ taken'[u] \in Nat
  BY BoundsAssumption DEF Types
<1>2. \A a, b, c \in Nat : a <= b /\ b <= c => a <= c
  OBVIOUS
<1>3. k.n \in Nat /\ k.user \in User
  BY Zenon DEF Inputs
<1> QED
  BY Zenon, <1>1, <1>2, <1>3 DEF TakenGrows

\* The numbers of the inputs stay among those taken.
LEMMA BoundedMoved ==
  ASSUME Types, Types', Bounded, TakenGrows, NEW m \in Inputs, NEW w \in Place, Moved(m, w),
         m.n <= taken'[m.user]
  PROVE  Bounded'
BY Zenon, NumbersGrow DEF Bounded, Moved

\* The order is kept when the input that is added is after those ahead of it and before
\* those behind, or when the order of its stream is lost.
LEMMA OrderedMoved ==
  ASSUME Ordered, BackStays, NEW m, NEW w \in Place, Moved(m, w), UserOf[At(w)] \in User,
         \/ Late(At(w), UserOf[At(w)])' \/ m.user # UserOf[At(w)]
         \/ /\ \A p \in Place : Ahead(p, w) => \A k \in Has(p)' : k.user = m.user => k.n < m.n
            /\ \A r \in Place : Ahead(w, r) => \A k \in Has(r)' : k.user = m.user => m.n < k.n
  PROVE  Ordered'
<1> SUFFICES ASSUME NEW p \in Place, NEW r \in Place, Ahead(p, r), ~Late(At(p), UserOf[At(p)])',
                    NEW k \in Has(p)', NEW l \in Has(r)',
                    k.user = UserOf[At(p)], l.user = UserOf[At(p)]
             PROVE  k.n < l.n
  BY Zenon DEF Ordered, Ahead, At
<1>1. At(p) = At(r) /\ ~Ahead(p, p)
  BY Zenon, AheadItself DEF Ahead, At
<1>2. p # r
  BY Zenon, <1>1
<1>3. CASE p = w /\ k = m
  <2>1. l \in Has(r)'
    OBVIOUS
  <2> QED
    BY Zenon, <1>1, <1>3, <2>1
<1>4. CASE r = w /\ l = m
  BY Zenon, <1>1, <1>4
<1>5. CASE k \in Has(p) /\ l \in Has(r)
  <2>1. ~Late(At(p), UserOf[At(p)])
    <3>1. \E q \in Stream : At(p) = q
      BY Zenon, PlaceStream
    <3>2. UserOf[At(p)] \in User
      BY Zenon, <3>1, UserOfType
    <3> QED
      BY Zenon, <3>2, LateStays
  <2> QED
    BY Zenon, <1>5, <2>1 DEF Ordered
<1> QED
  BY Zenon, <1>3, <1>4, <1>5 DEF Moved

\* A step that leaves the inputs of stream q where they are, or loses them.
InputsKept(q) ==
    /\ wire'[q].up = wire[q].up \/ wire'[q].up = <<>>
    /\ server'[q].taker \in {"hold", "select"} =>
          server[q].taker \in {"hold", "select"} /\ server'[q].held = server[q].held
    /\ machine'[q].got = machine[q].got

\* Such a step adds no input to a place.
LEMMA KeptHas ==
  ASSUME NEW q \in Stream, InputsKept(q)
  PROVE  /\ \A k \in Has(OnWire(q))' : k \in Has(OnWire(q))
         /\ \A k \in Has(InHand(q))' : k \in Has(InHand(q))
         /\ \A i \in Nat : \A k \in Has(Reached(q, i))' : k \in Has(Reached(q, i))
         /\ RisingAt(q) => RisingAt(q)'
<1>1. \A k \in Has(OnWire(q))' : k \in Has(OnWire(q))
  BY HasOnWire DEF InputsKept, Range
<1>2. \A k \in Has(InHand(q))' : k \in Has(InHand(q))
  BY Zenon, HasInHand DEF InputsKept, Hand
<1>3. \A i \in Nat : \A k \in Has(Reached(q, i))' : k \in Has(Reached(q, i))
  BY HasReached DEF InputsKept
<1>4. RisingAt(q) => RisingAt(q)'
  BY DEF InputsKept, RisingAt
<1> QED
  BY Zenon, <1>1, <1>2, <1>3, <1>4

\* When every place of every stream but w keeps its inputs or loses them.
LEMMA MovedAt ==
  ASSUME NEW m, NEW w \in Place,
         \A q \in Stream : OnWire(q) # w => \A k \in Has(OnWire(q))' : k \in Has(OnWire(q)),
         \A q \in Stream : InHand(q) # w => \A k \in Has(InHand(q))' : k \in Has(InHand(q)),
         \A q \in Stream, i \in Nat : Reached(q, i) # w =>
             \A k \in Has(Reached(q, i))' : k \in Has(Reached(q, i)),
         \A k \in Has(w)' : k \in Has(w) \/ k = m
  PROVE  Moved(m, w)
<1> SUFFICES ASSUME NEW p \in Place, p # w, NEW k \in Has(p)' PROVE k \in Has(p)
  BY Zenon DEF Moved
<1>1. PICK q \in Stream, i \in Nat : p = OnWire(q) \/ p = InHand(q) \/ p = Reached(q, i)
  BY DEF Place
<1>2. CASE p = OnWire(q)
  BY Zenon, <1>2
<1>3. CASE p = InHand(q)
  BY Zenon, <1>3
<1>4. CASE p = Reached(q, i)
  BY Zenon, <1>4
<1> QED
  BY Zenon, <1>1, <1>2, <1>3, <1>4

\* A step that adds no input.
LEMMA KeptPassage ==
  ASSUME Types, Types', Passage, \A q \in Stream : InputsKept(q), BackStays, TakenGrows
  PROVE  Passage'
<1>1. /\ \A q \in Stream : \A k \in Has(OnWire(q))' : k \in Has(OnWire(q))
      /\ \A q \in Stream : \A k \in Has(InHand(q))' : k \in Has(InHand(q))
      /\ \A q \in Stream, i \in Nat : \A k \in Has(Reached(q, i))' : k \in Has(Reached(q, i))
  BY Zenon, KeptHas
<1>2. ASSUME NEW p \in Place, NEW k \in Has(p)' PROVE k \in Has(p)
  <2>1. PICK q \in Stream, i \in Nat : p = OnWire(q) \/ p = InHand(q) \/ p = Reached(q, i)
    BY DEF Place
  <2> QED
    BY Zenon, <1>1, <1>2, <2>1
<1>3. Bounded'
  BY Zenon, <1>2, NumbersGrow DEF Passage, Bounded
<1>4. Once'
  BY Zenon, <1>2 DEF Passage, Once
<1>5. Owned'
  <2>1. Owned
    BY Zenon DEF Passage
  <2> QED
    BY Zenon, <1>1, <2>1 DEF Owned
<1>6. Foreign'
  <2>1. ASSUME NEW q \in Stream, NEW i \in Nat, NEW m \in Has(Reached(q, i))'
        PROVE  m.user = UserOf[q] \/ Late(q, m.user)'
    <3>1. m \in Has(Reached(q, i)) /\ Reached(q, i) \in Place
      BY Zenon, <1>1, PlaceTypes
    <3>2. m.user \in User /\ (m.user = UserOf[q] \/ Late(q, m.user))
      BY Zenon, <3>1 DEF Passage, Bounded, Foreign, Inputs
    <3> QED
      BY Zenon, <3>2, LateStays
  <2> QED
    BY Zenon, <2>1 DEF Foreign
<1>7. UpRising'
  BY Zenon, KeptHas DEF Passage, UpRising
<1>8. Ordered'
  <2> SUFFICES ASSUME NEW p \in Place, NEW r \in Place, Ahead(p, r),
                      ~Late(At(p), UserOf[At(p)])',
                      NEW k \in Has(p)', NEW l \in Has(r)',
                      k.user = UserOf[At(p)], l.user = UserOf[At(p)]
               PROVE  k.n < l.n
    BY Zenon DEF Ordered, Ahead, At
  <2>1. \E q \in Stream : At(p) = q
    BY Zenon, PlaceStream
  <2>2. ~Late(At(p), UserOf[At(p)])
    BY Zenon, <2>1, UserOfType, LateStays
  <2>3. k \in Has(p) /\ l \in Has(r)
    BY Zenon, <1>2
  <2> QED
    BY Zenon, <2>2, <2>3 DEF Passage, Ordered
<1> QED
  BY Zenon, <1>3, <1>4, <1>5, <1>6, <1>7, <1>8 DEF Passage

\* An input is taken from the user of stream s, to the wire or to the hand of the receiver.
LEMMA FreshPassage ==
  ASSUME Types, Types', Passage, BackStays, NEW s \in Stream, TakeInput(UserOf[s]),
         NEW w \in {OnWire(s), InHand(s)}, Moved(Input(UserOf[s]), w),
         \A r \in Place : Ahead(w, r) => Has(r)' = {}
  PROVE  Bounded' /\ Once' /\ Owned' /\ Foreign' /\ Ordered' /\ TakenGrows
<1> DEFINE u == UserOf[s]
           m == Input(u)
<1>1. u \in User /\ taken[u] \in Nat /\ taken'[u] = taken[u] + 1
  BY SMTT(20), UserOfType, BoundsAssumption DEF TakeInput, Types
<1>2. m \in Inputs /\ m.user = u /\ m.n = taken[u] + 1
  BY <1>1 DEF Input, Inputs
<1>3. TakenGrows
  BY BoundsAssumption DEF Types, TakeInput, TakenGrows
<1>4. w \in Place /\ At(w) = s /\ \A q \in Stream, i \in Nat : Reached(q, i) # w
  <2>1. CASE w = OnWire(s)
    BY Zenon, <2>1, PlaceTypes, PlacesApart, PlaceAt
  <2>2. CASE w = InHand(s)
    BY Zenon, <2>2, PlaceTypes, PlacesApart, PlaceAt
  <2> QED
    BY Zenon, <2>1, <2>2
<1> HIDE DEF m
<1>5. \A p \in Place : \A k \in Has(p) : k.user = u => k.n < m.n
  <2>1. \A k \in Inputs : k.n \in Nat
    BY Zenon DEF Inputs
  <2>2. \A k \in Inputs : k.n <= taken[u] => k.n < taken[u] + 1
    BY <1>1, <2>1
  <2> QED
    BY Zenon, <1>2, <2>2 DEF Passage, Bounded
<1>6. \A p \in Place : m \notin Has(p)
  <2>1. ~(m.n < m.n)
    BY <1>1, <1>2
  <2> QED
    BY Zenon, <1>2, <1>5, <2>1
<1>7. Moved(m, w)
  BY Zenon DEF m
<1>8. Bounded'
  <2>1. m.n <= taken'[m.user]
    BY <1>1, <1>2
  <2> QED
    BY Zenon, <1>2, <1>3, <1>4, <1>7, <2>1, BoundedMoved DEF Passage
<1>9. \A p \in Place : p # w => m \notin Has(p)'
  BY Zenon, <1>6, <1>7 DEF Moved
<1>10. Once'
  BY Zenon, <1>4, <1>7, <1>9, OnceMoved DEF Passage
<1>11. Owned'
  <2>1. ASSUME NEW q \in Stream, NEW p \in {OnWire(q), InHand(q)}, NEW k \in Has(p)'
        PROVE  k.user = UserOf[q]
    <3>1. p \in Place /\ (p = w => q = s)
      <4>1. CASE p = OnWire(q)
        BY Zenon, <4>1, PlaceTypes, PlacesApart
      <4>2. CASE p = InHand(q)
        BY Zenon, <4>2, PlaceTypes, PlacesApart
      <4> QED
        BY Zenon, <4>1, <4>2
    <3>2. k \in Has(p) \/ (p = w /\ k = m)
      BY Zenon, <1>7, <2>1, <3>1 DEF Moved
    <3> QED
      BY Zenon, <1>2, <3>1, <3>2 DEF Passage, Owned
  <2> QED
    BY Zenon, <2>1 DEF Owned
<1>12. Foreign'
  <2>1. ASSUME NEW q \in Stream, NEW i \in Nat, NEW k \in Has(Reached(q, i))'
        PROVE  k.user = UserOf[q] \/ Late(q, k.user)'
    <3>1. k \in Has(Reached(q, i)) /\ Reached(q, i) \in Place
      BY Zenon, <1>4, <1>7, PlaceTypes DEF Moved
    <3>2. k.user \in User /\ (k.user = UserOf[q] \/ Late(q, k.user))
      BY Zenon, <3>1 DEF Passage, Bounded, Foreign, Inputs
    <3> QED
      BY Zenon, <3>2, LateStays
  <2> QED
    BY Zenon, <2>1 DEF Foreign
<1>13. Ordered'
  <2>1. ASSUME NEW p \in Place, Ahead(p, w), NEW k \in Has(p)', k.user = m.user PROVE k.n < m.n
    <3>1. p # w
      BY Zenon, <1>4, <2>1, AheadItself
    <3>2. k \in Has(p)
      BY Zenon, <1>7, <2>1, <3>1 DEF Moved
    <3> QED
      BY Zenon, <1>2, <1>5, <2>1, <3>2
  <2>2. \A r \in Place : Ahead(w, r) => \A k \in Has(r)' : k.user = m.user => m.n < k.n
    BY Zenon
  <2> QED
    BY Zenon, <1>1, <1>4, <1>7, <2>1, <2>2, OrderedMoved DEF Passage
<1> QED
  BY ZenonT(30), <1>3, <1>8, <1>10, <1>11, <1>12, <1>13

\* What the goroutines hold.  A stream of the own host has none on the wire.  A receiver
\* runs in a handler that has accepted, and sends to the channel of another stream only
\* when its handler has returned, and at the same host.
TakersAt(q) ==
    /\ q \in Local => wire[q].up = <<>> /\ client[q].sender # "wait"
    /\ server[q].taker # "off" => server[q].handler \notin {"none", "first"} /\ q \notin Watch
    /\ server[q].to # NoStream => server[q].taker = "select"
    /\ server[q].to \notin {q, NoStream} =>
          server[q].handler = "back" /\ Server[server[q].to] = Server[q]
Takers ==
    /\ \A q \in Stream : TakersAt(q)
    /\ \A x \in Pools : chan[x] # NoStream => Server[chan[x]] = x[1]

\* The sender takes an input.
LEMMA SenderTakesPassage ==
  ASSUME Types, Types', Passage, Takers, NEW s \in Stream, SenderTakes(s)
  PROVE  Passage'
<1> DEFINE m == Input(UserOf[s])
           v == Append(wire[s].up, m)
<1>1. TakeInput(UserOf[s]) /\ UNCHANGED <<server, machine>> /\ client[s].sender = "wait"
  BY Zenon DEF SenderTakes
<1>2. BackStays
  BY Zenon, <1>1 DEF BackStays
<1>3. CASE ~Alive(s)
  <2>1. \A q \in Stream : InputsKept(q)
    BY Zenon, <1>1, <1>3 DEF InputsKept, SenderTakes
  <2>2. TakenGrows
    BY SMTT(20), <1>1, UserOfType, BoundsAssumption DEF Types, TakeInput, TakenGrows
  <2> QED
    BY Zenon, <1>2, <2>1, <2>2, KeptPassage
<1>4. CASE Alive(s)
  <2>1. wire' = [wire EXCEPT ![s].up = v]
    BY Zenon, <1>4 DEF SenderTakes
  <2>2. m \in Inputs /\ wire[s] \in WireTypes /\ wire[s].up \in Seq(Inputs)
    BY ZenonT(30), <1>1, InputTaken, UserOfType DEF Types, WireTypes
  <2> HIDE DEF m
  <2>3. /\ Len(v) = Len(wire[s].up) + 1 /\ Len(wire[s].up) \in Nat
        /\ DOMAIN wire[s].up = 1..Len(wire[s].up) /\ DOMAIN v = 1..(Len(wire[s].up) + 1)
        /\ \A i \in 1..Len(wire[s].up) : v[i] = wire[s].up[i]
        /\ v[Len(wire[s].up) + 1] = m
    BY <2>2, Appended
  <2> HIDE DEF v
  <2>4. wire'[s].up = v /\ \A q \in Stream \ {s} : wire'[q] = wire[q]
    BY <2>1 DEF Types, WireTypes
  <2>5. \A i \in DOMAIN v : v[i] = m \/ (i \in DOMAIN wire[s].up /\ v[i] = wire[s].up[i])
    BY <2>3
  <2>6. \A k \in Has(OnWire(s))' : k \in Has(OnWire(s)) \/ k = m
    BY <2>4, <2>5, HasOnWire DEF Range
  <2>7. \A q \in Stream \ {s} : InputsKept(q)
    BY Zenon, <1>1, <2>4 DEF InputsKept
  <2>8. \A q : Has(InHand(q))' = Has(InHand(q)) /\ \A i : Has(Reached(q, i))' = Has(Reached(q, i))
    BY Zenon, <1>1, InHandStays, ReachedStays
  <2>9. \A q \in Stream : OnWire(q) # OnWire(s) => q \in Stream \ {s}
    BY Zenon
  <2>10. Moved(m, OnWire(s))
    BY ZenonT(30), <2>6, <2>7, <2>8, <2>9, PlaceTypes, KeptHas, MovedAt
  <2>11. Moved(Input(UserOf[s]), OnWire(s)) /\ \A r \in Place : ~Ahead(OnWire(s), r)
    BY Zenon, <2>10, BehindWire DEF m
  <2>12. Bounded' /\ Once' /\ Owned' /\ Foreign' /\ Ordered'
    BY Zenon, <1>1, <1>2, <2>11, FreshPassage
  <2>13. RisingAt(s)'
    <3>1. \A i \in DOMAIN wire[s].up : wire[s].up[i].n < m.n
      <4>1. ASSUME NEW i \in DOMAIN wire[s].up
            PROVE  wire[s].up[i].n \in Nat /\ wire[s].up[i].n <= taken[UserOf[s]]
        <5>1. wire[s].up[i] \in Has(OnWire(s)) /\ OnWire(s) \in Place
          BY ZenonT(30), HasOnWire, PlaceTypes DEF Range
        <5> QED
          BY Zenon, <5>1 DEF Passage, Bounded, Owned, Inputs
      <4>2. m.n = taken[UserOf[s]] + 1 /\ taken[UserOf[s]] \in Nat
        BY UserOfType, BoundsAssumption DEF m, Input, Types
      <4> QED
        BY <4>1, <4>2
    <3>2. RisingAt(s)
      BY Zenon DEF Passage, UpRising
    <3>3. \A i, j \in DOMAIN v : i < j => v[i].n < v[j].n
      <4>1. \A i, j \in DOMAIN v : i < j => i \in 1..Len(wire[s].up)
        BY <2>3
      <4> QED
        BY ZenonT(30), <2>3, <2>5, <3>1, <3>2, <4>1 DEF RisingAt
    <3> QED
      BY Zenon, <2>4, <3>3 DEF RisingAt
  <2>14. UpRising'
    BY Zenon, <2>7, <2>13, KeptHas DEF Passage, UpRising
  <2> QED
    BY Zenon, <2>12, <2>14 DEF Passage
<1> QED
  BY Zenon, <1>3, <1>4

\* The receiver of a handler takes an input, from the wire or from the user.
LEMMA TakerTakesPassage ==
  ASSUME Types, Types', Passage, Takers, NEW s \in Stream, TakerTakes(s)
  PROVE  Passage'
<1>1. server[s].taker = "recv" /\ UNCHANGED machine
  BY Zenon DEF TakerTakes
<1>2. BackStays
  BY Zenon, TakerTakesEffect DEF BackStays
<1>3. \A q \in Stream, i \in Nat : Has(Reached(q, i))' = Has(Reached(q, i))
  BY Zenon, <1>1, ReachedStays
<1>4. Has(InHand(s)) = {}
  BY Zenon, <1>1, HasInHand DEF Hand
<1>5. CASE s \in Local
  <2> DEFINE m == Input(UserOf[s])
  <2>1. /\ TakeInput(UserOf[s]) /\ UNCHANGED wire
        /\ server' = [server EXCEPT ![s].taker = "hold", ![s].held = m]
    BY Zenon, <1>5 DEF TakerTakes
  <2> HIDE DEF m
  <2>2. /\ server'[s].taker = "hold" /\ server'[s].held = m
        /\ \A q \in Stream \ {s} : server'[q] = server[q]
    BY <2>1 DEF Types, ServerTypes
  <2>3. \A q : Has(OnWire(q))' = Has(OnWire(q))
    BY Zenon, <2>1, HasOnWire
  <2>4. \A q \in Stream \ {s} : Has(InHand(q))' = Has(InHand(q))
    BY Zenon, <2>2, HasInHand
  <2>5. \A k \in Has(InHand(s))' : k = m
    BY Zenon, <2>2, HasInHand DEF Hand
  <2>6. \A q \in Stream : InHand(q) # InHand(s) => q \in Stream \ {s}
    BY Zenon
  <2>7. Moved(m, InHand(s))
    BY Zenon, <1>3, <2>3, <2>4, <2>5, <2>6, PlaceTypes, MovedAt
  <2>8. Has(OnWire(s))' = {}
    <3>1. wire'[s].up = <<>>
      BY Zenon, <1>5, <2>1 DEF Takers, TakersAt
    <3> QED
      BY <3>1, HasOnWire DEF Range
  <2>9. \A r \in Place : Ahead(InHand(s), r) => Has(r)' = {}
    BY Zenon, <2>8, BehindHand
  <2>10. Moved(Input(UserOf[s]), InHand(s))
    BY Zenon, <2>7 DEF m
  <2>11. Bounded' /\ Once' /\ Owned' /\ Foreign' /\ Ordered'
    BY Zenon, <1>2, <2>1, <2>9, <2>10, FreshPassage
  <2>12. UpRising'
    BY Zenon, <2>1 DEF Passage, UpRising, RisingAt
  <2> QED
    BY Zenon, <2>11, <2>12 DEF Passage
<1>6. CASE s \notin Local
  <2> DEFINE m == Head(wire[s].up)
             v == Tail(wire[s].up)
             up == wire[s].up
  <2>1. /\ up # <<>> /\ UNCHANGED taken /\ wire' = [wire EXCEPT ![s].up = v]
        /\ server' = [server EXCEPT ![s].taker = "hold", ![s].held = m]
    BY Zenon, <1>6 DEF TakerTakes
  <2>2. wire[s] \in WireTypes /\ up \in Seq(Inputs)
    BY Zenon DEF Types, WireTypes
  <2>3. /\ Len(up) \in Nat /\ Len(up) > 0
        /\ DOMAIN up = 1..Len(up) /\ DOMAIN v = 1..(Len(up) - 1) /\ m = up[1] /\ m \in Inputs
        /\ \A i \in 1..(Len(up) - 1) : v[i] = up[i + 1]
    BY Zenon, <2>1, <2>2, Tailed
  <2> HIDE DEF m, v
  <2>4. /\ wire'[s].up = v /\ \A q \in Stream \ {s} : wire'[q] = wire[q]
    BY <2>1 DEF Types, WireTypes
  <2>5. /\ server'[s].taker = "hold" /\ server'[s].held = m
        /\ \A q \in Stream \ {s} : server'[q] = server[q]
    BY <2>1 DEF Types, ServerTypes
  <2>6. /\ \A i \in DOMAIN v : i + 1 \in DOMAIN up /\ 1 < i + 1 /\ v[i] = up[i + 1]
        /\ \A i, j \in DOMAIN v : i < j => i + 1 < j + 1
        /\ 1 \in DOMAIN up
    BY SMTT(20), <2>3
  <2>7. RisingAt(s) /\ OnWire(s) \in Place /\ InHand(s) \in Place /\ At(InHand(s)) = s
    BY Zenon, PlaceTypes, PlaceAt DEF Passage, UpRising
  <2>8. /\ m \in Has(OnWire(s)) /\ \A k \in Has(OnWire(s))' : k \in Has(OnWire(s)) /\ m.n < k.n
    <3>1. m \in Has(OnWire(s))
      BY Zenon, <2>3, <2>6, HasOnWire DEF Range
    <3>2. \A i \in DOMAIN v : v[i] \in Has(OnWire(s)) /\ m.n < v[i].n
      BY ZenonT(30), <2>3, <2>6, <2>7, HasOnWire DEF RisingAt, Range
    <3>3. Has(OnWire(s))' = {v[i] : i \in DOMAIN v}
      BY <2>4, HasOnWire DEF Range
    <3> QED
      BY Zenon, <3>1, <3>2, <3>3
  <2>9. \A k \in Has(InHand(s))' : k = m
    BY Zenon, <2>5, HasInHand DEF Hand
  <2>10. \A q \in Stream \ {s} : /\ Has(InHand(q))' = Has(InHand(q))
                                 /\ Has(OnWire(q))' = Has(OnWire(q))
    BY Zenon, <2>4, <2>5, OnWireStays, InHandStays
  <2>11. Moved(m, InHand(s))
    <3>1. \A q \in Stream : InHand(q) # InHand(s) => q \in Stream \ {s}
      BY Zenon
    <3>2. \A q \in Stream : \A k \in Has(OnWire(q))' : k \in Has(OnWire(q))
      BY Zenon, <2>8, <2>10
    <3> QED
      BY ZenonT(30), <1>3, <2>7, <2>9, <2>10, <3>1, <3>2, MovedAt
  <2>12. ASSUME NEW p \in Place, p # InHand(s) PROVE m \notin Has(p)'
    <3>1. \A k \in Has(p)' : k \in Has(p)
      BY Zenon, <2>11, <2>12 DEF Moved
    <3>2. CASE p = OnWire(s)
      <4>1. ~(m.n < m.n)
        BY <2>3 DEF Inputs
      <4> QED
        BY Zenon, <2>8, <3>2, <4>1
    <3>3. CASE p # OnWire(s)
      BY Zenon, <2>7, <2>8, <3>1, <3>3 DEF Passage, Once
    <3> QED
      BY Zenon, <3>2, <3>3
  <2>13. TakenGrows /\ m.n <= taken'[m.user] /\ m.user = UserOf[s]
    <3>1. m.n <= taken[m.user] /\ m.user = UserOf[s]
      BY Zenon, <2>7, <2>8 DEF Passage, Bounded, Owned
    <3>2. TakenGrows
      BY <2>1, BoundsAssumption DEF Types, TakenGrows
    <3> QED
      BY Zenon, <2>1, <3>1, <3>2
  <2>14. Bounded'
    BY Zenon, <2>3, <2>7, <2>11, <2>13, BoundedMoved DEF Passage
  <2>15. Once'
    BY Zenon, <2>7, <2>11, <2>12, OnceMoved DEF Passage
  <2>16. Owned'
    BY Zenon, <2>8, <2>9, <2>10, <2>13 DEF Passage, Owned
  <2>17. Foreign'
    <3>1. ASSUME NEW q \in Stream, NEW i \in Nat, NEW k \in Has(Reached(q, i))'
          PROVE  k.user = UserOf[q] \/ Late(q, k.user)'
      <4>1. k \in Has(Reached(q, i)) /\ Reached(q, i) \in Place
        BY Zenon, <1>3, PlaceTypes
      <4>2. k.user \in User /\ (k.user = UserOf[q] \/ Late(q, k.user))
        BY Zenon, <4>1 DEF Passage, Bounded, Foreign, Inputs
      <4> QED
        BY Zenon, <4>2, <1>2, LateStays
    <3> QED
      BY Zenon, <3>1 DEF Foreign
  <2>18. UpRising'
    <3>1. RisingAt(s)'
      BY Zenon, <2>4, <2>6, <2>7 DEF RisingAt
    <3>2. \A q \in Stream \ {s} : RisingAt(q)'
      BY Zenon, <2>4 DEF Passage, UpRising, RisingAt
    <3> QED
      BY Zenon, <3>1, <3>2 DEF UpRising
  <2>19. Ordered'
    <3>1. CASE Late(s, UserOf[s])
      <4>1. Late(s, UserOf[s])'
        BY Zenon, <1>2, <3>1, UserOfType, LateStays
      <4> QED
        BY Zenon, <1>2, <2>7, <2>11, <4>1, UserOfType, OrderedMoved DEF Passage
    <3>2. CASE ~Late(s, UserOf[s])
      <4>1. ASSUME NEW p \in Place, Ahead(p, InHand(s)), NEW k \in Has(p)', k.user = m.user
            PROVE  k.n < m.n
        <5>1. PICK i \in Nat : p = Reached(s, i)
          BY Zenon, <4>1, AheadOfHand
        <5>2. k \in Has(p) /\ Ahead(p, OnWire(s)) /\ At(p) = s
          BY Zenon, <1>3, <4>1, <5>1, AheadOnPath, PlaceAt
        <5> QED
          BY Zenon, <2>7, <2>8, <2>13, <3>2, <4>1, <5>2 DEF Passage, Ordered
      <4>2. \A r \in Place : Ahead(InHand(s), r) => \A k \in Has(r)' : k.user = m.user => m.n < k.n
        BY Zenon, <2>8, BehindHand
      <4> QED
        BY Zenon, <1>2, <2>7, <2>11, <4>1, <4>2, UserOfType, OrderedMoved DEF Passage
    <3> QED
      BY Zenon, <3>1, <3>2
  <2> QED
    BY Zenon, <2>14, <2>15, <2>16, <2>17, <2>18, <2>19 DEF Passage
<1> QED
  BY Zenon, <1>5, <1>6

\* The state machine of s receives what the receiver of stream t holds.
LEMMA MachineTakesPassage ==
  ASSUME Types, Types', Passage, Takers, NEW s \in Stream, NEW t \in Stream, MachineTakes(s, t)
  PROVE  Passage'
<1> DEFINE got == machine[s].got
<1>1. PICK m : m = server[t].held
  BY Zenon
<1>2. m \in Held /\ got \in Seq(Held)
  BY Zenon, <1>1 DEF Types, ServerTypes, MachineTypes
<1> DEFINE g == Append(got, m)
<1>3. PICK n : n = Len(got)
  BY Zenon
<1> DEFINE w == Reached(s, n + 1)
<1>4. /\ server[t].taker = "select" /\ server[t].to = s /\ UNCHANGED <<wire, taken>>
      /\ machine' = [machine EXCEPT ![s].got = g]
      /\ server' = [server EXCEPT ![t].taker = "recv", ![t].to = NoStream, ![t].held = <<>>]
  BY Zenon, <1>1 DEF MachineTakes
<1>5. /\ n \in Nat /\ DOMAIN got = 1..n /\ DOMAIN g = 1..(n + 1)
      /\ \A i \in 1..n : g[i] = got[i]
      /\ g[n + 1] = m
  BY <1>2, <1>3, Appended
<1> HIDE DEF g
<1>6. machine'[s].got = g /\ \A q \in Stream \ {s} : machine'[q].got = machine[q].got
  BY Zenon, <1>4 DEF Types, MachineTypes
<1>7. /\ server'[t].taker = "recv" /\ \A q \in Stream \ {t} : server'[q] = server[q]
      /\ server'[t].handler = server[t].handler
  BY <1>4 DEF Types, ServerTypes
<1>8. BackStays
  BY Zenon, <1>7 DEF BackStays
<1>9. n + 1 \in Nat
  BY <1>5
<1>10. /\ w \in Place /\ At(w) = s /\ InHand(t) \in Place /\ InHand(t) # w
      /\ OnWire(s) \in Place /\ InHand(s) \in Place /\ OnWire(s) # w
  BY Zenon, <1>9, PlaceTypes, PlacesApart, PositionsApart, PlaceAt
<1>11. /\ m \in Has(InHand(t)) /\ Has(InHand(t))' = {}
  BY Zenon, <1>1, <1>4, <1>7, HasInHand DEF Hand
<1>12. /\ m \in Inputs /\ m.user = UserOf[t] /\ m.n <= taken[m.user] /\ m.user \in User
  BY Zenon, <1>10, <1>11, UserOfType DEF Passage, Bounded, Owned
<1>13. Moved(m, w)
  <2>1. \A q \in Stream : Has(OnWire(q))' = Has(OnWire(q))
    BY Zenon, <1>4, HasOnWire
  <2>2. \A q \in Stream \ {t} : Has(InHand(q))' = Has(InHand(q))
    BY Zenon, <1>7, InHandStays
  <2>3. \A q \in Stream \ {s}, i \in Nat : Has(Reached(q, i))' = Has(Reached(q, i))
    BY Zenon, <1>6, ReachedStays
  <2>4. ASSUME NEW i \in Nat, i # n + 1 PROVE Item(g, i) = Item(got, i)
    <3>1. i \in 1..(n + 1) <=> i \in 1..n
      BY <1>5, <2>4
    <3> QED
      BY Zenon, <1>5, <3>1 DEF Item
  <2>5. Item(g, n + 1) = {m}
    BY <1>5 DEF Item
  <2>6. \A i \in Nat : Has(Reached(s, i))' = Item(g, i) /\ Has(Reached(s, i)) = Item(got, i)
    BY Zenon, <1>6, HasReached
  <2>7. ASSUME NEW q \in Stream, NEW i \in Nat, Reached(q, i) # w, NEW k \in Has(Reached(q, i))'
        PROVE  k \in Has(Reached(q, i))
    <3>1. CASE q = s
      <4>1. i # n + 1
        BY Zenon, <2>7, <3>1
      <4> QED
        BY Zenon, <2>4, <2>6, <2>7, <3>1, <4>1
    <3>2. CASE q # s
      BY Zenon, <2>3, <2>7, <3>2
    <3> QED
      BY Zenon, <3>1, <3>2
  <2>8. \A k \in Has(w)' : k \in Has(w) \/ k = m
    BY Zenon, <1>9, <2>5, <2>6
  <2>9. \A q \in Stream : \A k \in Has(InHand(q))' : k \in Has(InHand(q))
    BY Zenon, <1>11, <2>2
  <2> HIDE DEF w
  <2> QED
    BY Zenon, <1>10, <2>1, <2>7, <2>8, <2>9, MovedAt
<1>14. ASSUME NEW p \in Place, p # w PROVE m \notin Has(p)'
  <2>1. \A k \in Has(p)' : k \in Has(p)
    BY Zenon, <1>13, <1>14 DEF Moved
  <2>2. CASE p = InHand(t)
    BY Zenon, <1>11, <2>2
  <2>3. CASE p # InHand(t)
    BY Zenon, <1>10, <1>11, <2>1, <2>3 DEF Passage, Once
  <2> QED
    BY Zenon, <2>2, <2>3
<1>15. TakenGrows /\ m.n <= taken'[m.user]
  <2>1. TakenGrows
    BY <1>4, BoundsAssumption DEF Types, TakenGrows
  <2> QED
    BY Zenon, <1>4, <1>12, <2>1
<1>16. Bounded'
  BY Zenon, <1>10, <1>12, <1>13, <1>15, BoundedMoved DEF Passage
<1>17. Once'
  BY Zenon, <1>10, <1>13, <1>14, OnceMoved DEF Passage
<1>18. Owned'
  <2>1. ASSUME NEW q \in Stream, NEW p \in {OnWire(q), InHand(q)}, NEW k \in Has(p)'
        PROVE  k.user = UserOf[q]
    <3>1. p \in Place /\ p # w
      BY ZenonT(30), PlaceTypes, PlacesApart, PositionsApart
    <3>2. k \in Has(p)
      BY Zenon, <1>13, <2>1, <3>1 DEF Moved
    <3> QED
      BY Zenon, <3>2 DEF Passage, Owned
  <2> QED
    BY Zenon, <2>1 DEF Owned
<1>19. s = t \/ Late(s, m.user)'
  <2>1. s = t \/ (server[t].handler = "back" /\ Server[s] = Server[t])
    <3>1. s # NoStream
      BY Zenon, AttemptsAssumption
    <3> QED
      BY Zenon, <1>4, <3>1 DEF Takers, TakersAt
  <2>2. t \in Range(Attempts[m.user])
    BY Zenon, <1>12, UserOfType
  <2> QED
    BY Zenon, <1>7, <2>1, <2>2 DEF Late
<1>20. Foreign'
  <2>1. ASSUME NEW q \in Stream, NEW i \in Nat, NEW k \in Has(Reached(q, i))'
        PROVE  k.user = UserOf[q] \/ Late(q, k.user)'
    <3>1. Reached(q, i) \in Place /\ (Reached(q, i) = w => q = s)
      BY Zenon, PlaceTypes, PlacesApart, PositionsApart
    <3>2. k \in Has(Reached(q, i)) \/ (q = s /\ k = m)
      BY Zenon, <1>13, <2>1, <3>1 DEF Moved
    <3>3. CASE k \in Has(Reached(q, i))
      <4>1. k.user \in User /\ (k.user = UserOf[q] \/ Late(q, k.user))
        BY Zenon, <3>1, <3>3 DEF Passage, Bounded, Foreign, Inputs
      <4> QED
        BY Zenon, <1>8, <4>1, LateStays
    <3>4. CASE q = s /\ k = m
      BY Zenon, <1>12, <1>19, <3>4
    <3> QED
      BY Zenon, <3>2, <3>3, <3>4
  <2> QED
    BY Zenon, <2>1 DEF Foreign
<1>21. UpRising'
  BY Zenon, <1>4 DEF Passage, UpRising, RisingAt
<1>22. Ordered'
  <2> DEFINE lost == Late(s, UserOf[s])'
             ahead == \A p \in Place : Ahead(p, w) => \A k \in Has(p)' : k.user = m.user => k.n < m.n
             behind == \A r \in Place : Ahead(w, r) => \A k \in Has(r)' : k.user = m.user => m.n < k.n
  <2>1. lost \/ m.user # UserOf[s] \/ (ahead /\ behind)
    <3>1. CASE s # t
      BY Zenon, <1>19, <3>1
    <3>2. CASE s = t /\ Late(s, UserOf[s])
      BY Zenon, <1>8, <3>2, UserOfType, LateStays
    <3>3. CASE s = t /\ ~Late(s, UserOf[s])
      <4>1. ASSUME NEW p \in Place, Ahead(p, w), NEW k \in Has(p)', k.user = m.user PROVE k.n < m.n
        <5>1. PICK j \in Nat : j < n + 1 /\ p = Reached(s, j)
          BY Zenon, <1>9, <4>1, AheadOfReached
        <5>2. p # w
          BY Zenon, <4>1, AheadItself
        <5>3. k \in Has(p) /\ Ahead(p, InHand(s)) /\ At(p) = s
          BY Zenon, <1>13, <4>1, <5>1, <5>2, AheadOnPath, PlaceAt DEF Moved
        <5> QED
          BY Zenon, <1>10, <1>11, <1>12, <3>3, <4>1, <5>3 DEF Passage, Ordered
      <4>2. ASSUME NEW r \in Place, Ahead(w, r), NEW k \in Has(r)', k.user = m.user PROVE m.n < k.n
        <5>1. r # w
          BY Zenon, <4>2, AheadItself
        <5>2. k \in Has(r)
          BY Zenon, <1>13, <4>2, <5>1 DEF Moved
        <5>3. r = OnWire(s) \/ r = InHand(s) \/ \E j \in Nat : n + 1 < j /\ r = Reached(s, j)
          BY Zenon, <1>9, <4>2, BehindReached
        <5>4. r # InHand(s)
          BY Zenon, <1>11, <3>3, <4>2
        <5>5. ASSUME NEW j \in Nat, n + 1 < j, r = Reached(s, j) PROVE FALSE
          <6>1. Item(got, j) = {}
            BY <1>5, <5>5 DEF Item
          <6> QED
            BY Zenon, <5>2, <5>5, <6>1, HasReached
        <5>6. r = OnWire(s) /\ Ahead(InHand(s), OnWire(s)) /\ At(InHand(s)) = s
          BY Zenon, <5>3, <5>4, <5>5, AheadOnPath, PlaceAt
        <5> QED
          BY Zenon, <1>10, <1>11, <1>12, <3>3, <4>2, <5>2, <5>6 DEF Passage, Ordered
      <4> QED
        BY Zenon, <4>1, <4>2
    <3> QED
      BY Zenon, <3>1, <3>2, <3>3
  <2> QED
    BY Zenon, <1>8, <1>10, <1>13, <2>1, UserOfType, OrderedMoved DEF Passage
<1> QED
  BY Zenon, <1>16, <1>17, <1>18, <1>20, <1>21, <1>22 DEF Passage

\* The other steps of stream s leave all inputs where they are, or lose them.
LEMMA StreamInputsKept ==
  ASSUME Types, Unstarted, NEW s \in Stream, StreamStep(s),
         ~SenderTakes(s), ~TakerTakes(s), ~(\E t \in Stream : MachineTakes(s, t))
  PROVE  (\A q \in Stream : InputsKept(q)) /\ BackStays /\ UNCHANGED taken
<1>1. CASE SenderDone(s)
  BY Zenon, <1>1 DEF InputsKept, BackStays, SenderDone
<1>2. CASE ReceiverTakes(s)
  BY <1>2 DEF Types, InputsKept, BackStays, ReceiverTakes, WireTypes
<1>3. CASE Deliver(s)
  BY Zenon, <1>3 DEF InputsKept, BackStays, Deliver
<1>4. CASE ReceiverEof(s)
  BY Zenon, <1>4 DEF InputsKept, BackStays, ReceiverEof
<1>5. CASE ReceiverError(s)
  BY Zenon, <1>5 DEF InputsKept, BackStays, ReceiverError
<1>6. CASE Return(s)
  BY Zenon, <1>6 DEF InputsKept, BackStays, Return
<1>7. CASE Accept(s)
  <2>1. /\ server[s].handler = "first" /\ \A q \in Stream \ {s} : server'[q] = server[q]
        /\ server'[s].held = server[s].held
        /\ server'[s].taker = IF s \in Watch THEN server[s].taker ELSE "recv"
        /\ UNCHANGED <<wire, machine, taken>>
    BY Zenon, <1>7, AcceptEffect
  <2> QED
    BY Zenon, <2>1 DEF InputsKept, BackStays
<1>8. CASE AcceptFails(s)
  BY <1>8 DEF Types, InputsKept, BackStays, AcceptFails, ServerTypes
<1>9. CASE ReadStarts(s)
  BY <1>9 DEF Types, InputsKept, BackStays, ReadStarts, ServerTypes, MachineTypes
<1>10. CASE RelaySends(s)
  BY <1>10 DEF Types, InputsKept, BackStays, RelaySends, ServerTypes, WireTypes
<1>11. CASE RelayDone(s)
  BY <1>11 DEF Types, InputsKept, BackStays, RelayDone, ServerTypes
<1>12. CASE TakerEnds(s)
  BY <1>12 DEF Types, InputsKept, BackStays, TakerEnds, ServerTypes
<1>13. CASE TakerSelects(s)
  BY <1>13 DEF Types, InputsKept, BackStays, TakerSelects, ServerTypes
<1>14. CASE TakerDrops(s)
  BY <1>14 DEF Types, InputsKept, BackStays, TakerDrops, ServerTypes
<1>15. CASE HandlerReturns(s)
  BY <1>15 DEF Types, InputsKept, BackStays, HandlerReturns, ServerTypes, WireTypes
<1>16. CASE Start(s)
  BY <1>16 DEF Types, InputsKept, BackStays, Start, ServerTypes, Turn, Unstarted, UnstartedAt
<1>17. CASE StartFails(s)
  BY Zenon, <1>17 DEF InputsKept, BackStays, StartFails
<1>18. CASE ReadFails(s)
  BY SMTT(20), <1>18 DEF Types, InputsKept, BackStays, ReadFails, ServerTypes
<1>19. CASE MachineSends(s)
  BY SMTT(20), <1>19 DEF Types, InputsKept, BackStays, MachineSends, ServerTypes, MachineTypes
<1>20. CASE MachineEnds(s)
  BY <1>20 DEF Types, InputsKept, BackStays, MachineEnds, ServerTypes, MachineTypes, Unstarted, UnstartedAt
<1>21. CASE Cut(s)
  BY Zenon, <1>21 DEF Types, InputsKept, BackStays, Cut, WireTypes, Severed
<1> QED
  BY ZenonT(30), <1>1, <1>2, <1>3, <1>4, <1>5, <1>6, <1>7, <1>8, <1>9, <1>10, <1>11, <1>12, <1>13, <1>14, <1>15, <1>16, <1>17, <1>18, <1>19, <1>20, <1>21
  DEF StreamStep, ClientStep, ServerStep

\* One step of a stream keeps the inputs in order.
LEMMA StreamPassage ==
  ASSUME Types, Types', Unstarted, Takers, Passage, NEW s \in Stream, StreamStep(s)
  PROVE  Passage'
<1>1. CASE SenderTakes(s) \/ TakerTakes(s) \/ \E t \in Stream : MachineTakes(s, t)
  BY Zenon, <1>1, SenderTakesPassage, TakerTakesPassage, MachineTakesPassage
<1>2. CASE ~(SenderTakes(s) \/ TakerTakes(s) \/ \E t \in Stream : MachineTakes(s, t))
  <2>1. (\A q \in Stream : InputsKept(q)) /\ BackStays /\ UNCHANGED taken
    BY Zenon, <1>2, StreamInputsKept
  <2>2. TakenGrows
    BY <2>1, BoundsAssumption DEF Types, TakenGrows
  <2> QED
    BY Zenon, <2>1, <2>2, KeptPassage
<1> QED
  BY Zenon, <1>1, <1>2

\* A step that leaves the receiver of stream q alone keeps what is known of it.
LEMMA TakersKept ==
  ASSUME Takers, NEW q \in Stream,
         server'[q].handler = server[q].handler, server'[q].taker = server[q].taker,
         server'[q].to = server[q].to,
         q \in Local => wire'[q].up = wire[q].up /\ client'[q].sender = client[q].sender
  PROVE  TakersAt(q)'
<1>1. TakersAt(q)
  BY Zenon DEF Takers
<1> QED
  BY Zenon, <1>1 DEF TakersAt

\* One step of a stream keeps what is known of the receivers and of their channels.
LEMMA StreamTakers ==
  ASSUME Types, Queries, Unstarted, Takers, NEW s \in Stream, StreamStep(s)
  PROVE  Takers'
<1>1. CASE SenderDone(s)
  BY SMTT(20), <1>1 DEF Types, Takers, TakersAt, SenderDone, ClientTypes
<1>2. CASE ReceiverTakes(s)
  <2>1. \A q \in Stream : wire'[q].up = wire[q].up /\ client'[q].sender = client[q].sender
    BY SMTT(20), <1>2 DEF Types, ReceiverTakes, ClientTypes, WireTypes
  <2>2. UNCHANGED <<server, chan>>
    BY Zenon, <1>2 DEF ReceiverTakes
  <2> QED
    BY <2>1, <2>2 DEF Takers, TakersAt
<1>3. CASE Deliver(s)
  BY <1>3 DEF Types, Takers, TakersAt, Deliver, ClientTypes
<1>4. CASE ReceiverEof(s)
  BY <1>4 DEF Types, Takers, TakersAt, ReceiverEof, ClientTypes
<1>5. CASE ReceiverError(s)
  BY <1>5 DEF Types, Takers, TakersAt, ReceiverError, ClientTypes
<1>6. CASE Return(s)
  BY <1>6 DEF Types, Takers, TakersAt, Return, ClientTypes
<1>7. CASE Accept(s)
  <2>1. /\ server[s].handler = "first" /\ server'[s].handler = "start"
        /\ server'[s].to = server[s].to
        /\ server'[s].taker = IF s \in Watch THEN server[s].taker ELSE "recv"
        /\ \A q \in Stream \ {s} : server'[q] = server[q]
        /\ UNCHANGED <<client, wire>>
    BY Zenon, <1>7, AcceptEffect
  <2>2. \A q \in Stream : TakersAt(q)'
    BY <2>1 DEF Takers, TakersAt
  <2>3. \A x \in Pools : chan'[x] # NoStream => Server[chan'[x]] = x[1]
    <3>1. CASE UNCHANGED chan
      BY Zenon, <3>1 DEF Takers
    <3>2. CASE \E y \in Query : chan' = [chan EXCEPT ![<<Server[s], y>>] = s]
      BY <3>2 DEF Types, Takers
    <3> QED
      BY Zenon, <1>7, <3>1, <3>2 DEF Accept
  <2> QED
    BY Zenon, <2>2, <2>3 DEF Takers
<1>8. CASE AcceptFails(s)
  BY <1>8 DEF Types, Takers, TakersAt, AcceptFails, ServerTypes
<1>9. CASE ReadStarts(s)
  BY <1>9 DEF Types, Takers, TakersAt, ReadStarts, ServerTypes
<1>10. CASE RelaySends(s)
  <2>1. /\ server'[s].handler = server[s].handler /\ server'[s].taker = server[s].taker
        /\ server'[s].to = server[s].to
        /\ \A q \in Stream \ {s} : server'[q] = server[q]
    BY <1>10 DEF Types, RelaySends, ServerTypes
  <2>2. PICK v : wire' = wire \/ wire' = [wire EXCEPT ![s].down = v]
    BY Zenon, <1>10 DEF RelaySends
  <2>3. \A q \in Stream : wire'[q].up = wire[q].up
    <3>1. CASE wire' = [wire EXCEPT ![s].down = v]
      BY Zenon, <3>1 DEF Types, WireTypes
    <3> QED
      BY Zenon, <2>2, <3>1
  <2>4. UNCHANGED <<client, chan>>
    BY Zenon, <1>10 DEF RelaySends
  <2>5. TakersAt(s)'
    BY Zenon, <2>1, <2>3, <2>4, TakersKept
  <2>6. \A q \in Stream \ {s} : TakersAt(q)'
    BY Zenon, <2>1, <2>3, <2>4, TakersKept
  <2> QED
    BY Zenon, <2>4, <2>5, <2>6 DEF Takers
<1>11. CASE RelayDone(s)
  BY <1>11 DEF Types, Takers, TakersAt, RelayDone, ServerTypes
<1>12. CASE TakerEnds(s)
  BY <1>12 DEF Types, Takers, TakersAt, TakerEnds, ServerTypes
<1>13. CASE TakerSelects(s)
  <2> DEFINE c == chan[QueryOf(s)]
  <2>1. /\ server[s].taker = "hold" /\ UNCHANGED <<client, wire, chan>>
        /\ server' = [server EXCEPT ![s].taker = "select", ![s].to = c]
    BY Zenon, <1>13 DEF TakerSelects
  <2>2. c \notin {s, NoStream} => server[s].handler = "back" /\ Server[c] = Server[s]
    <3>1. server[s].handler \notin {"none", "first"} /\ s \notin Watch /\ server[s].query \in Query
      BY Zenon, <2>1 DEF Takers, TakersAt, Queries, OwnQuery
    <3>2. QueryOf(s) \in Pools /\ QueryOf(s)[1] = Server[s]
      BY Zenon, <3>1 DEF QueryOf, Pools
    <3>3. server[s].handler \in {"start", "run", "close", "back"}
      BY Zenon, <3>1 DEF Types, ServerTypes
    <3> QED
      BY Zenon, <3>1, <3>2, <3>3 DEF Takers, Queries, OwnQuery
  <2> HIDE DEF c
  <2>3. /\ server'[s].taker = "select" /\ server'[s].to = c
        /\ server'[s].handler = server[s].handler
        /\ \A q \in Stream \ {s} : server'[q] = server[q]
    BY <2>1 DEF Types, ServerTypes
  <2>4. TakersAt(s)'
    BY Zenon, <2>1, <2>2, <2>3 DEF Takers, TakersAt
  <2>5. \A q \in Stream \ {s} : TakersAt(q)'
    BY Zenon, <2>1, <2>3, TakersKept
  <2> QED
    BY Zenon, <2>1, <2>4, <2>5 DEF Takers
<1>14. CASE TakerDrops(s)
  BY <1>14 DEF Types, Takers, TakersAt, TakerDrops, ServerTypes
<1>15. CASE HandlerReturns(s)
  <2>1. /\ server[s].handler = "close" /\ server'[s].handler = "back"
        /\ server'[s].to = server[s].to /\ server'[s].taker = server[s].taker
        /\ \A q \in Stream \ {s} : server'[q] = server[q]
    BY <1>15 DEF Types, HandlerReturns, ServerTypes
  <2>2. \A q \in Stream : wire'[q].up = wire[q].up /\ client'[q].sender = client[q].sender
    BY SMTT(20), <1>15 DEF Types, HandlerReturns, WireTypes, ClientTypes
  <2>3. \A q \in Stream : TakersAt(q)'
    BY <2>1, <2>2 DEF Takers, TakersAt
  <2>4. \A x \in Pools : chan'[x] = chan[x] \/ chan'[x] = NoStream
    BY Zenon, <1>15 DEF Types, HandlerReturns
  <2> QED
    BY Zenon, <2>3, <2>4 DEF Takers
<1>16. CASE Start(s)
  BY <1>16 DEF Types, Takers, TakersAt, Start, ClientTypes, ServerTypes, Turn, Unstarted, UnstartedAt
<1>17. CASE StartFails(s)
  BY <1>17 DEF Types, Takers, TakersAt, StartFails, ClientTypes
<1>18. CASE SenderTakes(s)
  <2>1. UNCHANGED <<server, chan>> /\ client[s].sender = "wait"
    BY Zenon, <1>18 DEF SenderTakes
  <2>2. \A q \in Stream : q # s => wire'[q] = wire[q] /\ client'[q] = client[q]
    BY Zenon, <1>18 DEF Types, SenderTakes
  <2> QED
    BY ZenonT(30), <2>1, <2>2 DEF Takers, TakersAt
<1>19. CASE TakerTakes(s)
  <2>1. server[s].taker = "recv" /\ UNCHANGED <<client, chan>>
    BY Zenon, <1>19 DEF TakerTakes
  <2>2. PICK v : server' = [server EXCEPT ![s].taker = "hold", ![s].held = v]
    BY Zenon, <1>19 DEF TakerTakes
  <2>3. /\ server'[s].handler = server[s].handler /\ server'[s].to = server[s].to
        /\ \A q \in Stream \ {s} : server'[q] = server[q]
    BY <2>2 DEF Types, ServerTypes
  <2>4. \A q \in Stream : q \in Local => wire'[q] = wire[q]
    BY Zenon, <1>19 DEF Types, TakerTakes
  <2>5. TakersAt(s)'
    BY ZenonT(30), <2>1, <2>3, <2>4 DEF Takers, TakersAt
  <2>6. \A q \in Stream \ {s} : TakersAt(q)'
    BY Zenon, <2>1, <2>3, <2>4, TakersKept
  <2> QED
    BY Zenon, <2>1, <2>5, <2>6 DEF Takers
<1>20. CASE ReadFails(s)
  BY <1>20 DEF Types, Takers, TakersAt, ReadFails, ServerTypes
<1>21. CASE MachineSends(s)
  BY <1>21 DEF Types, Takers, TakersAt, MachineSends, ServerTypes
<1>22. CASE MachineEnds(s)
  BY <1>22 DEF Types, Takers, TakersAt, MachineEnds, ServerTypes, Unstarted, UnstartedAt
<1>23. CASE Cut(s)
  BY <1>23 DEF Types, Takers, TakersAt, Cut, WireTypes, Severed
<1>24. CASE \E t \in Stream : MachineTakes(s, t)
  <2>1. PICK t \in Stream : MachineTakes(s, t)
    BY Zenon, <1>24
  <2>2. /\ server[t].taker = "select" /\ server'[t].handler = server[t].handler
        /\ server'[t].to = NoStream /\ \A q \in Stream \ {t} : server'[q] = server[q]
    BY Zenon, <2>1 DEF Types, MachineTakes, ServerTypes
  <2>3. UNCHANGED <<client, wire, chan>>
    BY Zenon, <2>1 DEF MachineTakes
  <2>4. TakersAt(t)'
    BY Zenon, <2>2, <2>3 DEF Takers, TakersAt
  <2>5. \A q \in Stream \ {t} : TakersAt(q)'
    BY Zenon, <2>2, <2>3, TakersKept
  <2> QED
    BY Zenon, <2>3, <2>4, <2>5 DEF Takers
<1> QED
  BY ZenonT(30), <1>1, <1>2, <1>3, <1>4, <1>5, <1>6, <1>7, <1>8, <1>9, <1>10, <1>11, <1>12, <1>13, <1>14, <1>15, <1>16, <1>17, <1>18, <1>19, <1>20, <1>21, <1>22, <1>23, <1>24
  DEF StreamStep, ClientStep, ServerStep

\* A user's cancelling loses inputs only.
LEMMA CancelPassage ==
  ASSUME Types, Types', Takers, Passage, NEW u \in User, Cancel(u)
  PROVE  Takers' /\ Passage'
<1>1. UNCHANGED <<client, server, machine, chan, taken>>
  BY Zenon DEF Cancel
<1>2. \A q \in Stream : wire[q] \in WireTypes /\ (wire'[q] = wire[q] \/ wire'[q] = Severed(q))
  BY Zenon DEF Types, Cancel
<1>3. \A q \in Stream : Severed(q).up = <<>>
  BY Zenon, <1>2 DEF Severed, WireTypes
<1>4. (\A q \in Stream : InputsKept(q)) /\ BackStays
  BY Zenon, <1>1, <1>2, <1>3 DEF InputsKept, BackStays
<1>5. TakenGrows
  BY <1>1, BoundsAssumption DEF Types, TakenGrows
<1>6. Takers'
  BY Zenon, <1>1, <1>2, <1>3 DEF Takers, TakersAt
<1> QED
  BY Zenon, <1>4, <1>5, <1>6, KeptPassage

\* No input is anywhere in the initial states.
LEMMA InitPassage == Init => Takers /\ Passage
<1> SUFFICES ASSUME Init PROVE Takers /\ Passage
  OBVIOUS
<1>1. Takers
  BY Zenon DEF Init, Takers, TakersAt, Pools
<1>2. \A q \in Stream : wire[q].up = <<>> /\ server[q].taker = "off" /\ machine[q].got = <<>>
  BY Zenon DEF Init
<1>3. \A i : Item(<<>>, i) = {}
  BY DEF Item
<1>4. Range(<<>>) = {}
  BY DEF Range
<1>5. \A q \in Stream : /\ Has(OnWire(q)) = {} /\ Has(InHand(q)) = {}
                        /\ \A i : Has(Reached(q, i)) = {}
  BY <1>2, <1>3, <1>4, HasOnWire, HasInHand, HasReached DEF Hand
<1>6. \A p \in Place : Has(p) = {}
  BY <1>5 DEF Place
<1>7. Bounded /\ Once /\ Ordered
  BY Zenon, <1>6 DEF Bounded, Once, Ordered
<1>8. Owned /\ Foreign
  BY Zenon, <1>5 DEF Owned, Foreign
<1>9. UpRising
  BY <1>2 DEF UpRising, RisingAt
<1> QED
  BY Zenon, <1>1, <1>7, <1>8, <1>9 DEF Passage

\* The inputs stay in order.
LEMMA NextPassage == IInv /\ IInv' /\ Takers /\ Passage /\ [Next]_vars => Takers' /\ Passage'
<1> SUFFICES ASSUME IInv, IInv', Takers, Passage, [Next]_vars PROVE Takers' /\ Passage'
  OBVIOUS
<1>1. ASSUME NEW s \in Stream, StreamStep(s) PROVE Takers' /\ Passage'
  BY Zenon, <1>1, StreamTakers, StreamPassage DEF IInv
<1>2. ASSUME NEW u \in User, Cancel(u) PROVE Takers' /\ Passage'
  BY Zenon, <1>2, CancelPassage DEF IInv
<1>3. CASE UNCHANGED vars
  <2>1. (\A q \in Stream : InputsKept(q)) /\ BackStays /\ UNCHANGED taken
    BY Zenon, <1>3 DEF vars, InputsKept, BackStays
  <2>2. TakenGrows
    BY <2>1, BoundsAssumption DEF IInv, Types, TakenGrows
  <2>3. Takers'
    BY Zenon, <1>3 DEF vars, Takers, TakersAt
  <2> QED
    BY Zenon, <2>1, <2>2, <2>3, KeptPassage DEF IInv
<1> QED
  BY Zenon, <1>1, <1>2, <1>3 DEF Next

\* Inputs that are apart and ordered on their way arrive so.
LEMMA InputsOrdered ==
  ASSUME Types, Passage
  PROVE  InputsInOrder
<1> SUFFICES ASSUME NEW s \in Stream, NEW i \in DOMAIN machine[s].got
    PROVE  LET m == machine[s].got[i]
           IN  /\ \A t \in Stream : \A j \in DOMAIN machine[t].got :
                     machine[t].got[j] = m => t = s /\ j = i
               /\ \/ /\ m.user = UserOf[s]
                     /\ \A j \in 1..(i - 1) :
                           machine[s].got[j].user = m.user => machine[s].got[j].n < m.n
                  \/ \E t \in Range(Attempts[m.user]) \ {s} :
                        server[t].handler = "back" /\ Server[t] = Server[s]
  BY Zenon DEF InputsInOrder
<1> DEFINE m == machine[s].got[i]
<1>1. ASSUME NEW t \in Stream, NEW j \in DOMAIN machine[t].got
      PROVE  /\ j \in Nat /\ Reached(t, j) \in Place /\ machine[t].got[j] \in Has(Reached(t, j))
             /\ At(Reached(t, j)) = t
  <2>1. machine[t].got \in Seq(Held)
    BY Zenon DEF Types, MachineTypes
  <2>2. j \in Nat
    BY <2>1
  <2> QED
    BY <2>2, HasReached, PlaceTypes, PlaceAt DEF Item
<1>2. \A t \in Stream : \A j \in DOMAIN machine[t].got : machine[t].got[j] = m => t = s /\ j = i
  <2>1. ASSUME NEW t \in Stream, NEW j \in DOMAIN machine[t].got, machine[t].got[j] = m
        PROVE  t = s /\ j = i
    <3>1. /\ Reached(t, j) \in Place /\ m \in Has(Reached(t, j))
          /\ Reached(s, i) \in Place /\ m \in Has(Reached(s, i))
      BY Zenon, <1>1, <2>1
    <3>2. Reached(t, j) = Reached(s, i)
      BY Zenon, <3>1 DEF Passage, Once
    <3> QED
      BY <3>2, PositionsApart
  <2> QED
    BY Zenon, <2>1
<1>3. CASE Late(s, m.user)
  BY Zenon, <1>2, <1>3 DEF Late
<1>4. CASE ~Late(s, m.user)
  <2>1. m.user = UserOf[s]
    BY Zenon, <1>1, <1>4 DEF Passage, Foreign
  <2>2. ASSUME NEW j \in 1..(i - 1), machine[s].got[j].user = m.user
        PROVE  machine[s].got[j].n < m.n
    <3>1. machine[s].got \in Seq(Held)
      BY Zenon DEF Types, MachineTypes
    <3>2. j \in DOMAIN machine[s].got /\ j < i
      BY <3>1
    <3>3. Ahead(Reached(s, j), Reached(s, i))
      BY Zenon, <1>1, <3>2, AheadOnPath
    <3>4. /\ machine[s].got[j] \in Has(Reached(s, j)) /\ m \in Has(Reached(s, i))
          /\ Reached(s, j) \in Place /\ Reached(s, i) \in Place /\ At(Reached(s, j)) = s
      BY Zenon, <1>1, <3>2
    <3>5. ~Late(s, UserOf[s]) /\ machine[s].got[j].user = UserOf[s]
      BY Zenon, <1>4, <2>1, <2>2
    <3> HIDE DEF m
    <3> QED
      BY Zenon, <2>1, <3>3, <3>4, <3>5 DEF Passage, Ordered
  <2> QED
    BY Zenon, <1>2, <2>1, <2>2
<1> QED
  BY Zenon, <1>3, <1>4

-----------------------------------------------------------------------------
(* The theorems.                                                            *)

\* The invariant holds in every reachable state.
THEOREM AlwaysIInv == Spec => []IInv
<1> QED
  BY InitInv, NextInv, PTL DEF Spec

\* The state has its types, and the query of every stream whose handler runs
\* (grpc_server.go) has that stream's own channel, however many streams share the pool.
THEOREM TypeCorrect == Spec => []TypeOK
<1>1. IInv => TypeOK
  <2> SUFFICES ASSUME IInv PROVE TypeOK
    OBVIOUS
  <2>1. \A s \in Stream : /\ client[s] \in ClientTypes /\ wire[s] \in WireTypes
                          /\ server[s] \in ServerTypes /\ machine[s] \in MachineTypes
    BY Zenon DEF IInv, Types
  <2> QED
    BY <2>1 DEF TypeOK, IInv, Types, Queries, OwnQuery, ClientTypes, WireTypes, ServerTypes,
                MachineTypes, Streams
<1> QED
  BY <1>1, AlwaysIInv, PTL

\* The shard client retries a stream at another host (shard_client.go) only when the state
\* machine at the first has received no input and the user no result.
THEOREM RetriesAreSafe == Spec => []RetriedUnstarted
<1>1. IInv => RetriedUnstarted
  BY Zenon DEF IInv, Unstarted, UnstartedAt, Quiet, RetriedUnstarted
<1> QED
  BY <1>1, AlwaysIInv, PTL

\* The results of a stream reach the user in the order the state machine has made them,
\* none twice; none is skipped unless the stream is cut, and a stream that returns when
\* the handler has ended without an error has delivered all (host_client.go,
\* grpc_server.go).
THEOREM ResultsArrive == Spec => []ResultsInOrder
<1>1. Init => IInv /\ Flow /\ Results
  BY Zenon, InitInv, InitResults
<1>2. IInv /\ Flow /\ Results /\ [Next]_vars => (IInv /\ Flow /\ Results)'
  BY Zenon, NextInv, NextResults
<1>3. IInv /\ Flow /\ Results => ResultsInOrder
  BY Zenon, ResultsOrdered DEF IInv
<1> QED
  BY <1>1, <1>2, <1>3, PTL DEF Spec
\* An input of a user reaches one state machine at most, and at most once; and in the
\* order the user has given it, unless another stream of the user at the same host has
\* returned, whose receiver may have found the released query in use again (grpc_server.go).
THEOREM InputsArrive == Spec => []InputsInOrder
<1>1. Init => IInv /\ Takers /\ Passage
  BY Zenon, InitInv, InitPassage
<1>2. IInv /\ Takers /\ Passage /\ [Next]_vars => (IInv /\ Takers /\ Passage)'
  BY Zenon, NextInv, NextPassage
<1>3. IInv /\ Takers /\ Passage => InputsInOrder
  BY Zenon, InputsOrdered DEF IInv
<1> QED
  BY <1>1, <1>2, <1>3, PTL DEF Spec
=============================================================================

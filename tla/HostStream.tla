----------------------------- MODULE HostStream -----------------------------
(***************************************************************************)
(* Watches and streams: the shard client, which tries the hosts of a table *)
(* in turn (shard_client.go), the host client with its two goroutines      *)
(* (host_client.go), the handler with its two (grpc_server.go), the pooled *)
(* query they share (util.go) and the state machine the shim calls         *)
(* (state_machine.go), which is external.                                  *)
(*                                                                         *)
(* A stream here is one attempt of a user's call at one host; a watch is a *)
(* stream without inputs.  Channels have no buffer: a message changes      *)
(* hands in a step of both goroutines.  The network is external: messages  *)
(* arrive in order until the stream is cut, by the user's context or by a  *)
(* fault.  An input is named by its user and number, a result by its       *)
(* number.                                                                 *)
(***************************************************************************)
EXTENDS Naturals, Sequences, Functions

CONSTANTS
    User,
    Attempts,   \* Attempts[u]: the streams of a call, by the hosts of the tables
    Watch,      \* those that are watches
    Server,     \* Server[s]: the host of stream s
    Local,      \* the streams at the agent's own host
    Query,      \* pooled queries, numbered: each host has these
    NoStream,
    MaxIn,      \* bound on the inputs of a user
    MaxOut,     \* bound on the results of a stream
    MaxFaults   \* bound on faults

Stream == UNION {Range(Attempts[u]) : u \in User}
UserOf == [s \in Stream |-> CHOOSE u \in User : s \in Range(Attempts[u])]

ASSUME AttemptsAssumption ==
    /\ \A u, v \in User : u # v => Range(Attempts[u]) \cap Range(Attempts[v]) = {}
    /\ Watch \subseteq Stream /\ Local \subseteq Stream /\ NoStream \notin Stream
ASSUME BoundsAssumption == MaxIn \in Nat /\ MaxOut \in Nat /\ MaxFaults \in Nat

VARIABLES
    client,   \* client[s]: the call and its two goroutines
    wire,     \* wire[s]: messages to and from the handler, the trailer, and if it is cut
    server,   \* server[s]: the handler and its two goroutines
    machine,  \* machine[s]: the state machine's Watch or Stream
    chan,     \* chan[x]: the field in of query x, named by the stream that made it
    taken,    \* taken[u]: the number of inputs taken from user u
    out,      \* out[s]: the results the user has received
    faults

vars == <<client, wire, server, machine, chan, taken, out, faults>>

Fault == faults < MaxFaults /\ faults' = faults + 1

\* What is under way is lost.
Severed(s) == [wire[s] EXCEPT !.up = <<>>, !.down = <<>>, !.cut = TRUE]

\* An input is taken from user u.
Input(u) == [user |-> u, n |-> taken[u] + 1]
TakeInput(u) == taken[u] < MaxIn /\ taken' = [taken EXCEPT ![u] = @ + 1]

-----------------------------------------------------------------------------
(* The shard client and the host client.                                    *)

\* The call goes on with the next host after an error.
Turn(s) ==
    LET a == Attempts[UserOf[s]]
        k == CHOOSE i \in DOMAIN a : a[i] = s
    IN  client[s].call = "idle" /\ \A i \in 1..(k - 1) : client[a[i]].call = "error"

\* The host client of another host starts its goroutines, that of the own host calls the
\* handler.  A watch has a receiver only, the caller itself.
Start(s) ==
    /\ Turn(s) /\ (s \in Local \/ ~wire[s].cut)
    /\ client' = [client EXCEPT ![s].call = "run",
                    ![s].sender = IF s \in Local \cup Watch THEN "done" ELSE "wait",
                    ![s].receiver = IF s \in Local THEN "done" ELSE "recv"]
    /\ server' = [server EXCEPT ![s].handler = "first"]
    /\ UNCHANGED <<wire, machine, chan, taken, out, faults>>

\* The connection fails: Stream returns the error, Watch goes on with no client.
StartFails(s) ==
    /\ Turn(s) /\ s \notin Local
    /\ IF wire[s].cut THEN UNCHANGED faults ELSE Fault
    /\ client' = [client EXCEPT ![s].call = IF s \in Watch THEN "panic" ELSE "error"]
    /\ UNCHANGED <<wire, server, machine, chan, taken, out>>

Alive(s) == wire[s].end = "open" /\ ~wire[s].cut

\* The sender takes an input; Send fails with EOF once the stream has ended.
SenderTakes(s) ==
    /\ client[s].sender = "wait" /\ TakeInput(UserOf[s])
    /\ IF Alive(s)
       THEN wire' = [wire EXCEPT ![s].up = Append(@, Input(UserOf[s]))] /\ UNCHANGED client
       ELSE client' = [client EXCEPT ![s].sender = "done"] /\ UNCHANGED wire
    /\ UNCHANGED <<server, machine, chan, out, faults>>

SenderDone(s) ==
    /\ client[s].sender = "wait" /\ client[s].done
    /\ client' = [client EXCEPT ![s].sender = "done"]
    /\ UNCHANGED <<wire, server, machine, chan, taken, out, faults>>

ReceiverTakes(s) ==
    /\ client[s].receiver = "recv" /\ wire[s].down # <<>> /\ ~wire[s].cut
    /\ client' = [client EXCEPT ![s].receiver = "out", ![s].item = Head(wire[s].down)]
    /\ wire' = [wire EXCEPT ![s].down = Tail(@)]
    /\ UNCHANGED <<server, machine, chan, taken, out, faults>>

\* out <- &Result: the user takes it.
Deliver(s) ==
    /\ client[s].receiver = "out"
    /\ out' = [out EXCEPT ![s] = Append(@, client[s].item)]
    /\ client' = [client EXCEPT ![s].receiver = "recv", ![s].item = 0]
    /\ UNCHANGED <<wire, server, machine, chan, taken, faults>>

\* Mutant: done is not closed at EOF.
ReceiverEofOpen(s) ==
    /\ client[s].receiver = "recv"
    /\ wire[s].down = <<>> /\ wire[s].end = "eof" /\ ~wire[s].cut
    /\ client' = [client EXCEPT ![s].receiver = "done"]
    /\ UNCHANGED <<wire, server, machine, chan, taken, out, faults>>

ReceiverEof(s) ==
    /\ client[s].receiver = "recv"
    /\ wire[s].down = <<>> /\ wire[s].end = "eof" /\ ~wire[s].cut
    /\ client' = [client EXCEPT ![s].receiver = "done", ![s].done = TRUE]
    /\ UNCHANGED <<wire, server, machine, chan, taken, out, faults>>

\* Any other error ends the receiver and leaves the sender waiting.
ReceiverError(s) ==
    /\ client[s].receiver = "recv"
    /\ wire[s].cut \/ (wire[s].down = <<>> /\ wire[s].end = "status")
    /\ client' = [client EXCEPT ![s].receiver = "done"]
    /\ UNCHANGED <<wire, server, machine, chan, taken, out, faults>>

\* Mutant: the error of the receiver is returned.
ReturnError(s) ==
    /\ client[s].call = "run" /\ s \notin Local
    /\ client[s].sender = "done" /\ client[s].receiver = "done"
    /\ client' = [client EXCEPT ![s].call = IF client[s].done THEN "ok" ELSE "error"]
    /\ UNCHANGED <<wire, server, machine, chan, taken, out, faults>>

\* Both goroutines have ended: the call returns, and never an error of theirs.
Return(s) ==
    /\ client[s].call = "run" /\ s \notin Local
    /\ client[s].sender = "done" /\ client[s].receiver = "done"
    /\ client' = [client EXCEPT ![s].call = "ok"]
    /\ UNCHANGED <<wire, server, machine, chan, taken, out, faults>>

ClientStep(s) ==
    \/ SenderDone(s) \/ ReceiverTakes(s) \/ Deliver(s)
    \/ ReceiverEof(s) \/ ReceiverError(s) \/ Return(s)
-----------------------------------------------------------------------------
(* The handlers Watch and Stream of the server.                             *)

QueryOf(s) == <<Server[s], server[s].query>>

\* Mutant: a query is put back in the pool while it is in use.
FreeInUse(x, s) == TRUE

Free(x, s) ==
    \A t \in Stream \ Watch :
        server[t].handler \in {"start", "run", "close"} => QueryOf(t) # <<Server[s], x>>

\* The connect message: the handler gets a query of the pool, with a new channel, and
\* starts its goroutines.  The request of a watch is its first message; the query of a
\* watch is used until the handler returns only.
Accept(s) ==
    /\ server[s].handler = "first" /\ (s \in Local \/ ~wire[s].cut)
    /\ \/ /\ s \in Watch
          /\ server' = [server EXCEPT ![s].handler = "start", ![s].relay = "wait"]
          /\ UNCHANGED chan
       \/ /\ s \notin Watch
          /\ \E x \in {y \in Query : Free(y, s)} :
               /\ server' = [server EXCEPT ![s].handler = "start", ![s].relay = "wait",
                                           ![s].taker = "recv", ![s].query = x]
               /\ chan' = [chan EXCEPT ![<<Server[s], x>>] = s]
    /\ UNCHANGED <<client, wire, machine, taken, out, faults>>

\* The stream is cut before the connect message.
AcceptFails(s) ==
    /\ server[s].handler = "first" /\ s \notin Local /\ wire[s].cut
    /\ server' = [server EXCEPT ![s].handler = "back"]
    /\ UNCHANGED <<client, wire, machine, chan, taken, out, faults>>

\* StaleRead or SyncRead calls the state machine, or fails.
ReadStarts(s) ==
    /\ server[s].handler = "start"
    /\ server' = [server EXCEPT ![s].handler = "run"]
    /\ machine' = [machine EXCEPT ![s].pc = "run"]
    /\ UNCHANGED <<client, wire, chan, taken, out, faults>>

ReadFails(s) ==
    /\ server[s].handler = "start"
    /\ IF wire[s].cut THEN UNCHANGED faults ELSE Fault
    /\ server' = [server EXCEPT ![s].handler = "close", ![s].err = TRUE]
    /\ UNCHANGED <<client, wire, machine, chan, taken, out>>

\* The sender of the handler relays a result.  A stream of the own host gives it to the
\* user, or to nobody once the context is done.
RelaySends(s) ==
    /\ server[s].relay = "send"
    /\ server' = [server EXCEPT ![s].relay = "wait", ![s].item = 0]
    /\ \/ s \in Local /\ out' = [out EXCEPT ![s] = Append(@, server[s].item)] /\ UNCHANGED wire
       \/ /\ s \notin Local /\ Alive(s) /\ UNCHANGED out
          /\ wire' = [wire EXCEPT ![s].down = Append(@, server[s].item)]
       \/ (IF s \in Local THEN wire[s].cut ELSE ~Alive(s)) /\ UNCHANGED <<out, wire>>
    /\ UNCHANGED <<client, machine, chan, taken, faults>>

\* Mutant: done is not closed when the read has failed.
RelayDoneUnlessError(s) ==
    /\ server[s].relay = "wait" /\ server[s].handler = "close" /\ ~server[s].err
    /\ server' = [server EXCEPT ![s].relay = "done"]
    /\ UNCHANGED <<client, wire, machine, chan, taken, out, faults>>

RelayDone(s) ==
    /\ server[s].relay = "wait" /\ server[s].handler = "close"
    /\ server' = [server EXCEPT ![s].relay = "done"]
    /\ UNCHANGED <<client, wire, machine, chan, taken, out, faults>>

\* The receiver of the handler: Recv, then query.in, which may be another stream's by now.
TakerTakes(s) ==
    /\ server[s].taker = "recv"
    /\ \/ /\ s \in Local /\ TakeInput(UserOf[s]) /\ UNCHANGED wire
          /\ server' = [server EXCEPT ![s].taker = "hold", ![s].held = Input(UserOf[s])]
       \/ /\ s \notin Local /\ wire[s].up # <<>> /\ ~wire[s].cut /\ UNCHANGED taken
          /\ server' = [server EXCEPT ![s].taker = "hold", ![s].held = Head(wire[s].up)]
          /\ wire' = [wire EXCEPT ![s].up = Tail(@)]
    /\ UNCHANGED <<client, machine, chan, out, faults>>

TakerEnds(s) ==
    /\ server[s].taker = "recv"
    /\ wire[s].cut \/ (s \notin Local /\ server[s].handler = "back")
    /\ server' = [server EXCEPT ![s].taker = "done"]
    /\ UNCHANGED <<client, wire, machine, chan, taken, out, faults>>

TakerSelects(s) ==
    /\ server[s].taker = "hold"
    /\ server' = [server EXCEPT ![s].taker = "select", ![s].to = chan[QueryOf(s)]]
    /\ UNCHANGED <<client, wire, machine, chan, taken, out, faults>>

TakerDrops(s) ==
    /\ server[s].taker = "select" /\ server[s].handler \in {"close", "back"}
    /\ server' = [server EXCEPT ![s].taker = "done", ![s].to = NoStream, ![s].held = <<>>]
    /\ UNCHANGED <<client, wire, machine, chan, taken, out, faults>>

\* Mutant: the handler does not wait for its sender.
HandlerLeaves(s) ==
    /\ server[s].handler = "close"
    /\ server' = [server EXCEPT ![s].handler = "back"]
    /\ chan' = IF s \in Watch THEN chan ELSE [chan EXCEPT ![QueryOf(s)] = NoStream]
    /\ wire' = [wire EXCEPT ![s].end = IF server[s].err THEN "status" ELSE "eof"]
    /\ client' = IF s \notin Local THEN client
                 ELSE [client EXCEPT ![s].call = IF server[s].err THEN "error" ELSE "ok"]
    /\ UNCHANGED <<machine, taken, out, faults>>

\* The handler has closed done and its sender has ended; the query is released.
HandlerReturns(s) ==
    /\ server[s].handler = "close" /\ server[s].relay = "done"
    /\ server' = [server EXCEPT ![s].handler = "back"]
    /\ chan' = IF s \in Watch THEN chan ELSE [chan EXCEPT ![QueryOf(s)] = NoStream]
    /\ wire' = [wire EXCEPT ![s].end = IF server[s].err THEN "status" ELSE "eof"]
    /\ client' = IF s \notin Local THEN client
                 ELSE [client EXCEPT ![s].call = IF server[s].err THEN "error" ELSE "ok"]
    /\ UNCHANGED <<machine, taken, out, faults>>

ServerStep(s) ==
    \/ Accept(s) \/ AcceptFails(s) \/ ReadStarts(s) \/ RelaySends(s) \/ RelayDone(s)
    \/ TakerEnds(s) \/ TakerSelects(s) \/ TakerDrops(s) \/ HandlerReturns(s)
-----------------------------------------------------------------------------
(* The state machine, which the shim calls, the user and the network.       *)

\* It receives what any receiver sends to its channel.
MachineTakes(s, t) ==
    /\ machine[s].pc = "run" /\ server[t].taker = "select" /\ server[t].to = s
    /\ machine' = [machine EXCEPT ![s].got = Append(@, server[t].held)]
    /\ server' = [server EXCEPT ![t].taker = "recv", ![t].to = NoStream, ![t].held = <<>>]
    /\ UNCHANGED <<client, wire, chan, taken, out, faults>>

MachineSends(s) ==
    /\ machine[s].pc = "run" /\ server[s].relay = "wait" /\ machine[s].made < MaxOut
    /\ machine' = [machine EXCEPT ![s].made = @ + 1]
    /\ server' = [server EXCEPT ![s].relay = "send", ![s].item = machine[s].made + 1]
    /\ UNCHANGED <<client, wire, chan, taken, out, faults>>

MachineEnds(s) ==
    /\ machine[s].pc = "run"
    /\ machine' = [machine EXCEPT ![s].pc = "end"]
    /\ server' = [server EXCEPT ![s].handler = "close"]
    /\ UNCHANGED <<client, wire, chan, taken, out, faults>>

Cancel(u) ==
    /\ \E s \in Range(Attempts[u]) : client[s].call = "run" /\ ~wire[s].cut
    /\ wire' = [s \in Stream |-> IF s \in Range(Attempts[u])
                                  THEN Severed(s) ELSE wire[s]]
    /\ UNCHANGED <<client, server, machine, chan, taken, out, faults>>

Cut(s) ==
    /\ client[s].call = "run" /\ s \notin Local /\ ~wire[s].cut /\ Fault
    /\ wire' = [wire EXCEPT ![s] = Severed(s)]
    /\ UNCHANGED <<client, server, machine, chan, taken, out>>

-----------------------------------------------------------------------------

Init ==
    /\ client = [s \in Stream |-> [call |-> "idle", sender |-> "off", receiver |-> "off",
                                   item |-> 0, done |-> FALSE]]
    /\ wire = [s \in Stream |-> [up |-> <<>>, down |-> <<>>, end |-> "open", cut |-> FALSE]]
    /\ server = [s \in Stream |-> [handler |-> "none", err |-> FALSE, relay |-> "off", item |-> 0,
                                   taker |-> "off", held |-> <<>>, to |-> NoStream, query |-> 0]]
    /\ machine = [s \in Stream |-> [pc |-> "off", got |-> <<>>, made |-> 0]]
    /\ chan = [x \in {Server[s] : s \in Stream} \X Query |-> NoStream]
    /\ taken = [u \in User |-> 0]
    /\ out = [s \in Stream |-> <<>>]
    /\ faults = 0

StreamStep(s) ==
    \/ ClientStep(s) \/ ServerStep(s)
    \/ Start(s) \/ StartFails(s) \/ SenderTakes(s) \/ TakerTakes(s) \/ ReadFails(s)
    \/ MachineSends(s) \/ MachineEnds(s) \/ Cut(s)
    \/ \E t \in Stream : MachineTakes(s, t)

Next == (\E s \in Stream : StreamStep(s)) \/ \E u \in User : Cancel(u)

\* The goroutines run, the user reads the results, and the state machine returns once
\* its context is done.  Steps are finitely many, so that one condition for all of them
\* leaves none of them out.
Running(s) == ClientStep(s) \/ ServerStep(s) \/ (wire[s].cut /\ MachineEnds(s))
Fairness == WF_vars(\E s \in Stream : Running(s))

Spec == Init /\ [][Next]_vars
FairSpec == Spec /\ Fairness

-----------------------------------------------------------------------------
(* Properties.                                                              *)

\* Types; and the query of a stream whose handler runs has the stream's own channel.
TypeOK ==
    /\ \A s \in Stream :
         /\ client[s].call \in {"idle", "run", "ok", "error", "panic"}
         /\ client[s].sender \in {"off", "wait", "done"}
         /\ client[s].receiver \in {"off", "recv", "out", "done"}
         /\ wire[s].end \in {"open", "eof", "status"} /\ wire[s].cut \in BOOLEAN
         /\ server[s].handler \in {"none", "first", "start", "run", "close", "back"}
         /\ server[s].relay \in {"off", "wait", "send", "done"}
         /\ server[s].taker \in {"off", "recv", "hold", "select", "done"}
         /\ server[s].to \in Stream \cup {NoStream}
         /\ machine[s].pc \in {"off", "run", "end"} /\ machine[s].made \in 0..MaxOut
    /\ \A s \in Stream \ Watch :
         server[s].handler \in {"start", "run", "close"} => chan[QueryOf(s)] = s
    /\ taken \in [User -> 0..MaxIn] /\ faults \in 0..MaxFaults

\* The results arrive in the order the state machine has sent them, none twice and none
\* skipped; and a call that returns because the handler has ended without an error, and
\* that nothing has cut, has delivered all of them.
ResultsInOrder ==
    \A s \in Stream :
        /\ \A i \in DOMAIN out[s] : i < Len(out[s]) => out[s][i] < out[s][i + 1]
        /\ ~wire[s].cut => out[s] = [i \in 1..Len(out[s]) |-> i]
        /\ client[s].call = "ok" /\ wire[s].end = "eof" /\ ~wire[s].cut =>
              Len(out[s]) = machine[s].made

\* An input reaches one state machine at most, and at most once.  The state machine receives
\* the inputs of its user in their order, and one that is another's or out of order only when
\* another stream of its user at the same host has returned: its receiver may find the query,
\* which the handler has released, in use again.
InputsInOrder ==
    \A s \in Stream : \A i \in DOMAIN machine[s].got :
        LET m == machine[s].got[i]
        IN  /\ \A t \in Stream : \A j \in DOMAIN machine[t].got :
                  machine[t].got[j] = m => t = s /\ j = i
            /\ \/ /\ m.user = UserOf[s]
                  /\ \A j \in 1..(i - 1) :
                        machine[s].got[j].user = m.user => machine[s].got[j].n < m.n
               \/ \E t \in Range(Attempts[m.user]) \ {s} :
                     server[t].handler = "back" /\ Server[t] = Server[s]

\* The shard client goes on with another host only when nothing has come of the stream at
\* the first: the state machine there has received no input and the user no result.
RetriedUnstarted ==
    \A s \in Stream : client[s].call = "error" =>
        out[s] = <<>> /\ machine[s].got = <<>> /\ machine[s].made = 0

\* A stream at another host whose handler has ended without an error returns.
StreamReturns ==
    <>[](\A s \in Stream \ Local :
            wire[s].end = "eof" /\ ~wire[s].cut => client[s].call = "ok")

\* A handler returns once its stream is cut or its read has failed, whatever its
\* goroutines are doing, and a stream of the own host returns with it.
HandlerEnds ==
    <>[](\A s \in Stream :
            wire[s].cut \/ server[s].err =>
                /\ server[s].handler \in {"none", "back"}
                /\ s \in Local => client[s].call # "run")
=============================================================================

----------------------------- MODULE NetClient -----------------------------
(***************************************************************************)
(* The request/response client of the baseline loader (follower/sync,      *)
(* netclient.go): any number of callers, each in SendSyncedAppRequestAny;  *)
(* the goroutines of the network that bring answers; the caps on requests  *)
(* in flight, in all and per peer.                                         *)
(*                                                                         *)
(* External: peers come and go; a peer that got a request may answer it    *)
(* late, more than once or never.  A caller's context may end at any time. *)
(***************************************************************************)
EXTENDS Integers, FiniteSets

CONSTANTS
    Caller, Peer,
    Limits,       \* NewNetClient: [inflight, perPeer]
    IdBits,       \* width of a request id; 32
    MaxReq,       \* bound: requests sent
    Copies        \* bound: answers to one request

Ids == 2^IdBits

(* No answer is as late as 2^31 requests, so the id has not come round. *)
ASSUME ClientAssumption ==
    /\ IsFiniteSet(Caller) /\ "none" \notin Peer
    /\ Limits \subseteq [inflight : Nat \ {0}, perPeer : Nat \ {0}] /\ Copies \in Nat
    /\ Ids \in Nat /\ MaxReq \in Nat \ {0} /\ 2 * MaxReq < Ids

VARIABLES
    limits,       \* the capacity of sem, and of every peer
    connected,    \* handler.connected
    outstanding,  \* per peer
    bad,          \* peers whose badUntil is not over
    sem,          \* slots taken
    reqID,        \* the requests so far; they are known by their number
    pending,      \* request id -> whose channel, or Nobody
    chan,         \* the reply in each request's channel, or NoReply
    taken,        \* OnAppResponse between the unlock and the send
    asked,        \* external: request -> answers that may still come
    call          \* the callers: [pc, peer, req, got]

clientVars == <<limits, connected, outstanding, bad, sem, reqID, pending, chan, taken, asked, call>>

Request == 1..MaxReq
Nobody == 0
NoReply == [to |-> Nobody, failed |-> FALSE]

(* A caller that is not in a call. *)
Out == [pc |-> "out", peer |-> "none", req |-> Nobody, got |-> NoReply]

(* Mutant: the id is rounded up to an even one. *)
IdRounded(n) == (n + (n % 2)) % Ids

Id(n) == (n * 2) % Ids

At(c, pc) == call[c].pc = pc

Goto(c, pc) == call' = [call EXCEPT ![c].pc = pc]
-----------------------------------------------------------------------------
(* SendSyncedAppRequestAny *)

Spare == {p \in connected : outstanding[p] < limits.perPeer}

(* pickPeer: a healthy peer, else one that is cooling down. *)
Eligible == IF Spare \ bad # {} THEN Spare \ bad ELSE Spare

(* Without a peer the call returns at once. *)
PickPeer(c) ==
    /\ At(c, "out")
    /\ \E p \in Eligible :
         /\ outstanding' = [outstanding EXCEPT ![p] = @ + 1]
         /\ call' = [call EXCEPT ![c] = [Out EXCEPT !.pc = "queue", !.peer = p]]
    /\ UNCHANGED <<limits, connected, bad, sem, reqID, pending, chan, taken, asked>>

(* The semaphore, then the id and the channel. *)
Admit(c) ==
    /\ At(c, "queue") /\ sem < limits.inflight /\ reqID < MaxReq
    /\ sem' = sem + 1 /\ reqID' = reqID + 1
    /\ pending' = [pending EXCEPT ![Id(reqID + 1)] = reqID + 1]
    /\ call' = [call EXCEPT ![c].pc = "send", ![c].req = reqID + 1]
    /\ UNCHANGED <<limits, connected, outstanding, bad, chan, taken, asked>>

(* The context ends in the queue: nothing but the peer is held. *)
GiveUp(c) ==
    /\ At(c, "queue")
    /\ Goto(c, "release")
    /\ UNCHANGED <<limits, connected, outstanding, bad, sem, reqID, pending, chan, taken, asked>>

(* A peer that has gone is not an error, the message is dropped. *)
Send(c) ==
    /\ At(c, "send")
    /\ asked' = [asked EXCEPT ![call[c].req] = IF call[c].peer \in connected THEN Copies ELSE 0]
    /\ Goto(c, "wait")
    /\ UNCHANGED <<limits, connected, outstanding, bad, sem, reqID, pending, chan, taken>>

(* The message cannot be built. *)
SendFails(c) ==
    /\ At(c, "send")
    /\ Goto(c, "forget")
    /\ UNCHANGED <<limits, connected, outstanding, bad, sem, reqID, pending, chan, taken, asked>>

Receive(c) ==
    /\ At(c, "wait") /\ chan[call[c].req] # NoReply
    /\ call' = [call EXCEPT ![c].pc = "forget", ![c].got = chan[call[c].req]]
    /\ chan' = [chan EXCEPT ![call[c].req] = NoReply]
    /\ UNCHANGED <<limits, connected, outstanding, bad, sem, reqID, pending, taken, asked>>

(* The timer or the context; an answer may be in the channel already. *)
Abandon(c) ==
    /\ At(c, "wait")
    /\ \E failed \in BOOLEAN :
         call' = [call EXCEPT ![c].pc = "forget", ![c].got = [NoReply EXCEPT !.failed = failed]]
    /\ UNCHANGED <<limits, connected, outstanding, bad, sem, reqID, pending, chan, taken, asked>>

(* The deferred functions, in their order. *)
Forget(c) ==
    /\ At(c, "forget")
    /\ pending' = [pending EXCEPT ![Id(call[c].req)] = Nobody]
    /\ Goto(c, "leave")
    /\ UNCHANGED <<limits, connected, outstanding, bad, sem, reqID, chan, taken, asked>>

Leave(c) ==
    /\ At(c, "leave")
    /\ sem' = sem - 1
    /\ Goto(c, IF call[c].got.failed THEN "blame" ELSE "release")
    /\ UNCHANGED <<limits, connected, outstanding, bad, reqID, pending, chan, taken, asked>>

(* A timeout or an AppError keeps the peer out of rotation for a while. *)
Blame(c) ==
    /\ At(c, "blame")
    /\ bad' = bad \cup {call[c].peer}
    /\ Goto(c, "release")
    /\ UNCHANGED <<limits, connected, outstanding, sem, reqID, pending, chan, taken, asked>>

(* Mutant: the peer's entry is deleted whatever its count. *)
ReleaseDeletes(p) == [outstanding EXCEPT ![p] = 0]

(* releasePeer: a count of one is deleted. *)
Released(p) == [outstanding EXCEPT ![p] = IF @ <= 1 THEN 0 ELSE @ - 1]

ReleasePeer(c) ==
    /\ At(c, "release")
    /\ outstanding' = Released(call[c].peer)
    /\ call' = [call EXCEPT ![c] = Out]
    /\ chan' = IF call[c].req = Nobody THEN chan ELSE [chan EXCEPT ![call[c].req] = NoReply]
    /\ UNCHANGED <<limits, connected, bad, sem, reqID, pending, taken, asked>>
-----------------------------------------------------------------------------
(* OnAppResponse *)

(* Mutant: the entry stays until its call returns. *)
TakenKeeps(id) == pending

(* The entry goes with the first answer. *)
Taken(id) == [pending EXCEPT ![id] = Nobody]

(* An answer, or an AppError, arrives: who waits under its id? *)
LookUp(n, failed) ==
    /\ asked[n] > 0
    /\ asked' = [asked EXCEPT ![n] = @ - 1]
    /\ LET owner == pending[Id(n)]
       IN  taken' = taken \cup {t \in {[owner |-> owner, copy |-> asked[n],
                                       reply |-> [to |-> n, failed |-> failed]]} :
                                owner # Nobody}
    /\ pending' = Taken(Id(n))
    /\ UNCHANGED <<limits, connected, outstanding, bad, sem, reqID, chan, call>>

(* The channel holds one reply; the send waits while it is full.  The      *)
(* channel of a call that has returned is garbage, what it holds is lost.  *)
Deliver(t) ==
    /\ chan[t.owner] = NoReply
    /\ chan' = IF \E c \in Caller : call[c].req = t.owner
               THEN [chan EXCEPT ![t.owner] = t.reply] ELSE chan
    /\ taken' = taken \ {t}
    /\ UNCHANGED <<limits, connected, outstanding, bad, sem, reqID, pending, asked, call>>
-----------------------------------------------------------------------------
(* handler.Connected and Disconnected; the end of a cooldown. *)
Connect(p) ==
    /\ p \notin connected
    /\ connected' = connected \cup {p}
    /\ UNCHANGED <<limits, outstanding, bad, sem, reqID, pending, chan, taken, asked, call>>

Disconnect(p) ==
    /\ p \in connected
    /\ connected' = connected \ {p}
    /\ UNCHANGED <<limits, outstanding, bad, sem, reqID, pending, chan, taken, asked, call>>

CooledDown(p) ==
    /\ p \in bad
    /\ bad' = bad \ {p}
    /\ UNCHANGED <<limits, connected, outstanding, sem, reqID, pending, chan, taken, asked, call>>
-----------------------------------------------------------------------------
ClientInit ==
    /\ limits \in Limits
    /\ connected = Peer /\ outstanding = [p \in Peer |-> 0] /\ bad = {}
    /\ sem = 0 /\ reqID = 0
    /\ pending = [id \in 0..(Ids - 1) |-> Nobody]
    /\ chan = [n \in Request |-> NoReply] /\ taken = {}
    /\ asked = [n \in Request |-> 0]
    /\ call = [c \in Caller |-> Out]

CallStep(c) ==
    \/ PickPeer(c) \/ Admit(c) \/ GiveUp(c) \/ Send(c) \/ SendFails(c)
    \/ Receive(c) \/ Abandon(c)
    \/ Forget(c) \/ Leave(c) \/ Blame(c) \/ ReleasePeer(c)

ClientNext ==
    \/ \E c \in Caller : CallStep(c)
    \/ \E n \in Request, failed \in BOOLEAN : LookUp(n, failed)
    \/ \E t \in taken : Deliver(t)
    \/ \E p \in Peer : Connect(p) \/ Disconnect(p) \/ CooledDown(p)

ClientSpec == ClientInit /\ [][ClientNext]_clientVars
-----------------------------------------------------------------------------
(***************************************************************************)
(* "OnAppResponse routes an AppResponse / AppError to its waiting request":*)
(* what a call returns answers its own request, whatever answers to        *)
(* requests given up before are still on their way.                        *)
(***************************************************************************)
AnswersItsRequest ==
    \A c \in Caller : call[c].got.to \in {Nobody, call[c].req}

(***************************************************************************)
(* OnAppResponse never waits on a channel, which would stop the network    *)
(* goroutine it runs in: whoever has looked a channel up is alone with it  *)
(* and finds it empty, also when a request is answered twice.              *)
(***************************************************************************)
ReplyNeverWaits ==
    \A t \in taken :
      chan[t.owner] = NoReply /\ \A u \in taken : u.owner = t.owner => u = t

In(pcs) == {c \in Caller : call[c].pc \in pcs}

(***************************************************************************)
(* Nothing leaks: the semaphore counts the calls between Admit and Leave,  *)
(* a peer's count is the number of calls that hold it and never above its  *)
(* limit, and an entry of the pending table belongs to a call that has     *)
(* not returned, on whichever of the paths a call ends.                    *)
(***************************************************************************)
ClientAccounted ==
    /\ sem = Cardinality(In({"send", "wait", "forget", "leave"})) /\ sem <= limits.inflight
    /\ \A p \in Peer :
         /\ outstanding[p] = Cardinality({c \in Caller : call[c].peer = p})
         /\ outstanding[p] <= limits.perPeer
    /\ \A id \in DOMAIN pending :
         pending[id] # Nobody =>
           \E c \in In({"send", "wait", "forget"}) :
             call[c].req = pending[id] /\ Id(call[c].req) = id
=============================================================================

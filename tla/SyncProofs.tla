----------------------------- MODULE SyncProofs -----------------------------
(***************************************************************************)
(* Proofs about the loader's two halves in package follower/sync: the      *)
(* client that asks the peers (NetClient), for any number of callers,      *)
(* peers and requests, any limits and any number of late or repeated       *)
(* answers; and the walk over a storage trie (StorageWalk), for any        *)
(* keyspace, any trie, any number of sub-ranges and any stops.             *)
(***************************************************************************)
EXTENDS NetClient, StorageWalk, FiniteSetTheorems, WellFoundedInduction, TLAPS

\* A minute for each leaf: the default of five seconds is short for a large module.
USE ZenonT(60)

(***************************************************************************)
(* The client.                                                             *)
(***************************************************************************)
Reply == [to : 0..MaxReq, failed : BOOLEAN]

CallRecord ==
    [pc : {"out", "queue", "send", "wait", "forget", "leave", "blame", "release"},
     peer : Peer \cup {"none"}, req : 0..MaxReq, got : Reply]

ClientTypeOK ==
    /\ limits \in [inflight : Nat \ {0}, perPeer : Nat \ {0}]
    /\ connected \subseteq Peer /\ outstanding \in [Peer -> Nat]
    /\ sem \in Nat /\ reqID \in 0..MaxReq
    /\ pending \in [0..(Ids - 1) -> 0..MaxReq]
    /\ chan \in [Request -> Reply]
    /\ taken \subseteq [owner : Request, copy : Nat, reply : Reply]
    /\ asked \in [Request -> Nat]
    /\ call \in [Caller -> CallRecord]

(* What a call holds at each point, when n requests have been made. *)
GoodCall(r, n) ==
    /\ r.pc = "out" => r = Out
    /\ r.pc # "out" => r.peer \in Peer
    /\ r.pc = "queue" => r.req = Nobody /\ r.got = NoReply
    /\ r.pc \in {"send", "wait", "forget", "leave", "blame"} => r.req # Nobody
    /\ r.req <= n
    /\ r.got.to \in {Nobody, r.req}

(* No two calls have the same request. *)
CallsInv ==
    /\ \A c \in Caller : GoodCall(call[c], reqID)
    /\ \A c, d \in Caller : call[c].req = call[d].req /\ call[c].req # Nobody => c = d

Owning == In({"send", "wait", "forget"})

(* An entry of pending belongs to the call that made it and has not gone. *)
PendingInv ==
    \A id \in 0..(Ids - 1) : pending[id] # Nobody =>
      \E c \in Owning : call[c].req = pending[id] /\ Id(call[c].req) = id

(***************************************************************************)
(* A request has one reply on its way to the caller at most: its entry in  *)
(* pending, or one goroutine past the lookup, or the channel.              *)
(***************************************************************************)
TakenInv ==
    /\ \A t \in taken :
         /\ t.owner = t.reply.to /\ t.owner <= reqID
         /\ pending[Id(t.owner)] = Nobody /\ chan[t.owner] = NoReply
    /\ \A t, u \in taken : t.owner = u.owner => t = u

ChanInv ==
    \A n \in Request : chan[n] # NoReply =>
      chan[n].to = n /\ n <= reqID /\ pending[Id(n)] = Nobody

Admitted == In({"send", "wait", "forget", "leave"})
Holding(p) == {c \in Caller : call[c].peer = p}

(* The semaphore and the count of each peer are numbers of calls. *)
SemInv == sem = Cardinality(Admitted) /\ sem <= limits.inflight

PeersInv ==
    \A p \in Peer :
      outstanding[p] = Cardinality(Holding(p)) /\ outstanding[p] <= limits.perPeer

ClientInv ==
    /\ ClientTypeOK /\ CallsInv /\ PendingInv /\ TakenInv /\ ChanInv
    /\ SemInv /\ PeersInv
-----------------------------------------------------------------------------
(* No request of a behaviour shares its id with another one. *)
LEMMA IdFacts ==
    /\ \A n \in 0..MaxReq : Id(n) = 2 * n /\ Id(n) \in 0..(Ids - 1)
    /\ \A m, n \in 0..MaxReq : Id(m) = Id(n) => m = n
<1>1. Ids \in Nat /\ MaxReq \in Nat /\ 2 * MaxReq < Ids
  BY ClientAssumption
<1>2. ASSUME NEW n \in 0..MaxReq PROVE Id(n) = 2 * n /\ Id(n) \in 0..(Ids - 1)
  <2>1. n * 2 \in 0..(Ids - 1)
    BY <1>1, SMTT(60)
  <2>2. (n * 2) % Ids = n * 2
    BY <1>1, <2>1, SMTT(60)
  <2> QED BY <1>1, <2>1, <2>2, SMTT(60) DEF Id
<1> QED BY <1>2, SMTT(60)

(* One caller more in a set of callers, or one less. *)
LEMMA CountJoins ==
  ASSUME NEW S \in SUBSET Caller, NEW c \in Caller, c \notin S
  PROVE  Cardinality(S) \in Nat /\ Cardinality(S \cup {c}) = Cardinality(S) + 1
<1>1. IsFiniteSet(S)
  BY ClientAssumption, FS_Subset
<1> QED BY <1>1, FS_AddElement, FS_CardinalityType

LEMMA CountLeaves ==
  ASSUME NEW S \in SUBSET Caller, NEW c \in S
  PROVE  /\ Cardinality(S) \in Nat \ {0}
         /\ Cardinality(S \ {c}) \in Nat /\ Cardinality(S \ {c}) = Cardinality(S) - 1
<1>1. IsFiniteSet(S) /\ IsFiniteSet(S \ {c})
  BY ClientAssumption, FS_Subset
<1>2. Cardinality(S) \in Nat /\ Cardinality(S \ {c}) \in Nat
  BY <1>1, FS_CardinalityType
<1> QED BY <1>1, <1>2, FS_RemoveElement, SMTT(60)


(***************************************************************************)
(* The caller c goes on with r: what the invariants of the calls need.     *)
(***************************************************************************)
Becomes(c, r) == c \in Caller /\ r \in CallRecord /\ call' = [call EXCEPT ![c] = r]

LEMMA CallOf ==
  ASSUME ClientInv, NEW c, NEW r, Becomes(c, r)
  PROVE  /\ call'[c] = r /\ \A d \in Caller \ {c} : call'[d] = call[d]
         /\ call' \in [Caller -> CallRecord] /\ call[c] \in CallRecord
         /\ GoodCall(call[c], reqID)
BY DEF Becomes, ClientInv, ClientTypeOK, CallsInv

LEMMA CallsKept ==
  ASSUME ClientInv, NEW c, NEW r, Becomes(c, r), GoodCall(r, reqID'),
         r.req = Nobody \/ r.req = call[c].req \/ r.req = reqID + 1,
         reqID' \in {reqID, reqID + 1}
  PROVE  CallsInv'
<1>1. reqID \in Nat /\ \A d \in Caller : call[d].req \in Nat
  BY SMTT(60) DEF ClientInv, ClientTypeOK, CallRecord
<1>2. ASSUME NEW d \in Caller PROVE GoodCall(call'[d], reqID')
  <2>1. CASE d = c
    BY <2>1, CallOf
  <2>2. CASE d # c
    <3>1. call'[d] = call[d] /\ GoodCall(call[d], reqID)
      BY <2>2, CallOf DEF ClientInv, CallsInv
    <3> QED BY <1>1, <3>1, SMTT(60) DEF GoodCall
  <2> QED BY <2>1, <2>2
<1>3. ASSUME NEW d \in Caller, d # c, r.req # Nobody PROVE call'[d].req # r.req
  <2>1. call'[d] = call[d] /\ call[d].req <= reqID /\ c \in Caller
    BY <1>3, CallOf DEF ClientInv, CallsInv, GoodCall, Becomes
  <2>2. CASE r.req = reqID + 1
    BY <1>1, <2>1, <2>2, SMTT(60)
  <2>3. CASE r.req = call[c].req
    BY <1>3, <2>1, <2>3 DEF ClientInv, CallsInv
  <2> QED BY <1>3, <2>2, <2>3
<1>4. \A d \in Caller : d # c => call'[d].req = call[d].req
  BY CallOf
<1>5. ASSUME NEW d \in Caller, NEW e \in Caller,
             call'[d].req = call'[e].req, call'[d].req # Nobody
      PROVE  d = e
  <2>1. CASE d = c
    BY <1>3, <1>5, <2>1, CallOf
  <2>2. CASE e = c
    BY <1>3, <1>5, <2>2, CallOf
  <2>3. CASE d # c /\ e # c
    BY <1>4, <1>5, <2>3 DEF ClientInv, CallsInv
  <2> QED BY <2>1, <2>2, <2>3
<1> QED BY <1>2, <1>5 DEF CallsInv

(* Entries of pending only go, and c does not give up its own. *)
LEMMA PendingKept ==
  ASSUME ClientInv, NEW c, NEW r, Becomes(c, r),
         call[c].pc \in {"send", "wait", "forget"} =>
           r.pc \in {"send", "wait", "forget"} /\ r.req = call[c].req,
         \A id \in 0..(Ids - 1) : pending'[id] \in {Nobody, pending[id]}
  PROVE  PendingInv'
<1> SUFFICES ASSUME NEW id \in 0..(Ids - 1), pending'[id] # Nobody
             PROVE  \E d \in Owning' : call'[d].req = pending'[id] /\ Id(call'[d].req) = id
  BY DEF PendingInv
<1>1. pending'[id] = pending[id]
  OBVIOUS
<1>2. PICK d \in Owning : call[d].req = pending[id] /\ Id(call[d].req) = id
  BY <1>1 DEF ClientInv, PendingInv
<1>3. d \in Caller /\ call[d].pc \in {"send", "wait", "forget"}
  BY DEF Owning, In
<1>4. call'[d].req = call[d].req /\ call'[d].pc \in {"send", "wait", "forget"}
  BY <1>3, CallOf, SMTT(60)
<1>5. d \in Owning'
  BY <1>3, <1>4 DEF Owning, In
<1> QED BY <1>1, <1>2, <1>4, <1>5

(* Entries of pending, replies looked up and replies in channels only go. *)
LEMMA RepliesKept ==
  ASSUME ClientInv, taken' \subseteq taken, reqID' \in {reqID, reqID + 1},
         \A n \in Request : chan'[n] \in {NoReply, chan[n]},
         \A n \in Request : n <= reqID => pending'[Id(n)] \in {Nobody, pending[Id(n)]}
  PROVE  TakenInv' /\ ChanInv'
<1>1. reqID \in Nat /\ taken \subseteq [owner : Request, copy : Nat, reply : Reply]
  BY SMTT(60) DEF ClientInv, ClientTypeOK
<1>2. Request \subseteq Nat
  BY ClientAssumption, SMTT(60) DEF Request
<1>3. ASSUME NEW t \in taken'
      PROVE  /\ t.owner = t.reply.to /\ t.owner <= reqID'
             /\ pending'[Id(t.owner)] = Nobody /\ chan'[t.owner] = NoReply
  <2>1. t \in taken /\ t.owner \in Request
    BY <1>1
  <2>2. /\ t.owner = t.reply.to /\ t.owner <= reqID
        /\ pending[Id(t.owner)] = Nobody /\ chan[t.owner] = NoReply
    BY <2>1 DEF ClientInv, TakenInv
  <2>3. t.owner <= reqID'
    <3>1. t.owner \in Nat
      BY <1>2, <2>1
    <3>2. reqID' \in Nat /\ reqID <= reqID'
      BY <1>1, SMTT(60)
    <3> QED BY <1>1, <2>2, <3>1, <3>2, SMTT(60)
  <2>4. pending'[Id(t.owner)] = Nobody
    BY <2>1, <2>2
  <2>5. chan'[t.owner] = NoReply
    BY <2>1, <2>2
  <2> QED BY <2>2, <2>3, <2>4, <2>5
<1>4. ASSUME NEW n \in Request, chan'[n] # NoReply
      PROVE  chan'[n].to = n /\ n <= reqID' /\ pending'[Id(n)] = Nobody
  <2>1. chan'[n] = chan[n]
    BY <1>4
  <2>2. chan[n].to = n /\ n <= reqID /\ pending[Id(n)] = Nobody
    BY <1>4, <2>1 DEF ClientInv, ChanInv
  <2> QED BY <1>1, <1>2, <2>1, <2>2, SMTT(60)
<1> QED BY <1>3, <1>4 DEF TakenInv, ChanInv, ClientInv

SlotPcs == {"send", "wait", "forget", "leave"}

LEMMA SemKept ==
  ASSUME ClientInv, NEW c, NEW r, Becomes(c, r),
         call[c].pc \in SlotPcs <=> r.pc \in SlotPcs,
         UNCHANGED <<sem, limits>>
  PROVE  SemInv'
<1>1. Admitted' = Admitted
  BY CallOf, SMTT(60) DEF Admitted, In, SlotPcs
<1> QED BY <1>1 DEF ClientInv, SemInv

LEMMA PeersKept ==
  ASSUME ClientInv, NEW c, NEW r, Becomes(c, r), r.peer = call[c].peer,
         UNCHANGED <<outstanding, limits>>
  PROVE  PeersInv'
<1>1. ASSUME NEW p PROVE Holding(p)' = Holding(p)
  BY CallOf DEF Holding
<1> QED BY <1>1 DEF ClientInv, PeersInv
-----------------------------------------------------------------------------
(* The steps of a call. *)

(* The context ends in the queue. *)
LEMMA GiveUpKeeps ==
  ASSUME ClientInv, NEW c \in Caller, GiveUp(c)
  PROVE  ClientInv'
<1>1. call[c] \in CallRecord /\ GoodCall(call[c], reqID) /\ reqID \in Nat
  BY SMTT(60) DEF ClientInv, ClientTypeOK, CallsInv
<1>2. PICK r : r = [call[c] EXCEPT !.pc = "release"]
  OBVIOUS
<1>3. /\ r \in CallRecord /\ GoodCall(r, reqID)
      /\ r.pc = "release" /\ r.peer = call[c].peer /\ r.req = call[c].req
  BY <1>1, <1>2 DEF CallRecord, GoodCall, GiveUp, At, Out
<1>4. call' = [call EXCEPT ![c] = r]
  BY <1>2 DEF GiveUp, Goto, ClientInv, ClientTypeOK
<1>5. Becomes(c, r)
  BY <1>3, <1>4 DEF Becomes
<1>6. CallsInv'
  BY <1>3, <1>5, CallsKept DEF GiveUp
<1>7. PendingInv'
  BY <1>3, <1>5, PendingKept DEF GiveUp, At
<1>8. TakenInv' /\ ChanInv'
  BY DEF GiveUp, ClientInv, TakenInv, ChanInv
<1>9. SemInv'
  BY <1>3, <1>5, SemKept DEF GiveUp, At, SlotPcs
<1>10. PeersInv'
  BY <1>3, <1>5, PeersKept DEF GiveUp
<1>11. ClientTypeOK'
  BY <1>5, CallOf DEF GiveUp, ClientInv, ClientTypeOK
<1> QED BY <1>6, <1>7, <1>8, <1>9, <1>10, <1>11 DEF ClientInv

(* The request goes out, or is dropped with its peer. *)
LEMMA SendKeeps ==
  ASSUME ClientInv, NEW c \in Caller, Send(c)
  PROVE  ClientInv'
<1>1. call[c] \in CallRecord /\ GoodCall(call[c], reqID) /\ reqID \in Nat
  BY SMTT(60) DEF ClientInv, ClientTypeOK, CallsInv
<1>2. PICK r : r = [call[c] EXCEPT !.pc = "wait"]
  OBVIOUS
<1>3. /\ r \in CallRecord /\ GoodCall(r, reqID)
      /\ r.pc = "wait" /\ r.peer = call[c].peer /\ r.req = call[c].req
  BY <1>1, <1>2 DEF CallRecord, GoodCall, Send, At, Out
<1>4. call' = [call EXCEPT ![c] = r]
  BY <1>2 DEF Send, Goto, ClientInv, ClientTypeOK
<1>5. Becomes(c, r)
  BY <1>3, <1>4 DEF Becomes
<1>6. CallsInv'
  BY <1>3, <1>5, CallsKept DEF Send
<1>7. PendingInv'
  BY <1>3, <1>5, PendingKept DEF Send, At
<1>8. TakenInv' /\ ChanInv'
  BY DEF Send, ClientInv, TakenInv, ChanInv
<1>9. SemInv'
  BY <1>3, <1>5, SemKept DEF Send, At, SlotPcs
<1>10. PeersInv'
  BY <1>3, <1>5, PeersKept DEF Send
<1>11. ClientTypeOK'
  <2>1. asked' \in [Request -> Nat]
    BY ClientAssumption DEF Send, ClientInv, ClientTypeOK
  <2> QED BY <1>5, <2>1, CallOf DEF Send, ClientInv, ClientTypeOK
<1> QED BY <1>6, <1>7, <1>8, <1>9, <1>10, <1>11 DEF ClientInv

(* The request cannot be built. *)
LEMMA SendFailsKeeps ==
  ASSUME ClientInv, NEW c \in Caller, SendFails(c)
  PROVE  ClientInv'
<1>1. call[c] \in CallRecord /\ GoodCall(call[c], reqID) /\ reqID \in Nat
  BY SMTT(60) DEF ClientInv, ClientTypeOK, CallsInv
<1>2. PICK r : r = [call[c] EXCEPT !.pc = "forget"]
  OBVIOUS
<1>3. /\ r \in CallRecord /\ GoodCall(r, reqID)
      /\ r.pc = "forget" /\ r.peer = call[c].peer /\ r.req = call[c].req
  BY <1>1, <1>2 DEF CallRecord, GoodCall, SendFails, At, Out
<1>4. call' = [call EXCEPT ![c] = r]
  BY <1>2 DEF SendFails, Goto, ClientInv, ClientTypeOK
<1>5. Becomes(c, r)
  BY <1>3, <1>4 DEF Becomes
<1>6. CallsInv'
  BY <1>3, <1>5, CallsKept DEF SendFails
<1>7. PendingInv'
  BY <1>3, <1>5, PendingKept DEF SendFails, At
<1>8. TakenInv' /\ ChanInv'
  BY DEF SendFails, ClientInv, TakenInv, ChanInv
<1>9. SemInv'
  BY <1>3, <1>5, SemKept DEF SendFails, At, SlotPcs
<1>10. PeersInv'
  BY <1>3, <1>5, PeersKept DEF SendFails
<1>11. ClientTypeOK'
  BY <1>5, CallOf DEF SendFails, ClientInv, ClientTypeOK
<1> QED BY <1>6, <1>7, <1>8, <1>9, <1>10, <1>11 DEF ClientInv

(* The peer is marked bad. *)
LEMMA BlameKeeps ==
  ASSUME ClientInv, NEW c \in Caller, Blame(c)
  PROVE  ClientInv'
<1>1. call[c] \in CallRecord /\ GoodCall(call[c], reqID) /\ reqID \in Nat
  BY SMTT(60) DEF ClientInv, ClientTypeOK, CallsInv
<1>2. PICK r : r = [call[c] EXCEPT !.pc = "release"]
  OBVIOUS
<1>3. /\ r \in CallRecord /\ GoodCall(r, reqID)
      /\ r.pc = "release" /\ r.peer = call[c].peer /\ r.req = call[c].req
  BY <1>1, <1>2 DEF CallRecord, GoodCall, Blame, At, Out
<1>4. call' = [call EXCEPT ![c] = r]
  BY <1>2 DEF Blame, Goto, ClientInv, ClientTypeOK
<1>5. Becomes(c, r)
  BY <1>3, <1>4 DEF Becomes
<1>6. CallsInv'
  BY <1>3, <1>5, CallsKept DEF Blame
<1>7. PendingInv'
  BY <1>3, <1>5, PendingKept DEF Blame, At
<1>8. TakenInv' /\ ChanInv'
  BY DEF Blame, ClientInv, TakenInv, ChanInv
<1>9. SemInv'
  BY <1>3, <1>5, SemKept DEF Blame, At, SlotPcs
<1>10. PeersInv'
  BY <1>3, <1>5, PeersKept DEF Blame
<1>11. ClientTypeOK'
  BY <1>5, CallOf DEF Blame, ClientInv, ClientTypeOK
<1> QED BY <1>6, <1>7, <1>8, <1>9, <1>10, <1>11 DEF ClientInv

(* The timer or the context ends the wait. *)
LEMMA AbandonKeeps ==
  ASSUME ClientInv, NEW c \in Caller, Abandon(c)
  PROVE  ClientInv'
<1>1. call[c] \in CallRecord /\ GoodCall(call[c], reqID) /\ reqID \in Nat
  BY SMTT(60) DEF ClientInv, ClientTypeOK, CallsInv
<1>a. PICK failed \in BOOLEAN :
        call' = [call EXCEPT ![c].pc = "forget", ![c].got = [NoReply EXCEPT !.failed = failed]]
  BY DEF Abandon
<1>b. [NoReply EXCEPT !.failed = failed] \in Reply /\ [NoReply EXCEPT !.failed = failed].to = Nobody
  BY ClientAssumption, SMTT(60) DEF NoReply, Reply, Nobody
<1>2. PICK r : r = [call[c] EXCEPT !.pc = "forget", !.got = [NoReply EXCEPT !.failed = failed]]
  OBVIOUS
<1>3. /\ r \in CallRecord /\ GoodCall(r, reqID)
      /\ r.pc = "forget" /\ r.peer = call[c].peer /\ r.req = call[c].req
  BY <1>1, <1>2, <1>b DEF CallRecord, GoodCall, Abandon, At, Out
<1>4. call' = [call EXCEPT ![c] = r]
  BY <1>2, <1>a DEF ClientInv, ClientTypeOK
<1>5. Becomes(c, r)
  BY <1>3, <1>4 DEF Becomes
<1>6. CallsInv'
  BY <1>3, <1>5, CallsKept DEF Abandon
<1>7. PendingInv'
  BY <1>3, <1>5, PendingKept DEF Abandon, At
<1>8. TakenInv' /\ ChanInv'
  BY DEF Abandon, ClientInv, TakenInv, ChanInv
<1>9. SemInv'
  BY <1>3, <1>5, SemKept DEF Abandon, At, SlotPcs
<1>10. PeersInv'
  BY <1>3, <1>5, PeersKept DEF Abandon
<1>11. ClientTypeOK'
  BY <1>5, CallOf DEF Abandon, ClientInv, ClientTypeOK
<1> QED BY <1>6, <1>7, <1>8, <1>9, <1>10, <1>11 DEF ClientInv

(* The reply is received from the channel of the request. *)
LEMMA ReceiveKeeps ==
  ASSUME ClientInv, NEW c \in Caller, Receive(c)
  PROVE  ClientInv'
<1>1. call[c] \in CallRecord /\ GoodCall(call[c], reqID) /\ reqID \in Nat
  BY SMTT(60) DEF ClientInv, ClientTypeOK, CallsInv
<1>a. call[c].req \in Request
  BY <1>1, ClientAssumption, SMTT(60) DEF Receive, At, GoodCall, CallRecord, Request, Nobody
<1>b. chan[call[c].req] \in Reply /\ chan[call[c].req].to = call[c].req
  BY <1>a DEF Receive, ClientInv, ClientTypeOK, ChanInv
<1>2. PICK r : r = [call[c] EXCEPT !.pc = "forget", !.got = chan[call[c].req]]
  OBVIOUS
<1>3. /\ r \in CallRecord /\ GoodCall(r, reqID)
      /\ r.pc = "forget" /\ r.peer = call[c].peer /\ r.req = call[c].req
  BY <1>1, <1>2, <1>b DEF CallRecord, GoodCall, Receive, At, Out
<1>4. call' = [call EXCEPT ![c] = r]
  BY <1>2 DEF Receive, Goto, ClientInv, ClientTypeOK
<1>5. Becomes(c, r)
  BY <1>3, <1>4 DEF Becomes
<1>6. CallsInv'
  BY <1>3, <1>5, CallsKept DEF Receive
<1>7. PendingInv'
  BY <1>3, <1>5, PendingKept DEF Receive, At
<1>8. TakenInv' /\ ChanInv'
  <2>1. \A n \in Request : chan'[n] \in {NoReply, chan[n]}
    BY DEF Receive, ClientInv, ClientTypeOK
  <2> QED BY <2>1, RepliesKept DEF Receive
<1>9. SemInv'
  BY <1>3, <1>5, SemKept DEF Receive, At, SlotPcs
<1>10. PeersInv'
  BY <1>3, <1>5, PeersKept DEF Receive
<1>11. ClientTypeOK'
  <2>1. chan' \in [Request -> Reply]
    <3>1. NoReply \in Reply
      BY ClientAssumption, SMTT(60) DEF NoReply, Reply, Nobody
    <3> QED BY <3>1 DEF Receive, ClientInv, ClientTypeOK
  <2> QED BY <1>5, <2>1, CallOf DEF Receive, ClientInv, ClientTypeOK
<1> QED BY <1>6, <1>7, <1>8, <1>9, <1>10, <1>11 DEF ClientInv

(* The slot is given back. *)
LEMMA LeaveKeeps ==
  ASSUME ClientInv, NEW c \in Caller, Leave(c)
  PROVE  ClientInv'
<1>1. call[c] \in CallRecord /\ GoodCall(call[c], reqID) /\ reqID \in Nat
  BY SMTT(60) DEF ClientInv, ClientTypeOK, CallsInv
<1>2. PICK r : r = [call[c] EXCEPT !.pc = IF call[c].got.failed THEN "blame" ELSE "release"]
  OBVIOUS
<1>3. /\ r \in CallRecord /\ GoodCall(r, reqID)
      /\ r.pc \in {"blame", "release"} /\ r.peer = call[c].peer /\ r.req = call[c].req
  BY <1>1, <1>2 DEF CallRecord, GoodCall, Leave, At, Out
<1>4. call' = [call EXCEPT ![c] = r]
  BY <1>2 DEF Leave, Goto, ClientInv, ClientTypeOK
<1>5. Becomes(c, r)
  BY <1>3, <1>4 DEF Becomes
<1>6. CallsInv'
  BY <1>3, <1>5, CallsKept DEF Leave
<1>7. PendingInv'
  BY <1>3, <1>5, PendingKept DEF Leave, At
<1>8. TakenInv' /\ ChanInv'
  BY DEF Leave, ClientInv, TakenInv, ChanInv
<1>9. SemInv'
  <2>1. Admitted' = Admitted \ {c} /\ c \in Admitted /\ Admitted \subseteq Caller
    BY <1>3, <1>5, CallOf, SMTT(60) DEF Admitted, In, Leave, At
  <2>2. Cardinality(Admitted') = Cardinality(Admitted) - 1 /\ Cardinality(Admitted) \in Nat
    BY <2>1, CountLeaves
  <2>3. sem = Cardinality(Admitted) /\ sem <= limits.inflight /\ limits.inflight \in Nat
    BY DEF ClientInv, SemInv, ClientTypeOK
  <2>4. sem' = sem - 1 /\ limits' = limits
    BY DEF Leave
  <2> QED BY <2>2, <2>3, <2>4, SMTT(60) DEF SemInv
<1>10. PeersInv'
  BY <1>3, <1>5, PeersKept DEF Leave
<1>11. ClientTypeOK'
  <2>1. c \in Admitted /\ Admitted \subseteq Caller
    BY DEF Admitted, In, Leave, At
  <2>2. sem - 1 \in Nat
    BY <2>1, CountLeaves DEF ClientInv, SemInv
  <2> QED BY <1>5, <2>2, CallOf DEF Leave, ClientInv, ClientTypeOK
<1> QED BY <1>6, <1>7, <1>8, <1>9, <1>10, <1>11 DEF ClientInv

(* The deferred delete of the entry in pending. *)
LEMMA ForgetKeeps ==
  ASSUME ClientInv, NEW c \in Caller, Forget(c)
  PROVE  ClientInv'
<1>1. call[c] \in CallRecord /\ GoodCall(call[c], reqID) /\ reqID \in Nat
  BY SMTT(60) DEF ClientInv, ClientTypeOK, CallsInv
<1>a. call[c].req \in Request /\ Id(call[c].req) \in 0..(Ids - 1)
  BY <1>1, ClientAssumption, IdFacts, SMTT(60) DEF Forget, At, GoodCall, CallRecord, Request, Nobody
<1>b. /\ pending' \in [0..(Ids - 1) -> 0..MaxReq] /\ pending'[Id(call[c].req)] = Nobody
      /\ \A id \in 0..(Ids - 1) : pending'[id] \in {Nobody, pending[id]}
  BY <1>a, ClientAssumption, SMTT(60) DEF Forget, ClientInv, ClientTypeOK, Nobody
<1>2. PICK r : r = [call[c] EXCEPT !.pc = "leave"]
  OBVIOUS
<1>3. /\ r \in CallRecord /\ GoodCall(r, reqID)
      /\ r.pc = "leave" /\ r.peer = call[c].peer /\ r.req = call[c].req
  BY <1>1, <1>2 DEF CallRecord, GoodCall, Forget, At, Out
<1>4. call' = [call EXCEPT ![c] = r]
  BY <1>2 DEF Forget, Goto, ClientInv, ClientTypeOK
<1>5. Becomes(c, r)
  BY <1>3, <1>4 DEF Becomes
<1>6. CallsInv'
  BY <1>3, <1>5, CallsKept DEF Forget
<1>7. PendingInv'
  <2> SUFFICES ASSUME NEW id \in 0..(Ids - 1), pending'[id] # Nobody
               PROVE  \E d \in Owning' : call'[d].req = pending'[id] /\ Id(call'[d].req) = id
    BY DEF PendingInv
  <2>1. pending'[id] = pending[id]
    BY <1>b
  <2>2. PICK d \in Owning : call[d].req = pending[id] /\ Id(call[d].req) = id
    BY <2>1 DEF ClientInv, PendingInv
  <2>3. d # c
    BY <2>2, <1>b
  <2>4. d \in Owning' /\ call'[d] = call[d]
    BY <1>5, <2>3, CallOf, SMTT(60) DEF Owning, In
  <2> QED BY <2>1, <2>2, <2>4
<1>8. TakenInv' /\ ChanInv'
  <2>1. ASSUME NEW n \in Request PROVE pending'[Id(n)] \in {Nobody, pending[Id(n)]}
    <3>1. Id(n) \in 0..(Ids - 1)
      BY IdFacts, ClientAssumption, SMTT(60) DEF Request
    <3> QED BY <1>b, <3>1
  <2> QED BY <2>1, RepliesKept DEF Forget
<1>9. SemInv'
  BY <1>3, <1>5, SemKept DEF Forget, At, SlotPcs
<1>10. PeersInv'
  BY <1>3, <1>5, PeersKept DEF Forget
<1>11. ClientTypeOK'
  BY <1>5, <1>b, CallOf DEF Forget, ClientInv, ClientTypeOK
<1> QED BY <1>6, <1>7, <1>8, <1>9, <1>10, <1>11 DEF ClientInv

(* A call gets a slot, then its request and the id. *)
LEMMA AdmitKeeps ==
  ASSUME ClientInv, NEW c \in Caller, Admit(c)
  PROVE  ClientInv'
<1>1. call[c] \in CallRecord /\ GoodCall(call[c], reqID) /\ reqID \in Nat
  BY SMTT(60) DEF ClientInv, ClientTypeOK, CallsInv
<1>a. reqID + 1 \in Request /\ Id(reqID + 1) \in 0..(Ids - 1) /\ reqID + 1 \in 0..MaxReq
  BY <1>1, ClientAssumption, IdFacts, SMTT(60) DEF Admit, Request
<1>2. PICK r : r = [call[c] EXCEPT !.pc = "send", !.req = reqID + 1]
  OBVIOUS
<1>3. /\ r \in CallRecord /\ GoodCall(r, reqID + 1)
      /\ r.pc = "send" /\ r.peer = call[c].peer /\ r.req = reqID + 1
  <2>1. call[c].pc = "queue" /\ call[c].peer \in Peer /\ call[c].got = NoReply
    BY <1>1 DEF Admit, At, GoodCall
  <2>2. NoReply.to = Nobody
    BY DEF NoReply
  <2>3. r \in CallRecord
    BY <1>1, <1>2, <1>a DEF CallRecord
  <2>4. r.pc = "send" /\ r.peer = call[c].peer /\ r.req = reqID + 1 /\ r.got = NoReply
    BY <1>1, <1>2, <2>1 DEF CallRecord
  <2> QED BY <1>1, <2>1, <2>2, <2>3, <2>4, SMTT(60) DEF GoodCall, Nobody
<1>4. call' = [call EXCEPT ![c] = r]
  BY <1>2 DEF Admit, Goto, ClientInv, ClientTypeOK
<1>5. Becomes(c, r)
  BY <1>3, <1>4 DEF Becomes
<1>6. CallsInv'
  BY <1>3, <1>5, CallsKept DEF Admit
<1>7. PendingInv'
  <2> SUFFICES ASSUME NEW id \in 0..(Ids - 1), pending'[id] # Nobody
               PROVE  \E d \in Owning' : call'[d].req = pending'[id] /\ Id(call'[d].req) = id
    BY DEF PendingInv
  <2>1. CASE id = Id(reqID + 1)
    <3>1. pending'[id] = reqID + 1
      BY <2>1 DEF Admit, ClientInv, ClientTypeOK
    <3>2. c \in Owning' /\ call'[c].req = reqID + 1
      BY <1>3, <1>5, CallOf, SMTT(60) DEF Owning, In
    <3> QED BY <2>1, <3>1, <3>2
  <2>2. CASE id # Id(reqID + 1)
    <3>1. pending'[id] = pending[id]
      BY <2>2 DEF Admit, ClientInv, ClientTypeOK
    <3>2. PICK d \in Owning : call[d].req = pending[id] /\ Id(call[d].req) = id
      BY <3>1 DEF ClientInv, PendingInv
    <3>3. d # c
      BY DEF Owning, In, Admit, At
    <3>4. d \in Owning' /\ call'[d] = call[d]
      BY <1>5, <3>3, CallOf, SMTT(60) DEF Owning, In
    <3> QED BY <3>1, <3>2, <3>4
  <2> QED BY <2>1, <2>2
<1>8. TakenInv' /\ ChanInv'
  <2>1. ASSUME NEW n \in Request, n <= reqID PROVE pending'[Id(n)] = pending[Id(n)]
    <3>1. Id(n) # Id(reqID + 1)
      BY <1>1, <1>a, <2>1, IdFacts, ClientAssumption, SMTT(60) DEF Request
    <3>2. Id(n) \in 0..(Ids - 1)
      BY IdFacts, ClientAssumption, SMTT(60) DEF Request
    <3> QED BY <3>1, <3>2 DEF Admit, ClientInv, ClientTypeOK
  <2> QED BY <2>1, RepliesKept DEF Admit
<1>9. SemInv'
  <2>1. Admitted' = Admitted \cup {c} /\ c \notin Admitted /\ Admitted \subseteq Caller
    BY <1>3, <1>5, CallOf, SMTT(60) DEF Admitted, In, Admit, At
  <2>2. Cardinality(Admitted') = Cardinality(Admitted) + 1 /\ Cardinality(Admitted) \in Nat
    BY <2>1, CountJoins
  <2>3. sem = Cardinality(Admitted) /\ limits.inflight \in Nat
    BY DEF ClientInv, SemInv, ClientTypeOK
  <2>4. sem' = sem + 1 /\ sem < limits.inflight /\ limits' = limits
    BY DEF Admit
  <2> QED BY <2>2, <2>3, <2>4, SMTT(60) DEF SemInv
<1>10. PeersInv'
  BY <1>3, <1>5, PeersKept DEF Admit
<1>11. ClientTypeOK'
  <2>1. pending' \in [0..(Ids - 1) -> 0..MaxReq]
    BY <1>a DEF Admit, ClientInv, ClientTypeOK
  <2>2. sem' \in Nat /\ reqID' \in 0..MaxReq
    BY <1>a, SMTT(60) DEF Admit, ClientInv, ClientTypeOK
  <2> QED BY <1>5, <2>1, <2>2, CallOf DEF Admit, ClientInv, ClientTypeOK
<1> QED BY <1>6, <1>7, <1>8, <1>9, <1>10, <1>11 DEF ClientInv

(* A call takes a peer that has room. *)
LEMMA PickPeerKeeps ==
  ASSUME ClientInv, NEW c \in Caller, PickPeer(c)
  PROVE  ClientInv'
<1>1. call[c] \in CallRecord /\ GoodCall(call[c], reqID) /\ reqID \in Nat
  BY SMTT(60) DEF ClientInv, ClientTypeOK, CallsInv
<1>a. PICK p \in Eligible :
         /\ outstanding' = [outstanding EXCEPT ![p] = @ + 1]
         /\ call' = [call EXCEPT ![c] = [Out EXCEPT !.pc = "queue", !.peer = p]]
  BY DEF PickPeer
<1>b. p \in Peer /\ outstanding[p] < limits.perPeer /\ NoReply \in Reply /\ NoReply.to = Nobody /\ Nobody \in 0..MaxReq
  BY ClientAssumption, SMTT(60) DEF Eligible, Spare, ClientInv, ClientTypeOK, NoReply, Reply, Nobody
<1>c. call[c] = Out
  BY <1>1 DEF PickPeer, At, GoodCall
<1>2. PICK r : r = [Out EXCEPT !.pc = "queue", !.peer = p]
  OBVIOUS
<1>3. /\ r \in CallRecord /\ GoodCall(r, reqID)
      /\ r.pc = "queue" /\ r.peer = p /\ r.req = Nobody
  <2>1. r \in CallRecord
    BY <1>2, <1>b DEF CallRecord, Out
  <2>2. r.pc = "queue" /\ r.peer = p /\ r.req = Nobody /\ r.got = NoReply
    BY <1>2 DEF Out
  <2> QED BY <1>1, <1>b, <2>1, <2>2, SMTT(60) DEF GoodCall, Nobody
<1>4. call' = [call EXCEPT ![c] = r]
  BY <1>2, <1>a
<1>5. Becomes(c, r)
  BY <1>3, <1>4 DEF Becomes
<1>6. CallsInv'
  BY <1>3, <1>5, CallsKept DEF PickPeer
<1>7. PendingInv'
  BY <1>3, <1>5, PendingKept DEF PickPeer, At
<1>8. TakenInv' /\ ChanInv'
  BY DEF PickPeer, ClientInv, TakenInv, ChanInv
<1>9. SemInv'
  BY <1>3, <1>5, SemKept DEF PickPeer, At, SlotPcs
<1>10. PeersInv'
  <2> SUFFICES ASSUME NEW x \in Peer
               PROVE  outstanding'[x] = Cardinality(Holding(x)') /\ outstanding'[x] <= limits'.perPeer
    BY DEF PeersInv
  <2>1. limits' = limits /\ outstanding[x] = Cardinality(Holding(x)) /\ outstanding[x] <= limits.perPeer
    BY DEF PickPeer, ClientInv, PeersInv
  <2>2. CASE x = p
    <3>1. Holding(x)' = Holding(x) \cup {c} /\ c \notin Holding(x) /\ Holding(x) \subseteq Caller
      BY <1>3, <1>5, <1>c, <2>2, CallOf, ClientAssumption, SMTT(60) DEF Holding, Out
    <3>2. Cardinality(Holding(x)') = Cardinality(Holding(x)) + 1 /\ Cardinality(Holding(x)) \in Nat
      BY <3>1, CountJoins
    <3>3. outstanding'[x] = outstanding[x] + 1 /\ limits.perPeer \in Nat
      BY <1>a, <1>b, <2>2 DEF ClientInv, ClientTypeOK
    <3> QED BY <1>b, <2>1, <2>2, <3>2, <3>3, SMTT(60)
  <2>3. CASE x # p
    <3>1. Holding(x)' = Holding(x)
      BY <1>3, <1>5, <1>c, <2>3, CallOf, ClientAssumption, SMTT(60) DEF Holding, Out
    <3>2. outstanding'[x] = outstanding[x]
      BY <1>a, <2>3 DEF ClientInv, ClientTypeOK
    <3> QED BY <2>1, <3>1, <3>2
  <2> QED BY <2>2, <2>3
<1>11. ClientTypeOK'
  <2>1. outstanding' \in [Peer -> Nat]
    BY <1>a, <1>b, SMTT(60) DEF ClientInv, ClientTypeOK
  <2> QED BY <1>5, <2>1, CallOf DEF PickPeer, ClientInv, ClientTypeOK
<1> QED BY <1>6, <1>7, <1>8, <1>9, <1>10, <1>11 DEF ClientInv

(* The peer is given back, the call returns and its channel is garbage. *)
LEMMA ReleasePeerKeeps ==
  ASSUME ClientInv, NEW c \in Caller, ReleasePeer(c)
  PROVE  ClientInv'
<1>1. call[c] \in CallRecord /\ GoodCall(call[c], reqID) /\ reqID \in Nat
  BY SMTT(60) DEF ClientInv, ClientTypeOK, CallsInv
<1>a. call[c].peer \in Peer /\ call[c].req \in 0..MaxReq
  BY <1>1 DEF ReleasePeer, At, GoodCall, CallRecord
<1>b. NoReply \in Reply /\ NoReply.to = Nobody /\ Nobody \in 0..MaxReq
  BY ClientAssumption, SMTT(60) DEF NoReply, Reply, Nobody
<1>c. chan' \in [Request -> Reply] /\ \A n \in Request : chan'[n] \in {NoReply, chan[n]}
  BY <1>b DEF ReleasePeer, ClientInv, ClientTypeOK
<1>2. PICK r : r = Out
  OBVIOUS
<1>3. r \in CallRecord /\ GoodCall(r, reqID) /\ r.pc = "out" /\ r.req = Nobody
  BY <1>1, <1>2, <1>b, SMTT(60) DEF CallRecord, GoodCall, Out, Nobody
<1>4. call' = [call EXCEPT ![c] = r]
  BY <1>2 DEF ReleasePeer, Goto, ClientInv, ClientTypeOK
<1>5. Becomes(c, r)
  BY <1>3, <1>4 DEF Becomes
<1>6. CallsInv'
  BY <1>3, <1>5, CallsKept DEF ReleasePeer
<1>7. PendingInv'
  BY <1>3, <1>5, PendingKept DEF ReleasePeer, At
<1>8. TakenInv' /\ ChanInv'
  BY <1>c, RepliesKept DEF ReleasePeer
<1>9. SemInv'
  BY <1>3, <1>5, SemKept DEF ReleasePeer, At, SlotPcs
<1>10. PeersInv'
  <2> SUFFICES ASSUME NEW x \in Peer
               PROVE  outstanding'[x] = Cardinality(Holding(x)') /\ outstanding'[x] <= limits'.perPeer
    BY DEF PeersInv
  <2>1. limits' = limits /\ outstanding[x] = Cardinality(Holding(x)) /\ outstanding[x] <= limits.perPeer
    BY DEF ReleasePeer, ClientInv, PeersInv
  <2>2. call'[c].peer = "none" /\ x # "none"
    BY <1>2, <1>5, CallOf, ClientAssumption, SMTT(60) DEF Out
  <2>3. CASE x = call[c].peer
    <3>1. Holding(x)' = Holding(x) \ {c} /\ c \in Holding(x) /\ Holding(x) \subseteq Caller
      BY <1>5, <2>2, <2>3, CallOf DEF Holding
    <3>2. Cardinality(Holding(x)') = Cardinality(Holding(x)) - 1 /\ Cardinality(Holding(x)) \in Nat \ {0}
      BY <3>1, CountLeaves
    <3>3. outstanding'[x] = outstanding[x] - 1
      BY <2>1, <2>3, <3>2, SMTT(60) DEF ReleasePeer, Released, ClientInv, ClientTypeOK
    <3>4. limits.perPeer \in Nat
      BY DEF ClientInv, ClientTypeOK
    <3> QED BY <2>1, <3>2, <3>3, <3>4, SMTT(60)
  <2>4. CASE x # call[c].peer
    <3>1. Holding(x)' = Holding(x)
      BY <1>5, <2>2, <2>4, CallOf, SMTT(60) DEF Holding
    <3>2. outstanding'[x] = outstanding[x]
      BY <2>4, SMTT(60) DEF ReleasePeer, Released, ClientInv, ClientTypeOK
    <3> QED BY <2>1, <3>1, <3>2
  <2> QED BY <2>3, <2>4
<1>11. ClientTypeOK'
  <2>1. outstanding' \in [Peer -> Nat]
    BY <1>a, SMTT(60) DEF ReleasePeer, Released, ClientInv, ClientTypeOK
  <2> QED BY <1>5, <1>c, <2>1, CallOf DEF ReleasePeer, ClientInv, ClientTypeOK
<1> QED BY <1>6, <1>7, <1>8, <1>9, <1>10, <1>11 DEF ClientInv
-----------------------------------------------------------------------------
(* The goroutines of the network. *)

(* An answer arrives: the entry that it takes is the one of its request. *)
LEMMA LookUpKeeps ==
  ASSUME ClientInv, NEW n \in Request, NEW failed \in BOOLEAN, LookUp(n, failed)
  PROVE  ClientInv'
<1> DEFINE owner == pending[Id(n)]
           reply == [to |-> n, failed |-> failed]
           new == [owner |-> owner, copy |-> asked[n], reply |-> reply]
<1>1. n \in 0..MaxReq /\ n \in Nat /\ n # Nobody /\ Id(n) \in 0..(Ids - 1) /\ reqID \in Nat
  BY ClientAssumption, IdFacts, SMTT(60) DEF Request, Nobody, ClientInv, ClientTypeOK
<1>2. /\ asked' = [asked EXCEPT ![n] = @ - 1] /\ asked[n] > 0
      /\ pending' = [pending EXCEPT ![Id(n)] = Nobody]
      /\ UNCHANGED <<limits, connected, outstanding, bad, sem, reqID, chan, call>>
  BY DEF LookUp, Taken
<1>3. taken' = IF owner # Nobody THEN taken \cup {new} ELSE taken
  BY DEF LookUp
<1>4. owner # Nobody => owner = n /\ n <= reqID
  <2> SUFFICES ASSUME owner # Nobody PROVE owner = n /\ n <= reqID
    OBVIOUS
  <2>1. PICK c \in Owning : call[c].req = owner /\ Id(call[c].req) = Id(n)
    BY <1>1 DEF ClientInv, PendingInv
  <2>2. c \in Caller /\ call[c].req \in 0..MaxReq /\ call[c].req <= reqID
    BY DEF Owning, In, ClientInv, ClientTypeOK, CallRecord, CallsInv, GoodCall
  <2> QED BY <1>1, <2>1, <2>2, IdFacts
<1>5. \A id \in 0..(Ids - 1) : pending'[id] \in {Nobody, pending[id]}
  BY <1>2 DEF ClientInv, ClientTypeOK
<1>6. pending'[Id(n)] = Nobody
  BY <1>1, <1>2 DEF ClientInv, ClientTypeOK
<1>7. \A m \in Request : Id(m) \in 0..(Ids - 1)
  BY IdFacts, ClientAssumption, SMTT(60) DEF Request
<1>8. CallsInv' /\ SemInv' /\ PeersInv'
  <2>1. CallsInv'
    BY <1>2 DEF ClientInv, CallsInv
  <2>2. SemInv' /\ PeersInv'
    BY <1>2 DEF ClientInv, SemInv, PeersInv, Admitted, Holding, In
  <2> QED BY <2>1, <2>2
<1>9. PendingInv'
  BY <1>2, <1>5 DEF ClientInv, PendingInv, Owning, In
<1>10. ChanInv'
  BY <1>2, <1>5, <1>7 DEF ClientInv, ChanInv
<1>11. ASSUME NEW t \in taken
       PROVE  /\ t.owner = t.reply.to /\ t.owner <= reqID' /\ t.owner \in Request
              /\ pending'[Id(t.owner)] = Nobody /\ chan'[t.owner] = NoReply
  <2>1. t.owner \in Request
    BY DEF ClientInv, ClientTypeOK
  <2>2. /\ t.owner = t.reply.to /\ t.owner <= reqID
        /\ pending[Id(t.owner)] = Nobody /\ chan[t.owner] = NoReply
    BY DEF ClientInv, TakenInv
  <2> QED BY <1>2, <1>5, <1>7, <2>1, <2>2
<1>12. TakenInv'
  <2>1. CASE owner = Nobody
    BY <1>3, <1>11, <2>1 DEF TakenInv, ClientInv
  <2>2. CASE owner # Nobody
    <3>1. owner = n /\ n <= reqID'
      BY <1>2, <1>4, <2>2
    <3>2. chan[n] = NoReply
      BY <1>1, <2>2 DEF ClientInv, ChanInv
    <3>3. new.owner = n /\ new.reply.to = n
      BY <3>1
    <3>4. ASSUME NEW t \in taken PROVE t.owner # n
      BY <2>2 DEF ClientInv, TakenInv
    <3>5. taken' = taken \cup {new}
      BY <1>3, <2>2
    <3> HIDE DEF new, owner
    <3>6. ASSUME NEW t \in taken'
          PROVE  /\ t.owner = t.reply.to /\ t.owner <= reqID'
                 /\ pending'[Id(t.owner)] = Nobody /\ chan'[t.owner] = NoReply
      BY <1>2, <1>6, <1>11, <3>1, <3>2, <3>3, <3>5
    <3>7. ASSUME NEW t \in taken', NEW u \in taken', t.owner = u.owner PROVE t = u
      BY <3>3, <3>4, <3>5, <3>7 DEF ClientInv, TakenInv
    <3> QED BY <3>6, <3>7, SMTT(60) DEF TakenInv
  <2> QED BY <2>1, <2>2
<1>13. ClientTypeOK'
  <2>1. asked' \in [Request -> Nat] /\ asked[n] \in Nat
    BY <1>2, SMTT(60) DEF ClientInv, ClientTypeOK
  <2>2. pending' \in [0..(Ids - 1) -> 0..MaxReq]
    BY <1>1, <1>2, ClientAssumption, SMTT(60) DEF ClientInv, ClientTypeOK, Nobody
  <2>3. reply \in Reply
    BY <1>1 DEF Reply
  <2>4. taken' \subseteq [owner : Request, copy : Nat, reply : Reply]
    BY <1>3, <1>4, <2>1, <2>3, SMTT(60) DEF ClientInv, ClientTypeOK
  <2> QED BY <1>2, <2>1, <2>2, <2>4 DEF ClientInv, ClientTypeOK
<1> QED BY <1>8, <1>9, <1>10, <1>12, <1>13 DEF ClientInv

(* The answer goes into the channel, unless the call has returned. *)
LEMMA DeliverKeeps ==
  ASSUME ClientInv, NEW t \in taken, Deliver(t)
  PROVE  ClientInv'
<1>1. /\ t.owner \in Request /\ t.reply \in Reply /\ t.reply.to = t.owner
      /\ t.owner <= reqID /\ pending[Id(t.owner)] = Nobody
  BY DEF ClientInv, ClientTypeOK, TakenInv
<1>2. /\ taken' = taken \ {t}
      /\ UNCHANGED <<limits, connected, outstanding, bad, sem, reqID, pending, asked, call>>
      /\ chan' = chan \/ chan' = [chan EXCEPT ![t.owner] = t.reply]
  BY DEF Deliver
<1>3. chan' \in [Request -> Reply]
  BY <1>1, <1>2 DEF ClientInv, ClientTypeOK
<1>4. \A m \in Request : m # t.owner => chan'[m] = chan[m]
  BY <1>2 DEF ClientInv, ClientTypeOK
<1>5. chan'[t.owner] = chan[t.owner] \/ chan'[t.owner] = t.reply
  BY <1>1, <1>2 DEF ClientInv, ClientTypeOK
<1>6. CallsInv' /\ SemInv' /\ PeersInv' /\ PendingInv'
  <2>1. CallsInv' /\ PendingInv'
    BY <1>2 DEF ClientInv, CallsInv, PendingInv, Owning, In
  <2>2. SemInv' /\ PeersInv'
    BY <1>2 DEF ClientInv, SemInv, PeersInv, Admitted, Holding, In
  <2> QED BY <2>1, <2>2
<1>7. ASSUME NEW m \in Request, chan'[m] # NoReply
      PROVE  chan'[m].to = m /\ m <= reqID' /\ pending'[Id(m)] = Nobody
  <2>1. CASE chan'[m] = chan[m]
    BY <1>2, <1>7, <2>1 DEF ClientInv, ChanInv
  <2>2. CASE m = t.owner /\ chan'[m] = t.reply
    BY <1>1, <1>2, <2>2
  <2> QED BY <1>4, <1>5, <2>1, <2>2
<1>8. ASSUME NEW u \in taken'
      PROVE  /\ u.owner = u.reply.to /\ u.owner <= reqID'
             /\ pending'[Id(u.owner)] = Nobody /\ chan'[u.owner] = NoReply
  <2>1. u \in taken /\ u # t
    BY <1>2
  <2>2. /\ u.owner = u.reply.to /\ u.owner <= reqID
        /\ pending[Id(u.owner)] = Nobody /\ chan[u.owner] = NoReply /\ u.owner # t.owner
    BY <2>1 DEF ClientInv, TakenInv
  <2>3. u.owner \in Request
    BY <2>1 DEF ClientInv, ClientTypeOK
  <2> QED BY <1>2, <1>4, <2>2, <2>3
<1>9. ChanInv' /\ TakenInv'
  BY <1>2, <1>7, <1>8 DEF ChanInv, TakenInv, ClientInv
<1>10. ClientTypeOK'
  BY <1>2, <1>3 DEF ClientInv, ClientTypeOK
<1> QED BY <1>6, <1>9, <1>10 DEF ClientInv

LEMMA PeerKeeps ==
  ASSUME ClientInv, NEW p \in Peer, Connect(p) \/ Disconnect(p) \/ CooledDown(p)
  PROVE  ClientInv'
<1>1. /\ connected' \subseteq Peer
      /\ UNCHANGED <<limits, outstanding, sem, reqID, pending, chan, taken, asked, call>>
  BY DEF Connect, Disconnect, CooledDown, ClientInv, ClientTypeOK
<1>2. ClientTypeOK'
  BY <1>1 DEF ClientInv, ClientTypeOK
<1>3. CallsInv' /\ PendingInv'
  BY <1>1 DEF ClientInv, CallsInv, PendingInv, Owning, In
<1>4. TakenInv' /\ ChanInv'
  BY <1>1 DEF ClientInv, TakenInv, ChanInv
<1>5. SemInv' /\ PeersInv'
  BY <1>1 DEF ClientInv, SemInv, PeersInv, Admitted, Holding, In
<1> QED BY <1>2, <1>3, <1>4, <1>5 DEF ClientInv
-----------------------------------------------------------------------------
LEMMA ClientStarts == ClientInit => ClientInv
<1> SUFFICES ASSUME ClientInit PROVE ClientInv
  OBVIOUS
<1>1. Nobody \in 0..MaxReq /\ NoReply \in Reply /\ NoReply.to = Nobody /\ reqID = Nobody
  BY ClientAssumption, SMTT(60) DEF Nobody, NoReply, Reply, ClientInit
<1>2. Out \in CallRecord /\ Out.pc = "out" /\ Out.req = Nobody /\ Out.got = NoReply /\ Out.peer = "none"
  BY <1>1 DEF Out, CallRecord
<1>3. \A c \in Caller : call[c] = Out
  BY DEF ClientInit
<1>4. ClientTypeOK
  BY <1>1, <1>2, ClientAssumption DEF ClientInit, ClientTypeOK
<1>5. GoodCall(Out, reqID)
  BY <1>1, <1>2, SMTT(60) DEF GoodCall, Nobody
<1>6. CallsInv
  BY <1>2, <1>3, <1>5 DEF CallsInv
<1>7. PendingInv /\ TakenInv /\ ChanInv
  BY DEF ClientInit, PendingInv, TakenInv, ChanInv
<1>8. Admitted = {} /\ \A p \in Peer : Holding(p) = {}
  BY <1>2, <1>3, ClientAssumption DEF Admitted, Holding, In
<1>9. SemInv
  BY <1>4, <1>8, FS_EmptySet, SMTT(60) DEF ClientInit, SemInv, ClientTypeOK
<1>10. PeersInv
  <2>1. limits.perPeer \in Nat /\ \A p \in Peer : outstanding[p] = 0
    BY <1>4 DEF ClientInit, ClientTypeOK
  <2> QED BY <1>8, <2>1, FS_EmptySet, SMTT(60) DEF PeersInv
<1> QED BY <1>4, <1>6, <1>7, <1>9, <1>10 DEF ClientInv

LEMMA ClientSteps == ClientInv /\ [ClientNext]_clientVars => ClientInv'
<1> SUFFICES ASSUME ClientInv, [ClientNext]_clientVars PROVE ClientInv'
  OBVIOUS
<1>1. ASSUME NEW c \in Caller, CallStep(c) PROVE ClientInv'
  BY <1>1, PickPeerKeeps, AdmitKeeps, GiveUpKeeps, SendKeeps, SendFailsKeeps, ReceiveKeeps,
     AbandonKeeps, ForgetKeeps, LeaveKeeps, BlameKeeps, ReleasePeerKeeps DEF CallStep
<1>2. ASSUME NEW n \in Request, NEW failed \in BOOLEAN, LookUp(n, failed) PROVE ClientInv'
  BY <1>2, LookUpKeeps
<1>3. ASSUME NEW t \in taken, Deliver(t) PROVE ClientInv'
  BY <1>3, DeliverKeeps
<1>4. ASSUME NEW p \in Peer, Connect(p) \/ Disconnect(p) \/ CooledDown(p) PROVE ClientInv'
  BY <1>4, PeerKeeps
<1>5. CASE UNCHANGED clientVars
  <2>1. ClientTypeOK'
    BY <1>5 DEF clientVars, ClientInv, ClientTypeOK
  <2>2. CallsInv' /\ PendingInv'
    BY <1>5 DEF clientVars, ClientInv, CallsInv, PendingInv, Owning, In
  <2>3. TakenInv' /\ ChanInv'
    BY <1>5 DEF clientVars, ClientInv, TakenInv, ChanInv
  <2>4. SemInv' /\ PeersInv'
    BY <1>5 DEF clientVars, ClientInv, SemInv, PeersInv, Admitted, Holding, In
  <2> QED BY <2>1, <2>2, <2>3, <2>4 DEF ClientInv
<1> QED BY <1>1, <1>2, <1>3, <1>4, <1>5 DEF ClientNext

LEMMA ClientInvariant == ClientSpec => []ClientInv
BY ClientStarts, ClientSteps, PTL DEF ClientSpec

(***************************************************************************)
(* What SendSyncedAppRequestAny returns answers the request it made,       *)
(* whatever older answers OnAppResponse still gets.                        *)
(***************************************************************************)
THEOREM ClientAnswers == ClientSpec => []AnswersItsRequest
<1>1. ClientInv => AnswersItsRequest
  BY DEF ClientInv, CallsInv, GoodCall, AnswersItsRequest
<1> QED BY <1>1, ClientInvariant, PTL

(***************************************************************************)
(* OnAppResponse always finds room in the channel it looked up: the        *)
(* network goroutine is never held up by a caller.                         *)
(***************************************************************************)
THEOREM ClientNeverWaits == ClientSpec => []ReplyNeverWaits
<1>1. ClientInv => ReplyNeverWaits
  BY DEF ClientInv, TakenInv, ReplyNeverWaits
<1> QED BY <1>1, ClientInvariant, PTL

(***************************************************************************)
(* No path out of a call leaks its slot, its peer or its pending entry,    *)
(* and neither cap is ever exceeded.                                       *)
(***************************************************************************)
THEOREM ClientLeaksNothing == ClientSpec => []ClientAccounted
<1>1. ClientInv => ClientAccounted
  <2> SUFFICES ASSUME ClientInv PROVE ClientAccounted
    OBVIOUS
  <2>1. sem = Cardinality(In({"send", "wait", "forget", "leave"})) /\ sem <= limits.inflight
    BY DEF ClientInv, SemInv, Admitted
  <2>2. \A p \in Peer :
          /\ outstanding[p] = Cardinality({c \in Caller : call[c].peer = p})
          /\ outstanding[p] <= limits.perPeer
    BY DEF ClientInv, PeersInv, Holding
  <2>3. DOMAIN pending = 0..(Ids - 1)
    BY DEF ClientInv, ClientTypeOK
  <2> QED BY <2>1, <2>2, <2>3 DEF ClientInv, PendingInv, Owning, ClientAccounted
<1> QED BY <1>1, ClientInvariant, PTL

-----------------------------------------------------------------------------
(***************************************************************************)
(* The walk: arithmetic, sub-ranges and responses.                         *)
(***************************************************************************)
(***************************************************************************)
(* Multiplication and division.                                            *)
(***************************************************************************)
LEMMA TimesGrows ==
  ASSUME NEW a \in Nat, NEW b \in Nat, NEW d \in Nat, a <= b
  PROVE  a * d <= b * d /\ a * d \in Nat
<1>1. PICK c \in Nat : b = a + c
  <2>1. b - a \in Nat /\ b = a + (b - a)
    BY SMTT(60)
  <2> QED BY <2>1
<1>2. c * d \in Nat /\ a * d \in Nat
  BY SMTT(60)
<1>3. b * d = a * d + c * d
  BY <1>1, SMTT(60)
<1> QED BY <1>2, <1>3, SMTT(60)

LEMMA Division ==
  ASSUME NEW x \in Nat, NEW n \in Nat \ {0}
  PROVE  /\ x \div n \in Nat
         /\ (x \div n) * n <= x /\ x < (x \div n) * n + n
  BY SMTT(60)

(***************************************************************************)
(* splitRange: sub-ranges of d keys, the last of them up to ff..ff.        *)
(***************************************************************************)
LEMMA SplitIs ==
  ASSUME NEW from \in 0..KeyMax, NEW n \in Nat \ {0}
  PROVE  \E m \in 1..n, d \in Nat \ {0} :
           /\ SplitRange(from, n) =
                [i \in 1..m |-> [lo |-> from + (i - 1) * d,
                                 hi |-> IF i = m THEN KeyMax ELSE from + i * d - 1]]
           /\ KeyMax - from >= n * n => from + (m - 1) * d <= KeyMax
<1>1. KeyMax \in Nat /\ from \in Nat /\ KeyMax - from \in Nat
  BY WalkAssumption, SMTT(60)
<1>2. PICK x \in Nat : x = KeyMax - from
  BY <1>1
<1>3. PICK step : step = x \div n
  OBVIOUS
<1>4. step \in Nat /\ step * n <= x /\ x < step * n + n
  BY <1>3, Division
<1>5. CASE n <= 1 \/ step = 0
  <2>1. SplitRange(from, n) = <<[lo |-> from, hi |-> KeyMax]>>
    BY <1>2, <1>3, <1>5 DEF SplitRange
  <2>2. <<[lo |-> from, hi |-> KeyMax]>> =
          [i \in 1..1 |-> [lo |-> from + (i - 1) * 1,
                           hi |-> IF i = 1 THEN KeyMax ELSE from + i * 1 - 1]]
    BY <1>1, SMTT(60)
  <2>3. 1 \in 1..n /\ 1 \in Nat \ {0} /\ from + (1 - 1) * 1 <= KeyMax
    BY <1>1, SMTT(60)
  <2> QED BY <2>1, <2>2, <2>3
<1>6. CASE ~ (n <= 1 \/ step = 0)
  <2>1. PICK d : d = step + 1
    OBVIOUS
  <2>2. d \in Nat \ {0}
    BY <1>4, <2>1, SMTT(60)
  <2>3. SplitRange(from, n) =
          [i \in 1..n |-> [lo |-> from + (i - 1) * (step + 1),
                           hi |-> IF i = n THEN KeyMax ELSE from + (i - 1) * (step + 1) + step]]
    BY <1>2, <1>3, <1>6 DEF SplitRange
  <2>4. \A i \in 1..n : from + (i - 1) * (step + 1) + step = from + i * d - 1
    BY <1>1, <1>4, <2>1, SMTT(60)
  <2>5. SplitRange(from, n) =
          [i \in 1..n |-> [lo |-> from + (i - 1) * d,
                           hi |-> IF i = n THEN KeyMax ELSE from + i * d - 1]]
    BY <2>1, <2>3, <2>4
  <2>6. ASSUME x >= n * n PROVE from + (n - 1) * d <= KeyMax
    <3>1. step >= n
      <4> SUFFICES ASSUME step < n PROVE FALSE
        BY <1>4, SMTT(60)
      <4>1. (step + 1) * n <= n * n
        BY <1>4, TimesGrows, SMTT(60)
      <4>2. (step + 1) * n = step * n + n
        BY <1>4, SMTT(60)
      <4> QED BY <1>4, <2>6, <4>1, <4>2, SMTT(60)
    <3>2. (n - 1) * d = step * n - step + n - 1
      BY <1>4, <2>1, SMTT(60)
    <3>3. step * n \in Nat
      BY <1>4, SMTT(60)
    <3> QED BY <1>1, <1>2, <1>4, <3>1, <3>2, <3>3, SMTT(60)
  <2>7. KeyMax - from >= n * n => from + (n - 1) * d <= KeyMax
    BY <1>2, <2>6
  <2>8. n \in 1..n
    BY SMTT(60)
  <2> QED BY <2>2, <2>5, <2>7, <2>8
<1> QED BY <1>5, <1>6

(* Far enough from ff..ff for n sub-ranges. *)
Room(from, n) == KeyMax - from >= n * n

Contiguous(r, from) ==
    /\ r[1].lo = from /\ r[Len(r)].hi = KeyMax
    /\ \A i \in 1..(Len(r) - 1) : r[i].lo <= r[i].hi /\ r[i + 1].lo = r[i].hi + 1

(* Without gap or overlap, as far as the keyspace goes. *)
LEMMA SplitFacts ==
  ASSUME NEW from \in 0..KeyMax, NEW n \in Nat \ {0}, NEW r, r = SplitRange(from, n)
  PROVE  /\ r \in Seq([lo : Nat, hi : Nat]) /\ Len(r) \in 1..n
         /\ \A i \in DOMAIN r : from <= r[i].lo
         /\ Contiguous(r, from)
         /\ \A k \in from..KeyMax : \E i \in DOMAIN r : r[i].lo <= k /\ k <= r[i].hi
         /\ \A i, j \in DOMAIN r : i < j => r[i].hi < r[j].lo
         /\ Room(from, n) => r[Len(r)].lo <= KeyMax
<1>1. PICK m \in 1..n, d \in Nat \ {0} :
        /\ r = [i \in 1..m |-> [lo |-> from + (i - 1) * d,
                                hi |-> IF i = m THEN KeyMax ELSE from + i * d - 1]]
        /\ Room(from, n) => from + (m - 1) * d <= KeyMax
  BY SplitIs DEF Room
<1>2. KeyMax \in Nat /\ from \in Nat /\ m \in Nat /\ 1 <= m /\ d \in Nat /\ d >= 1
  BY WalkAssumption, SMTT(60)
<1>3. \A i \in 1..m : (i - 1) * d \in Nat /\ i * d \in Nat /\ i * d = (i - 1) * d + d
  BY <1>2, SMTT(60)
<1>4. /\ DOMAIN r = 1..m
      /\ \A i \in 1..m : /\ r[i].lo = from + (i - 1) * d
                         /\ r[i].hi = IF i = m THEN KeyMax ELSE from + i * d - 1
  BY <1>1, SMTT(60)
<1>5. ASSUME NEW i \in 1..m PROVE r[i] \in [lo : Nat, hi : Nat]
  <2>1. from + (i - 1) * d \in Nat /\ from + i * d - 1 \in Nat
    BY <1>2, <1>3, SMTT(60)
  <2> QED BY <1>1, <1>2, <2>1, SMTT(60)
<1>6. r \in Seq([lo : Nat, hi : Nat]) /\ Len(r) = m
  <2>1. PICK T : T = [lo : Nat, hi : Nat]
    OBVIOUS
  <2>2. r \in [1..m -> T]
    BY <1>1, <1>5, <2>1
  <2>3. r \in Seq(T) /\ Len(r) = m
    BY <1>2, <2>2, SMTT(60)
  <2> QED BY <2>1, <2>3
<1>7. ASSUME NEW i \in 1..m PROVE from <= r[i].lo
  <2>1. PICK q : q = (i - 1) * d
    OBVIOUS
  <2>2. q \in Nat
    BY <1>3, <2>1
  <2>3. r[i].lo = from + q
    BY <1>4, <2>1
  <2> QED BY <1>2, <2>2, <2>3, SMTT(60)
<1>8. r[1].lo = from /\ r[m].hi = KeyMax
  BY <1>2, <1>4, SMTT(60)
<1>9. ASSUME NEW i \in 1..(m - 1) PROVE r[i].lo <= r[i].hi /\ r[i + 1].lo = r[i].hi + 1
  <2>1. i \in 1..m /\ i + 1 \in 1..m /\ i # m /\ (i + 1) - 1 = i
    BY SMTT(60)
  <2>2. r[i].lo = from + (i - 1) * d /\ r[i].hi = from + i * d - 1 /\ r[i + 1].lo = from + i * d
    BY <1>4, <2>1
  <2>3. PICK x, y : x = (i - 1) * d /\ y = i * d
    OBVIOUS
  <2>4. x \in Nat /\ y = x + d
    BY <1>3, <2>1, <2>3
  <2>5. PICK u, v, w : u = r[i].lo /\ v = r[i].hi /\ w = r[i + 1].lo
    OBVIOUS
  <2>6. u = from + x /\ v = from + y - 1 /\ w = from + y
    BY <2>2, <2>3, <2>5
  <2>7. u <= v /\ w = v + 1
    BY <1>2, <2>4, <2>6, SMTT(60)
  <2> QED BY <2>5, <2>7
<1>10. ASSUME NEW k \in from..KeyMax PROVE \E i \in 1..m : r[i].lo <= k /\ k <= r[i].hi
  <2>1. k - from \in Nat /\ k \in Nat
    BY <1>2, SMTT(60)
  <2>2. PICK q : q = (k - from) \div d
    OBVIOUS
  <2>3. q \in Nat /\ q * d <= k - from /\ k - from < q * d + d
    BY <2>1, <2>2, Division
  <2>4. CASE q + 1 < m
    <3>1. q + 1 \in 1..m /\ (q + 1) - 1 = q /\ q + 1 # m
      BY <2>3, <2>4, SMTT(60)
    <3>2. r[q + 1].lo = from + q * d /\ r[q + 1].hi = from + (q + 1) * d - 1
      BY <1>4, <3>1
    <3>3. (q + 1) * d = q * d + d /\ q * d \in Nat
      BY <1>2, <2>3, SMTT(60)
    <3>4. r[q + 1].lo <= k /\ k <= r[q + 1].hi
      BY <1>2, <2>1, <2>3, <3>2, <3>3, SMTT(60)
    <3> QED BY <3>1, <3>4
  <2>5. CASE ~ (q + 1 < m)
    <3>1. (m - 1) * d <= q * d /\ m - 1 \in Nat
      BY <1>2, <2>3, <2>5, TimesGrows, SMTT(60)
    <3>2. m \in 1..m /\ r[m].lo = from + (m - 1) * d /\ r[m].hi = KeyMax
      BY <1>2, <1>4, SMTT(60)
    <3>3. q * d \in Nat /\ (m - 1) * d \in Nat
      BY <1>2, <2>3, <3>1, SMTT(60)
    <3>4. r[m].lo <= k /\ k <= r[m].hi
      BY <1>2, <2>1, <2>3, <3>1, <3>2, <3>3, SMTT(60)
    <3> QED BY <3>2, <3>4
  <2> QED BY <2>4, <2>5
<1>11. ASSUME NEW i \in 1..m, NEW j \in 1..m, i < j PROVE r[i].hi < r[j].lo
  <2>1. i # m /\ i \in Nat /\ j - 1 \in Nat /\ i <= j - 1
    BY <1>2, <1>11, SMTT(60)
  <2>2. i * d <= (j - 1) * d
    BY <1>2, <2>1, TimesGrows
  <2>3. r[i].hi = from + i * d - 1 /\ r[j].lo = from + (j - 1) * d
    BY <1>4, <2>1
  <2> QED BY <1>2, <1>3, <2>2, <2>3, SMTT(60)
<1>12. Room(from, n) => r[m].lo <= KeyMax
  BY <1>1, <1>2, <1>4, SMTT(60)
<1>13. Contiguous(r, from)
  BY <1>6, <1>8, <1>9 DEF Contiguous
<1> QED BY <1>4, <1>6, <1>7, <1>10, <1>11, <1>12, <1>13

-----------------------------------------------------------------------------
(***************************************************************************)
(* Least and greatest keys.                                                *)
(***************************************************************************)
LEMMA LeastNatural ==
  ASSUME NEW T \in SUBSET Nat, T # {}
  PROVE  \E n \in T : \A m \in T : n <= m
<1>1. PICK n \in T : \A m \in T : ~ (<<m, n>> \in OpToRel(<, Nat))
  BY NatLessThanWellFounded, WFMin
<1>2. OpToRel(<, Nat) = {ss \in Nat \X Nat : ss[1] < ss[2]}
  BY DEF OpToRel
<1>3. ASSUME NEW m \in T PROVE n <= m
  <2>1. ~ (<<m, n>> \in {ss \in Nat \X Nat : ss[1] < ss[2]})
    BY <1>1, <1>2
  <2> QED BY <2>1, SMTT(60)
<1> QED BY <1>3

LEMMA SetInduction ==
  ASSUME NEW S, 0 \in S, \A n \in Nat : n \in S => n + 1 \in S
  PROVE  Nat \subseteq S
<1> SUFFICES ASSUME Nat \ S # {} PROVE FALSE
  OBVIOUS
<1>1. PICK n \in Nat \ S : \A m \in Nat \ S : n <= m
  BY LeastNatural
<1>2. n - 1 \in Nat /\ (n - 1) + 1 = n /\ ~ (n <= n - 1)
  BY SMTT(60)
<1>3. n - 1 \in S
  BY <1>1, <1>2
<1> QED BY <1>2, <1>3

Keys == 0..KeyMax

LEMMA KeyFacts == KeyMax \in Nat /\ \A k \in Keys : k \in Nat /\ k <= KeyMax
  BY WalkAssumption, SMTT(60) DEF Keys

LEMMA MaxIs ==
  ASSUME NEW S \in SUBSET Keys, S # {}
  PROVE  Max(S) \in S /\ \A j \in S : j <= Max(S)
<1> DEFINE T == {KeyMax - i : i \in S}
<1>1. T \subseteq Nat /\ T # {}
  <2>1. \A i \in S : KeyMax - i \in Nat
    BY KeyFacts, SMTT(60)
  <2> QED BY <2>1
<1>2. PICK k \in T : \A m \in T : k <= m
  <2> HIDE DEF T
  <2> QED BY <1>1, LeastNatural
<1>3. PICK i \in S : k = KeyMax - i
  BY <1>2
<1>4. ASSUME NEW j \in S PROVE i >= j
  <2>1. KeyMax - j \in T
    OBVIOUS
  <2>2. KeyMax - i <= KeyMax - j
    BY <1>2, <1>3, <2>1
  <2> QED BY <2>2, KeyFacts, SMTT(60)
<1>5. \E x \in S : \A y \in S : x >= y
  BY <1>4
<1>6. Max(S) \in S /\ \A y \in S : Max(S) >= y
  BY <1>5 DEF Max
<1> QED BY <1>6, KeyFacts

LEMMA KeysFinite ==
  ASSUME NEW S \in SUBSET Keys
  PROVE  /\ IsFiniteSet(S) /\ Cardinality(S) \in Nat
         /\ \A T \in SUBSET S : Cardinality(T) <= Cardinality(S)
<1>1. IsFiniteSet(Keys)
  BY WalkAssumption, FS_Interval, SMTT(60) DEF Keys
<1>2. IsFiniteSet(S)
  BY <1>1, FS_Subset
<1>3. Cardinality(S) \in Nat
  BY <1>2, FS_CardinalityType
<1> QED BY <1>2, <1>3, FS_Subset

(***************************************************************************)
(* A response: the leaves from start on, a prefix of them.                 *)
(***************************************************************************)
LEMMA AnswerFacts ==
  ASSUME trie \in SUBSET Keys, NEW start \in Nat, NEW n \in Nat \ {0}
  PROVE  /\ \A k \in Answer(start, n) : k \in trie /\ k >= start
         /\ \A k \in Answer(start, n), j \in trie : start <= j /\ j <= k => j \in Answer(start, n)
         /\ \A k \in trie : k >= start => Answer(start, n) # {}
<1> DEFINE right == {k \in trie : k >= start}
           rank(k) == {j \in right : j <= k}
<1>1. Answer(start, n) = {k \in right : Cardinality(rank(k)) <= n}
  BY DEF Answer
<1>2. right \in SUBSET Keys /\ \A k \in right : k \in Nat
  BY KeyFacts
<1>3. ASSUME NEW k \in Answer(start, n), NEW j \in trie, start <= j, j <= k
      PROVE  j \in Answer(start, n)
  <2>1. k \in right /\ j \in right /\ Cardinality(rank(k)) <= n
    BY <1>1, <1>3, KeyFacts
  <2>2. rank(j) \in SUBSET rank(k) /\ rank(k) \in SUBSET Keys /\ rank(j) \in SUBSET Keys
    BY <1>2, <1>3, <2>1, SMTT(60)
  <2>3. /\ Cardinality(rank(j)) \in Nat /\ Cardinality(rank(k)) \in Nat
        /\ Cardinality(rank(j)) <= Cardinality(rank(k))
    <3> HIDE DEF rank
    <3> QED BY <2>2, KeysFinite
  <2> HIDE DEF rank, right
  <2>4. Cardinality(rank(j)) <= n
    BY <2>1, <2>3, SMTT(60)
  <2> QED BY <1>1, <2>1, <2>4
<1>4. ASSUME NEW k \in trie, k >= start PROVE Answer(start, n) # {}
  <2>1. right # {} /\ right \in SUBSET Nat
    BY <1>2, <1>4
  <2>2. PICK x \in right : \A y \in right : x <= y
    <3> HIDE DEF right
    <3> QED BY <2>1, LeastNatural
  <2>3. rank(x) = {x}
    BY <1>2, <2>2, SMTT(60)
  <2>4. Cardinality(rank(x)) <= n
    <3>1. Cardinality({x}) = 1
      BY FS_Singleton
    <3> QED BY <2>3, <3>1, SMTT(60)
  <2> QED BY <1>1, <2>4
<1>5. \A k \in Answer(start, n) : k \in trie /\ k >= start
  BY <1>1
<1> QED BY <1>3, <1>4, <1>5

LEMMA NextStartFacts ==
  ASSUME trie \in SUBSET Keys, NEW start \in 0..NoKey, NEW end \in Nat, NEW n \in Nat \ {0},
         NEW next, next = NextStart(start, end, n)
  PROVE  /\ next \in 0..NoKey /\ start <= next
         /\ \A k \in Kept(start, end, n) : k \in trie /\ start <= k /\ k <= end /\ k < next
         /\ \A k \in trie : start <= k /\ k <= end /\ k < next => k \in Kept(start, end, n)
<1>1. PICK A, K : A = Answer(start, n) /\ K = Kept(start, end, n)
  OBVIOUS
<1>2. KeyMax \in Nat /\ NoKey = KeyMax + 1 /\ start \in Nat /\ \A k \in trie : k \in Nat /\ k <= KeyMax
  BY KeyFacts, SMTT(60) DEF NoKey
<1>3. /\ \A k \in A : k \in trie /\ k >= start
      /\ \A k \in A, j \in trie : start <= j /\ j <= k => j \in A
      /\ \A k \in trie : k >= start => A # {}
  BY <1>1, <1>2, AnswerFacts
<1>4. K = {k \in A : k <= end}
  BY <1>1 DEF Kept
<1>5. CASE Finished(start, end, n)
  <2>1. next = NoKey
    BY <1>5 DEF NextStart
  <2>2. K # A \/ A = {k \in trie : k >= start}
    BY <1>1, <1>5 DEF Finished
  <2>3. ASSUME NEW k \in trie, start <= k, k <= end PROVE k \in K
    <3>1. CASE K # A
      <4>1. PICK x \in A : ~ (x <= end)
        BY <1>4, <3>1
      <4>2. k <= x
        BY <1>2, <1>3, <2>3, <4>1, SMTT(60)
      <4> QED BY <1>3, <1>4, <2>3, <4>1, <4>2
    <3>2. CASE A = {y \in trie : y >= start}
      BY <1>2, <1>4, <2>3, <3>2
    <3> QED BY <2>2, <3>1, <3>2
  <2>4. \A k \in K : k \in trie /\ start <= k /\ k <= end /\ k < next
    BY <1>2, <1>3, <1>4, <2>1, SMTT(60)
  <2> QED BY <1>1, <1>2, <2>1, <2>3, <2>4, SMTT(60)
<1>6. CASE ~Finished(start, end, n)
  <2>1. K = A /\ A # {k \in trie : k >= start}
    BY <1>1, <1>6 DEF Finished
  <2>2. A # {}
    <3>1. PICK k \in trie : k >= start
      BY <1>3, <2>1
    <3> QED BY <1>3, <3>1
  <2>3. PICK x : x = Max(K)
    OBVIOUS
  <2>4. x \in A /\ \A j \in A : j <= x
    BY <1>3, <2>1, <2>2, <2>3, MaxIs
  <2>5. next = IncKey(x)
    BY <1>1, <1>6, <2>3 DEF NextStart
  <2>6. x \in Nat /\ x <= KeyMax /\ next = x + 1 /\ start <= x
    BY <1>2, <1>3, <2>4, <2>5 DEF IncKey
  <2>7. \A k \in K : k \in trie /\ start <= k /\ k <= end /\ k < next
    BY <1>2, <1>3, <1>4, <2>4, <2>6, SMTT(60)
  <2>8. \A k \in trie : start <= k /\ k < next => k \in K
    <3>1. \A k \in trie : k < next => k <= x
      BY <1>2, <2>6, SMTT(60)
    <3> QED BY <1>3, <2>1, <2>4, <3>1
  <2>9. next \in 0..NoKey /\ start <= next
    BY <1>2, <2>6, SMTT(60)
  <2> QED BY <1>1, <2>7, <2>8, <2>9
<1> QED BY <1>5, <1>6

-----------------------------------------------------------------------------
(***************************************************************************)
(* The order in which the leaves of a response are enqueued.               *)
(***************************************************************************)
Sorted(q, n, keys) ==
    /\ q \in [1..n -> keys]
    /\ {q[i] : i \in DOMAIN q} = keys
    /\ \A i, j \in DOMAIN q : i < j => q[i] < q[j]

LEMMA SortedExists ==
  ASSUME NEW n \in Nat
  PROVE  \A K \in SUBSET Keys : Cardinality(K) = n => \E q : Sorted(q, n, K)
<1> DEFINE S == {m \in Nat : \A K \in SUBSET Keys : Cardinality(K) = m => \E q : Sorted(q, m, K)}
<1>1. 0 \in S
  <2> SUFFICES ASSUME NEW K \in SUBSET Keys, Cardinality(K) = 0 PROVE \E q : Sorted(q, 0, K)
    OBVIOUS
  <2>1. K = {}
    BY KeysFinite, FS_EmptySet
  <2>2. PICK q : q = [i \in 1..0 |-> 0]
    OBVIOUS
  <2>3. Sorted(q, 0, K)
    BY <2>1, <2>2, SMTT(60) DEF Sorted
  <2> QED BY <2>3
<1>2. ASSUME NEW m \in Nat, m \in S PROVE m + 1 \in S
  <2> SUFFICES ASSUME NEW K \in SUBSET Keys, Cardinality(K) = m + 1
               PROVE  \E q : Sorted(q, m + 1, K)
    BY SMTT(60)
  <2>1. K # {}
    BY FS_EmptySet, SMTT(60)
  <2>2. PICK x : x = Max(K)
    OBVIOUS
  <2>3. x \in K /\ (\A j \in K : j <= x) /\ x \in Nat
    BY <2>1, <2>2, MaxIs, KeyFacts
  <2>4. PICK R : R = K \ {x}
    OBVIOUS
  <2>5. R \in SUBSET Keys /\ Cardinality(R) = m
    <3>1. IsFiniteSet(K)
      BY KeysFinite
    <3>2. Cardinality(K \ {x}) = Cardinality(K) - 1
      BY <2>3, <3>1, FS_RemoveElement
    <3> QED BY <2>4, <3>2, SMTT(60)
  <2>6. PICK f : Sorted(f, m, R)
    BY <1>2, <2>5
  <2>7. /\ f \in [1..m -> R] /\ {f[i] : i \in 1..m} = R
        /\ \A i, j \in 1..m : i < j => f[i] < f[j]
    BY <2>6 DEF Sorted
  <2>8. PICK q : q = [i \in 1..(m + 1) |-> IF i = m + 1 THEN x ELSE f[i]]
    OBVIOUS
  <2>9. \A i \in 1..(m + 1) : i = m + 1 \/ (i \in 1..m /\ i # m + 1)
    BY SMTT(60)
  <2>10. m + 1 \in 1..(m + 1) /\ \A i \in 1..m : i \in 1..(m + 1) /\ i # m + 1
    BY SMTT(60)
  <2>11. q[m + 1] = x /\ \A i \in 1..m : q[i] = f[i]
    BY <2>8, <2>10
  <2>12. \A i \in 1..m : f[i] \in K /\ f[i] < x
    <3> SUFFICES ASSUME NEW i \in 1..m PROVE f[i] \in K /\ f[i] < x
      OBVIOUS
    <3>1. f[i] \in K /\ f[i] # x
      BY <2>4, <2>7
    <3>2. f[i] <= x /\ f[i] \in Nat
      BY <2>3, <3>1, KeyFacts
    <3> QED BY <2>3, <3>1, <3>2, SMTT(60)
  <2>13. q \in [1..(m + 1) -> K]
    BY <2>3, <2>8, <2>9, <2>12
  <2>14. {q[i] : i \in 1..(m + 1)} = K
    <3>1. ASSUME NEW y \in K PROVE \E i \in 1..(m + 1) : q[i] = y
      <4>1. CASE y = x
        BY <2>10, <2>11, <4>1
      <4>2. CASE y # x
        <5>1. y \in R
          BY <2>4, <4>2
        <5>2. PICK i \in 1..m : f[i] = y
          BY <2>7, <5>1
        <5> QED BY <2>10, <2>11, <5>2
      <4> QED BY <4>1, <4>2
    <3>2. \A i \in 1..(m + 1) : q[i] \in K
      BY <2>13
    <3> QED BY <3>1, <3>2
  <2>15. ASSUME NEW i \in 1..(m + 1), NEW j \in 1..(m + 1), i < j PROVE q[i] < q[j]
    <3>1. i \in 1..m
      BY <2>15, SMTT(60)
    <3>2. CASE j = m + 1
      BY <2>11, <2>12, <3>1, <3>2
    <3>3. CASE j # m + 1
      <4>1. j \in 1..m
        BY <3>3, SMTT(60)
      <4> QED BY <2>7, <2>11, <2>15, <3>1, <4>1
    <3> QED BY <3>2, <3>3
  <2>16. Sorted(q, m + 1, K)
    <3>1. DOMAIN q = 1..(m + 1)
      BY <2>8
    <3> QED BY <2>13, <2>14, <2>15, <3>1 DEF Sorted
  <2> QED BY <2>16
<1>3. Nat \subseteq S
  <2> HIDE DEF S
  <2> QED BY <1>1, <1>2, SetInduction
<1> QED BY <1>3

Lists(q, K) ==
    /\ Len(q) \in Nat
    /\ \A k \in K : \E i \in 1..Len(q) : q[i] = k
    /\ \A i \in 1..Len(q) : q[i] \in K
    /\ \A i, j \in 1..Len(q) : i < j => q[i] < q[j]

LEMMA AscendingIs ==
  ASSUME NEW K \in SUBSET Keys, NEW q, q = Ascending(K)
  PROVE  q \in Seq(K) /\ Lists(q, K)
<1>1. PICK n \in Nat : n = Cardinality(K)
  BY KeysFinite
<1>2. \E f : Sorted(f, n, K)
  BY <1>1, SortedExists
<1>3. Sorted(q, n, K)
  <2>1. Ascending(K) = CHOOSE f \in [1..n -> K] :
            /\ {f[i] : i \in DOMAIN f} = K
            /\ \A i, j \in DOMAIN f : i < j => f[i] < f[j]
    BY <1>1 DEF Ascending
  <2>2. \E f \in [1..n -> K] :
            /\ {f[i] : i \in DOMAIN f} = K
            /\ \A i, j \in DOMAIN f : i < j => f[i] < f[j]
    BY <1>2 DEF Sorted
  <2> QED BY <2>1, <2>2 DEF Sorted
<1>4. q \in [1..n -> K] /\ DOMAIN q = 1..n
  BY <1>3 DEF Sorted
<1>5. q \in Seq(K) /\ Len(q) = n
  BY <1>4, SMTT(60)
<1>6. {q[i] : i \in 1..n} = K /\ \A i, j \in 1..n : i < j => q[i] < q[j]
  BY <1>3, <1>4 DEF Sorted
<1>7. \A k \in K : \E i \in 1..n : q[i] = k
  BY <1>6
<1>8. \A i \in 1..n : q[i] \in K
  BY <1>4
<1> QED BY <1>5, <1>6, <1>7, <1>8 DEF Lists

-----------------------------------------------------------------------------
SplitRight(r, from) ==
    /\ r[1].lo = from /\ r[Len(r)].hi = KeyMax
    /\ \A i \in DOMAIN r : r[i].lo <= r[i].hi
    /\ \A i \in 1..(Len(r) - 1) : r[i + 1].lo = r[i].hi + 1

LEMMA SplitRightIs ==
  ASSUME NEW from \in 0..KeyMax, NEW n \in Nat \ {0}, NEW r, r = SplitRange(from, n),
         r[Len(r)].lo <= KeyMax
  PROVE  SplitRight(r, from)
<1>1. Contiguous(r, from) /\ r \in Seq([lo : Nat, hi : Nat]) /\ Len(r) \in 1..n
  BY SplitFacts
<1>2. /\ r[1].lo = from /\ r[Len(r)].hi = KeyMax
      /\ \A i \in 1..(Len(r) - 1) : r[i].lo <= r[i].hi /\ r[i + 1].lo = r[i].hi + 1
  BY <1>1 DEF Contiguous
<1>3. Len(r) \in Nat /\ n \in Nat
  BY <1>1, SMTT(60)
<1>4. DOMAIN r = 1..Len(r)
  BY <1>1, SMTT(60)
<1>5. \A i \in DOMAIN r : i = Len(r) \/ i \in 1..(Len(r) - 1)
  BY <1>3, <1>4, SMTT(60)
<1>6. \A i \in DOMAIN r : r[i].lo <= r[i].hi
  BY <1>2, <1>5
<1> QED BY <1>2, <1>6 DEF SplitRight

(***************************************************************************)
(* splitRange divides the rest of the keyspace without gap or overlap,     *)
(* wherever the warmup may end, into however many sub-ranges and whatever  *)
(* the lengths of the responses.                                           *)
(***************************************************************************)
WarmOK == trie \in SUBSET Keys /\ warm.start \in 0..NoKey

THEOREM SplitIsRight == Spec => []SplitCovers
<1>1. Init => WarmOK
  <2> SUFFICES ASSUME Init PROVE WarmOK
    OBVIOUS
  <2>1. trie \in SUBSET Keys
    BY WalkAssumption DEF Init, Keys
  <2>2. warm.start = 0
    BY DEF Init
  <2> QED BY <2>1, <2>2, KeyFacts, SMTT(60) DEF WarmOK, NoKey
<1>2. WarmOK /\ [Next]_vars => WarmOK'
  <2> SUFFICES ASSUME WarmOK, [Next]_vars PROVE WarmOK'
    OBVIOUS
  <2>1. trie' = trie
    BY DEF Next, vars, Begin, Warmup, FanOut, Dequeue, Commit, Stop, Resume, Walk
  <2>2. CASE Begin
    <3>1. warm'.start = 0
      BY <2>2 DEF Begin
    <3> QED BY <2>1, <3>1, KeyFacts, SMTT(60) DEF WarmOK, NoKey
  <2>3. CASE Warmup
    <3>1. PICK n \in Sizes : warm' = [n |-> warm.n + 1, start |-> NextStart(warm.start, KeyMax, n)]
      BY <2>3 DEF Warmup
    <3>2. n \in Nat \ {0}
      BY WalkAssumption
    <3>3. NextStart(warm.start, KeyMax, n) \in 0..NoKey
      BY <3>2, KeyFacts, NextStartFacts DEF WarmOK
    <3> QED BY <2>1, <3>1, <3>3 DEF WarmOK
  <2>4. CASE warm' = warm
    BY <2>1, <2>4 DEF WarmOK
  <2> QED BY <2>2, <2>3, <2>4 DEF Next, vars, FanOut, Dequeue, Commit, Stop, Resume, Walk
<1>3. WarmOK => SplitCovers
  <2> SUFFICES ASSUME WarmOK, NEW n \in 1..SplitWays, NEW from \in warm.start..(KeyMax - n * n)
               PROVE  LET r == SplitRange(from, n)
                      IN  /\ r[1].lo = from /\ r[Len(r)].hi = KeyMax
                          /\ \A i \in DOMAIN r : r[i].lo <= r[i].hi
                          /\ \A i \in 1..(Len(r) - 1) : r[i + 1].lo = r[i].hi + 1
    BY DEF SplitCovers
  <2>1. PICK r : r = SplitRange(from, n)
    OBVIOUS
  <2>2. KeyMax \in Nat /\ n \in Nat \ {0} /\ n * n \in Nat /\ warm.start \in Nat
    BY WalkAssumption, SMTT(60) DEF WarmOK, NoKey
  <2>3. from \in 0..KeyMax /\ KeyMax - from >= n * n
    BY <2>2, SMTT(60)
  <2>4. n \in Nat \ {0} /\ from \in 0..KeyMax
    BY <2>2, <2>3
  <2>5. Room(from, n)
    BY <2>3 DEF Room
  <2>6. r[Len(r)].lo <= KeyMax
    BY <2>1, <2>4, <2>5, SplitFacts
  <2>7. SplitRight(r, from)
    BY <2>1, <2>4, <2>6, SplitRightIs
  <2> QED BY <2>1, <2>7 DEF SplitRight
<1> QED BY <1>1, <1>2, <1>3, PTL DEF Spec

-----------------------------------------------------------------------------
(***************************************************************************)
(* The inductive invariant, for responses of one length s.  The warmup     *)
(* then asks from the same keys in every run of the loader, g, and a giant *)
(* is cut into the same sub-ranges.  In each of them the committed rows    *)
(* are a prefix of the trie (Closed), and what is on its way to the writer *)
(* keeps them so, op by op (Ordered): that is what MaxBaseSlot relies on.  *)
(***************************************************************************)
Course(g, s) ==
    /\ g \in [0..SplitAfter -> 0..NoKey] /\ g[0] = 0
    /\ \A i \in 1..SplitAfter : g[i] = NextStart(g[i - 1], KeyMax, s)
    /\ \A i \in 0..SplitAfter : g[i] <= g[SplitAfter]

Ranges(g) == SplitRange(g[SplitAfter], SplitWays)

Sends(snt, k) == \E p \in 1..Len(snt) : snt[p] = k

(* The keys committed or on their way. *)
Held == {k \in trie : k \in rows \/ Sends(sent, k)}

Closed(T, have, r) ==
    \A k \in have, j \in T : r.lo <= j /\ j < k /\ k <= r.hi => j \in have

Ordered(T, have, snt, r) ==
    \A p \in 1..Len(snt) : \A j \in T :
      r.lo <= j /\ j < snt[p] /\ snt[p] <= r.hi =>
        j \in have \/ \E q \in 1..(p - 1) : snt[q] = j

Walkers == [lo : Nat, start : Nat, end : Nat, pc : {"new", "walk", "done"}]

WalkerAt(w, r, T, held) ==
    /\ w.lo = r.lo /\ w.end = r.hi
    /\ w.pc # "done" => w.lo <= w.start
    /\ w.pc = "done" => \A k \in T : k <= w.end => k < w.start
    /\ w.pc # "new" =>
         \A k \in T : w.lo <= k /\ k <= w.end /\ k < w.start => k \in held

WalkTypes ==
    /\ trie \in SUBSET Keys /\ rows \in SUBSET trie /\ sent \in Seq(trie \cup {Dequeued})
    /\ queued \in BOOLEAN /\ pc \in {"idle", "warm", "fan", "walked", "sent"}
    /\ warm \in [n : 0..SplitAfter, start : 0..NoKey] /\ ws \in Seq(Walkers)
    /\ Sends(sent, Dequeued) => pc = "sent"
    /\ \A p \in 1..Len(sent) : sent[p] = Dequeued => p = Len(sent)

PhaseAt(g) ==
    /\ pc = "idle" => sent = <<>>
    /\ pc \in {"idle", "warm"} => ws = <<>>
    /\ pc = "warm" => /\ warm.start = g[warm.n] /\ warm.start <= KeyMax
                      /\ \A k \in trie : k < warm.start => k \in Held
    /\ pc = "fan" => /\ g[SplitAfter] <= KeyMax /\ DOMAIN ws = DOMAIN Ranges(g)
                     /\ \A k \in trie : k < g[SplitAfter] => k \in Held
    /\ pc \in {"walked", "sent"} => trie \subseteq Held

WalkersAt(g) ==
    \A i \in DOMAIN ws : /\ g[SplitAfter] <= KeyMax /\ i \in DOMAIN Ranges(g)
                         /\ WalkerAt(ws[i], Ranges(g)[i], trie, Held)

PrefixAt(g) ==
    g[SplitAfter] <= KeyMax =>
      \A i \in DOMAIN Ranges(g) : /\ Closed(trie, rows, Ranges(g)[i])
                                  /\ Ordered(trie, rows, sent, Ranges(g)[i])

WalkAt(g) == PhaseAt(g) /\ WalkersAt(g) /\ PrefixAt(g)

WalkInv(s) ==
    WalkTypes /\ StorageWhole /\ \E g : Course(g, s) /\ WalkAt(g)
-----------------------------------------------------------------------------
(***************************************************************************)
(* The ops on their way to the writer.                                     *)
(***************************************************************************)
Joined(a, b, c) ==
    /\ Len(a) \in Nat /\ Len(b) \in Nat /\ Len(c) = Len(a) + Len(b)
    /\ \A p \in 1..Len(a) : p \in 1..Len(c) /\ c[p] = a[p]
    /\ \A t \in 1..Len(b) : Len(a) + t \in 1..Len(c) /\ c[Len(a) + t] = b[t]
    /\ \A p \in 1..Len(c) : p \in 1..Len(a) \/ \E t \in 1..Len(b) : p = Len(a) + t

LEMMA ConcatAt ==
  ASSUME NEW S, NEW a \in Seq(S), NEW b \in Seq(S), NEW c, c = a \o b
  PROVE  c \in Seq(S) /\ Joined(a, b, c)
<1>1. c \in Seq(S) /\ Len(a) \in Nat /\ Len(b) \in Nat /\ Len(c) = Len(a) + Len(b)
  BY SMTT(60)
<1>2. \A p \in 1..Len(a) : p \in 1..Len(c) /\ c[p] = a[p]
  BY <1>1, SMTT(60)
<1>3. \A t \in 1..Len(b) : Len(a) + t \in 1..Len(c) /\ c[Len(a) + t] = b[t]
  BY <1>1, SMTT(60)
<1>4. ASSUME NEW p \in 1..Len(c), p \notin 1..Len(a)
      PROVE  \E t \in 1..Len(b) : p = Len(a) + t
  <2>1. p - Len(a) \in 1..Len(b) /\ p = Len(a) + (p - Len(a))
    BY <1>1, <1>4, SMTT(60)
  <2> QED BY <2>1
<1> QED BY <1>1, <1>2, <1>3, <1>4 DEF Joined

LEMMA AppendIs ==
  ASSUME NEW S, NEW a \in Seq(S), NEW x
  PROVE  Append(a, x) = a \o <<x>>
  BY SMTT(60)

LEMMA SendsConcat ==
  ASSUME NEW S, NEW a \in Seq(S), NEW b \in Seq(S), NEW k
  PROVE  Sends(a \o b, k) <=> Sends(a, k) \/ Sends(b, k)
<1>1. PICK c : c = a \o b
  OBVIOUS
<1>2. /\ \A p \in 1..Len(a) : p \in 1..Len(c) /\ c[p] = a[p]
      /\ \A t \in 1..Len(b) : Len(a) + t \in 1..Len(c) /\ c[Len(a) + t] = b[t]
      /\ \A p \in 1..Len(c) : p \in 1..Len(a) \/ \E t \in 1..Len(b) : p = Len(a) + t
  <2>1. Joined(a, b, c)
    BY <1>1, ConcatAt
  <2> QED BY <2>1 DEF Joined
<1>3. ASSUME Sends(c, k) PROVE Sends(a, k) \/ Sends(b, k)
  <2>1. PICK p \in 1..Len(c) : c[p] = k
    BY <1>3 DEF Sends
  <2>2. CASE p \in 1..Len(a)
    BY <1>2, <2>1, <2>2 DEF Sends
  <2>3. ASSUME NEW t \in 1..Len(b), p = Len(a) + t PROVE Sends(b, k)
    BY <1>2, <2>1, <2>3 DEF Sends
  <2> QED BY <1>2, <2>2, <2>3
<1>4. ASSUME Sends(a, k) PROVE Sends(c, k)
  BY <1>2, <1>4 DEF Sends
<1>5. ASSUME Sends(b, k) PROVE Sends(c, k)
  BY <1>2, <1>5 DEF Sends
<1> QED BY <1>1, <1>3, <1>4, <1>5

(* Enqueued ops keep the order if all that precedes them is enqueued before. *)
LEMMA OrderedConcat ==
  ASSUME NEW T \in SUBSET Keys, NEW S, NEW a \in Seq(S), NEW b \in Seq(S), NEW have, NEW r,
         Ordered(T, have, a, r),
         \A t \in 1..Len(b), j \in T :
           r.lo <= j /\ j < b[t] /\ b[t] <= r.hi =>
             j \in have \/ Sends(a, j) \/ \E u \in 1..(t - 1) : b[u] = j
  PROVE  Ordered(T, have, a \o b, r)
<1>1. PICK c : c = a \o b
  OBVIOUS
<1>2. /\ Len(a) \in Nat /\ Len(b) \in Nat
      /\ \A p \in 1..Len(a) : p \in 1..Len(c) /\ c[p] = a[p]
      /\ \A t \in 1..Len(b) : Len(a) + t \in 1..Len(c) /\ c[Len(a) + t] = b[t]
      /\ \A p \in 1..Len(c) : p \in 1..Len(a) \/ \E t \in 1..Len(b) : p = Len(a) + t
  <2>1. Joined(a, b, c)
    BY <1>1, ConcatAt
  <2> QED BY <2>1 DEF Joined
<1>3. SUFFICES ASSUME NEW p \in 1..Len(c), NEW j \in T, r.lo <= j, j < c[p], c[p] <= r.hi, j \notin have
               PROVE  \E q \in 1..(p - 1) : c[q] = j
  BY <1>1 DEF Ordered
<1>4. CASE p \in 1..Len(a)
  <2>1. c[p] = a[p]
    BY <1>2, <1>4
  <2>2. PICK q \in 1..(p - 1) : a[q] = j
    BY <1>3, <1>4, <2>1 DEF Ordered
  <2>3. q \in 1..Len(a)
    BY <1>2, <1>4, SMTT(60)
  <2>4. c[q] = j
    BY <1>2, <2>2, <2>3
  <2> QED BY <2>4
<1>5. ASSUME NEW t \in 1..Len(b), p = Len(a) + t PROVE \E q \in 1..(p - 1) : c[q] = j
  <2>1. c[p] = b[t]
    BY <1>2, <1>5
  <2>2. Sends(a, j) \/ \E u \in 1..(t - 1) : b[u] = j
    BY <1>3, <2>1
  <2>3. CASE Sends(a, j)
    <3>1. PICK q \in 1..Len(a) : a[q] = j
      BY <2>3 DEF Sends
    <3>2. q \in 1..(p - 1)
      BY <1>2, <1>5, SMTT(60)
    <3>3. c[q] = j
      BY <1>2, <3>1
    <3> QED BY <3>2, <3>3
  <2>4. ASSUME NEW u \in 1..(t - 1), b[u] = j PROVE \E q \in 1..(p - 1) : c[q] = j
    <3>1. u \in 1..Len(b) /\ Len(a) + u \in 1..(p - 1)
      BY <1>2, <1>5, SMTT(60)
    <3>2. c[Len(a) + u] = j
      BY <1>2, <2>4, <3>1
    <3> QED BY <3>1, <3>2
  <2> QED BY <2>2, <2>3, <2>4
<1> QED BY <1>2, <1>4, <1>5

(* A committed op leaves the rest in order. *)
Shifted(a, b) ==
    /\ Len(a) \in Nat /\ Len(a) >= 1 /\ Len(b) = Len(a) - 1 /\ Head(a) = a[1]
    /\ \A p \in 1..Len(b) : p + 1 \in 1..Len(a) /\ b[p] = a[p + 1]

LEMMA TailAt ==
  ASSUME NEW S, NEW a \in Seq(S), a # <<>>, NEW b, b = Tail(a)
  PROVE  b \in Seq(S) /\ Head(a) \in S /\ Shifted(a, b)
<1>1. Len(a) \in Nat /\ Len(a) >= 1 /\ Len(b) = Len(a) - 1 /\ Head(a) = a[1]
  BY SMTT(60)
<1>2. b \in Seq(S) /\ Head(a) \in S
  BY SMTT(60)
<1>3. \A p \in 1..Len(b) : p + 1 \in 1..Len(a) /\ b[p] = a[p + 1]
  BY <1>1, SMTT(60)
<1> QED BY <1>1, <1>2, <1>3 DEF Shifted

LEMMA CommitOrdered ==
  ASSUME NEW T \in SUBSET Keys, NEW have \in SUBSET T, NEW a \in Seq(T \cup {Dequeued}),
         a # <<>>, NEW r, Closed(T, have, r), Ordered(T, have, a, r),
         NEW more, more = have \cup ({Head(a)} \ {Dequeued})
  PROVE  Closed(T, more, r) /\ Ordered(T, more, Tail(a), r)
<1>1. PICK b : b = Tail(a)
  OBVIOUS
<1>2. Shifted(a, b) /\ Head(a) \in T \cup {Dequeued}
  BY <1>1, TailAt
<1>3. /\ Len(a) \in Nat /\ Len(a) >= 1 /\ Len(b) = Len(a) - 1 /\ Head(a) = a[1]
      /\ \A p \in 1..Len(b) : p + 1 \in 1..Len(a) /\ b[p] = a[p + 1]
  BY <1>2 DEF Shifted
<1>4. \A j \in T : j \in Nat /\ j # Dequeued
  BY KeyFacts, SMTT(60) DEF Dequeued
<1>5. ASSUME NEW k \in more, NEW j \in T, r.lo <= j, j < k, k <= r.hi PROVE j \in have
  <2>1. CASE k \in have
    BY <1>5, <2>1 DEF Closed
  <2>2. CASE k = a[1]
    <3>1. 1 \in 1..Len(a)
      BY <1>3, SMTT(60)
    <3>2. j \in have \/ \E q \in 1..(1 - 1) : a[q] = j
      BY <1>5, <2>2, <3>1 DEF Ordered
    <3>3. 1..(1 - 1) = {}
      BY SMTT(60)
    <3> QED BY <3>2, <3>3
  <2> QED BY <1>3, <2>1, <2>2
<1>6. ASSUME NEW p \in 1..Len(b), NEW j \in T, r.lo <= j, j < b[p], b[p] <= r.hi, j \notin more
      PROVE  \E q \in 1..(p - 1) : b[q] = j
  <2>1. p + 1 \in 1..Len(a) /\ b[p] = a[p + 1]
    BY <1>3
  <2>2. j \in have \/ \E q \in 1..((p + 1) - 1) : a[q] = j
    BY <1>6, <2>1 DEF Ordered
  <2>3. PICK q \in 1..p : a[q] = j
    <3>1. (p + 1) - 1 = p /\ j \notin have
      BY <1>6, SMTT(60)
    <3> QED BY <2>2, <3>1
  <2>4. q # 1
    BY <1>3, <1>4, <1>6, <2>3
  <2>5. q - 1 \in 1..(p - 1) /\ q - 1 \in 1..Len(b) /\ (q - 1) + 1 = q
    BY <1>3, <2>4, SMTT(60)
  <2>6. b[q - 1] = j
    BY <1>3, <2>3, <2>5
  <2> QED BY <2>5, <2>6
<1>7. have \subseteq more
  OBVIOUS
<1>8. Closed(T, more, r)
  BY <1>5, <1>7 DEF Closed
<1>9. Ordered(T, more, b, r)
  BY <1>6 DEF Ordered
<1> QED BY <1>1, <1>8, <1>9

LEMMA CommitHolds ==
  ASSUME NEW T \in SUBSET Keys, NEW have, NEW a \in Seq(T \cup {Dequeued}), a # <<>>,
         NEW more, more = have \cup ({Head(a)} \ {Dequeued}),
         NEW k \in T, k \in have \/ Sends(a, k)
  PROVE  k \in more \/ Sends(Tail(a), k)
<1>1. PICK b : b = Tail(a)
  OBVIOUS
<1>2. Shifted(a, b)
  BY <1>1, TailAt
<1>3. /\ Len(a) \in Nat /\ Len(a) >= 1 /\ Len(b) = Len(a) - 1 /\ Head(a) = a[1]
      /\ \A p \in 1..Len(b) : p + 1 \in 1..Len(a) /\ b[p] = a[p + 1]
  BY <1>2 DEF Shifted
<1>4. k \in Nat /\ k # Dequeued
  BY KeyFacts, SMTT(60) DEF Dequeued
<1>5. ASSUME NEW p \in 1..Len(a), a[p] = k PROVE k \in more \/ Sends(b, k)
  <2>1. CASE p = 1
    BY <1>3, <1>4, <1>5, <2>1
  <2>2. CASE p # 1
    <3>1. p - 1 \in 1..Len(b) /\ (p - 1) + 1 = p
      BY <1>3, <2>2, SMTT(60)
    <3>2. b[p - 1] = k
      BY <1>3, <1>5, <3>1
    <3> QED BY <3>1, <3>2 DEF Sends
  <2> QED BY <2>1, <2>2
<1>6. CASE Sends(a, k)
  BY <1>1, <1>5, <1>6 DEF Sends
<1>7. CASE k \in have
  BY <1>7
<1> QED BY <1>6, <1>7

(* The slots of a response are enqueued. *)
SendsToo(c, a, K) == \A k : Sends(c, k) <=> Sends(a, k) \/ k \in K

LEMMA EnqueueFacts ==
  ASSUME NEW T \in SUBSET Keys, NEW a \in Seq(T \cup {Dequeued}), NEW K \in SUBSET T,
         NEW c, c = a \o Ascending(K)
  PROVE  c \in Seq(T \cup {Dequeued}) /\ SendsToo(c, a, K)
<1>1. PICK b : b = Ascending(K)
  OBVIOUS
<1>2. K \in SUBSET Keys
  OBVIOUS
<1>3. /\ b \in Seq(K)
      /\ \A k \in K : \E i \in 1..Len(b) : b[i] = k
      /\ \A i \in 1..Len(b) : b[i] \in K
  <2>1. b \in Seq(K) /\ Lists(b, K)
    BY <1>1, <1>2, AscendingIs
  <2> QED BY <2>1 DEF Lists
<1>4. b \in Seq(T \cup {Dequeued})
  BY <1>3, SMTT(60)
<1>5. c \in Seq(T \cup {Dequeued})
  BY <1>1, <1>4, ConcatAt
<1>6. \A k : Sends(b, k) <=> k \in K
  BY <1>3 DEF Sends
<1>7. ASSUME NEW k PROVE Sends(c, k) <=> Sends(a, k) \/ Sends(b, k)
  BY <1>1, <1>4, SendsConcat
<1> QED BY <1>5, <1>6, <1>7 DEF SendsToo

LEMMA EnqueueOrdered ==
  ASSUME NEW T \in SUBSET Keys, NEW a \in Seq(T \cup {Dequeued}), NEW K \in SUBSET T,
         NEW have, NEW r, Ordered(T, have, a, r),
         \A k \in K, j \in T : r.lo <= j /\ j < k /\ k <= r.hi => j \in have \/ Sends(a, j) \/ j \in K
  PROVE  Ordered(T, have, a \o Ascending(K), r)
<1>1. PICK b : b = Ascending(K)
  OBVIOUS
<1>2. K \in SUBSET Keys /\ \A k \in K : k \in Nat
  BY KeyFacts
<1>3. /\ b \in Seq(K) /\ Len(b) \in Nat
      /\ \A k \in K : \E i \in 1..Len(b) : b[i] = k
      /\ \A i \in 1..Len(b) : b[i] \in K
      /\ \A i, j \in 1..Len(b) : i < j => b[i] < b[j]
  <2>1. b \in Seq(K) /\ Lists(b, K)
    BY <1>1, <1>2, AscendingIs
  <2> QED BY <2>1 DEF Lists
<1>4. b \in Seq(T \cup {Dequeued})
  BY <1>3, SMTT(60)
<1>5. ASSUME NEW t \in 1..Len(b), NEW j \in T, r.lo <= j, j < b[t], b[t] <= r.hi
      PROVE  j \in have \/ Sends(a, j) \/ \E u \in 1..(t - 1) : b[u] = j
  <2>1. j \in have \/ Sends(a, j) \/ j \in K
    BY <1>3, <1>5
  <2>2. ASSUME j \in K PROVE \E u \in 1..(t - 1) : b[u] = j
    <3>1. PICK u \in 1..Len(b) : b[u] = j
      BY <1>3, <2>2
    <3>2. b[t] \in Nat /\ b[u] \in Nat /\ b[u] < b[t]
      BY <1>2, <1>3, <1>5, <3>1
    <3>3. u < t
      <4>1. u # t
        BY <3>2, SMTT(60)
      <4>2. ASSUME t < u PROVE FALSE
        <5>1. b[t] < b[u]
          BY <1>3, <4>2
        <5> QED BY <3>2, <5>1, SMTT(60)
      <4> QED BY <1>3, <4>1, <4>2, SMTT(60)
    <3>4. u \in 1..(t - 1)
      BY <1>3, <3>3, SMTT(60)
    <3> QED BY <3>1, <3>4
  <2> QED BY <2>1, <2>2
<1>6. \A t \in 1..Len(b), j \in T :
        r.lo <= j /\ j < b[t] /\ b[t] <= r.hi =>
          j \in have \/ Sends(a, j) \/ \E u \in 1..(t - 1) : b[u] = j
  BY <1>5
<1>7. Ordered(T, have, a \o b, r)
  BY <1>4, <1>6, OrderedConcat
<1> QED BY <1>1, <1>7
-----------------------------------------------------------------------------
(***************************************************************************)
(* The course of the warmup and the sub-ranges.                            *)
(***************************************************************************)
CourseTo(g, n, s) ==
    /\ g \in [0..n -> 0..NoKey] /\ g[0] = 0
    /\ \A i \in 1..n : g[i] = NextStart(g[i - 1], KeyMax, s)
    /\ \A i \in 0..n : g[i] <= g[n]

LEMMA CourseExists ==
  ASSUME trie \in SUBSET Keys, NEW s \in Nat \ {0}
  PROVE  \E g : Course(g, s)
<1> DEFINE S == {n \in Nat : \E g : CourseTo(g, n, s)}
<1>1. 0 \in S
  <2>1. PICK g : g = [i \in 0..0 |-> 0]
    OBVIOUS
  <2>2. CourseTo(g, 0, s)
    BY <2>1, KeyFacts, SMTT(60) DEF CourseTo, NoKey
  <2> QED BY <2>2
<1>2. ASSUME NEW n \in Nat, n \in S PROVE n + 1 \in S
  <2>1. PICK f : CourseTo(f, n, s)
    BY <1>2
  <2>2. /\ f \in [0..n -> 0..NoKey] /\ f[0] = 0 /\ f[n] \in 0..NoKey
        /\ \A i \in 1..n : f[i] = NextStart(f[i - 1], KeyMax, s)
        /\ \A i \in 0..n : f[i] <= f[n]
    BY <2>1, SMTT(60) DEF CourseTo
  <2>3. PICK x : x = NextStart(f[n], KeyMax, s)
    OBVIOUS
  <2>4. x \in 0..NoKey /\ f[n] <= x
    BY <2>2, <2>3, KeyFacts, NextStartFacts
  <2>5. PICK g : g = [i \in 0..(n + 1) |-> IF i = n + 1 THEN x ELSE f[i]]
    OBVIOUS
  <2>6. g[n + 1] = x /\ \A i \in 0..n : g[i] = f[i]
    BY <2>5, SMTT(60)
  <2>7. \A i \in 0..(n + 1) : i = n + 1 \/ i \in 0..n
    BY SMTT(60)
  <2>8. g \in [0..(n + 1) -> 0..NoKey] /\ g[0] = 0
    BY <2>2, <2>4, <2>5, <2>6, <2>7, SMTT(60)
  <2>9. ASSUME NEW i \in 1..(n + 1) PROVE g[i] = NextStart(g[i - 1], KeyMax, s)
    <3>1. CASE i = n + 1
      <4>1. i - 1 = n /\ n \in 0..n
        BY <3>1, SMTT(60)
      <4> QED BY <2>3, <2>6, <3>1, <4>1
    <3>2. CASE i # n + 1
      <4>1. i \in 1..n /\ i \in 0..n /\ i - 1 \in 0..n
        BY <3>2, SMTT(60)
      <4> QED BY <2>2, <2>6, <4>1
    <3> QED BY <3>1, <3>2
  <2>10. \A i \in 0..(n + 1) : g[i] <= g[n + 1]
    <3>1. NoKey \in Nat
      BY KeyFacts, SMTT(60) DEF NoKey
    <3>2. ASSUME NEW i \in 0..n PROVE g[i] <= g[n + 1]
      <4>1. g[i] = f[i] /\ f[i] \in Nat /\ f[i] <= f[n]
        BY <2>2, <2>6, <3>1, SMTT(60)
      <4>2. f[n] \in Nat /\ x \in Nat /\ f[n] <= x /\ g[n + 1] = x
        BY <2>2, <2>4, <2>6, <3>1, SMTT(60)
      <4> QED BY <4>1, <4>2, SMTT(60)
    <3>3. g[n + 1] <= g[n + 1]
      BY <2>4, <2>6, <3>1, SMTT(60)
    <3> QED BY <2>7, <3>2, <3>3
  <2>11. CourseTo(g, n + 1, s)
    BY <2>8, <2>9, <2>10 DEF CourseTo
  <2> QED BY <2>11, SMTT(60)
<1>3. Nat \subseteq S
  <2> HIDE DEF S
  <2> QED BY <1>1, <1>2, SetInduction
<1>4. \E g : CourseTo(g, SplitAfter, s)
  BY <1>3, WalkAssumption
<1> QED BY <1>4 DEF CourseTo, Course

LEMMA RangesAre ==
  ASSUME NEW g, NEW s, Course(g, s), g[SplitAfter] <= KeyMax, NEW R, R = Ranges(g)
  PROVE  /\ \A i \in DOMAIN R : R[i].lo \in Nat /\ R[i].hi \in Nat /\ g[SplitAfter] <= R[i].lo
         /\ \A k \in g[SplitAfter]..KeyMax : \E i \in DOMAIN R : R[i].lo <= k /\ k <= R[i].hi
         /\ \A i, j \in DOMAIN R : i < j => R[i].hi < R[j].lo
         /\ R \in Seq([lo : Nat, hi : Nat]) /\ Len(R) <= SplitWays
<1>1. PICK from : from = g[SplitAfter]
  OBVIOUS
<1>2. from \in 0..KeyMax /\ SplitWays \in Nat \ {0}
  BY <1>1, WalkAssumption, SMTT(60) DEF Course, NoKey
<1>3. R = SplitRange(from, SplitWays)
  BY <1>1 DEF Ranges
<1>4. /\ R \in Seq([lo : Nat, hi : Nat]) /\ Len(R) \in 1..SplitWays
      /\ \A i \in DOMAIN R : from <= R[i].lo
      /\ \A k \in from..KeyMax : \E i \in DOMAIN R : R[i].lo <= k /\ k <= R[i].hi
      /\ \A i, j \in DOMAIN R : i < j => R[i].hi < R[j].lo
  BY <1>2, <1>3, SplitFacts
<1>5. \A i \in DOMAIN R : R[i] \in [lo : Nat, hi : Nat]
  <2>1. PICK T : T = [lo : Nat, hi : Nat]
    OBVIOUS
  <2>2. R \in Seq(T)
    BY <1>4, <2>1
  <2>3. \A i \in DOMAIN R : R[i] \in T
    BY <2>2, SMTT(60)
  <2> QED BY <2>1, <2>3
<1>6. \A i \in DOMAIN R : R[i].lo \in Nat /\ R[i].hi \in Nat
  BY <1>5
<1>7. Len(R) <= SplitWays
  BY <1>2, <1>4, SMTT(60)
<1> QED BY <1>1, <1>4, <1>6, <1>7

StepsTo(start, end, next, K) ==
    /\ next \in 0..NoKey /\ (next = NoKey \/ start <= next)
    /\ \A k \in K : k \in trie /\ start <= k /\ k <= end /\ k < next
    /\ \A k \in trie : start <= k /\ k <= end /\ k < next => k \in K

LEMMA NextStartAny ==
  ASSUME trie \in SUBSET Keys, NEW start \in Nat, NEW end \in Nat, NEW n \in Nat \ {0},
         NEW next, next = NextStart(start, end, n), NEW K, K = Kept(start, end, n)
  PROVE  StepsTo(start, end, next, K)
<1>1. KeyMax \in Nat /\ NoKey = KeyMax + 1 /\ \A k \in trie : k \in Nat /\ k <= KeyMax
  BY KeyFacts DEF NoKey
<1>2. CASE start \in 0..NoKey
  <2>1. /\ next \in 0..NoKey /\ start <= next
        /\ \A k \in Kept(start, end, n) : k \in trie /\ start <= k /\ k <= end /\ k < next
        /\ \A k \in trie : start <= k /\ k <= end /\ k < next => k \in Kept(start, end, n)
    BY <1>2, NextStartFacts
  <2> QED BY <2>1 DEF StepsTo
<1>3. CASE start \notin 0..NoKey
  <2>1. {k \in trie : k >= start} = {}
    BY <1>1, <1>3, SMTT(60)
  <2>2. Answer(start, n) = {}
    BY <2>1 DEF Answer
  <2>3. K = {} /\ next = NoKey
    BY <2>1, <2>2 DEF Kept, NextStart, Finished
  <2>4. \A k \in trie : ~(start <= k)
    BY <1>1, <1>3, SMTT(60)
  <2>5. NoKey \in 0..NoKey
    BY <1>1, SMTT(60)
  <2> QED BY <2>3, <2>4, <2>5 DEF StepsTo
<1> QED BY <1>2, <1>3

LEMMA CourseKeeps ==
  ASSUME NEW g, NEW s, Course(g, s), trie' = trie
  PROVE  Course(g, s)'
<1>1. \A a, b, n : NextStart(a, b, n)' = NextStart(a, b, n)
  BY SMTT(60) DEF NextStart, Finished, Kept, Answer
<1> QED BY <1>1 DEF Course

(* More is held: what was said of the walkers stays true. *)
LEMMA WalkersGrow ==
  ASSUME NEW g, WalkersAt(g), ws' = ws, trie' = trie, Held \subseteq Held'
  PROVE  WalkersAt(g)'
<1>1. ASSUME NEW w, NEW r, NEW h1, NEW h2, h1 \subseteq h2, WalkerAt(w, r, trie, h1)
      PROVE  WalkerAt(w, r, trie, h2)
  BY <1>1 DEF WalkerAt
<1> QED BY <1>1 DEF WalkersAt

LEMMA PrefixStays ==
  ASSUME NEW g, PrefixAt(g), rows' = rows, sent' = sent, trie' = trie
  PROVE  PrefixAt(g)'
  BY DEF PrefixAt

LEMMA HeldStays ==
  ASSUME rows' = rows, sent' = sent, trie' = trie
  PROVE  Held' = Held
  BY DEF Held

LEMMA BeginKeeps ==
  ASSUME NEW g, NEW s, Course(g, s), WalkTypes, WalkAt(g), Begin
  PROVE  WalkTypes' /\ WalkAt(g)'
<1>1. /\ pc = "idle" /\ pc' = "warm" /\ warm' = [n |-> 0, start |-> 0]
      /\ trie' = trie /\ rows' = rows /\ queued' = queued /\ sent' = sent /\ ws' = ws
  BY DEF Begin
<1>2. KeyMax \in Nat /\ NoKey = KeyMax + 1 /\ SplitAfter \in Nat
  BY WalkAssumption DEF NoKey
<1>3. sent = <<>> /\ ws = <<>>
  BY <1>1 DEF WalkAt, PhaseAt
<1>4. WalkTypes'
  <2>1. warm' \in [n : 0..SplitAfter, start : 0..NoKey]
    BY <1>1, <1>2, SMTT(60)
  <2>2. ~Sends(sent, Dequeued)
    BY <1>3, SMTT(60) DEF Sends
  <2> QED BY <1>1, <2>1, <2>2 DEF WalkTypes
<1>5. PhaseAt(g)'
  <2>1. warm'.start = 0 /\ warm'.n = 0 /\ g[0] = 0
    BY <1>1 DEF Course
  <2>2. \A k \in trie : ~(k < 0)
    BY KeyFacts, SMTT(60) DEF WalkTypes
  <2> QED BY <1>1, <1>2, <1>3, <2>1, <2>2, SMTT(60) DEF PhaseAt
<1>6. WalkersAt(g)'
  BY <1>1, WalkersGrow, HeldStays DEF WalkAt
<1>7. PrefixAt(g)'
  BY <1>1, PrefixStays DEF WalkAt
<1> QED BY <1>4, <1>5, <1>6, <1>7 DEF WalkAt

LEMMA FanOutKeeps ==
  ASSUME NEW g, NEW s, Course(g, s), WalkTypes, WalkAt(g), FanOut
  PROVE  WalkTypes' /\ WalkAt(g)'
<1>1. /\ pc = "warm" /\ pc' = "fan" /\ warm.n = SplitAfter /\ warm' = warm
      /\ trie' = trie /\ rows' = rows /\ queued' = queued /\ sent' = sent
  BY DEF FanOut
<1>2. warm.start = g[SplitAfter] /\ g[SplitAfter] <= KeyMax /\ \A k \in trie : k < g[SplitAfter] => k \in Held
  BY <1>1 DEF WalkAt, PhaseAt
<1>3. PICK R : R = Ranges(g)
  OBVIOUS
<1>4. ws' = [i \in DOMAIN R |-> [lo |-> R[i].lo, start |-> R[i].lo, end |-> R[i].hi, pc |-> "new"]]
  BY <1>2, <1>3 DEF FanOut, Ranges
<1>5. /\ \A i \in DOMAIN R : R[i].lo \in Nat /\ R[i].hi \in Nat
      /\ R \in Seq([lo : Nat, hi : Nat])
  BY <1>2, <1>3, RangesAre
<1>6. Len(R) \in Nat /\ DOMAIN R = 1..Len(R)
  BY <1>5, SMTT(60)
<1>7. ASSUME NEW i \in DOMAIN R PROVE ws'[i] \in Walkers /\ WalkerAt(ws'[i], R[i], trie, Held)
  <2>1. ws'[i] = [lo |-> R[i].lo, start |-> R[i].lo, end |-> R[i].hi, pc |-> "new"]
    BY <1>4
  <2>2. ws'[i] \in Walkers
    BY <1>5, <2>1, SMTT(60) DEF Walkers
  <2>3. WalkerAt(ws'[i], R[i], trie, Held)
    BY <1>5, <2>1, SMTT(60) DEF WalkerAt
  <2> QED BY <2>2, <2>3
<1>8. DOMAIN ws' = DOMAIN R
  BY <1>4
<1>9. Held' = Held
  BY <1>1, HeldStays
<1>10. WalkTypes'
  <2>1. ws' \in [1..Len(R) -> Walkers]
    BY <1>4, <1>6, <1>7
  <2>2. ws' \in Seq(Walkers)
    BY <1>6, <2>1, SMTT(60)
  <2> QED BY <1>1, <2>2 DEF WalkTypes
<1>11. PhaseAt(g)'
  BY <1>1, <1>2, <1>3, <1>8, <1>9 DEF PhaseAt
<1>12. WalkersAt(g)'
  BY <1>1, <1>2, <1>3, <1>7, <1>8, <1>9 DEF WalkersAt
<1>13. PrefixAt(g)'
  BY <1>1, PrefixStays DEF WalkAt
<1> QED BY <1>10, <1>11, <1>12, <1>13 DEF WalkAt

LEMMA StopKeeps ==
  ASSUME NEW g, NEW s, Course(g, s), WalkTypes, WalkAt(g), Stop
  PROVE  WalkTypes' /\ WalkAt(g)'
<1>1. /\ pc' = "idle" /\ sent' = <<>> /\ ws' = <<>>
      /\ trie' = trie /\ rows' = rows /\ queued' = queued /\ warm' = warm
  BY DEF Stop
<1>2. WalkTypes'
  <2>1. sent' \in Seq(trie \cup {Dequeued}) /\ ws' \in Seq(Walkers) /\ 1..Len(sent') = {}
    BY <1>1, SMTT(60)
  <2> QED BY <1>1, <2>1 DEF WalkTypes, Sends
<1>3. PhaseAt(g)'
  BY <1>1 DEF PhaseAt
<1>4. WalkersAt(g)'
  BY <1>1, SMTT(60) DEF WalkersAt
<1>5. PrefixAt(g)'
  <2>1. \A r : Ordered(trie, rows, <<>>, r)
    BY SMTT(60) DEF Ordered
  <2> QED BY <1>1, <2>1 DEF WalkAt, PrefixAt
<1> QED BY <1>2, <1>3, <1>4, <1>5 DEF WalkAt

(* A response's slots K are enqueued. *)
LEMMA EnqueueKeeps ==
  ASSUME WalkTypes, pc # "sent", NEW K \in SUBSET trie, sent' = sent \o Ascending(K),
         trie' = trie, rows' = rows
  PROVE  /\ sent' \in Seq(trie \cup {Dequeued}) /\ ~Sends(sent', Dequeued)
         /\ \A p \in 1..Len(sent') : sent'[p] = Dequeued => p = Len(sent')
         /\ Held' = Held \cup K
<1>1. trie \in SUBSET Keys /\ sent \in Seq(trie \cup {Dequeued}) /\ ~Sends(sent, Dequeued)
  BY DEF WalkTypes
<1>2. /\ sent' \in Seq(trie \cup {Dequeued})
      /\ \A k : Sends(sent', k) <=> Sends(sent, k) \/ k \in K
  <2>1. PICK T, a, c : T = trie /\ a = sent /\ c = sent'
    OBVIOUS
  <2>2. T \in SUBSET Keys /\ a \in Seq(T \cup {Dequeued}) /\ K \in SUBSET T /\ c = a \o Ascending(K)
    BY <1>1, <2>1
  <2>3. c \in Seq(T \cup {Dequeued}) /\ SendsToo(c, a, K)
    BY <2>2, EnqueueFacts
  <2> QED BY <2>1, <2>3 DEF SendsToo
<1>3. Dequeued \notin K
  BY <1>1, KeyFacts, SMTT(60) DEF Dequeued
<1>4. ~Sends(sent', Dequeued)
  BY <1>1, <1>2, <1>3
<1>5. \A p \in 1..Len(sent') : sent'[p] # Dequeued
  BY <1>4 DEF Sends
<1>6. Held' = Held \cup K
  BY <1>2 DEF Held
<1> QED BY <1>2, <1>4, <1>5, <1>6

LEMMA WarmupKeeps ==
  ASSUME NEW g, NEW s \in Nat \ {0}, Sizes = {s}, Course(g, s), WalkTypes, WalkAt(g), Warmup
  PROVE  WalkTypes' /\ WalkAt(g)'
<1>1. PICK K, next : K = Kept(warm.start, KeyMax, s) /\ next = NextStart(warm.start, KeyMax, s)
  OBVIOUS
<1>2. /\ pc = "warm" /\ warm.n < SplitAfter /\ sent' = sent \o Ascending(K)
      /\ warm' = [n |-> warm.n + 1, start |-> next]
      /\ pc' = (IF next = NoKey THEN "walked" ELSE "warm")
      /\ trie' = trie /\ rows' = rows /\ queued' = queued /\ ws' = ws
  BY <1>1 DEF Warmup, Enqueue
<1>3. KeyMax \in Nat /\ NoKey = KeyMax + 1 /\ SplitAfter \in Nat
  BY WalkAssumption DEF NoKey
<1>4. /\ trie \in SUBSET Keys /\ warm.n \in 0..SplitAfter /\ warm.start \in 0..NoKey
      /\ \A k \in trie : k \in Nat /\ k <= KeyMax
  BY KeyFacts DEF WalkTypes
<1>5. /\ next \in 0..NoKey
      /\ \A k \in K : k \in trie /\ warm.start <= k /\ k <= KeyMax /\ k < next
      /\ \A k \in trie : warm.start <= k /\ k <= KeyMax /\ k < next => k \in K
  <2>1. warm.start \in Nat
    BY <1>3, <1>4, SMTT(60)
  <2>2. StepsTo(warm.start, KeyMax, next, K)
    BY <1>1, <1>3, <1>4, <2>1, NextStartAny
  <2> QED BY <2>2 DEF StepsTo
<1>6. warm.start = g[warm.n] /\ ws = <<>> /\ \A k \in trie : k < warm.start => k \in Held
  BY <1>2 DEF WalkAt, PhaseAt
<1>7. warm.n + 1 \in 1..SplitAfter /\ warm.n + 1 \in 0..SplitAfter /\ (warm.n + 1) - 1 = warm.n
  BY <1>2, <1>3, <1>4, SMTT(60)
<1>8. next = g[warm.n + 1] /\ next <= g[SplitAfter]
  BY <1>1, <1>6, <1>7 DEF Course
<1>9. K \in SUBSET trie
  BY <1>5
<1>10. /\ sent' \in Seq(trie \cup {Dequeued}) /\ ~Sends(sent', Dequeued)
       /\ \A p \in 1..Len(sent') : sent'[p] = Dequeued => p = Len(sent')
       /\ Held' = Held \cup K
  <2>1. pc # "sent"
    BY <1>2
  <2> QED BY <1>2, <1>9, <2>1, EnqueueKeeps
<1>11. ASSUME NEW k \in trie, k < next PROVE k \in Held'
  <2>1. k < warm.start \/ warm.start <= k
    BY <1>3, <1>4, SMTT(60)
  <2> QED BY <1>4, <1>5, <1>6, <1>10, <1>11, <2>1
<1>12. WalkTypes'
  <2>1. warm' \in [n : 0..SplitAfter, start : 0..NoKey]
    BY <1>2, <1>5, <1>7
  <2> QED BY <1>2, <1>10, <2>1 DEF WalkTypes
<1>13. PhaseAt(g)'
  <2>1. CASE next = NoKey
    <3>1. trie \subseteq Held'
      BY <1>3, <1>4, <1>11, <2>1, SMTT(60)
    <3> QED BY <1>2, <2>1, <3>1 DEF PhaseAt
  <2>2. CASE next # NoKey
    <3>1. next <= KeyMax
      BY <1>3, <1>5, <2>2, SMTT(60)
    <3>2. warm'.start = next /\ warm'.n = warm.n + 1
      BY <1>2
    <3> QED BY <1>2, <1>6, <1>8, <1>11, <2>2, <3>1, <3>2 DEF PhaseAt
  <2> QED BY <2>1, <2>2
<1>14. WalkersAt(g)'
  BY <1>2, <1>10, WalkersGrow DEF WalkAt
<1>15. ASSUME g[SplitAfter] <= KeyMax, NEW i \in DOMAIN Ranges(g), NEW r, r = Ranges(g)[i]
       PROVE  Closed(trie, rows, r) /\ Ordered(trie, rows, sent \o Ascending(K), r)
  <2>1. Closed(trie, rows, r) /\ Ordered(trie, rows, sent, r)
    BY <1>15 DEF WalkAt, PrefixAt
  <2>2. r.lo \in Nat /\ g[SplitAfter] <= r.lo /\ g[SplitAfter] \in Nat
    <3>1. r.lo \in Nat /\ g[SplitAfter] <= r.lo
      BY <1>15, RangesAre
    <3>2. g[SplitAfter] \in 0..NoKey
      BY <1>3, SMTT(60) DEF Course
    <3> QED BY <1>3, <3>1, <3>2, SMTT(60)
  <2>3. \A k \in K, j \in trie : ~(r.lo <= j /\ j < k)
    <3> SUFFICES ASSUME NEW k \in K, NEW j \in trie, r.lo <= j, j < k PROVE FALSE
      OBVIOUS
    <3>1. k \in Nat /\ j \in Nat /\ k < next /\ next \in Nat /\ next <= g[SplitAfter]
      BY <1>3, <1>4, <1>5, <1>8, SMTT(60)
    <3> QED BY <2>2, <3>1, SMTT(60)
  <2>4. sent \in Seq(trie \cup {Dequeued})
    BY DEF WalkTypes
  <2>5. Ordered(trie, rows, sent \o Ascending(K), r)
    BY <1>4, <1>9, <2>1, <2>3, <2>4, EnqueueOrdered
  <2> QED BY <2>1, <2>5
<1>16. PrefixAt(g)'
  BY <1>2, <1>15 DEF PrefixAt
<1> QED BY <1>12, <1>13, <1>14, <1>16 DEF WalkAt

(* MaxBaseSlot: the committed rows of the range are a prefix. *)
LEMMA ResumeFacts ==
  ASSUME WalkTypes, NEW r, r.lo \in Nat, r.hi \in Nat, Closed(trie, rows, r),
         NEW w, w.lo = r.lo, w.end = r.hi, NEW at, at = ResumeAt(w)
  PROVE  /\ at \in Nat /\ r.lo <= at
         /\ \A k \in trie : r.lo <= k /\ k <= r.hi /\ k < at => k \in rows
<1> DEFINE have == {k \in rows : w.lo <= k /\ k <= w.end}
<1>1. have \in SUBSET rows /\ have \in SUBSET Keys /\ rows \in SUBSET trie
  BY DEF WalkTypes
<1>2. \A k \in trie : k \in Nat /\ k <= KeyMax
  BY KeyFacts DEF WalkTypes
<1>3. at = IF have = {} THEN w.lo ELSE IncKey(Max(have))
  BY DEF ResumeAt
<1>4. CASE have = {}
  BY <1>2, <1>3, <1>4, SMTT(60)
<1>5. CASE have # {}
  <2>1. PICK m : m = Max(have)
    OBVIOUS
  <2>2. m \in have
    <3> HIDE DEF have
    <3> QED BY <1>1, <1>5, <2>1, MaxIs
  <2>3. m \in rows /\ m \in trie /\ m \in Nat /\ m <= KeyMax /\ r.lo <= m /\ m <= r.hi
    BY <1>1, <1>2, <2>2
  <2>4. at = m + 1
    <3>1. at = IncKey(m)
      BY <1>3, <1>5, <2>1
    <3> QED BY <2>3, <3>1, KeyFacts DEF IncKey, NoKey
  <2>5. ASSUME NEW k \in trie, r.lo <= k, k <= r.hi, k < at PROVE k \in rows
    <3>1. k = m \/ k < m
      BY <1>2, <2>3, <2>4, <2>5, SMTT(60)
    <3>2. CASE k < m
      BY <2>3, <2>5, <3>2 DEF Closed
    <3> QED BY <2>3, <3>1, <3>2
  <2>6. at \in Nat /\ r.lo <= at
    BY <2>3, <2>4, SMTT(60)
  <2> QED BY <2>5, <2>6
<1> QED BY <1>4, <1>5

(* One walker changes; the others see no less held. *)
LEMMA WalkerChanges ==
  ASSUME NEW g, WalkersAt(g), ws \in Seq(Walkers), trie' = trie, Held \subseteq Held',
         NEW i \in DOMAIN ws, NEW w \in Walkers, ws' = [ws EXCEPT ![i] = w],
         WalkerAt(w, Ranges(g)[i], trie, Held')
  PROVE  ws' \in Seq(Walkers) /\ DOMAIN ws' = DOMAIN ws /\ WalkersAt(g)'
<1>1. ws' \in Seq(Walkers) /\ DOMAIN ws' = DOMAIN ws
  <2>1. PICK W : W = Walkers
    OBVIOUS
  <2>2. ws \in Seq(W) /\ w \in W
    BY <2>1
  <2>3. ws' \in Seq(W) /\ DOMAIN ws' = DOMAIN ws
    BY <2>2, SMTT(60)
  <2> QED BY <2>1, <2>3
<1>2. ASSUME NEW v, NEW r, NEW h1, NEW h2, h1 \subseteq h2, WalkerAt(v, r, trie, h1)
      PROVE  WalkerAt(v, r, trie, h2)
  BY <1>2 DEF WalkerAt
<1>3. ASSUME NEW j \in DOMAIN ws
      PROVE  /\ g[SplitAfter] <= KeyMax /\ j \in DOMAIN Ranges(g)
             /\ WalkerAt(ws'[j], Ranges(g)[j], trie, Held')
  <2>1. /\ g[SplitAfter] <= KeyMax /\ j \in DOMAIN Ranges(g)
        /\ WalkerAt(ws[j], Ranges(g)[j], trie, Held)
    BY DEF WalkersAt
  <2>2. CASE j = i
    <3>1. ws'[j] = w
      BY <2>2
    <3> QED BY <2>1, <2>2, <3>1
  <2>3. CASE j # i
    <3>1. ws'[j] = ws[j]
      BY <2>3
    <3> QED BY <1>2, <2>1, <3>1
  <2> QED BY <2>2, <2>3
<1>4. WalkersAt(g)'
  BY <1>1, <1>3 DEF WalkersAt
<1> QED BY <1>1, <1>4

LEMMA ResumeKeeps ==
  ASSUME NEW g, NEW s, Course(g, s), WalkTypes, WalkAt(g), NEW i \in DOMAIN ws, Resume(i)
  PROVE  WalkTypes' /\ WalkAt(g)'
<1>1. PICK o, at : o = ws[i] /\ at = ResumeAt(ws[i])
  OBVIOUS
<1>2. PICK w : w = [o EXCEPT !.start = at, !.pc = IF at > o.end THEN "done" ELSE "walk"]
  OBVIOUS
<1>3. /\ pc = "fan" /\ o.pc = "new" /\ ws' = [ws EXCEPT ![i] = w]
      /\ trie' = trie /\ rows' = rows /\ queued' = queued /\ sent' = sent /\ pc' = pc /\ warm' = warm
  BY <1>1, <1>2 DEF Resume
<1>4. PICK r : r = Ranges(g)[i]
  OBVIOUS
<1>5. g[SplitAfter] <= KeyMax /\ i \in DOMAIN Ranges(g) /\ WalkerAt(o, r, trie, Held)
  BY <1>1, <1>4 DEF WalkAt, WalkersAt
<1>6. r.lo \in Nat /\ r.hi \in Nat
  BY <1>4, <1>5, RangesAre
<1>7. Closed(trie, rows, r)
  BY <1>4, <1>5 DEF WalkAt, PrefixAt
<1>8. o.lo = r.lo /\ o.end = r.hi
  BY <1>5 DEF WalkerAt
<1>9. /\ at \in Nat /\ r.lo <= at
      /\ \A k \in trie : r.lo <= k /\ k <= r.hi /\ k < at => k \in rows
  BY <1>1, <1>6, <1>7, <1>8, ResumeFacts
<1>10. o \in Walkers /\ ws \in Seq(Walkers)
  BY <1>1, SMTT(60) DEF WalkTypes
<1>11. /\ w \in Walkers /\ w.lo = r.lo /\ w.end = r.hi /\ w.start = at
       /\ w.pc = (IF at > r.hi THEN "done" ELSE "walk")
  BY <1>2, <1>8, <1>9, <1>10 DEF Walkers
<1>12. Held' = Held /\ rows \subseteq Held
  BY <1>3, HeldStays DEF Held, WalkTypes
<1>13. WalkerAt(w, r, trie, Held')
  <2>1. w.pc = "done" => \A k \in trie : k <= w.end => k < w.start
    <3>1. \A k \in trie : k \in Nat
      BY KeyFacts DEF WalkTypes
    <3> QED BY <1>6, <1>9, <1>11, <3>1, SMTT(60)
  <2>2. \A k \in trie : w.lo <= k /\ k <= w.end /\ k < w.start => k \in Held'
    BY <1>9, <1>11, <1>12
  <2> QED BY <1>9, <1>11, <2>1, <2>2 DEF WalkerAt
<1>14. ws' \in Seq(Walkers) /\ DOMAIN ws' = DOMAIN ws /\ WalkersAt(g)'
  <2>1. WalkersAt(g) /\ Held \subseteq Held'
    BY <1>12 DEF WalkAt
  <2> QED BY <1>3, <1>4, <1>10, <1>11, <1>13, <2>1, WalkerChanges
<1>15. WalkTypes'
  BY <1>3, <1>14 DEF WalkTypes
<1>16. PhaseAt(g)'
  BY <1>3, <1>12, <1>14 DEF WalkAt, PhaseAt
<1>17. PrefixAt(g)'
  BY <1>3, PrefixStays DEF WalkAt
<1> QED BY <1>14, <1>15, <1>16, <1>17 DEF WalkAt

LEMMA WalkKeeps ==
  ASSUME NEW g, NEW s \in Nat \ {0}, Sizes = {s}, Course(g, s), WalkTypes, WalkAt(g),
         NEW i \in DOMAIN ws, Walk(i)
  PROVE  WalkTypes' /\ WalkAt(g)'
<1>1. PICK o : o = ws[i]
  OBVIOUS
<1>2. PICK K, next : K = Kept(o.start, o.end, s) /\ next = NextStart(o.start, o.end, s)
  OBVIOUS
<1>3. PICK w : w = [o EXCEPT !.start = next, !.pc = IF next = NoKey THEN "done" ELSE "walk"]
  OBVIOUS
<1>4. /\ pc = "fan" /\ o.pc = "walk" /\ ws' = [ws EXCEPT ![i] = w] /\ sent' = sent \o Ascending(K)
      /\ trie' = trie /\ rows' = rows /\ queued' = queued /\ pc' = pc /\ warm' = warm
  BY <1>1, <1>2, <1>3 DEF Walk, Enqueue
<1>5. PICK R : R = Ranges(g)
  OBVIOUS
<1>6. PICK r : r = R[i]
  OBVIOUS
<1>7. g[SplitAfter] <= KeyMax /\ i \in DOMAIN R /\ WalkerAt(o, r, trie, Held)
  BY <1>1, <1>5, <1>6 DEF WalkAt, WalkersAt
<1>8. /\ \A j \in DOMAIN R : R[j].lo \in Nat /\ R[j].hi \in Nat
      /\ \A j, l \in DOMAIN R : j < l => R[j].hi < R[l].lo
      /\ R \in Seq([lo : Nat, hi : Nat])
  BY <1>5, <1>7, RangesAre
<1>9. r.lo \in Nat /\ r.hi \in Nat
  BY <1>6, <1>7, <1>8
<1>10. /\ o.lo = r.lo /\ o.end = r.hi /\ r.lo <= o.start
       /\ \A k \in trie : r.lo <= k /\ k <= r.hi /\ k < o.start => k \in Held
  BY <1>4, <1>7 DEF WalkerAt
<1>11. o \in Walkers /\ ws \in Seq(Walkers) /\ o.start \in Nat
  <2>1. o \in Walkers /\ ws \in Seq(Walkers)
    BY <1>1, SMTT(60) DEF WalkTypes
  <2> QED BY <2>1 DEF Walkers
<1>12. /\ trie \in SUBSET Keys /\ KeyMax \in Nat /\ NoKey = KeyMax + 1
       /\ \A k \in trie : k \in Nat /\ k <= KeyMax
  BY KeyFacts DEF WalkTypes, NoKey
<1>13. /\ next \in 0..NoKey /\ (next = NoKey \/ o.start <= next)
       /\ \A k \in K : k \in trie /\ o.start <= k /\ k <= r.hi /\ k < next
       /\ \A k \in trie : o.start <= k /\ k <= r.hi /\ k < next => k \in K
  <2>1. o.end \in Nat
    BY <1>9, <1>10
  <2>2. StepsTo(o.start, o.end, next, K)
    BY <1>2, <1>11, <1>12, <2>1, NextStartAny
  <2> QED BY <1>10, <2>2 DEF StepsTo
<1>14. K \in SUBSET trie
  BY <1>13
<1>15. /\ sent' \in Seq(trie \cup {Dequeued}) /\ ~Sends(sent', Dequeued)
       /\ \A p \in 1..Len(sent') : sent'[p] = Dequeued => p = Len(sent')
       /\ Held' = Held \cup K
  <2>1. pc # "sent"
    BY <1>4
  <2> QED BY <1>4, <1>14, <2>1, EnqueueKeeps
<1>16. /\ w \in Walkers /\ w.lo = r.lo /\ w.end = r.hi /\ w.start = next
       /\ w.pc = (IF next = NoKey THEN "done" ELSE "walk")
  <2>1. next \in Nat
    BY <1>12, <1>13, SMTT(60)
  <2>2. PICK x : x = (IF next = NoKey THEN "done" ELSE "walk")
    OBVIOUS
  <2>3. x \in {"new", "walk", "done"} /\ w = [o EXCEPT !.start = next, !.pc = x]
    BY <1>3, <2>2
  <2>4. w \in Walkers /\ w.lo = o.lo /\ w.end = o.end /\ w.start = next /\ w.pc = x
    BY <1>11, <2>1, <2>3 DEF Walkers
  <2> QED BY <1>10, <2>2, <2>4
<1>17. WalkerAt(w, r, trie, Held')
  <2>1. next = NoKey => \A k \in trie : k < next
    BY <1>12, SMTT(60)
  <2>2. next # NoKey => r.lo <= next
    BY <1>9, <1>10, <1>11, <1>12, <1>13, SMTT(60)
  <2>3. ASSUME NEW k \in trie, r.lo <= k, k <= r.hi, k < next PROVE k \in Held'
    <3>1. k < o.start \/ o.start <= k
      BY <1>11, <1>12, SMTT(60)
    <3> QED BY <1>10, <1>13, <1>15, <2>3, <3>1
  <2> QED BY <1>16, <2>1, <2>2, <2>3 DEF WalkerAt
<1>18. ws' \in Seq(Walkers) /\ DOMAIN ws' = DOMAIN ws /\ WalkersAt(g)'
  <2>1. WalkersAt(g) /\ Held \subseteq Held'
    BY <1>15 DEF WalkAt
  <2> QED BY <1>4, <1>5, <1>6, <1>11, <1>16, <1>17, <2>1, WalkerChanges
<1>19. WalkTypes'
  BY <1>4, <1>15, <1>18 DEF WalkTypes
<1>20. PhaseAt(g)'
  BY <1>4, <1>15, <1>18 DEF WalkAt, PhaseAt
<1>21. ASSUME NEW j \in DOMAIN R, NEW q, q = R[j]
       PROVE  Closed(trie, rows, q) /\ Ordered(trie, rows, sent \o Ascending(K), q)
  <2>1. Closed(trie, rows, q) /\ Ordered(trie, rows, sent, q)
    BY <1>5, <1>7, <1>21 DEF WalkAt, PrefixAt
  <2>2. ASSUME NEW k \in K, NEW m \in trie, q.lo <= m, m < k, k <= q.hi
        PROVE  m \in rows \/ Sends(sent, m) \/ m \in K
    <3>1. k \in Nat /\ m \in Nat /\ o.start <= k /\ k <= r.hi /\ k < next /\ next \in Nat
      BY <1>12, <1>13, <1>14, SMTT(60)
    <3>2. CASE j = i
      <4>1. q = r
        BY <1>6, <1>21, <3>2
      <4>2. m <= r.hi /\ m < next /\ r.lo <= m
        BY <1>9, <2>2, <3>1, <4>1, SMTT(60)
      <4>3. CASE m < o.start
        <5>1. m \in Held
          BY <1>10, <4>2, <4>3
        <5> QED BY <5>1 DEF Held
      <4>4. CASE o.start <= m
        BY <1>13, <4>2, <4>4
      <4> QED BY <1>11, <3>1, <4>3, <4>4, SMTT(60)
    <3>3. CASE j # i
      <4>1. i \in Nat /\ j \in Nat
        <5>1. DOMAIN R = 1..Len(R) /\ Len(R) \in Nat
          BY <1>8, SMTT(60)
        <5> QED BY <1>7, <5>1, SMTT(60)
      <4>2. r.lo <= k /\ q.lo <= k
        <5>1. q.lo \in Nat
          BY <1>8, <1>21
        <5>2. q.lo <= k
          BY <2>2, <3>1, <5>1, SMTT(60)
        <5>3. r.lo <= k
          BY <1>9, <1>10, <1>11, <3>1, SMTT(60)
        <5> QED BY <5>2, <5>3
      <4>3. CASE i < j
        <5>1. r.hi < q.lo
          BY <1>6, <1>7, <1>8, <1>21, <4>3
        <5> QED BY <1>8, <1>9, <1>21, <3>1, <4>2, <5>1, SMTT(60)
      <4>4. CASE j < i
        <5>1. q.hi < r.lo
          BY <1>6, <1>7, <1>8, <1>21, <4>4
        <5> QED BY <1>8, <1>9, <1>21, <2>2, <3>1, <4>2, <5>1, SMTT(60)
      <4> QED BY <3>3, <4>1, <4>3, <4>4, SMTT(60)
    <3> QED BY <3>2, <3>3
  <2>3. sent \in Seq(trie \cup {Dequeued})
    BY DEF WalkTypes
  <2>4. Ordered(trie, rows, sent \o Ascending(K), q)
    BY <1>12, <1>14, <2>1, <2>2, <2>3, EnqueueOrdered
  <2> QED BY <2>1, <2>4
<1>22. PrefixAt(g)'
  BY <1>4, <1>5, <1>21 DEF PrefixAt
<1> QED BY <1>18, <1>19, <1>20, <1>22 DEF WalkAt

LEMMA DequeueKeeps ==
  ASSUME NEW g, NEW s, Course(g, s), WalkTypes, WalkAt(g), Dequeue
  PROVE  WalkTypes' /\ WalkAt(g)'
<1>1. /\ pc = "walked" \/ (pc = "fan" /\ \A i \in DOMAIN ws : ws[i].pc = "done")
      /\ sent' = Append(sent, Dequeued) /\ pc' = "sent"
      /\ trie' = trie /\ rows' = rows /\ queued' = queued /\ ws' = ws /\ warm' = warm
  BY DEF Dequeue
<1>2. /\ trie \in SUBSET Keys /\ KeyMax \in Nat /\ NoKey = KeyMax + 1
      /\ \A k \in trie : k \in Nat /\ k <= KeyMax
  BY KeyFacts DEF WalkTypes, NoKey
<1>3. ASSUME NEW k \in trie PROVE k \in Held
  <2>1. CASE pc = "walked"
    BY <2>1 DEF WalkAt, PhaseAt
  <2>2. CASE pc = "fan" /\ \A i \in DOMAIN ws : ws[i].pc = "done"
    <3>1. PICK R : R = Ranges(g)
      OBVIOUS
    <3>2. g[SplitAfter] <= KeyMax /\ DOMAIN ws = DOMAIN R /\ (k < g[SplitAfter] => k \in Held)
      BY <2>2, <3>1 DEF WalkAt, PhaseAt
    <3>3. g[SplitAfter] \in Nat
      BY <1>2, WalkAssumption, SMTT(60) DEF Course
    <3>4. CASE g[SplitAfter] <= k
      <4>1. k \in g[SplitAfter]..KeyMax
        BY <1>2, <3>3, <3>4, SMTT(60)
      <4>2. PICK i \in DOMAIN R : R[i].lo <= k /\ k <= R[i].hi
        BY <3>1, <3>2, <4>1, RangesAre
      <4>3. ws[i].pc = "done" /\ WalkerAt(ws[i], R[i], trie, Held)
        BY <2>2, <3>1, <3>2 DEF WalkAt, WalkersAt
      <4> QED BY <4>2, <4>3 DEF WalkerAt
    <3> QED BY <1>2, <3>2, <3>3, <3>4, SMTT(60)
  <2> QED BY <1>1, <2>1, <2>2
<1>4. PICK T, a, b : T = trie \cup {Dequeued} /\ a = sent /\ b = <<Dequeued>>
  OBVIOUS
<1>5. /\ a \in Seq(T) /\ b \in Seq(T) /\ sent' = a \o b /\ Len(b) = 1 /\ b[1] = Dequeued
      /\ \A t \in 1..Len(b) : b[t] = Dequeued
  <2>1. a \in Seq(T) /\ b \in Seq(T) /\ Len(b) = 1 /\ b[1] = Dequeued
    BY <1>4, SMTT(60) DEF WalkTypes
  <2>2. \A t \in 1..Len(b) : b[t] = Dequeued
    BY <2>1, SMTT(60)
  <2>3. sent' = a \o b
    BY <1>1, <1>4, <2>1, AppendIs
  <2> QED BY <2>1, <2>2, <2>3
<1>6. PICK c : c = sent'
  OBVIOUS
<1>7. c \in Seq(T) /\ Joined(a, b, c)
  BY <1>5, <1>6, ConcatAt
<1>8. /\ Len(a) \in Nat /\ Len(c) = Len(a) + 1
      /\ \A p \in 1..Len(a) : p \in 1..Len(c) /\ c[p] = a[p]
      /\ \A p \in 1..Len(c) : p \in 1..Len(a) \/ p = Len(c)
  <2>1. /\ Len(a) \in Nat /\ Len(b) \in Nat /\ Len(c) = Len(a) + Len(b)
        /\ \A p \in 1..Len(a) : p \in 1..Len(c) /\ c[p] = a[p]
        /\ \A p \in 1..Len(c) :
             p \in 1..Len(a) \/ \E t \in 1..Len(b) : p = Len(a) + t
    BY <1>7 DEF Joined
  <2>2. Len(b) = 1
    BY <1>5
  <2>3. ASSUME NEW p \in 1..Len(c) PROVE p \in 1..Len(a) \/ p = Len(c)
    <3>1. CASE \E t \in 1..Len(b) : p = Len(a) + t
      BY <2>1, <2>2, <3>1, SMTT(60)
    <3> QED BY <2>1, <3>1
  <2>4. Len(c) = Len(a) + 1
    BY <2>1, <2>2
  <2> QED BY <2>1, <2>3, <2>4
<1>9. \A p \in 1..Len(a) : a[p] # Dequeued
  BY <1>1, <1>4 DEF WalkTypes, Sends
<1>10. \A p \in 1..Len(sent') : sent'[p] = Dequeued => p = Len(sent')
  BY <1>6, <1>8, <1>9
<1>11. Held \subseteq Held'
  BY <1>1, <1>4, <1>6, <1>8 DEF Held, Sends
<1>12. WalkTypes'
  BY <1>1, <1>4, <1>6, <1>7, <1>10 DEF WalkTypes
<1>13. PhaseAt(g)'
  BY <1>1, <1>3, <1>11 DEF PhaseAt
<1>14. WalkersAt(g)'
  BY <1>1, <1>11, WalkersGrow DEF WalkAt
<1>15. ASSUME g[SplitAfter] <= KeyMax, NEW i \in DOMAIN Ranges(g), NEW r, r = Ranges(g)[i]
       PROVE  Closed(trie, rows, r) /\ Ordered(trie, rows, a \o b, r)
  <2>1. Closed(trie, rows, r) /\ Ordered(trie, rows, a, r)
    BY <1>4, <1>15 DEF WalkAt, PrefixAt
  <2>2. \A t \in 1..Len(b), j \in trie : ~(j < b[t])
    BY <1>2, <1>5, SMTT(60) DEF Dequeued
  <2>3. Ordered(trie, rows, a \o b, r)
    BY <1>2, <1>5, <2>1, <2>2, OrderedConcat
  <2> QED BY <2>1, <2>3
<1>16. PrefixAt(g)'
  BY <1>1, <1>5, <1>15 DEF PrefixAt
<1> QED BY <1>12, <1>13, <1>14, <1>16 DEF WalkAt

LEMMA CommitKeeps ==
  ASSUME NEW g, NEW s, Course(g, s), WalkTypes, StorageWhole, WalkAt(g), Commit
  PROVE  WalkTypes' /\ StorageWhole' /\ WalkAt(g)'
<1>1. /\ sent # <<>> /\ rows' = rows \cup ({Head(sent)} \ {Dequeued})
      /\ queued' = (queued /\ Head(sent) # Dequeued) /\ sent' = Tail(sent)
      /\ trie' = trie /\ pc' = pc /\ warm' = warm /\ ws' = ws
  BY DEF Commit
<1>2. PICK T, a, b, have, more : T = trie /\ a = sent /\ b = sent' /\ have = rows /\ more = rows'
  OBVIOUS
<1>3. /\ T \in SUBSET Keys /\ have \in SUBSET T /\ a \in Seq(T \cup {Dequeued}) /\ a # <<>>
      /\ b = Tail(a) /\ more = have \cup ({Head(a)} \ {Dequeued})
  BY <1>1, <1>2 DEF WalkTypes
<1>4. b \in Seq(T \cup {Dequeued}) /\ Head(a) \in T \cup {Dequeued} /\ Shifted(a, b)
  BY <1>3, TailAt
<1>5. /\ Len(a) \in Nat /\ Len(a) >= 1 /\ Len(b) = Len(a) - 1 /\ Head(a) = a[1]
      /\ \A p \in 1..Len(b) : p + 1 \in 1..Len(a) /\ b[p] = a[p + 1]
  BY <1>4 DEF Shifted
<1>6. more \in SUBSET T
  BY <1>3, <1>4
<1>7. /\ Sends(a, Dequeued) => pc = "sent"
      /\ \A p \in 1..Len(a) : a[p] = Dequeued => p = Len(a)
  BY <1>2 DEF WalkTypes
<1>8. ASSUME NEW p \in 1..Len(b), b[p] = Dequeued PROVE p = Len(b) /\ pc = "sent"
  <2>1. p + 1 \in 1..Len(a) /\ a[p + 1] = Dequeued
    BY <1>5, <1>8
  <2>2. p + 1 = Len(a) /\ Sends(a, Dequeued)
    BY <1>7, <2>1 DEF Sends
  <2> QED BY <1>5, <1>7, <2>2, SMTT(60)
<1>9. WalkTypes'
  <2>1. Sends(b, Dequeued) => pc = "sent"
    BY <1>8 DEF Sends
  <2>2. \A p \in 1..Len(b) : b[p] = Dequeued => p = Len(b)
    BY <1>8
  <2>3. queued' \in BOOLEAN
    BY <1>1
  <2> QED BY <1>1, <1>2, <1>4, <1>6, <2>1, <2>2, <2>3 DEF WalkTypes
<1>10. ASSUME NEW k \in T, k \in have \/ Sends(a, k) PROVE k \in more \/ Sends(b, k)
  <2>1. k \in more \/ Sends(Tail(a), k)
    BY <1>3, <1>10, CommitHolds, SMTT(60)
  <2> QED BY <1>3, <2>1
<1>11. Held \subseteq Held'
  BY <1>1, <1>2, <1>10 DEF Held
<1>12. PhaseAt(g)'
  <2>1. pc # "idle"
    BY <1>1 DEF WalkAt, PhaseAt
  <2> QED BY <1>1, <1>11, <2>1 DEF WalkAt, PhaseAt
<1>13. WalkersAt(g)'
  BY <1>1, <1>11, WalkersGrow DEF WalkAt
<1>14. ASSUME g[SplitAfter] <= KeyMax, NEW i \in DOMAIN Ranges(g), NEW r, r = Ranges(g)[i]
       PROVE  Closed(T, more, r) /\ Ordered(T, more, b, r)
  <2>1. Closed(T, have, r) /\ Ordered(T, have, a, r)
    BY <1>2, <1>14 DEF WalkAt, PrefixAt
  <2> QED BY <1>3, <2>1, CommitOrdered
<1>15. PrefixAt(g)'
  BY <1>1, <1>2, <1>14 DEF PrefixAt
<1>16. StorageWhole'
  <2>1. CASE Head(sent) = Dequeued
    <3>1. a[1] = Dequeued /\ 1 \in 1..Len(a)
      <4>1. a[1] = Dequeued
        BY <1>2, <1>5, <2>1
      <4>2. 1 \in 1..Len(a)
        <5>1. PICK n \in Nat : n = Len(a) /\ n >= 1
          BY <1>5
        <5> QED BY <5>1, SMTT(60)
      <4> QED BY <4>1, <4>2
    <3>2. Len(a) = 1 /\ pc = "sent"
      BY <1>7, <3>1 DEF Sends
    <3>3. 1..Len(b) = {}
      BY <1>5, <3>2, SMTT(60)
    <3>4. T \subseteq Held
      BY <1>2, <3>2 DEF WalkAt, PhaseAt
    <3>5. \A k \in T : k \in more
      BY <1>2, <1>10, <3>3, <3>4 DEF Held, Sends
    <3> QED BY <1>1, <1>2, <1>6, <3>5 DEF StorageWhole
  <2>2. CASE Head(sent) # Dequeued
    <3>1. queued' = queued /\ have \subseteq more
      BY <1>1, <1>3, <2>2 DEF WalkTypes
    <3> QED BY <1>1, <1>2, <1>6, <3>1, SMTT(60) DEF StorageWhole
  <2> QED BY <2>1, <2>2
<1> QED BY <1>9, <1>12, <1>13, <1>15, <1>16 DEF WalkAt
-----------------------------------------------------------------------------
(***************************************************************************)
(* The theorems, for peers whose responses have one length.                *)
(***************************************************************************)
LEMMA WalkInvInit ==
  ASSUME NEW s \in Nat \ {0}, Init
  PROVE  WalkInv(s)
<1>1. /\ trie \in SUBSET Keys /\ rows = {} /\ queued = TRUE /\ sent = <<>> /\ pc = "idle"
      /\ warm = [n |-> 0, start |-> 0] /\ ws = <<>>
  BY WalkAssumption DEF Init, Keys
<1>2. KeyMax \in Nat /\ NoKey = KeyMax + 1 /\ SplitAfter \in Nat
  BY WalkAssumption DEF NoKey
<1>3. WalkTypes
  <2>1. warm \in [n : 0..SplitAfter, start : 0..NoKey]
    BY <1>1, <1>2, SMTT(60)
  <2>2. sent \in Seq(trie \cup {Dequeued}) /\ ws \in Seq(Walkers) /\ 1..Len(sent) = {}
    BY <1>1, SMTT(60)
  <2> QED BY <1>1, <2>1, <2>2 DEF WalkTypes, Sends
<1>4. PICK g : Course(g, s)
  BY <1>1, CourseExists
<1>5. PhaseAt(g) /\ WalkersAt(g)
  BY <1>1, SMTT(60) DEF PhaseAt, WalkersAt
<1>6. PrefixAt(g)
  BY <1>1, SMTT(60) DEF PrefixAt, Closed, Ordered
<1> QED BY <1>1, <1>3, <1>4, <1>5, <1>6 DEF WalkInv, WalkAt, StorageWhole

LEMMA WalkInvStep ==
  ASSUME NEW s \in Nat \ {0}, Sizes = {s}, WalkInv(s), [Next]_vars
  PROVE  WalkInv(s)'
<1>1. WalkTypes /\ StorageWhole
  BY DEF WalkInv
<1>2. PICK g : Course(g, s) /\ WalkAt(g)
  BY DEF WalkInv
<1>3. trie' = trie
  BY DEF Next, vars, Begin, Warmup, FanOut, Dequeue, Commit, Stop, Resume, Walk
<1>4. Course(g, s)'
  BY <1>2, <1>3, CourseKeeps
<1>5. SUFFICES WalkTypes' /\ StorageWhole' /\ WalkAt(g)'
  BY <1>4 DEF WalkInv
<1>6. ASSUME rows' = rows, queued' = queued PROVE StorageWhole'
  BY <1>1, <1>3, <1>6 DEF StorageWhole
<1>7. CASE Begin
  <2>1. StorageWhole'
    BY <1>6, <1>7 DEF Begin
  <2> QED BY <1>1, <1>2, <1>7, <2>1, BeginKeeps
<1>8. CASE Warmup
  <2>1. StorageWhole'
    BY <1>6, <1>8 DEF Warmup
  <2> QED BY <1>1, <1>2, <1>8, <2>1, WarmupKeeps
<1>9. CASE FanOut
  <2>1. StorageWhole'
    BY <1>6, <1>9 DEF FanOut
  <2> QED BY <1>1, <1>2, <1>9, <2>1, FanOutKeeps
<1>10. CASE Dequeue
  <2>1. StorageWhole'
    BY <1>6, <1>10 DEF Dequeue
  <2> QED BY <1>1, <1>2, <1>10, <2>1, DequeueKeeps
<1>11. CASE Commit
  BY <1>1, <1>2, <1>11, CommitKeeps
<1>12. CASE Stop
  <2>1. StorageWhole'
    BY <1>6, <1>12 DEF Stop
  <2> QED BY <1>1, <1>2, <1>12, <2>1, StopKeeps
<1>13. ASSUME NEW i \in DOMAIN ws, Resume(i) PROVE WalkTypes' /\ StorageWhole' /\ WalkAt(g)'
  <2>1. StorageWhole'
    BY <1>6, <1>13 DEF Resume
  <2> QED BY <1>1, <1>2, <1>13, <2>1, ResumeKeeps
<1>14. ASSUME NEW i \in DOMAIN ws, Walk(i) PROVE WalkTypes' /\ StorageWhole' /\ WalkAt(g)'
  <2>1. StorageWhole'
    BY <1>6, <1>14 DEF Walk
  <2> QED BY <1>1, <1>2, <1>14, <2>1, WalkKeeps
<1>15. CASE UNCHANGED vars
  <2>1. /\ trie' = trie /\ rows' = rows /\ queued' = queued /\ sent' = sent
        /\ pc' = pc /\ warm' = warm /\ ws' = ws
    BY <1>15 DEF vars
  <2>2. WalkTypes' /\ StorageWhole'
    BY <1>1, <2>1 DEF WalkTypes, StorageWhole
  <2>3. Held' = Held
    BY <2>1, HeldStays
  <2>4. PhaseAt(g)' /\ WalkersAt(g)' /\ PrefixAt(g)'
    BY <1>2, <2>1, <2>3 DEF WalkAt, PhaseAt, WalkersAt, PrefixAt
  <2> QED BY <2>2, <2>4 DEF WalkAt
<1> QED BY <1>7, <1>8, <1>9, <1>10, <1>11, <1>12, <1>13, <1>14, <1>15 DEF Next

(***************************************************************************)
(* "rows below the watermark are complete" (walkStorage, MaxBaseSlot), and *)
(* "a missing queue row implies complete storage" (drainStorageQueue): no  *)
(* walker leaves a slot behind, and the queue row is deleted only once the *)
(* whole trie is committed, wherever the loader was stopped.               *)
(***************************************************************************)
THEOREM WalkInvariant ==
  ASSUME NEW s, Sizes = {s}
  PROVE  Spec => [](WalkInv(s))
<1>1. s \in Nat \ {0}
  BY WalkAssumption
<1>2. Init => WalkInv(s)
  BY <1>1, WalkInvInit
<1>3. WalkInv(s) /\ [Next]_vars => WalkInv(s)'
  BY <1>1, WalkInvStep
<1> QED BY <1>2, <1>3, PTL DEF Spec

(* The queue row is gone only when the storage is whole. *)
THEOREM TrieIsWhole ==
  ASSUME NEW s, Sizes = {s}
  PROVE  Spec => []StorageWhole
<1>1. Spec => [](WalkInv(s))
  BY WalkInvariant
<1>2. WalkInv(s) => StorageWhole
  BY DEF WalkInv
<1> QED BY <1>1, <1>2, PTL

(* What a sub-walker passed is committed or enqueued. *)
THEOREM WalkSkipsNothing ==
  ASSUME NEW s, Sizes = {s}
  PROVE  Spec => []NothingSkipped
<1>1. Spec => [](WalkInv(s))
  BY WalkInvariant
<1>2. WalkInv(s) => NothingSkipped
  <2> SUFFICES ASSUME WalkInv(s), NEW i \in DOMAIN ws, NEW k \in trie,
                      ws[i].pc # "new", ws[i].lo <= k, k <= ws[i].end, k < ws[i].start
               PROVE  k \in rows \/ \E j \in DOMAIN sent : sent[j] = k
    BY DEF NothingSkipped
  <2>1. PICK g : WalkAt(g)
    BY DEF WalkInv
  <2>2. WalkerAt(ws[i], Ranges(g)[i], trie, Held)
    BY <2>1 DEF WalkAt, WalkersAt
  <2>3. k \in Held
    BY <2>2 DEF WalkerAt
  <2>4. DOMAIN sent = 1..Len(sent)
    BY SMTT(60) DEF WalkInv, WalkTypes
  <2> QED BY <2>3, <2>4 DEF Held, Sends
<1> QED BY <1>1, <1>2, PTL
=============================================================================

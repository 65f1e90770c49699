-------------------------- MODULE Execution_proofs --------------------------
(***************************************************************************)
(* Proofs about the execution firewall.  AgentBroker: for every set of     *)
(* connections and every limit, whatever clients, children and the sealed  *)
(* state do.  Executor: for either platform, whatever processes do.        *)
(* RunCommand: for every set of runs, grants and policies.  PolicyEngine:  *)
(* for all policies and invocations.  All but the first are instances,     *)
(* which MCExecution checks under these names.                             *)
(***************************************************************************)
EXTENDS AgentBroker, FiniteSetTheorems, SequenceTheorems, TLAPS

-----------------------------------------------------------------------------
(* The inductive invariant.                                                *)

Holders == {c \in Conns : holds[c]}
Waiters == {c \in Conns : pc[c] = "waiting"}

\* The counters count the requests that hold a slot and those that wait; an
\* entry of the queue belongs to a request that waits and has no slot.
SlotInv ==
  /\ IsFiniteSet(Holders) /\ active = Cardinality(Holders)
  /\ IsFiniteSet(Waiters) /\ queued = Cardinality(Waiters)
  /\ \A c \in Conns : holds[c] => pc[c] \in Working \cup {"waiting"}
  /\ \A c \in Conns : pc[c] \in Working \/ (pc[c] = "waiting" /\ race[c] = "ready")
                        => holds[c]
  /\ \A c \in Conns : pc[c] \in {"absent", "idle"} => race[c] # "ready"
  /\ \A i \in 1 .. Len(waiting) : waiting[i] \in Waiters \ Holders
  /\ \A i, j \in 1 .. Len(waiting) : waiting[i] = waiting[j] => i = j
  /\ waiting # <<>> => active = MaxConcurrent

\* A use is reserved for a child before the child is started.
Spent == {c \in Conns : child[c] # "none" \/ pc[c] = "reserved"}
UseInv == IsFiniteSet(Spent) /\ Cardinality(Spent) <= uses

\* A request awaits one operation of the sealed state at a time.
Awaited(e) == e.act \notin {"dropped", "allowed"}
EventOf(c, act) == [conn |-> c, act |-> act]
Queued(e)  == \E i \in 1 .. Len(audits) : audits[i] = e

AuditInv ==
  /\ \A i \in 1 .. Len(audits) : Awaited(audits[i]) =>
       pc[audits[i].conn] = IF audits[i].act = "reserve" THEN "reserving" ELSE "reporting"
  /\ \A i, j \in 1 .. Len(audits) :
       /\ Awaited(audits[i]) /\ Awaited(audits[j])
       /\ audits[i].conn = audits[j].conn
       => i = j

Undecided == {"absent", "idle", "waiting", "authorize", "approval", "confirmed", "audited",
              "reserving", "refused", "reserved"}

\* A request on its way to a verdict, whatever it waits for.
Early(c) == pc[c] \in Undecided \/ Queued(EventOf(c, "confirmation"))

ConnInv(c) ==
  /\ pc[c] = "absent" <=> sock[c] = "none"
  /\ c \in dead <=> sock[c] \in {"ended", "closed"}
  /\ pc[c] = "idle" => sock[c] = "open"
  /\ pc[c] = "absent" => \A i \in 1 .. Len(audits) : audits[i].conn # c

Silent  == {<<>>, <<"exit">>}
Denied  == {<<"deny">>, <<"deny", "exit">>, <<"exit", "deny">>}
Allowed == {<<"allow">>, <<"allow", "exit">>}

\* What was written, by what is remembered of it.
WireInv(c) ==
  /\ wire[c] \in Silent \cup Denied \cup Allowed
  /\ c \notin decided => wire[c] \in Silent
  /\ c \notin exited => wire[c] \in {<<>>, <<"allow">>}
  /\ c \notin dead /\ Early(c) => c \notin decided \cup exited
  /\ c \notin dead /\ pc[c] = "running" => c \notin exited

ChildInv(c) ==
  /\ wire[c] \in Allowed => child[c] \in {"announced", "killed", "gone"}
  /\ Early(c) => child[c] = "none"
  /\ child[c] = "killed" => c \in dead

\* A verdict of a connection that stands is recorded, or its event is queued.
RecordInv(c) ==
  c \notin dead =>
    /\ wire[c] \in Denied => \/ EventOf(c, "denied") \in recorded
                             \/ Queued(EventOf(c, "denied"))
                             \/ pc[c] = "failed"
    /\ wire[c] \in Allowed => \/ EventOf(c, "allowed") \in recorded
                              \/ Queued(EventOf(c, "allowed"))
    /\ wire[c] \in Allowed => \/ EventOf(c, "completed") \in recorded
                              \/ Queued(EventOf(c, "completed"))
                              \/ pc[c] \in {"running", "failed"}
    /\ \A i \in 1 .. Len(audits) :
         audits[i] = EventOf(c, "allowed") =>
           \/ pc[c] = "running"
           \/ \E j \in i + 1 .. Len(audits) : audits[j] = EventOf(c, "completed")

LocalInv(c) == ConnInv(c) /\ WireInv(c) /\ ChildInv(c) /\ RecordInv(c)

ClosingInv == /\ secrets <=> session \in {"running", "draining", "closing"}
              /\ ~secrets => \A c \in Conns : sock[c] \in {"none", "closed"}

IInv == /\ TypeOK /\ SlotInv /\ UseInv /\ AuditInv /\ ClosingInv
        /\ \A c \in Conns : LocalInv(c)

-----------------------------------------------------------------------------
(* Types.                                                                  *)

LEMMA EnqueueType ==
  ASSUME TypeOK, NEW c \in Conns,
         NEW act \in {"confirmation", "denied", "dropped", "reserve", "allowed", "completed"},
         Enqueue(c, act)
  PROVE  audits' \in Seq(Event)
BY DEF TypeOK, Enqueue, Event

LEMMA SendType ==
  ASSUME TypeOK, NEW c \in Conns, NEW what \in Seq(Frame), Send(c, what)
  PROVE  wire' \in [Conns -> Seq(Frame)]
<1>1. wire[c] \o what \in Seq(Frame)
  BY DEF TypeOK
<1> QED BY <1>1 DEF TypeOK, Send

LEMMA ExitFrameType ==
  ASSUME NEW c \in Conns
  PROVE  /\ ExitFrame(c) \in Seq(Frame)
         /\ <<"deny">> \o ExitFrame(c) \in Seq(Frame)
<1>1. /\ <<"deny">> \in Seq(Frame) /\ <<"exit">> \in Seq(Frame) /\ <<>> \in Seq(Frame)
      /\ <<"allow">> \in Seq(Frame)
  BY DEF Frame
<1> QED BY <1>1 DEF ExitFrame

LEMMA TerminateType ==
  ASSUME TypeOK, NEW c \in Conns, Terminate(c)
  PROVE  /\ wire' \in [Conns -> Seq(Frame)] /\ audits' \in Seq(Event)
         /\ dead' \subseteq Conns /\ decided' \subseteq Conns /\ exited' \subseteq Conns
         /\ sock' \in [Conns -> {"none", "open", "ended", "closed"}]
         /\ child' \in [Conns -> {"none", "live", "announced", "killed", "gone"}]
<1>1. wire' \in [Conns -> Seq(Frame)]
  BY SendType, ExitFrameType DEF Terminate
<1>2. audits' \in Seq(Event)
  BY EnqueueType DEF Terminate, TypeOK
<1> QED BY <1>1, <1>2 DEF Terminate, Abort, Kill, TypeOK

LEMMA HolderCounts ==
  ASSUME TypeOK, SlotInv, NEW c \in Conns, holds[c]
  PROVE  active \in 1 .. MaxConcurrent
<1>1. c \in Holders
  BY DEF Holders
<1>2. Cardinality(Holders) # 0
  BY <1>1, FS_EmptySet DEF SlotInv
<1> QED BY <1>2 DEF SlotInv, TypeOK

LEMMA WaiterCounts ==
  ASSUME TypeOK, SlotInv, NEW c \in Conns, pc[c] = "waiting"
  PROVE  queued \in 1 .. MaxQueued
<1>1. c \in Waiters
  BY DEF Waiters
<1>2. Cardinality(Waiters) # 0
  BY <1>1, FS_EmptySet DEF SlotInv
<1> QED BY <1>2 DEF SlotInv, TypeOK

\* The entry that c leaves is one of the queue, and the others keep their order.
LEMMA RemoveAtIs ==
  ASSUME NEW S, NEW s \in Seq(S), NEW i \in 1 .. Len(s)
  PROVE  /\ RemoveAt(s, i) \in Seq(S)
         /\ Len(RemoveAt(s, i)) = Len(s) - 1
         /\ \A j \in 1 .. Len(s) - 1 :
              RemoveAt(s, i)[j] = IF j < i THEN s[j] ELSE s[j + 1]
<1> DEFINE a == SubSeq(s, 1, i - 1)
           b == SubSeq(s, i + 1, Len(s))
<1>1. /\ a \in Seq(S) /\ Len(a) = i - 1
      /\ \A j \in 1 .. i - 1 : a[j] = s[j]
  OBVIOUS
<1>2. /\ b \in Seq(S) /\ Len(b) = Len(s) - i
      /\ \A j \in 1 .. Len(s) - i : b[j] = s[i + j]
  OBVIOUS
<1>3. RemoveAt(s, i) = a \o b
  BY DEF RemoveAt
<1> HIDE DEF a, b
<1>4. /\ a \o b \in Seq(S) /\ Len(a \o b) = Len(s) - 1
  <2>1. a \o b \in Seq(S)
    BY <1>1, <1>2
  <2>3. Len(a \o b) = Len(a) + Len(b)
    <3>1. a \in Seq(S) /\ b \in Seq(S)
      BY <1>1, <1>2
    <3> QED BY <3>1
  <2>2. Len(s) \in Nat /\ i \in Int /\ (i - 1) + (Len(s) - i) = Len(s) - 1
    OBVIOUS
  <2> QED BY <1>1, <1>2, <2>1, <2>2, <2>3
<1>5. ASSUME NEW j \in 1 .. Len(s) - 1
      PROVE  (a \o b)[j] = IF j < i THEN s[j] ELSE s[j + 1]
  <2>1. CASE j < i
    BY <2>1, <1>1, <1>2
  <2>2. CASE ~(j < i)
    <3>1. (a \o b)[j] = b[j - (i - 1)]
      BY <2>2, <1>1, <1>2
    <3>2. j - (i - 1) \in 1 .. Len(s) - i
      BY <2>2
    <3>3. b[j - (i - 1)] = s[i + (j - (i - 1))]
      BY <3>2, <1>2
    <3>4. i + (j - (i - 1)) = j + 1
      OBVIOUS
    <3> QED BY <2>2, <3>1, <3>3, <3>4
  <2> QED BY <2>1, <2>2
<1> QED BY <1>3, <1>4, <1>5

LEMMA WithdrawIs ==
  ASSUME TypeOK, SlotInv, NEW c \in Conns, Withdraw(c)
  PROVE  /\ waiting' \in Seq(Conns)
         /\ \A i \in 1 .. Len(waiting') :
              /\ waiting'[i] # c
              /\ \E j \in 1 .. Len(waiting) : waiting'[i] = waiting[j]
         /\ \A i, j \in 1 .. Len(waiting') : waiting'[i] = waiting'[j] => i = j
         /\ waiting' # <<>> => waiting # <<>>
<1> DEFINE entries == {i \in 1 .. Len(waiting) : waiting[i] = c}
<1>0. waiting \in Seq(Conns)
  BY DEF TypeOK
<1>1. \A i, j \in 1 .. Len(waiting) : waiting[i] = waiting[j] => i = j
  BY DEF SlotInv
<1>2. CASE entries = {}
  <2>1. waiting' = waiting
    BY <1>2 DEF Withdraw
  <2> QED BY <1>0, <1>1, <1>2, <2>1
<1>3. CASE entries # {}
  <2>1. PICK i \in entries : waiting' = RemoveAt(waiting, i)
    BY <1>3 DEF Withdraw
  <2>2. i \in 1 .. Len(waiting) /\ waiting[i] = c
    BY <2>1
  <2> DEFINE w == RemoveAt(waiting, i)
  <2>3. /\ w \in Seq(Conns)
        /\ Len(w) = Len(waiting) - 1
        /\ \A j \in 1 .. Len(waiting) - 1 : w[j] = IF j < i THEN waiting[j] ELSE waiting[j + 1]
    BY <1>0, <2>2, RemoveAtIs
  <2> HIDE DEF w
  <2>4. ASSUME NEW j \in 1 .. Len(w)
        PROVE  /\ w[j] # c
               /\ \E k \in 1 .. Len(waiting) : w[j] = waiting[k]
    <3>1. CASE j < i
      BY <1>0, <1>1, <2>2, <2>3, <3>1
    <3>2. CASE ~(j < i)
      <4>1. j + 1 \in 1 .. Len(waiting) /\ j + 1 # i /\ w[j] = waiting[j + 1]
        BY <1>0, <2>2, <2>3, <3>2
      <4> QED BY <1>1, <2>2, <4>1
    <3> QED BY <3>1, <3>2
  <2>5. ASSUME NEW j \in 1 .. Len(w), NEW k \in 1 .. Len(w), w[j] = w[k]
        PROVE  j = k
    <3>1. j < i /\ k < i => j = k
      BY <1>0, <1>1, <2>2, <2>3, <2>5
    <3>2. ~(j < i) /\ ~(k < i) => j = k
      BY <1>0, <1>1, <2>2, <2>3, <2>5
    <3>3. ~(j < i /\ ~(k < i)) /\ ~(k < i /\ ~(j < i))
      BY <1>0, <1>1, <2>2, <2>3, <2>5
    <3> QED BY <3>1, <3>2, <3>3
  <2>6. waiting # <<>>
    BY <1>0, <2>2
  <2> QED BY <2>1, <2>3, <2>4, <2>5, <2>6 DEF w
<1> QED BY <1>2, <1>3

\* The first in the queue takes the slot over, or the slot is free.
LEMMA ReleaseType ==
  ASSUME TypeOK, SlotInv, NEW c \in Conns, holds[c], Release(c)
  PROVE  /\ active' \in 0 .. MaxConcurrent /\ holds' \in [Conns -> BOOLEAN]
         /\ waiting' \in Seq(Conns)
         /\ race' \in [Conns -> {"open", "ready", "timeout", "terminated"}]
<1>1. CASE waiting = <<>>
  <2>1. active \in 1 .. MaxConcurrent /\ active - 1 \in 0 .. MaxConcurrent
    BY HolderCounts, MaxConcurrentAssumption
  <2> QED BY <1>1, <2>1 DEF Release, TypeOK
<1>2. CASE waiting # <<>>
  <2>1. Head(waiting) \in Conns /\ Tail(waiting) \in Seq(Conns)
    BY <1>2 DEF TypeOK
  <2> QED BY <1>2, <2>1 DEF Release, TypeOK
<1> QED BY <1>1, <1>2

LEMMA GotoType ==
  ASSUME TypeOK, NEW c \in Conns, NEW label \in PCs, Goto(c, label)
  PROVE  pc' \in [Conns -> PCs]
BY DEF TypeOK, Goto

LEMMA AbortType ==
  ASSUME TypeOK, NEW c \in Conns, NEW end \in {"ended", "closed"}, Abort(c, end)
  PROVE  /\ dead' \subseteq Conns
         /\ sock' \in [Conns -> {"none", "open", "ended", "closed"}]
         /\ child' \in [Conns -> {"none", "live", "announced", "killed", "gone"}]
BY DEF TypeOK, Abort, Kill

LEMMA HeadType ==
  ASSUME TypeOK, audits # <<>>
  PROVE  /\ Head(audits) \in Event /\ Tail(audits) \in Seq(Event)
         /\ Head(audits).conn \in Conns
<1>1. Head(audits) \in Event /\ Tail(audits) \in Seq(Event)
  BY DEF TypeOK
<1> QED BY <1>1 DEF Event

LEMMA TypeStep ==
  ASSUME TypeOK, SlotInv, Next
  PROVE  TypeOK'
<1> USE LimitsAssumption, MaxConcurrentAssumption
    DEF TypeOK, admission, frames, closing, sealed
<1>1. ASSUME NEW c \in Conns, Connect(c) PROVE TypeOK'
  BY <1>1, GotoType DEF Connect, PCs, Working
<1>2. ASSUME NEW c \in Conns, Request(c) PROVE TypeOK'
  <2>0. pc' \in [Conns -> PCs]
    BY <1>2, GotoType DEF Request, Admit, Queue, Busy, PCs, Working
  <2>1. CASE Admit(c)
    BY <1>2, <2>0, <2>1 DEF Request, Admit
  <2>2. CASE Queue(c)
    <3>1. queued \in Nat /\ Append(waiting, c) \in Seq(Conns)
      OBVIOUS
    <3> QED BY <1>2, <2>0, <2>2, <3>1 DEF Request, Queue
  <2>3. CASE Busy(c)
    <3>1. Terminate(c)
      BY <2>3 DEF Busy
    <3> QED BY <1>2, <2>0, <2>3, <3>1, TerminateType DEF Request, Busy
  <2> QED BY <2>0, <1>2, <2>1, <2>2, <2>3 DEF Request
<1>3. ASSUME NEW c \in Conns, QueueTimeout(c) PROVE TypeOK'
  BY <1>3 DEF QueueTimeout
<1>4. ASSUME NEW c \in Conns, Answer(c) PROVE TypeOK'
  <2>0. pc' \in [Conns -> PCs]
    BY <1>4, GotoType DEF Answer, PCs, Working
  <2>1. audits' \in Seq(Event)
    BY <1>4, EnqueueType DEF Answer
  <2>2. approvals' \in Seq(Conns)
    BY <1>4 DEF Answer
  <2> QED BY <2>0, <1>4, <2>1, <2>2 DEF Answer
<1>5. ASSUME NEW c \in Conns, Resume(c) PROVE TypeOK'
  <2>0. pc' \in [Conns -> PCs]
    BY <1>5, GotoType DEF Resume, PCs, Working
  <2>1. queued' \in 0 .. MaxQueued
    BY <1>5, WaiterCounts DEF Resume
  <2>2. /\ active' \in 0 .. MaxConcurrent /\ holds' \in [Conns -> BOOLEAN]
        /\ waiting' \in Seq(Conns)
        /\ race' \in [Conns -> {"open", "ready", "timeout", "terminated"}]
    BY <1>5, ReleaseType, WithdrawIs DEF Resume
  <2>3. CASE Terminate(c)
    BY <1>5, <2>0, <2>1, <2>2, <2>3, TerminateType DEF Resume
  <2>4. CASE ~Terminate(c)
    BY <1>5, <2>0, <2>1, <2>2, <2>4 DEF Resume
  <2> QED BY <2>3, <2>4
<1>6. ASSUME NEW c \in Conns, Authorize(c) PROVE TypeOK'
  <2>0. pc' \in [Conns -> PCs]
    BY <1>6, GotoType DEF Authorize, Deny, PCs, Working
  <2>1. audits' \in Seq(Event)
    BY <1>6, EnqueueType DEF Authorize, Deny
  <2>2. wire' \in [Conns -> Seq(Frame)]
    BY <1>6, SendType, ExitFrameType DEF Authorize, Deny
  <2>3. decided' \subseteq Conns /\ exited' \subseteq Conns
    BY <1>6 DEF Authorize, Deny
  <2>4. approvals' \in Seq(Conns)
    <3>1. Append(approvals, c) \in Seq(Conns)
      OBVIOUS
    <3> QED BY <1>6, <3>1 DEF Authorize
  <2> QED BY <2>0, <1>6, <2>1, <2>2, <2>3, <2>4 DEF Authorize
<1>7. ASSUME NEW c \in Conns, Confirmed(c) \/ Reserve(c) \/ Refused(c) PROVE TypeOK'
  <2>0. pc' \in [Conns -> PCs]
    BY <1>7, GotoType DEF Confirmed, Reserve, Refused, Deny, PCs, Working
  <2>1. audits' \in Seq(Event)
    BY <1>7, EnqueueType DEF Confirmed, Reserve, Refused, Deny
  <2>2. wire' \in [Conns -> Seq(Frame)]
    BY <1>7, SendType, ExitFrameType DEF Confirmed, Reserve, Refused, Deny
  <2> QED BY <2>0, <1>7, <2>1, <2>2 DEF Confirmed, Reserve, Refused, Deny
<1>8. ASSUME NEW c \in Conns, Launch(c) PROVE TypeOK'
  <2>0. pc' \in [Conns -> PCs]
    BY <1>8, GotoType DEF Launch, PCs, Working
  <2>1. wire' \in [Conns -> Seq(Frame)]
    BY <1>8, SendType, ExitFrameType DEF Launch
  <2> QED BY <2>0, <1>8, <2>1 DEF Launch
<1>9. ASSUME NEW c \in Conns, Announce(c) PROVE TypeOK'
  <2>1. audits' \in Seq(Event)
    BY <1>9, EnqueueType DEF Announce
  <2>2. <<"allow">> \in Seq(Frame)
    BY DEF Frame
  <2>3. wire' \in [Conns -> Seq(Frame)]
    BY <1>9, <2>2, SendType DEF Announce
  <2> QED BY <1>9, <2>1, <2>3 DEF Announce
<1>10. ASSUME NEW c \in Conns, ChildCloses(c) PROVE TypeOK'
  <2>0. pc' \in [Conns -> PCs]
    BY <1>10, GotoType DEF ChildCloses, PCs, Working
  <2>1. audits' \in Seq(Event)
    BY <1>10, EnqueueType DEF ChildCloses
  <2>2. wire' \in [Conns -> Seq(Frame)]
    BY <1>10, SendType, ExitFrameType DEF ChildCloses
  <2> QED BY <2>0, <1>10, <2>1, <2>2 DEF ChildCloses
<1>11. ASSUME NEW c \in Conns, Finish(c) PROVE TypeOK'
  <2>0. pc' \in [Conns -> PCs]
    BY <1>11, GotoType DEF Finish, PCs, Working
  <2>1. holds[c]
    BY <1>11 DEF Finish, SlotInv, Working
  <2>2. /\ active' \in 0 .. MaxConcurrent /\ holds' \in [Conns -> BOOLEAN]
        /\ waiting' \in Seq(Conns)
        /\ race' \in [Conns -> {"open", "ready", "timeout", "terminated"}]
    BY <1>11, <2>1, ReleaseType DEF Finish
  <2> QED BY <2>0, <1>11, <2>2, AbortType DEF Finish
<1>12. ASSUME NEW c \in Conns, Flood(c) PROVE TypeOK'
  <2>1. Terminate(c)
    BY <1>12 DEF Flood
  <2> QED BY <1>12, <2>1, TerminateType DEF Flood, Wake
<1>13. ASSUME NEW c \in Conns, SocketCloses(c) PROVE TypeOK'
  <2>0. pc' \in [Conns -> PCs]
    BY <1>13, GotoType DEF SocketCloses, PCs, Working
  <2> QED BY <2>0, <1>13, AbortType DEF SocketCloses, Wake
<1>14. ASSUME StateOperation PROVE TypeOK'
  <2>0. pc' \in [Conns -> PCs]
    BY <1>14, GotoType, HeadType DEF StateOperation, Reservation, Reach, PCs, Working
  <2>1. uses' \in 0 .. MaxUses
    BY <1>14 DEF StateOperation, Reservation
  <2>2. toFlush' \in Nat
    BY <1>14 DEF StateOperation, Flush
  <2>3. recorded' \subseteq Event /\ audits' \in Seq(Event)
    BY <1>14, HeadType DEF StateOperation
  <2> QED BY <2>0, <1>14, <2>1, <2>2, <2>3 DEF StateOperation
<1>15. ASSUME StateFailure PROVE TypeOK'
  <2>0. pc' \in [Conns -> PCs]
    BY <1>15, GotoType, HeadType DEF StateFailure, Reach, PCs, Working
  <2>1. wire' \in [Conns -> Seq(Frame)]
    BY <1>15, HeadType, SendType, ExitFrameType DEF StateFailure
  <2>2. toFlush' \in Nat
    BY <1>15 DEF StateFailure, Flush
  <2>3. faults' \in Nat
    BY <1>15 DEF StateFailure
  <2> QED BY <2>0, <1>15, <2>1, <2>2, <2>3, HeadType, AbortType DEF StateFailure
<1>16. ASSUME AgentExits \/ CloseServer \/ ClearSecrets \/ CloseState PROVE TypeOK'
  <2>1. Len(audits) \in Nat
    OBVIOUS
  <2> QED BY <1>16, <2>1 DEF AgentExits, CloseServer, ClearSecrets, CloseState, unbothered
<1> QED
  BY <1>1, <1>2, <1>3, <1>4, <1>5, <1>6, <1>7, <1>8, <1>9, <1>10, <1>11, <1>12, <1>13,
     <1>14, <1>15, <1>16 DEF Next, Step

-----------------------------------------------------------------------------
(* Slots.                                                                  *)

\* A step that leaves the slots alone moves no request into or out of the
\* states between the admission and the release.
LEMMA SlotFrame ==
  ASSUME TypeOK, SlotInv, UNCHANGED <<holds, active, waiting, queued>>,
         \A c \in Conns : race'[c] = "ready" => race[c] = "ready",
         \A c \in Conns : \/ pc'[c] = pc[c]
                          \/ pc[c] \in Working /\ pc'[c] \in Working
                          \/ pc[c] \in {"absent", "idle"} /\ pc'[c] \in {"idle", "done"}
  PROVE  SlotInv'
<1>1. Holders' = Holders
  BY DEF Holders
<1>2. Waiters' = Waiters
  BY DEF Waiters, Working
<1> QED BY <1>1, <1>2 DEF SlotInv, Working

LEMMA CountIn ==
  ASSUME NEW S, IsFiniteSet(S), NEW x
  PROVE  /\ IsFiniteSet(S \cup {x}) /\ IsFiniteSet(S \ {x})
         /\ x \notin S => Cardinality(S \cup {x}) = Cardinality(S) + 1
         /\ x \in S => Cardinality(S \ {x}) = Cardinality(S) - 1
         /\ Cardinality(S) \in Nat
BY FS_AddElement, FS_RemoveElement, FS_CardinalityType

LEMMA AdmitSlots ==
  ASSUME TypeOK, SlotInv, NEW c \in Conns, pc[c] = "idle", Admit(c)
  PROVE  SlotInv'
<1>1. c \notin Holders /\ c \notin Waiters
  BY DEF SlotInv, Holders, Waiters, Working
<1>2. Holders' = Holders \cup {c} /\ Waiters' = Waiters
  BY DEF Admit, Goto, TypeOK, Holders, Waiters
<1>3. IsFiniteSet(Holders') /\ active' = Cardinality(Holders')
  BY <1>1, <1>2, CountIn DEF SlotInv, Admit
<1>4. waiting' = <<>> /\ waiting = <<>>
  BY MaxConcurrentAssumption DEF Admit, SlotInv
<1>5. /\ \A d \in Conns : holds'[d] => pc'[d] \in Working \cup {"waiting"}
      /\ \A d \in Conns : pc'[d] \in Working \/ (pc'[d] = "waiting" /\ race'[d] = "ready")
                            => holds'[d]
      /\ \A d \in Conns : pc'[d] \in {"absent", "idle"} => race'[d] # "ready"
  BY DEF Admit, Goto, TypeOK, SlotInv, Working
<1>6. IsFiniteSet(Waiters') /\ queued' = Cardinality(Waiters')
  BY <1>2 DEF SlotInv, Admit
<1>7. Len(waiting') = 0
  BY <1>4
<1> QED BY <1>3, <1>4, <1>5, <1>6, <1>7 DEF SlotInv

LEMMA QueueSlots ==
  ASSUME TypeOK, SlotInv, NEW c \in Conns, pc[c] = "idle", Queue(c)
  PROVE  SlotInv'
<1>1. c \notin Holders /\ c \notin Waiters
  BY DEF SlotInv, Holders, Waiters, Working
<1>2. Holders' = Holders /\ Waiters' = Waiters \cup {c}
  BY DEF Queue, Goto, TypeOK, Holders, Waiters
<1>3. IsFiniteSet(Waiters') /\ queued' = Cardinality(Waiters')
  BY <1>1, <1>2, CountIn DEF SlotInv, Queue
<1>4. IsFiniteSet(Holders') /\ active' = Cardinality(Holders')
  BY <1>2 DEF SlotInv, Queue
<1>5. /\ \A d \in Conns : holds'[d] => pc'[d] \in Working \cup {"waiting"}
      /\ \A d \in Conns : pc'[d] \in Working \/ (pc'[d] = "waiting" /\ race'[d] = "ready")
                            => holds'[d]
      /\ \A d \in Conns : pc'[d] \in {"absent", "idle"} => race'[d] # "ready"
  BY DEF Queue, Goto, TypeOK, SlotInv, Working
<1>6. /\ Len(waiting') = Len(waiting) + 1 /\ waiting'[Len(waiting) + 1] = c
      /\ \A i \in 1 .. Len(waiting) : waiting'[i] = waiting[i]
      /\ Len(waiting) \in Nat
  BY DEF Queue, TypeOK
<1>7. \A i \in 1 .. Len(waiting') : waiting'[i] \in Waiters' \ Holders'
  BY <1>1, <1>2, <1>6 DEF SlotInv
<1>8. \A i, j \in 1 .. Len(waiting') : waiting'[i] = waiting'[j] => i = j
  BY <1>1, <1>6 DEF SlotInv
<1>9. active' = MaxConcurrent
  BY MaxConcurrentAssumption DEF Queue, TypeOK
<1> QED BY <1>3, <1>4, <1>5, <1>7, <1>8, <1>9 DEF SlotInv

\* What release() does to the holders and to the queue.
LEMMA ReleaseSlots ==
  ASSUME TypeOK, SlotInv, NEW c \in Conns, holds[c], Release(c), Goto(c, "done")
  PROVE  /\ IsFiniteSet(Holders') /\ active' = Cardinality(Holders')
         /\ \A d \in Conns : holds'[d] => pc'[d] \in Working \cup {"waiting"}
         /\ \A d \in Conns : pc'[d] \in Working \/ (pc'[d] = "waiting" /\ race'[d] = "ready")
                               => holds'[d]
         /\ \A d \in Conns : pc'[d] \in {"absent", "idle"} => race'[d] # "ready"
         /\ \A i \in 1 .. Len(waiting') : waiting'[i] \in Waiters' \ Holders'
         /\ \A i, j \in 1 .. Len(waiting') : waiting'[i] = waiting'[j] => i = j
         /\ waiting' # <<>> => active' = MaxConcurrent
<1>0. /\ c \in Holders /\ IsFiniteSet(Holders) /\ active = Cardinality(Holders)
      /\ Waiters' = Waiters \ {c}
  BY DEF Holders, SlotInv, Waiters, Goto, TypeOK
<1>1. CASE waiting = <<>>
  <2>1. /\ Holders' = Holders \ {c} /\ active' = active - 1
        /\ waiting' = <<>> /\ race' = race
    BY <1>1 DEF Release, Holders, TypeOK
  <2>2. IsFiniteSet(Holders') /\ active' = Cardinality(Holders')
    BY <1>0, <2>1, CountIn
  <2>3. /\ \A d \in Conns : holds'[d] => pc'[d] \in Working \cup {"waiting"}
        /\ \A d \in Conns : pc'[d] \in Working \/ (pc'[d] = "waiting" /\ race'[d] = "ready")
                              => holds'[d]
        /\ \A d \in Conns : pc'[d] \in {"absent", "idle"} => race'[d] # "ready"
    BY <1>1, <2>1 DEF Release, Goto, TypeOK, SlotInv, Working
  <2>4. Len(waiting') = 0
    BY <2>1
  <2> QED BY <2>1, <2>2, <2>3, <2>4
<1>2. CASE waiting # <<>>
  <2> DEFINE next == Head(waiting)
  <2>1. /\ 1 \in 1 .. Len(waiting) /\ next = waiting[1]
        /\ Len(waiting) \in Nat /\ Len(Tail(waiting)) = Len(waiting) - 1
        /\ \A i \in 1 .. Len(Tail(waiting)) : /\ Tail(waiting)[i] = waiting[i + 1]
                                              /\ i + 1 \in 1 .. Len(waiting)
                                              /\ i + 1 # 1
    BY <1>2 DEF TypeOK
  <2>2. next \in Waiters \ Holders
    BY <2>1 DEF SlotInv
  <2>3. next \in Conns /\ next # c /\ pc[next] = "waiting"
    BY <1>0, <2>2 DEF Waiters
  <2> HIDE DEF next
  <2>4. /\ holds' = [holds EXCEPT ![c] = FALSE, ![next] = TRUE]
        /\ race' = [race EXCEPT ![next] = IF @ = "open" THEN "ready" ELSE @]
        /\ waiting' = Tail(waiting) /\ active' = active
    BY <1>2 DEF Release, next
  <2>5. Holders' = (Holders \ {c}) \cup {next}
    BY <2>3, <2>4 DEF Holders, TypeOK
  <2>6. IsFiniteSet(Holders') /\ active' = Cardinality(Holders')
    <3> DEFINE H == Holders \ {c}
    <3>1. IsFiniteSet(H) /\ Cardinality(H) = active - 1 /\ next \notin H
      BY <1>0, <2>2, CountIn
    <3>2. Cardinality(H \cup {next}) = Cardinality(H) + 1 /\ IsFiniteSet(H \cup {next})
      BY <3>1, CountIn
    <3> QED BY <2>4, <2>5, <3>1, <3>2 DEF TypeOK
  <2>7. /\ \A d \in Conns : holds'[d] => pc'[d] \in Working \cup {"waiting"}
        /\ \A d \in Conns : pc'[d] \in Working \/ (pc'[d] = "waiting" /\ race'[d] = "ready")
                              => holds'[d]
        /\ \A d \in Conns : pc'[d] \in {"absent", "idle"} => race'[d] # "ready"
    BY <2>3, <2>4 DEF Goto, TypeOK, SlotInv, Working
  <2>8. \A i \in 1 .. Len(waiting') : waiting'[i] \in Waiters' \ Holders'
    <3> SUFFICES ASSUME NEW i \in 1 .. Len(Tail(waiting))
                 PROVE  Tail(waiting)[i] \in Waiters' \ Holders'
      BY <2>4
    <3>1. waiting[i + 1] \in Waiters \ Holders /\ waiting[i + 1] # next
      BY <2>1 DEF SlotInv
    <3> QED BY <1>0, <2>1, <2>5, <3>1
  <2>9. \A i, j \in 1 .. Len(waiting') : waiting'[i] = waiting'[j] => i = j
    <3> SUFFICES ASSUME NEW i \in 1 .. Len(Tail(waiting)), NEW j \in 1 .. Len(Tail(waiting)),
                        Tail(waiting)[i] = Tail(waiting)[j]
                 PROVE  i = j
      BY <2>4
    <3>1. i + 1 = j + 1
      BY <2>1 DEF SlotInv
    <3> QED BY <3>1, <2>1
  <2>10. active' = MaxConcurrent
    BY <1>2, <2>4 DEF SlotInv
  <2> QED BY <2>6, <2>7, <2>8, <2>9, <2>10
<1> QED BY <1>1, <1>2

LEMMA ResumeSlots ==
  ASSUME TypeOK, SlotInv, NEW c \in Conns, Resume(c)
  PROVE  SlotInv'
<1>1. /\ c \in Waiters /\ IsFiniteSet(Waiters) /\ queued = Cardinality(Waiters)
      /\ queued' = queued - 1
  BY DEF Resume, Waiters, SlotInv
<1>2. Waiters' = Waiters \ {c}
  BY DEF Resume, Goto, Waiters, TypeOK
<1>3. IsFiniteSet(Waiters') /\ queued' = Cardinality(Waiters')
  BY <1>1, <1>2, CountIn
<1>4. CASE race[c] = "ready" /\ c \notin dead
  <2>1. /\ Goto(c, "authorize")
        /\ UNCHANGED <<race, holds, active, waiting>>
    BY <1>4 DEF Resume
  <2>2. holds[c]
    BY <1>1, <1>4 DEF SlotInv, Waiters
  <2>3. Holders' = Holders /\ c \in Holders
    BY <2>1, <2>2 DEF Holders
  <2>4. IsFiniteSet(Holders') /\ active' = Cardinality(Holders')
    BY <2>1, <2>3 DEF SlotInv
  <2>5. /\ \A d \in Conns : holds'[d] => pc'[d] \in Working \cup {"waiting"}
        /\ \A d \in Conns : pc'[d] \in Working \/ (pc'[d] = "waiting" /\ race'[d] = "ready")
                              => holds'[d]
        /\ \A d \in Conns : pc'[d] \in {"absent", "idle"} => race'[d] # "ready"
    BY <2>1, <2>2 DEF Goto, TypeOK, SlotInv, Working
  <2>6. \A i \in 1 .. Len(waiting') : waiting'[i] \in Waiters' \ Holders'
    BY <1>2, <2>1, <2>3 DEF SlotInv
  <2> QED BY <1>3, <2>1, <2>4, <2>5, <2>6 DEF SlotInv
<1>5. CASE ~(race[c] = "ready" /\ c \notin dead)
  <2>1. /\ Goto(c, "done")
        /\ IF holds[c] THEN Release(c) ELSE Withdraw(c) /\ UNCHANGED <<race, holds, active>>
    BY <1>5 DEF Resume
  <2>2. CASE holds[c]
    BY <1>3, <2>1, <2>2, ReleaseSlots DEF SlotInv
  <2>3. CASE ~holds[c]
    <3>1. Withdraw(c) /\ UNCHANGED <<race, holds, active>>
      BY <2>1, <2>3
    <3>2. /\ \A i \in 1 .. Len(waiting') :
               /\ waiting'[i] # c
               /\ \E j \in 1 .. Len(waiting) : waiting'[i] = waiting[j]
          /\ \A i, j \in 1 .. Len(waiting') : waiting'[i] = waiting'[j] => i = j
          /\ waiting' # <<>> => waiting # <<>>
      BY <3>1, WithdrawIs
    <3>3. Holders' = Holders
      BY <3>1 DEF Holders
    <3>4. IsFiniteSet(Holders') /\ active' = Cardinality(Holders')
      BY <3>1, <3>3 DEF SlotInv
    <3>5. \A i \in 1 .. Len(waiting') : waiting'[i] \in Waiters' \ Holders'
      BY <1>2, <3>2, <3>3 DEF SlotInv
    <3>6. /\ \A d \in Conns : holds'[d] => pc'[d] \in Working \cup {"waiting"}
          /\ \A d \in Conns : pc'[d] \in Working \/ (pc'[d] = "waiting" /\ race'[d] = "ready")
                                => holds'[d]
          /\ \A d \in Conns : pc'[d] \in {"absent", "idle"} => race'[d] # "ready"
      BY <2>1, <2>3, <3>1 DEF Goto, TypeOK, SlotInv, Working
    <3>7. waiting' # <<>> => active' = MaxConcurrent
      BY <3>1, <3>2 DEF SlotInv
    <3> QED BY <1>3, <3>2, <3>4, <3>5, <3>6, <3>7 DEF SlotInv
  <2> QED BY <2>2, <2>3
<1> QED BY <1>4, <1>5

LEMMA FinishSlots ==
  ASSUME TypeOK, SlotInv, NEW c \in Conns, Finish(c)
  PROVE  SlotInv'
<1>1. holds[c] /\ Goto(c, "done") /\ Release(c) /\ UNCHANGED queued
  BY DEF Finish, SlotInv, Working
<1>2. Waiters' = Waiters
  BY DEF Finish, Goto, TypeOK, Waiters
<1>3. IsFiniteSet(Waiters') /\ queued' = Cardinality(Waiters')
  BY <1>1, <1>2 DEF SlotInv
<1> QED BY <1>1, <1>3, ReleaseSlots DEF SlotInv

\* The request that awaits the operation at the head of the queue goes on.
LEMMA ReachGoesOn ==
  ASSUME TypeOK, AuditInv, audits # <<>>, NEW label \in Working, Reach(Head(audits), label)
  PROVE  \A c \in Conns :
           \/ pc'[c] = pc[c]
           \/ /\ pc[c] \in Working /\ pc'[c] = label
              /\ c = Head(audits).conn /\ Awaited(Head(audits))
<1>1. 1 \in 1 .. Len(audits) /\ Head(audits) = audits[1] /\ Head(audits).conn \in Conns
  BY HeadType DEF TypeOK
<1>2. CASE Awaited(Head(audits))
  <2>1. pc[Head(audits).conn] \in {"reserving", "reporting"}
    BY <1>1, <1>2 DEF AuditInv
  <2> QED BY <1>1, <1>2, <2>1 DEF Reach, Goto, TypeOK, Awaited, Working
<1>3. CASE ~Awaited(Head(audits))
  BY <1>3 DEF Reach, Awaited
<1> QED BY <1>2, <1>3

LEMMA SlotStep ==
  ASSUME TypeOK, SlotInv, AuditInv, Next
  PROVE  SlotInv'
<1> USE DEF admission, Goto
<1>1. ASSUME NEW c \in Conns, Connect(c) PROVE SlotInv'
  BY <1>1, SlotFrame DEF Connect, TypeOK
<1>2. ASSUME NEW c \in Conns, Request(c) PROVE SlotInv'
  <2>1. CASE Busy(c)
    BY <1>2, <2>1, SlotFrame DEF Request, Busy, TypeOK
  <2> QED BY <1>2, <2>1, AdmitSlots, QueueSlots DEF Request
<1>3. ASSUME NEW c \in Conns, QueueTimeout(c) PROVE SlotInv'
  BY <1>3, SlotFrame DEF QueueTimeout, TypeOK
<1>4. ASSUME NEW c \in Conns, Answer(c) PROVE SlotInv'
  BY <1>4, SlotFrame DEF Answer, TypeOK, Working
<1>5. ASSUME NEW c \in Conns, Resume(c) PROVE SlotInv'
  BY <1>5, ResumeSlots
<1>6. ASSUME NEW c \in Conns,
             Authorize(c) \/ Confirmed(c) \/ Reserve(c) \/ Refused(c)
      PROVE  SlotInv'
  <2>1. \A d \in Conns : pc'[d] = pc[d] \/ (pc[d] \in Working /\ pc'[d] \in Working)
    BY <1>6 DEF Authorize, Confirmed, Reserve, Refused, Deny, TypeOK, Working
  <2>2. UNCHANGED <<race, holds, active, waiting, queued>>
    BY <1>6 DEF Authorize, Confirmed, Reserve, Refused
  <2> QED BY <2>1, <2>2, SlotFrame
<1>7. ASSUME NEW c \in Conns, Launch(c) \/ Announce(c) \/ ChildCloses(c) PROVE SlotInv'
  <2>1. \A d \in Conns : pc'[d] = pc[d] \/ (pc[d] \in Working /\ pc'[d] \in Working)
    BY <1>7 DEF Launch, Announce, ChildCloses, TypeOK, Working
  <2>2. UNCHANGED <<race, holds, active, waiting, queued>>
    BY <1>7 DEF Launch, Announce, ChildCloses
  <2> QED BY <2>1, <2>2, SlotFrame
<1>8. ASSUME NEW c \in Conns, Finish(c) PROVE SlotInv'
  BY <1>8, FinishSlots
<1>9. ASSUME NEW c \in Conns, Flood(c) \/ SocketCloses(c) PROVE SlotInv'
  <2>1. /\ UNCHANGED <<holds, active, waiting, queued>>
        /\ Wake(c)
    BY <1>9 DEF Flood, SocketCloses
  <2>2. \A d \in Conns : race'[d] = "ready" => race[d] = "ready"
    BY <2>1 DEF Wake, TypeOK
  <2>3. \A d \in Conns : pc'[d] = pc[d] \/ (pc[d] = "idle" /\ pc'[d] = "done")
    BY <1>9 DEF Flood, SocketCloses, TypeOK
  <2> QED BY <2>1, <2>2, <2>3, SlotFrame
<1>10. ASSUME StateOperation \/ StateFailure PROVE SlotInv'
  <2>1. /\ audits # <<>> /\ UNCHANGED <<race, holds, active, waiting, queued>>
        /\ \E label \in Working : Reach(Head(audits), label)
    BY <1>10 DEF StateOperation, StateFailure, Reservation, Working
  <2>2. \A d \in Conns : pc'[d] = pc[d] \/ (pc[d] \in Working /\ pc'[d] \in Working)
    BY <2>1, ReachGoesOn
  <2> QED BY <2>1, <2>2, SlotFrame
<1>11. ASSUME AgentExits \/ CloseServer \/ ClearSecrets \/ CloseState PROVE SlotInv'
  BY <1>11, SlotFrame DEF AgentExits, CloseServer, ClearSecrets, CloseState, unbothered
<1> QED
  BY <1>1, <1>2, <1>3, <1>4, <1>5, <1>6, <1>7, <1>8, <1>9, <1>10, <1>11 DEF Next, Step

-----------------------------------------------------------------------------
(* Uses.                                                                   *)

LEMMA UseFrame ==
  ASSUME UseInv, Spent' \subseteq Spent, uses' = uses, uses \in Nat
  PROVE  UseInv'
<1>1. IsFiniteSet(Spent') /\ Cardinality(Spent') <= Cardinality(Spent)
  BY FS_Subset DEF UseInv
<1>2. Cardinality(Spent') \in Nat /\ Cardinality(Spent) \in Nat
  BY <1>1, FS_CardinalityType DEF UseInv
<1> QED BY <1>1, <1>2 DEF UseInv

LEMMA UseStep ==
  ASSUME TypeOK, UseInv, Next
  PROVE  UseInv'
<1> USE DEF Goto, Kill, frames
<1>0. uses \in Nat
  BY LimitsAssumption DEF TypeOK
<1>1. ASSUME NEW c \in Conns, Connect(c) \/ QueueTimeout(c) \/ Answer(c) PROVE UseInv'
  <2>1. Spent' \subseteq Spent /\ uses' = uses
    BY <1>1 DEF Connect, QueueTimeout, Answer, Spent, TypeOK
  <2> QED BY <1>0, <2>1, UseFrame
<1>2. ASSUME NEW c \in Conns, Request(c) \/ Resume(c) \/ Flood(c) PROVE UseInv'
  <2>1. Spent' \subseteq Spent /\ uses' = uses
    BY <1>2 DEF Request, Admit, Queue, Busy, Resume, Flood, Terminate, Abort, Spent, TypeOK
  <2> QED BY <1>0, <2>1, UseFrame
<1>3. ASSUME NEW c \in Conns, Authorize(c) \/ Confirmed(c) \/ Reserve(c) \/ Refused(c)
      PROVE  UseInv'
  <2>1. Spent' \subseteq Spent /\ uses' = uses
    BY <1>3 DEF Authorize, Confirmed, Reserve, Refused, Deny, Spent, TypeOK
  <2> QED BY <1>0, <2>1, UseFrame
<1>4. ASSUME NEW c \in Conns, Launch(c) \/ Announce(c) \/ ChildCloses(c) PROVE UseInv'
  <2>1. Spent' \subseteq Spent /\ uses' = uses
    BY <1>4 DEF Launch, Announce, ChildCloses, Spent, TypeOK
  <2> QED BY <1>0, <2>1, UseFrame
<1>5. ASSUME NEW c \in Conns, Finish(c) \/ SocketCloses(c) PROVE UseInv'
  <2>1. Spent' \subseteq Spent /\ uses' = uses
    BY <1>5 DEF Finish, SocketCloses, Abort, Spent, TypeOK
  <2> QED BY <1>0, <2>1, UseFrame
<1>6. ASSUME StateOperation PROVE UseInv'
  <2> DEFINE e == Head(audits)
  <2>1. e.conn \in Conns
    BY <1>6, HeadType DEF StateOperation
  <2>2. CASE uses' = uses
    <3>1. Spent' \subseteq Spent
      BY <1>6, <2>1, <2>2, <1>0 DEF StateOperation, Reservation, Reach, Spent, TypeOK
    <3> QED BY <1>0, <2>2, <3>1, UseFrame
  <2>3. CASE uses' # uses
    <3>1. uses' = uses + 1
      BY <1>6, <2>3 DEF StateOperation, Reservation
    <3>2. Spent' \subseteq Spent \cup {e.conn}
      BY <1>6, <2>1 DEF StateOperation, Reservation, Reach, Spent, TypeOK
    <3>3. /\ IsFiniteSet(Spent \cup {e.conn})
          /\ Cardinality(Spent \cup {e.conn}) <= Cardinality(Spent) + 1
      <4>1. IsFiniteSet(Spent) /\ Cardinality(Spent) \in Nat
        BY FS_CardinalityType DEF UseInv
      <4>2. CASE e.conn \in Spent
        <5>1. Spent \cup {e.conn} = Spent
          BY <4>2
        <5>2. Cardinality(Spent \cup {e.conn}) = Cardinality(Spent)
          BY <5>1
        <5>3. IsFiniteSet(Spent \cup {e.conn})
          BY <4>1, <5>1
        <5>4. Cardinality(Spent) <= Cardinality(Spent) + 1
          BY <4>1
        <5> QED BY <5>2, <5>3, <5>4
      <4>3. CASE e.conn \notin Spent
        BY <4>1, <4>3, CountIn
      <4> QED BY <4>2, <4>3
    <3>4. IsFiniteSet(Spent') /\ Cardinality(Spent') <= Cardinality(Spent \cup {e.conn})
      BY <3>2, <3>3, FS_Subset
    <3>5. /\ Cardinality(Spent') \in Nat /\ Cardinality(Spent) \in Nat
          /\ Cardinality(Spent \cup {e.conn}) \in Nat
      BY <3>3, <3>4, FS_CardinalityType DEF UseInv
    <3> QED BY <1>0, <3>1, <3>3, <3>4, <3>5 DEF UseInv
  <2> QED BY <2>2, <2>3
<1>7. ASSUME StateFailure PROVE UseInv'
  <2>1. Head(audits).conn \in Conns
    BY <1>7, HeadType DEF StateFailure
  <2>2. Spent' \subseteq Spent /\ uses' = uses
    BY <1>7, <2>1 DEF StateFailure, Reach, Abort, Spent, TypeOK
  <2> QED BY <1>0, <2>2, UseFrame
<1>8. ASSUME AgentExits \/ CloseServer \/ ClearSecrets \/ CloseState PROVE UseInv'
  <2>1. Spent' \subseteq Spent /\ uses' = uses
    BY <1>8 DEF AgentExits, CloseServer, ClearSecrets, CloseState, unbothered, Spent
  <2> QED BY <1>0, <2>1, UseFrame
<1> QED
  BY <1>1, <1>2, <1>3, <1>4, <1>5, <1>6, <1>7, <1>8 DEF Next, Step

-----------------------------------------------------------------------------
(* The queue of sealed-state operations.                                   *)

Awaiting == {"reserving", "reporting"}

LEMMA AppendIs ==
  ASSUME TypeOK, NEW c \in Conns, NEW act \in {"confirmation", "denied", "dropped", "reserve",
                                             "allowed", "completed"},
         Enqueue(c, act)
  PROVE  /\ Len(audits) \in Nat /\ Len(audits') = Len(audits) + 1
         /\ audits'[Len(audits) + 1] = [conn |-> c, act |-> act]
         /\ \A i \in 1 .. Len(audits) : audits'[i] = audits[i]
         /\ \A i \in 1 .. Len(audits') : i \in 1 .. Len(audits) \/ i = Len(audits) + 1
BY DEF TypeOK, Enqueue, Event

LEMMA TailIs ==
  ASSUME TypeOK, audits # <<>>, audits' = Tail(audits)
  PROVE  /\ 1 \in 1 .. Len(audits) /\ Head(audits) = audits[1]
         /\ Len(audits) \in Nat /\ Len(audits') = Len(audits) - 1
         /\ \A i \in 1 .. Len(audits') : /\ audits'[i] = audits[i + 1]
                                         /\ i + 1 \in 1 .. Len(audits) /\ i + 1 # 1
BY DEF TypeOK

LEMMA EventConns ==
  ASSUME TypeOK
  PROVE  \A i \in 1 .. Len(audits) : audits[i].conn \in Conns
<1> SUFFICES ASSUME NEW i \in 1 .. Len(audits) PROVE audits[i].conn \in Conns
  OBVIOUS
<1>1. audits[i] \in Event
  BY DEF TypeOK
<1> QED BY <1>1 DEF Event

LEMMA AuditFrame ==
  ASSUME TypeOK, AuditInv, UNCHANGED audits,
         \A c \in Conns : pc[c] \in Awaiting => pc'[c] = pc[c]
  PROVE  AuditInv'
<1>1. \A i \in 1 .. Len(audits) : audits[i].conn \in Conns
  BY EventConns
<1> QED BY <1>1 DEF AuditInv, Awaiting, Awaited

LEMMA AuditNoted ==
  ASSUME TypeOK, AuditInv, NEW c \in Conns, NEW act \in {"dropped", "allowed"}, Enqueue(c, act),
         \A d \in Conns : pc[d] \in Awaiting => pc'[d] = pc[d]
  PROVE  AuditInv'
<1>1. \A i \in 1 .. Len(audits) : audits[i].conn \in Conns
  BY EventConns
<1>0. ~Awaited([conn |-> c, act |-> act])
  BY DEF Awaited
<1>2. /\ \A i \in 1 .. Len(audits) : audits'[i] = audits[i]
      /\ \A i \in 1 .. Len(audits') : i \in 1 .. Len(audits) \/ ~Awaited(audits'[i])
  BY <1>0, AppendIs
<1> QED BY <1>1, <1>2 DEF AuditInv, Awaiting, Awaited

LEMMA AuditAwaited ==
  ASSUME TypeOK, AuditInv, NEW c \in Conns,
         NEW act \in {"confirmation", "denied", "reserve", "completed"}, Enqueue(c, act),
         pc[c] \notin Awaiting,
         Goto(c, IF act = "reserve" THEN "reserving" ELSE "reporting")
  PROVE  AuditInv'
<1>1. \A i \in 1 .. Len(audits) : audits[i].conn \in Conns
  BY EventConns
<1>2. \A i \in 1 .. Len(audits) : Awaited(audits[i]) => audits[i].conn # c
  BY DEF AuditInv, Awaiting
<1>3. /\ \A i \in 1 .. Len(audits) : audits'[i] = audits[i]
      /\ \A i \in 1 .. Len(audits') :
           i \in 1 .. Len(audits) \/ (i = Len(audits) + 1 /\ audits'[i] = [conn |-> c, act |-> act])
  BY AppendIs
<1>4. /\ pc'[c] = IF act = "reserve" THEN "reserving" ELSE "reporting"
      /\ \A d \in Conns : d # c => pc'[d] = pc[d]
  BY DEF Goto, TypeOK
<1>5. \A i \in 1 .. Len(audits') : Awaited(audits'[i]) =>
        pc'[audits'[i].conn] = IF audits'[i].act = "reserve" THEN "reserving" ELSE "reporting"
  BY <1>1, <1>2, <1>3, <1>4 DEF AuditInv
<1>6. \A i, j \in 1 .. Len(audits') :
        /\ Awaited(audits'[i]) /\ Awaited(audits'[j])
        /\ audits'[i].conn = audits'[j].conn
        => i = j
  BY <1>1, <1>2, <1>3 DEF AuditInv
<1> QED BY <1>5, <1>6 DEF AuditInv, Awaited

LEMMA AuditTaken ==
  ASSUME TypeOK, AuditInv, audits # <<>>, audits' = Tail(audits),
         NEW label \in Working, Reach(Head(audits), label)
  PROVE  AuditInv'
<1>1. \A i \in 1 .. Len(audits) : audits[i].conn \in Conns
  BY EventConns
<1>2. \A c \in Conns : pc'[c] = pc[c] \/ (c = audits[1].conn /\ Awaited(audits[1]))
  BY ReachGoesOn, TailIs
<1>3. \A i \in 1 .. Len(audits') : Awaited(audits'[i]) =>
        /\ audits'[i].conn = audits[i + 1].conn
        /\ pc'[audits'[i].conn] = pc[audits'[i].conn]
  BY <1>1, <1>2, TailIs DEF AuditInv
<1>4. \A i \in 1 .. Len(audits') : Awaited(audits'[i]) =>
        pc'[audits'[i].conn] = IF audits'[i].act = "reserve" THEN "reserving" ELSE "reporting"
  BY <1>3, TailIs DEF AuditInv
<1>5. \A i, j \in 1 .. Len(audits') :
        /\ Awaited(audits'[i]) /\ Awaited(audits'[j])
        /\ audits'[i].conn = audits'[j].conn
        => i = j
  <2> SUFFICES ASSUME NEW i \in 1 .. Len(audits'), NEW j \in 1 .. Len(audits'),
                      Awaited(audits'[i]), Awaited(audits'[j]),
                      audits'[i].conn = audits'[j].conn
               PROVE  i = j
    OBVIOUS
  <2>1. i + 1 = j + 1
    BY TailIs DEF AuditInv
  <2> QED BY <2>1, TailIs
<1> QED BY <1>4, <1>5 DEF AuditInv, Awaited

LEMMA AuditStep ==
  ASSUME TypeOK, AuditInv, ClosingInv, Next
  PROVE  AuditInv'
<1> USE DEF Awaiting, admission, frames, sealed, closing
<1>1. ASSUME NEW c \in Conns, Connect(c) \/ QueueTimeout(c) PROVE AuditInv'
  BY <1>1, AuditFrame DEF Connect, QueueTimeout, Goto, TypeOK
<1>2. ASSUME NEW c \in Conns, Terminate(c),
             \A d \in Conns : pc[d] \in Awaiting => pc'[d] = pc[d]
      PROVE  AuditInv'
  BY <1>2, AuditFrame, AuditNoted DEF Terminate
<1>3. ASSUME NEW c \in Conns, Request(c) \/ Resume(c) PROVE AuditInv'
  <2>1. \A d \in Conns : pc[d] \in Awaiting => pc'[d] = pc[d]
    BY <1>3 DEF Request, Admit, Queue, Busy, Resume, Goto, TypeOK
  <2>2. UNCHANGED audits \/ Terminate(c)
    BY <1>3 DEF Request, Admit, Queue, Busy, Resume
  <2> QED BY <1>2, <2>1, <2>2, AuditFrame
<1>4. ASSUME NEW c \in Conns, Flood(c) PROVE AuditInv'
  BY <1>2, <1>4 DEF Flood
<1>5. ASSUME NEW c \in Conns, Answer(c) PROVE AuditInv'
  BY <1>5, AuditAwaited DEF Answer
<1>6. ASSUME NEW c \in Conns, Deny(c), pc[c] \notin Awaiting PROVE AuditInv'
  BY <1>6, AuditAwaited DEF Deny
<1>7. ASSUME NEW c \in Conns, Authorize(c) \/ Confirmed(c) \/ Refused(c) PROVE AuditInv'
  <2>1. pc[c] \notin Awaiting
    BY <1>7 DEF Authorize, Confirmed, Refused
  <2>2. CASE Deny(c)
    BY <1>6, <2>1, <2>2
  <2>3. CASE ~Deny(c)
    <3>1. UNCHANGED audits
      BY <1>7, <2>3 DEF Authorize, Confirmed, Refused
    <3>2. \A d \in Conns : d # c => pc'[d] = pc[d]
      BY <1>7, <2>3 DEF Authorize, Confirmed, Refused, Goto, TypeOK
    <3> QED BY <2>1, <3>1, <3>2, AuditFrame
  <2> QED BY <2>2, <2>3
<1>8. ASSUME NEW c \in Conns, Reserve(c) PROVE AuditInv'
  <2>1. pc[c] \notin Awaiting
    BY <1>8 DEF Reserve
  <2>2. \/ Deny(c)
        \/ Goto(c, "finish") /\ UNCHANGED audits
        \/ Enqueue(c, "reserve") /\ Goto(c, "reserving")
    BY <1>8 DEF Reserve
  <2>3. CASE Goto(c, "finish") /\ UNCHANGED audits
    BY <2>1, <2>3, AuditFrame DEF Goto, TypeOK
  <2> QED BY <1>6, <2>1, <2>2, <2>3, AuditAwaited
<1>9. ASSUME NEW c \in Conns, Launch(c) \/ Finish(c) \/ SocketCloses(c) PROVE AuditInv'
  <2>1. UNCHANGED audits
    BY <1>9 DEF Launch, Finish, SocketCloses
  <2>2. \A d \in Conns : pc[d] \in Awaiting => pc'[d] = pc[d]
    BY <1>9 DEF Launch, Finish, SocketCloses, Goto, TypeOK
  <2> QED BY <2>1, <2>2, AuditFrame
<1>10. ASSUME NEW c \in Conns, Announce(c) PROVE AuditInv'
  BY <1>10, AuditFrame, AuditNoted DEF Announce
<1>11. ASSUME NEW c \in Conns, ChildCloses(c) PROVE AuditInv'
  <2>1. CASE c \in dead
    BY <1>11, <2>1, AuditFrame DEF ChildCloses, Goto, TypeOK
  <2>2. CASE c \notin dead
    BY <1>11, <2>2, AuditAwaited DEF ChildCloses
  <2> QED BY <2>1, <2>2
<1>12. ASSUME StateOperation \/ StateFailure PROVE AuditInv'
  <2>1. /\ audits # <<>> /\ audits' = Tail(audits)
        /\ \E label \in Working : Reach(Head(audits), label)
    BY <1>12 DEF StateOperation, StateFailure, Reservation, Working
  <2> QED BY <2>1, AuditTaken
<1>13. ASSUME AgentExits \/ CloseServer \/ ClearSecrets \/ CloseState PROVE AuditInv'
  BY <1>13, AuditFrame DEF AgentExits, CloseServer, ClearSecrets, CloseState, unbothered
<1> QED
  BY <1>1, <1>3, <1>4, <1>5, <1>7, <1>8, <1>9, <1>10, <1>11, <1>12, <1>13 DEF Next, Step

-----------------------------------------------------------------------------
(* What is written to a client.                                            *)

LEMMA PairIs ==
  ASSUME NEW a, NEW b
  PROVE  <<a>> \o <<b>> = <<a, b>>
<1>1. <<a>> \in Seq({a, b}) /\ <<b>> \in Seq({a, b}) /\ <<a, b>> \in Seq({a, b})
  OBVIOUS
<1>2. /\ <<a>> \o <<b>> \in Seq({a, b})
      /\ Len(<<a>> \o <<b>>) = 2
      /\ (<<a>> \o <<b>>)[1] = a /\ (<<a>> \o <<b>>)[2] = b
  BY <1>1
<1>3. /\ Len(<<a, b>>) = 2 /\ <<a, b>>[1] = a /\ <<a, b>>[2] = b
      /\ \A i \in 1 .. 2 : i = 1 \/ i = 2
  OBVIOUS
<1> DEFINE s == <<a>> \o <<b>>
           t == <<a, b>>
<1> HIDE DEF s, t
<1>4. /\ s \in Seq({a, b}) /\ t \in Seq({a, b}) /\ Len(s) = Len(t)
      /\ \A i \in 1 .. Len(s) : s[i] = t[i]
  BY <1>1, <1>2, <1>3 DEF s, t
<1>5. s = t
  BY <1>4, SeqEqual
<1> QED BY <1>5 DEF s, t

LEMMA Written ==
  /\ \A s \in Silent \cup Denied \cup Allowed : s \o <<>> = s
  /\ <<>> \o <<"allow">> = <<"allow">>
  /\ <<>> \o <<"exit">> = <<"exit">> /\ <<"allow">> \o <<"exit">> = <<"allow", "exit">>
  /\ <<"deny">> \o <<>> = <<"deny">> /\ <<"deny">> \o <<"exit">> = <<"deny", "exit">>
  /\ <<>> \o <<"deny">> = <<"deny">> /\ <<>> \o <<"deny", "exit">> = <<"deny", "exit">>
  /\ <<"exit">> \o <<"deny">> = <<"exit", "deny">>
<1>1. <<>> \o <<>> = <<>> /\ <<"exit">> \o <<>> = <<"exit">>
  OBVIOUS
<1>2. <<"allow">> \o <<>> = <<"allow">> /\ <<"deny">> \o <<>> = <<"deny">>
  OBVIOUS
<1>3. <<"allow", "exit">> \o <<>> = <<"allow", "exit">>
  OBVIOUS
<1>4. <<"deny", "exit">> \o <<>> = <<"deny", "exit">>
  OBVIOUS
<1>5. <<"exit", "deny">> \o <<>> = <<"exit", "deny">>
  OBVIOUS
<1>6. \A s \in Silent \cup Denied \cup Allowed : s \o <<>> = s
  BY <1>1, <1>2, <1>3, <1>4, <1>5 DEF Silent, Denied, Allowed
<1>7. <<>> \o <<"allow">> = <<"allow">> /\ <<>> \o <<"exit">> = <<"exit">>
  OBVIOUS
<1>8. <<"allow">> \o <<"exit">> = <<"allow", "exit">>
  BY PairIs
<1>9. <<"deny">> \o <<"exit">> = <<"deny", "exit">>
  BY PairIs
<1>12. <<>> \o <<"deny">> = <<"deny">>
  OBVIOUS
<1>10. <<>> \o <<"deny", "exit">> = <<"deny", "exit">>
  OBVIOUS
<1>11. <<"exit">> \o <<"deny">> = <<"exit", "deny">>
  BY PairIs
<1> QED BY <1>2, <1>6, <1>7, <1>8, <1>9, <1>10, <1>11, <1>12

LEMMA Apart ==
  /\ Silent \cap Denied = {} /\ Silent \cap Allowed = {} /\ Denied \cap Allowed = {}
BY DEF Silent, Denied, Allowed

\* The exit frame: written once, it changes no verdict.
LEMMA ExitWritten ==
  ASSUME TypeOK, NEW c \in Conns, WireInv(c), Send(c, ExitFrame(c))
  PROVE  /\ wire'[c] \in Silent \cup Denied \cup Allowed
         /\ wire'[c] \in Silent <=> wire[c] \in Silent
         /\ wire'[c] \in Denied <=> wire[c] \in Denied
         /\ wire'[c] \in Allowed <=> wire[c] \in Allowed
<1>1. wire'[c] = IF sock[c] = "open" THEN wire[c] \o ExitFrame(c) ELSE wire[c]
  BY DEF Send, TypeOK
<1>2. CASE sock[c] # "open" \/ c \in exited
  <2>1. wire'[c] = wire[c]
    BY <1>1, <1>2, Written DEF ExitFrame, WireInv
  <2> QED BY <2>1 DEF WireInv
<1>3. CASE sock[c] = "open" /\ c \notin exited
  <2>1. wire'[c] = wire[c] \o <<"exit">>
    BY <1>1, <1>3 DEF ExitFrame
  <2>2. wire[c] \in {<<>>, <<"allow">>}
    BY <1>3 DEF WireInv
  <2>3. CASE wire[c] = <<>>
    <3>1. wire'[c] = <<"exit">> /\ wire'[c] \in Silent /\ wire[c] \in Silent
      BY <2>1, <2>3, Written DEF Silent
    <3> QED BY <3>1, Apart
  <2>4. CASE wire[c] = <<"allow">>
    <3>1. wire'[c] = <<"allow", "exit">> /\ wire'[c] \in Allowed /\ wire[c] \in Allowed
      BY <2>1, <2>4, Written DEF Allowed
    <3> QED BY <3>1, Apart
  <2> QED BY <2>2, <2>3, <2>4
<1> QED BY <1>2, <1>3

\* A refusal, to a client that was told no verdict.
LEMMA DenyWritten ==
  ASSUME TypeOK, NEW c \in Conns, WireInv(c), c \notin decided,
         Send(c, <<"deny">> \o ExitFrame(c))
  PROVE  wire'[c] \in Silent \cup Denied
<1>1. wire'[c] = IF sock[c] = "open" THEN wire[c] \o (<<"deny">> \o ExitFrame(c)) ELSE wire[c]
  BY DEF Send, TypeOK
<1>2. wire[c] \in Silent
  BY DEF WireInv
<1>3. CASE sock[c] # "open"
  BY <1>1, <1>2, <1>3
<1>4. CASE sock[c] = "open" /\ c \in exited
  <2>1. wire'[c] = wire[c] \o <<"deny">>
    BY <1>1, <1>4, Written DEF ExitFrame
  <2> QED BY <1>2, <2>1, Written DEF Silent, Denied
<1>5. CASE sock[c] = "open" /\ c \notin exited
  <2>1. wire[c] = <<>>
    BY <1>2, <1>5, Apart DEF WireInv, Allowed, Silent
  <2>2. wire'[c] = <<>> \o <<"deny", "exit">>
    BY <1>1, <1>5, <2>1, Written DEF ExitFrame
  <2> QED BY <2>2, Written DEF Denied
<1> QED BY <1>3, <1>4, <1>5

LEMMA AllowWritten ==
  ASSUME TypeOK, NEW c \in Conns, WireInv(c), c \notin decided \cup exited,
         Send(c, <<"allow">>)
  PROVE  wire'[c] \in {<<>>, <<"allow">>}
<1>1. wire'[c] = IF sock[c] = "open" THEN wire[c] \o <<"allow">> ELSE wire[c]
  BY DEF Send, TypeOK
<1>2. wire[c] = <<>>
  BY Apart DEF WireInv, Allowed, Silent
<1> QED BY <1>1, <1>2, Written

LEMMA OthersUnwritten ==
  ASSUME TypeOK, NEW c \in Conns, NEW what, Send(c, what)
  PROVE  \A d \in Conns : d # c => wire'[d] = wire[d]
BY DEF Send, TypeOK

-----------------------------------------------------------------------------
(* One connection.                                                         *)

\* A step of another connection.
LEMMA OtherKept ==
  ASSUME TypeOK, NEW d \in Conns, LocalInv(d),
         UNCHANGED <<pc[d], sock[d], wire[d], child[d]>>,
         d \in dead' <=> d \in dead, d \in decided' <=> d \in decided,
         d \in exited' <=> d \in exited, recorded \subseteq recorded',
         \/ UNCHANGED audits
         \/ \E c \in Conns, act \in {"confirmation", "denied", "dropped", "reserve", "allowed",
                                     "completed"} : c # d /\ Enqueue(c, act)
         \/ audits # <<>> /\ audits' = Tail(audits) /\ Head(audits).conn # d
  PROVE  LocalInv(d)'
<1>1. /\ \A i \in 1 .. Len(audits) : audits[i].conn = d =>
           \E j \in 1 .. Len(audits') : audits'[j] = audits[i]
      /\ \A i \in 1 .. Len(audits') : audits'[i].conn = d =>
           \E j \in 1 .. Len(audits) :
             /\ audits[j] = audits'[i]
             /\ \A k \in j + 1 .. Len(audits) : audits[k].conn = d =>
                  \E l \in i + 1 .. Len(audits') : audits'[l] = audits[k]
  <2>1. CASE UNCHANGED audits
    BY <2>1
  <2>2. CASE \E c \in Conns, act \in {"confirmation", "denied", "dropped", "reserve", "allowed",
                                      "completed"} : c # d /\ Enqueue(c, act)
    <3>0. PICK c \in Conns, act \in {"confirmation", "denied", "dropped", "reserve", "allowed",
                                    "completed"} : c # d /\ Enqueue(c, act)
      BY <2>2
    <3>1. /\ Len(audits) \in Nat /\ Len(audits') = Len(audits) + 1
          /\ audits'[Len(audits) + 1] = [conn |-> c, act |-> act]
          /\ \A i \in 1 .. Len(audits) : audits'[i] = audits[i]
          /\ \A i \in 1 .. Len(audits') : i \in 1 .. Len(audits) \/ i = Len(audits) + 1
      BY <3>0, AppendIs
    <3>2. audits'[Len(audits) + 1].conn # d
      BY <3>0, <3>1
    <3> QED BY <3>1, <3>2
  <2>3. CASE audits # <<>> /\ audits' = Tail(audits) /\ Head(audits).conn # d
    <3>1. /\ 1 \in 1 .. Len(audits) /\ audits[1].conn # d
          /\ Len(audits) \in Nat /\ Len(audits') = Len(audits) - 1
          /\ \A i \in 1 .. Len(audits') : /\ audits'[i] = audits[i + 1]
                                          /\ i + 1 \in 1 .. Len(audits) /\ i + 1 # 1
      BY <2>3, TailIs
    <3>2. \A i \in 1 .. Len(audits) : i # 1 => i - 1 \in 1 .. Len(audits') /\ (i - 1) + 1 = i
      BY <3>1
    <3>3. \A i \in 1 .. Len(audits) : i # 1 => audits'[i - 1] = audits[i]
      BY <3>1, <3>2
    <3>4. ASSUME NEW i \in 1 .. Len(audits), audits[i].conn = d
          PROVE  \E j \in 1 .. Len(audits') : audits'[j] = audits[i]
      BY <3>1, <3>2, <3>3, <3>4
    <3>5. ASSUME NEW i \in 1 .. Len(audits')
          PROVE  /\ i + 1 \in 1 .. Len(audits) /\ audits[i + 1] = audits'[i]
                 /\ \A k \in i + 1 + 1 .. Len(audits) :
                      /\ k - 1 \in i + 1 .. Len(audits')
                      /\ audits'[k - 1] = audits[k]
      BY <3>1, <3>2, <3>3
    <3> QED BY <3>4, <3>5
  <2> QED BY <2>1, <2>2, <2>3
<1>2. \A act : Queued(EventOf(d, act))' <=> Queued(EventOf(d, act))
  BY <1>1 DEF Queued, EventOf
<1>3. Early(d)' <=> Early(d)
  BY <1>2 DEF Early
<1>4. (pc[d] = "absent" => \A i \in 1 .. Len(audits) : audits[i].conn # d)'
  BY <1>1 DEF LocalInv, ConnInv
<1>5. ConnInv(d)' /\ WireInv(d)' /\ ChildInv(d)'
  BY <1>3, <1>4 DEF LocalInv, ConnInv, WireInv, ChildInv
<1>6. ASSUME d \notin dead, NEW i \in 1 .. Len(audits'), audits'[i] = EventOf(d, "allowed")
      PROVE  \/ pc[d] = "running"
             \/ \E j \in i + 1 .. Len(audits') : audits'[j] = EventOf(d, "completed")
  BY <1>1, <1>6 DEF LocalInv, RecordInv, EventOf
<1>7. RecordInv(d)'
  BY <1>2, <1>6 DEF LocalInv, RecordInv
<1> QED BY <1>5, <1>7 DEF LocalInv

\* The queue before and after the step, seen by connection c.
LEMMA OwnEnqueued ==
  ASSUME TypeOK, NEW c \in Conns,
         NEW act \in {"confirmation", "denied", "dropped", "reserve", "allowed", "completed"},
         Enqueue(c, act)
  PROVE  /\ \A e : Queued(e)' <=> Queued(e) \/ e = EventOf(c, act)
         /\ \A i \in 1 .. Len(audits') :
              audits'[i] # EventOf(c, act) =>
                /\ i \in 1 .. Len(audits) /\ audits'[i] = audits[i]
                /\ \A j \in i + 1 .. Len(audits) :
                     j \in i + 1 .. Len(audits') /\ audits'[j] = audits[j]
         /\ \A i \in 1 .. Len(audits) :
              /\ audits'[i] = audits[i]
              /\ Len(audits') \in i + 1 .. Len(audits')
         /\ audits'[Len(audits')] = EventOf(c, act)
<1>1. /\ Len(audits) \in Nat /\ Len(audits') = Len(audits) + 1
      /\ audits'[Len(audits) + 1] = EventOf(c, act)
      /\ \A i \in 1 .. Len(audits) : audits'[i] = audits[i]
      /\ \A i \in 1 .. Len(audits') : i \in 1 .. Len(audits) \/ i = Len(audits) + 1
  BY AppendIs DEF EventOf
<1> QED BY <1>1 DEF Queued

\* No operation is awaited by a request that does something.
LEMMA NothingAwaited ==
  ASSUME TypeOK, AuditInv, NEW c \in Conns, pc[c] \notin Awaiting,
         NEW act \in {"confirmation", "denied", "reserve", "completed"}
  PROVE  ~Queued(EventOf(c, act))
BY DEF AuditInv, Queued, EventOf, Awaited, Awaiting

\* The request goes on, and nothing is said.
LEMMA OwnMoves ==
  ASSUME TypeOK, NEW c \in Conns, LocalInv(c), pc[c] # "absent",
         UNCHANGED <<audits, recorded, sock[c], wire[c], child[c]>>,
         c \in dead' <=> c \in dead, c \in decided' <=> c \in decided,
         c \in exited' <=> c \in exited,
         pc'[c] \notin {"absent", "idle", "running"}, pc[c] \notin {"running", "failed"},
         pc'[c] \in Undecided => pc[c] \in Undecided
  PROVE  LocalInv(c)'
<1>1. Early(c)' => Early(c)
  BY DEF Early, Queued
<1>2. ConnInv(c)' /\ WireInv(c)' /\ ChildInv(c)'
  BY <1>1 DEF LocalInv, ConnInv, WireInv, ChildInv
<1>3. RecordInv(c)'
  BY DEF LocalInv, RecordInv, Queued
<1> QED BY <1>2, <1>3 DEF LocalInv

\* terminateBrokerConnection.
LEMMA OwnTerminated ==
  ASSUME TypeOK, NEW c \in Conns, LocalInv(c), Terminate(c),
         pc'[c] = pc[c] \/ pc'[c] = "done", pc'[c] \notin {"absent", "idle"}
  PROVE  LocalInv(c)'
<1>1. /\ c \in dead' /\ sock'[c] = "ended"
      /\ child'[c] = IF child[c] \in {"live", "announced"} THEN "killed" ELSE child[c]
      /\ c \in decided' /\ c \in exited'
  BY DEF Terminate, Abort, Kill, TypeOK
<1>2. ConnInv(c)'
  BY <1>1 DEF ConnInv
<1>3. /\ wire'[c] \in Silent \cup Denied \cup Allowed
      /\ wire'[c] \in Allowed => wire[c] \in Allowed
  BY ExitWritten, DenyWritten, Apart DEF Terminate, LocalInv
<1>4. WireInv(c)'
  BY <1>1, <1>3 DEF WireInv
<1>5. Early(c)' => Early(c)
  <2>1. Queued(EventOf(c, "confirmation"))' => Queued(EventOf(c, "confirmation"))
    <3>1. CASE UNCHANGED audits
      BY <3>1 DEF Queued
    <3>2. CASE Enqueue(c, "dropped")
      BY <3>2, OwnEnqueued DEF EventOf
    <3> QED BY <3>1, <3>2 DEF Terminate
  <2> QED BY <2>1 DEF Early, Undecided
<1>6. ChildInv(c)'
  BY <1>1, <1>3, <1>5 DEF ChildInv, LocalInv
<1> QED BY <1>1, <1>2, <1>4, <1>6 DEF LocalInv, RecordInv

\* deny.
LEMMA OwnDenied ==
  ASSUME TypeOK, AuditInv, NEW c \in Conns, LocalInv(c), Deny(c),
         pc[c] \in Undecided \ {"absent", "idle", "reserving"},
         UNCHANGED <<recorded, sock, dead, child>>
  PROVE  LocalInv(c)'
<1>1. pc'[c] = "reporting" /\ c \in decided' /\ c \in exited'
  BY DEF Deny, Goto, TypeOK
<1>2. Early(c) /\ ~Early(c)'
  <2>1. ~Queued(EventOf(c, "confirmation"))
    BY NothingAwaited DEF Awaiting, Undecided
  <2>2. ~Queued(EventOf(c, "confirmation"))'
    BY <2>1, OwnEnqueued DEF Deny, EventOf
  <2> QED BY <1>1, <2>2 DEF Early, Undecided
<1>3. ConnInv(c)'
  BY <1>1 DEF LocalInv, ConnInv, Undecided
<1>4. /\ wire[c] \notin Allowed
      /\ wire'[c] \in Silent \cup Denied
      /\ c \notin dead => wire[c] \in Silent
  <2>1. wire[c] \notin Allowed
    BY <1>2 DEF LocalInv, ChildInv
  <2>2. CASE c \in dead
    <3>1. wire'[c] = wire[c]
      BY <2>2 DEF Deny, Send, TypeOK, LocalInv, ConnInv
    <3> QED BY <2>1, <2>2, <3>1 DEF LocalInv, WireInv
  <2>3. CASE c \notin dead
    <3>1. c \notin decided
      BY <1>2, <2>3 DEF LocalInv, WireInv
    <3> QED BY <2>1, <3>1, DenyWritten DEF Deny, LocalInv, WireInv
  <2> QED BY <2>1, <2>2, <2>3
<1>5. WireInv(c)'
  BY <1>1, <1>2, <1>4 DEF WireInv
<1>6. ChildInv(c)'
  BY <1>2, <1>4, Apart DEF LocalInv, ChildInv
<1>7. ASSUME c \notin dead
      PROVE  /\ Queued(EventOf(c, "denied"))'
             /\ \A i \in 1 .. Len(audits') : audits'[i] = EventOf(c, "allowed") =>
                  \E j \in i + 1 .. Len(audits') : audits'[j] = EventOf(c, "completed")
  <2>1. Queued(EventOf(c, "denied"))'
    BY OwnEnqueued DEF Deny
  <2>2. ASSUME NEW i \in 1 .. Len(audits'), audits'[i] = EventOf(c, "allowed")
        PROVE  \E j \in i + 1 .. Len(audits') : audits'[j] = EventOf(c, "completed")
    <3>0. audits'[i] # EventOf(c, "denied")
      BY <2>2 DEF EventOf
    <3>1. /\ i \in 1 .. Len(audits) /\ audits'[i] = audits[i]
          /\ \A j \in i + 1 .. Len(audits) :
               j \in i + 1 .. Len(audits') /\ audits'[j] = audits[j]
      BY <3>0, OwnEnqueued DEF Deny
    <3>2. \E j \in i + 1 .. Len(audits) : audits[j] = EventOf(c, "completed")
      BY <1>7, <2>2, <3>1 DEF LocalInv, RecordInv, Undecided
    <3> QED BY <3>1, <3>2
  <2> QED BY <2>1, <2>2
<1>8. RecordInv(c)'
  BY <1>4, <1>7, Apart DEF RecordInv
<1> QED BY <1>3, <1>5, <1>6, <1>8 DEF LocalInv

\* The request waits for its approval to be recorded, or for its reservation.
LEMMA OwnAsks ==
  ASSUME TypeOK, AuditInv, NEW c \in Conns, LocalInv(c),
         NEW act \in {"confirmation", "reserve"}, Enqueue(c, act),
         pc[c] \in {"approval", "audited"},
         pc'[c] = IF act = "reserve" THEN "reserving" ELSE "reporting",
         UNCHANGED <<recorded, frames, child>>
  PROVE  LocalInv(c)'
<1> USE DEF frames
<1>1. Early(c)
  BY DEF Early, Undecided
<1>2. ConnInv(c)' /\ WireInv(c)' /\ ChildInv(c)'
  BY <1>1 DEF LocalInv, ConnInv, WireInv, ChildInv
<1>3. wire[c] \notin Allowed /\ (c \notin dead => wire[c] \in Silent)
  BY <1>1 DEF LocalInv, ChildInv, WireInv
<1>4. ASSUME c \notin dead, NEW i \in 1 .. Len(audits'), audits'[i] = EventOf(c, "allowed")
      PROVE  \E j \in i + 1 .. Len(audits') : audits'[j] = EventOf(c, "completed")
  <2>0. audits'[i] # EventOf(c, act)
    BY <1>4 DEF EventOf
  <2>1. /\ i \in 1 .. Len(audits) /\ audits'[i] = audits[i]
        /\ \A j \in i + 1 .. Len(audits) :
             j \in i + 1 .. Len(audits') /\ audits'[j] = audits[j]
    BY <2>0, OwnEnqueued
  <2>2. \E j \in i + 1 .. Len(audits) : audits[j] = EventOf(c, "completed")
    BY <1>4, <2>1 DEF LocalInv, RecordInv
  <2> QED BY <2>1, <2>2
<1>5. RecordInv(c)'
  BY <1>3, <1>4, Apart DEF RecordInv
<1> QED BY <1>2, <1>5 DEF LocalInv

\* The exit frame of a request that ends without a verdict.
LEMMA OwnExits ==
  ASSUME TypeOK, AuditInv, NEW c \in Conns, LocalInv(c),
         pc[c] \in {"authorize", "reserved"}, pc'[c] = "finish",
         Send(c, ExitFrame(c)), exited' = exited \cup {c},
         UNCHANGED <<recorded, audits, sock, dead, decided, child>>
  PROVE  LocalInv(c)'
<1>1. Early(c) /\ ~Early(c)'
  <2>1. ~Queued(EventOf(c, "confirmation"))
    BY NothingAwaited DEF Awaiting
  <2> QED BY <2>1 DEF Early, Undecided, Queued
<1>2. /\ wire'[c] \in Silent \cup Denied \cup Allowed
      /\ wire'[c] \in Silent <=> wire[c] \in Silent
      /\ wire'[c] \in Denied <=> wire[c] \in Denied
      /\ wire'[c] \in Allowed <=> wire[c] \in Allowed
  BY ExitWritten DEF LocalInv
<1>3. ConnInv(c)' /\ WireInv(c)' /\ ChildInv(c)'
  BY <1>1, <1>2 DEF LocalInv, ConnInv, WireInv, ChildInv
<1>4. wire'[c] \notin Allowed /\ (c \notin dead => wire'[c] \in Silent)
  BY <1>1, <1>2 DEF LocalInv, ChildInv, WireInv
<1>5. RecordInv(c)'
  BY <1>4, Apart DEF RecordInv, LocalInv
<1> QED BY <1>3, <1>5 DEF LocalInv

LEMMA OwnStarts ==
  ASSUME TypeOK, AuditInv, NEW c \in Conns, LocalInv(c), pc[c] = "reserved",
         child'[c] = "live", pc'[c] = "running",
         UNCHANGED <<recorded, audits, frames>>
  PROVE  LocalInv(c)'
<1> USE DEF frames
<1>1. Early(c) /\ ~Early(c)'
  <2>1. ~Queued(EventOf(c, "confirmation"))
    BY NothingAwaited DEF Awaiting
  <2> QED BY <2>1 DEF Early, Undecided, Queued
<1>2. wire[c] \notin Allowed /\ (c \notin dead => wire[c] \in Silent)
  BY <1>1 DEF LocalInv, ChildInv, WireInv
<1>3. ConnInv(c)' /\ WireInv(c)' /\ ChildInv(c)'
  BY <1>1, <1>2 DEF LocalInv, ConnInv, WireInv, ChildInv
<1>4. RecordInv(c)'
  BY <1>2, Apart DEF RecordInv
<1> QED BY <1>3, <1>4 DEF LocalInv

LEMMA OwnAnnounces ==
  ASSUME TypeOK, AuditInv, NEW c \in Conns, LocalInv(c), Announce(c)
  PROVE  LocalInv(c)'
<1>1. /\ pc[c] = "running" /\ child'[c] = "announced"
      /\ UNCHANGED <<pc, sock, dead, exited, recorded>>
  BY DEF Announce, TypeOK
<1>2. ~Queued(EventOf(c, "confirmation"))
  BY <1>1, NothingAwaited DEF Awaiting
<1>3. CASE c \in dead \cup decided
  <2>1. UNCHANGED <<decided, wire, audits>>
    BY <1>3 DEF Announce
  <2>2. ~Early(c)'
    BY <1>1, <1>2, <2>1 DEF Early, Undecided, Queued
  <2>3. ConnInv(c)' /\ WireInv(c)' /\ ChildInv(c)'
    BY <1>1, <2>1, <2>2 DEF LocalInv, ConnInv, WireInv, ChildInv
  <2>4. RecordInv(c)'
    BY <1>1, <2>1 DEF LocalInv, RecordInv, Queued
  <2> QED BY <2>3, <2>4 DEF LocalInv
<1>4. CASE c \notin dead \cup decided
  <2>1. /\ Send(c, <<"allow">>) /\ decided' = decided \cup {c} /\ Enqueue(c, "allowed")
    BY <1>4 DEF Announce
  <2>2. c \notin exited
    BY <1>1, <1>4 DEF LocalInv, WireInv
  <2>3. wire'[c] \in {<<>>, <<"allow">>}
    BY <1>4, <2>1, <2>2, AllowWritten DEF LocalInv
  <2>4. wire'[c] \in Silent \cup Allowed
    BY <2>3 DEF Silent, Allowed
  <2>5. ~Early(c)'
    BY <1>1, <1>2, <2>1, OwnEnqueued DEF Early, Undecided, EventOf
  <2>6. ConnInv(c)' /\ WireInv(c)' /\ ChildInv(c)'
    BY <1>1, <2>1, <2>2, <2>3, <2>4, <2>5 DEF LocalInv, ConnInv, WireInv, ChildInv
  <2>7. Queued(EventOf(c, "allowed"))'
    BY <2>1, OwnEnqueued
  <2>8. RecordInv(c)'
    BY <1>1, <2>4, <2>7, Apart DEF RecordInv
  <2> QED BY <2>6, <2>8 DEF LocalInv
<1> QED BY <1>3, <1>4

LEMMA OwnCloses ==
  ASSUME TypeOK, AuditInv, NEW c \in Conns, LocalInv(c), ChildCloses(c)
  PROVE  LocalInv(c)'
<1>1. /\ pc[c] = "running" /\ child'[c] = "gone" /\ child[c] \in {"announced", "killed"}
      /\ UNCHANGED <<sock, dead, decided, recorded>>
  BY DEF ChildCloses, TypeOK
<1>2. ~Queued(EventOf(c, "confirmation"))
  BY <1>1, NothingAwaited DEF Awaiting
<1>3. CASE c \in dead
  <2>1. pc'[c] = "finish" /\ UNCHANGED <<exited, wire, audits>>
    BY <1>3 DEF ChildCloses, Goto, TypeOK
  <2>2. ~Early(c)'
    BY <1>2, <2>1 DEF Early, Undecided, Queued
  <2>3. ConnInv(c)' /\ WireInv(c)' /\ ChildInv(c)'
    BY <1>1, <2>1, <2>2 DEF LocalInv, ConnInv, WireInv, ChildInv
  <2> QED BY <1>1, <1>3, <2>3 DEF LocalInv, RecordInv
<1>4. CASE c \notin dead
  <2>1. /\ Send(c, ExitFrame(c)) /\ exited' = exited \cup {c} /\ Enqueue(c, "completed")
        /\ pc'[c] = "reporting"
    BY <1>4 DEF ChildCloses, Goto, TypeOK
  <2>2. ~Early(c)'
    BY <1>2, <2>1, OwnEnqueued DEF Early, Undecided, EventOf
  <2>3. /\ wire'[c] \in Silent \cup Denied \cup Allowed
        /\ wire'[c] \in Silent <=> wire[c] \in Silent
        /\ wire'[c] \in Denied <=> wire[c] \in Denied
        /\ wire'[c] \in Allowed <=> wire[c] \in Allowed
    BY <2>1, ExitWritten DEF LocalInv
  <2>4. ConnInv(c)' /\ WireInv(c)' /\ ChildInv(c)'
    BY <1>1, <2>1, <2>2, <2>3 DEF LocalInv, ConnInv, WireInv, ChildInv
  <2>5. /\ \A e : Queued(e) => Queued(e)'
        /\ Queued(EventOf(c, "completed"))'
    BY <2>1, OwnEnqueued
  <2>6. ASSUME NEW i \in 1 .. Len(audits'), audits'[i] = EventOf(c, "allowed")
        PROVE  \E j \in i + 1 .. Len(audits') : audits'[j] = EventOf(c, "completed")
    <3>1. audits'[i] # EventOf(c, "completed")
      BY <2>6 DEF EventOf
    <3>2. i \in 1 .. Len(audits)
      BY <2>1, <3>1, OwnEnqueued
    <3>3. /\ Len(audits') \in i + 1 .. Len(audits')
          /\ audits'[Len(audits')] = EventOf(c, "completed")
      BY <2>1, <3>2, OwnEnqueued
    <3> QED BY <3>3
  <2>7. RecordInv(c)'
    BY <1>1, <1>4, <2>3, <2>5, <2>6 DEF LocalInv, RecordInv
  <2> QED BY <2>4, <2>7 DEF LocalInv
<1> QED BY <1>3, <1>4

\* The operation at the head of the queue is taken out of it.
LEMMA OwnTaken ==
  ASSUME TypeOK, audits # <<>>, audits' = Tail(audits)
  PROVE  /\ \A e : Queued(e)' => Queued(e)
         /\ \A e : Queued(e) => Queued(e)' \/ e = Head(audits)
         /\ \A i \in 1 .. Len(audits') :
              /\ i + 1 \in 1 .. Len(audits) /\ audits'[i] = audits[i + 1]
              /\ \A j \in i + 1 + 1 .. Len(audits) :
                   j - 1 \in i + 1 .. Len(audits') /\ audits'[j - 1] = audits[j]
<1>1. /\ 1 \in 1 .. Len(audits) /\ Head(audits) = audits[1]
      /\ Len(audits) \in Nat /\ Len(audits') = Len(audits) - 1
      /\ \A i \in 1 .. Len(audits') : /\ audits'[i] = audits[i + 1]
                                      /\ i + 1 \in 1 .. Len(audits) /\ i + 1 # 1
  BY TailIs
<1>2. \A i \in 1 .. Len(audits) : i # 1 => i - 1 \in 1 .. Len(audits') /\ (i - 1) + 1 = i
  BY <1>1
<1>3. \A i \in 1 .. Len(audits) : i # 1 => audits'[i - 1] = audits[i]
  BY <1>1, <1>2
<1>4. \A e : Queued(e)' => Queued(e)
  BY <1>1 DEF Queued
<1>5. \A e : Queued(e) => Queued(e)' \/ e = Head(audits)
  BY <1>1, <1>2, <1>3 DEF Queued
<1>6. ASSUME NEW i \in 1 .. Len(audits')
      PROVE  \A j \in i + 1 + 1 .. Len(audits) :
               j - 1 \in i + 1 .. Len(audits') /\ audits'[j - 1] = audits[j]
  BY <1>1, <1>2, <1>3
<1> QED BY <1>1, <1>4, <1>5, <1>6

\* Where the operation leaves the request it belongs to.
LEMMA OwnReached ==
  ASSUME TypeOK, AuditInv, audits # <<>>, audits' = Tail(audits),
         NEW c \in Conns, Head(audits).conn = c, LocalInv(c),
         NEW label \in Working, Reach(Head(audits), label),
         label \in Undecided => Head(audits).act \in {"confirmation", "reserve"},
         label # "running"
  PROVE  /\ Early(c)' => Early(c)
         /\ pc[c] # "absent" /\ (pc'[c] \notin {"absent", "idle"} \/ pc'[c] = pc[c])
         /\ pc'[c] = "running" <=> pc[c] = "running"
         /\ pc[c] = "failed" => pc'[c] = "failed"
         /\ Awaited(Head(audits)) => pc'[c] = label
<1>0. 1 \in 1 .. Len(audits) /\ Head(audits) = audits[1]
  BY TailIs
<1>1. pc[c] # "absent"
  BY <1>0 DEF LocalInv, ConnInv
<1>2. CASE Awaited(Head(audits))
  <2>1. pc[c] = IF Head(audits).act = "reserve" THEN "reserving" ELSE "reporting"
    BY <1>0, <1>2 DEF AuditInv
  <2>2. pc'[c] = label
    BY <1>0, <1>2 DEF Reach, Goto, Awaited, TypeOK
  <2>3. Early(c)' => Early(c)
    <3>1. Queued(EventOf(c, "confirmation"))' => Queued(EventOf(c, "confirmation"))
      BY OwnTaken DEF EventOf
    <3>2. CASE label \in Undecided
      <4>1. CASE Head(audits).act = "reserve"
        BY <2>1, <4>1 DEF Early, Undecided
      <4>2. CASE Head(audits).act = "confirmation"
        <5>1. Head(audits) \in Event
          BY HeadType
        <5>2. Head(audits) = EventOf(c, "confirmation")
          BY <4>2, <5>1 DEF Event, EventOf
        <5> QED BY <1>0, <5>2 DEF Early, Queued
      <4> QED BY <3>2, <4>1, <4>2
    <3>3. CASE label \notin Undecided
      BY <2>2, <3>1, <3>3 DEF Early
    <3> QED BY <3>2, <3>3
  <2> QED BY <1>1, <2>1, <2>2, <2>3 DEF Working
<1>3. CASE ~Awaited(Head(audits))
  <2>1. pc' = pc
    BY <1>3 DEF Reach, Awaited
  <2>2. Early(c)' => Early(c)
    BY <2>1, OwnTaken DEF Early, EventOf
  <2> QED BY <1>1, <1>3, <2>1, <2>2
<1> QED BY <1>2, <1>3

\* An operation of the sealed state succeeds.
LEMMA OwnRecorded ==
  ASSUME TypeOK, AuditInv, StateOperation,
         NEW c \in Conns, Head(audits).conn = c, LocalInv(c)
  PROVE  LocalInv(c)'
<1>0. /\ audits # <<>> /\ audits' = Tail(audits)
      /\ UNCHANGED <<sock, dead, decided, exited, wire, child>>
  BY DEF StateOperation, frames
<1>1. PICK label \in Working :
        /\ Reach(Head(audits), label) /\ label \notin {"running", "failed"}
        /\ label \in Undecided => Head(audits).act \in {"confirmation", "reserve"}
  BY DEF StateOperation, Reservation, Working, Undecided
<1>2. /\ Head(audits).act # "reserve" => recorded' = recorded \cup {Head(audits)}
      /\ recorded \subseteq recorded'
  BY DEF StateOperation
<1>3. /\ Early(c)' => Early(c)
      /\ pc[c] # "absent" /\ (pc'[c] \notin {"absent", "idle"} \/ pc'[c] = pc[c])
      /\ pc'[c] = "running" <=> pc[c] = "running"
      /\ pc[c] = "failed" => pc'[c] = "failed"
  BY <1>0, <1>1, OwnReached
<1>4. ConnInv(c)' /\ WireInv(c)' /\ ChildInv(c)'
  BY <1>0, <1>3 DEF LocalInv, ConnInv, WireInv, ChildInv
<1>5. \A act \in {"denied", "allowed", "completed"} :
        Queued(EventOf(c, act)) => Queued(EventOf(c, act))' \/ EventOf(c, act) \in recorded'
  BY <1>0, <1>2, OwnTaken DEF EventOf
<1>6. ASSUME c \notin dead, NEW i \in 1 .. Len(audits'), audits'[i] = EventOf(c, "allowed")
      PROVE  \/ pc'[c] = "running"
             \/ \E j \in i + 1 .. Len(audits') : audits'[j] = EventOf(c, "completed")
  <2>1. /\ i + 1 \in 1 .. Len(audits) /\ audits[i + 1] = EventOf(c, "allowed")
        /\ \A j \in i + 1 + 1 .. Len(audits) :
             j - 1 \in i + 1 .. Len(audits') /\ audits'[j - 1] = audits[j]
    BY <1>0, <1>6, OwnTaken
  <2>2. \/ pc[c] = "running"
        \/ \E j \in i + 1 + 1 .. Len(audits) : audits[j] = EventOf(c, "completed")
    BY <1>6, <2>1 DEF LocalInv, RecordInv
  <2> QED BY <1>3, <2>1, <2>2
<1>7. RecordInv(c)'
  BY <1>0, <1>2, <1>3, <1>5, <1>6 DEF LocalInv, RecordInv, EventOf
<1> QED BY <1>4, <1>7 DEF LocalInv

\* An operation of the sealed state fails.
LEMMA OwnFails ==
  ASSUME TypeOK, AuditInv, StateFailure,
         NEW c \in Conns, Head(audits).conn = c, LocalInv(c)
  PROVE  LocalInv(c)'
<1>0. /\ audits # <<>> /\ audits' = Tail(audits) /\ recorded' = recorded
      /\ Reach(Head(audits), "failed")
  BY DEF StateFailure
<1>1. /\ Early(c)' => Early(c)
      /\ pc[c] # "absent" /\ (pc'[c] \notin {"absent", "idle"} \/ pc'[c] = pc[c])
      /\ pc'[c] = "running" <=> pc[c] = "running"
      /\ pc[c] = "failed" => pc'[c] = "failed"
      /\ Awaited(Head(audits)) => pc'[c] = "failed"
  BY <1>0, OwnReached DEF Working, Undecided
<1>2. CASE Head(audits).act = "allowed" /\ c \notin dead
  <2>1. /\ Send(c, ExitFrame(c)) /\ c \in exited' /\ c \in dead' /\ decided' = decided
        /\ sock'[c] = "ended"
        /\ child'[c] = IF child[c] \in {"live", "announced"} THEN "killed" ELSE child[c]
    BY <1>0, <1>2 DEF StateFailure, Abort, Kill, TypeOK
  <2>2. /\ wire'[c] \in Silent \cup Denied \cup Allowed
        /\ wire'[c] \in Silent <=> wire[c] \in Silent
        /\ wire'[c] \in Allowed <=> wire[c] \in Allowed
    BY <1>0, <2>1, ExitWritten DEF LocalInv
  <2>3. pc' = pc
    BY <1>0, <1>2 DEF Reach
  <2>7. pc[c] # "idle"
    <3>1. 1 \in 1 .. Len(audits) /\ Head(audits) = audits[1] /\ Head(audits) \in Event
      BY <1>0, TailIs, HeadType
    <3>2. audits[1] = EventOf(c, "allowed")
      BY <1>2, <3>1 DEF EventOf, Event
    <3>3. pc[c] = "running" \/ Queued(EventOf(c, "completed"))
      <4>1. \/ pc[c] = "running"
            \/ \E j \in 1 + 1 .. Len(audits) : audits[j] = EventOf(c, "completed")
        BY <1>2, <3>1, <3>2 DEF LocalInv, RecordInv
      <4>2. 1 + 1 .. Len(audits) \subseteq 1 .. Len(audits)
        BY <1>0, TailIs
      <4> QED BY <4>1, <4>2 DEF Queued
    <3> QED BY <3>3, NothingAwaited DEF Awaiting
  <2>4. ConnInv(c)'
    BY <1>1, <2>1, <2>3, <2>7 DEF ConnInv
  <2>5. WireInv(c)'
    BY <2>1, <2>2 DEF LocalInv, WireInv
  <2>6. ChildInv(c)'
    BY <1>1, <2>1, <2>2 DEF LocalInv, ChildInv
  <2> QED BY <2>1, <2>4, <2>5, <2>6 DEF LocalInv, RecordInv
<1>3. CASE ~(Head(audits).act = "allowed" /\ c \notin dead)
  <2>1. UNCHANGED <<sock, dead, decided, exited, wire, child>>
    BY <1>3 DEF StateFailure, frames
  <2>2. ConnInv(c)' /\ WireInv(c)' /\ ChildInv(c)'
    BY <1>0, <1>1, <2>1 DEF LocalInv, ConnInv, WireInv, ChildInv
  <2>3. \A act \in {"denied", "allowed", "completed"} :
          Queued(EventOf(c, act)) /\ c \notin dead =>
            \/ Queued(EventOf(c, act))'
            \/ act \in {"denied", "completed"} /\ pc'[c] = "failed"
    BY <1>0, <1>1, <1>3, OwnTaken DEF EventOf, Awaited
  <2>4. ASSUME c \notin dead, NEW i \in 1 .. Len(audits'), audits'[i] = EventOf(c, "allowed")
        PROVE  \/ pc'[c] = "running"
               \/ \E j \in i + 1 .. Len(audits') : audits'[j] = EventOf(c, "completed")
    <3>1. /\ i + 1 \in 1 .. Len(audits) /\ audits[i + 1] = EventOf(c, "allowed")
          /\ \A j \in i + 1 + 1 .. Len(audits) :
               j - 1 \in i + 1 .. Len(audits') /\ audits'[j - 1] = audits[j]
      BY <1>0, <2>4, OwnTaken
    <3>2. \/ pc[c] = "running"
          \/ \E j \in i + 1 + 1 .. Len(audits) : audits[j] = EventOf(c, "completed")
      BY <2>4, <3>1 DEF LocalInv, RecordInv
    <3> QED BY <1>1, <3>1, <3>2
  <2>5. RecordInv(c)'
    BY <1>0, <1>1, <2>1, <2>3, <2>4 DEF LocalInv, RecordInv, EventOf
  <2> QED BY <2>2, <2>5 DEF LocalInv
<1> QED BY <1>2, <1>3

\* abortConnection.
LEMMA OwnAborted ==
  ASSUME TypeOK, NEW c \in Conns, LocalInv(c), pc[c] # "absent",
         NEW end \in {"ended", "closed"}, Abort(c, end),
         UNCHANGED <<audits, recorded, wire, decided, exited>>,
         pc'[c] \notin {"absent", "idle"},
         pc'[c] \in Undecided => pc[c] \in Undecided
  PROVE  LocalInv(c)'
<1>1. /\ c \in dead' /\ sock'[c] = end
      /\ child'[c] = IF child[c] \in {"live", "announced"} THEN "killed" ELSE child[c]
  BY DEF Abort, Kill, TypeOK
<1>2. Early(c)' => Early(c)
  BY DEF Early, Queued
<1>3. ConnInv(c)'
  BY <1>1 DEF ConnInv
<1>4. WireInv(c)'
  BY <1>1 DEF LocalInv, WireInv
<1>5. ChildInv(c)'
  BY <1>1, <1>2 DEF LocalInv, ChildInv
<1> QED BY <1>1, <1>3, <1>4, <1>5 DEF LocalInv, RecordInv

LEMMA OwnSocketCloses ==
  ASSUME TypeOK, AuditInv, NEW c \in Conns, LocalInv(c), SocketCloses(c)
  PROVE  LocalInv(c)'
<1>1. /\ pc[c] # "absent" /\ pc'[c] = (IF pc[c] = "idle" THEN "done" ELSE pc[c])
      /\ UNCHANGED <<audits, recorded, wire, decided, exited>>
  BY DEF SocketCloses, Goto, TypeOK, LocalInv, ConnInv, sealed
<1>2. CASE c \in dead
  <2>1. sock'[c] = "closed" /\ UNCHANGED <<dead, child>>
    BY <1>2 DEF SocketCloses, TypeOK
  <2>2. Early(c)' => Early(c)
    BY <1>1 DEF Early, Queued, Undecided
  <2>3. ConnInv(c)' /\ WireInv(c)' /\ ChildInv(c)'
    BY <1>1, <1>2, <2>1, <2>2 DEF LocalInv, ConnInv, WireInv, ChildInv
  <2> QED BY <1>2, <2>1, <2>3 DEF LocalInv, RecordInv
<1>3. CASE c \notin dead
  <2>1. Abort(c, "closed")
    BY <1>3 DEF SocketCloses
  <2> QED BY <1>1, <2>1, OwnAborted DEF Undecided
<1> QED BY <1>2, <1>3

LEMMA OwnFinishes ==
  ASSUME TypeOK, AuditInv, NEW c \in Conns, LocalInv(c), Finish(c)
  PROVE  LocalInv(c)'
<1>1. /\ pc[c] \in {"finish", "failed"} /\ pc'[c] = "done"
      /\ UNCHANGED <<audits, recorded, wire, decided, exited>>
  BY DEF Finish, Goto, TypeOK, sealed
<1>2. CASE pc[c] = "failed"
  <2>1. PICK end \in {"ended", "closed"} : Abort(c, end)
    BY <1>2 DEF Finish
  <2> QED BY <1>1, <2>1, OwnAborted DEF Undecided
<1>3. CASE pc[c] = "finish"
  <2>1. UNCHANGED <<sock, dead, child>>
    BY <1>3 DEF Finish
  <2> QED BY <1>1, <1>3, <2>1, OwnMoves DEF Undecided
<1> QED BY <1>1, <1>2, <1>3

LEMMA OwnConnects ==
  ASSUME TypeOK, AuditInv, NEW c \in Conns, LocalInv(c), Connect(c)
  PROVE  LocalInv(c)'
<1>1. /\ pc[c] = "absent" /\ pc'[c] = "idle" /\ sock'[c] = "open"
      /\ UNCHANGED <<audits, recorded, wire, child, dead, decided, exited>>
  BY DEF Connect, Goto, TypeOK, sealed
<1>2. Early(c) /\ sock[c] = "none"
  BY <1>1 DEF Early, Undecided, LocalInv, ConnInv
<1>3. ConnInv(c)' /\ WireInv(c)' /\ ChildInv(c)'
  BY <1>1, <1>2 DEF LocalInv, ConnInv, WireInv, ChildInv
<1>4. RecordInv(c)'
  BY <1>1 DEF LocalInv, RecordInv, Queued
<1> QED BY <1>3, <1>4 DEF LocalInv

LEMMA OwnRequests ==
  ASSUME TypeOK, AuditInv, NEW c \in Conns, LocalInv(c), Request(c) \/ Resume(c)
  PROVE  LocalInv(c)'
<1>1. pc[c] \in {"idle", "waiting"} /\ UNCHANGED recorded
  BY DEF Request, Resume
<1>2. CASE Terminate(c) /\ Goto(c, "done")
  BY <1>2, OwnTerminated DEF Goto, TypeOK
<1>3. CASE ~(Terminate(c) /\ Goto(c, "done"))
  <2>1. /\ pc'[c] \in {"authorize", "waiting", "done"}
        /\ UNCHANGED <<frames, child, audits>>
    BY <1>3 DEF Request, Resume, Admit, Queue, Busy, Goto, TypeOK
  <2> QED BY <1>1, <2>1, OwnMoves DEF frames, Undecided
<1> QED BY <1>2, <1>3

LEMMA OwnAuthorizes ==
  ASSUME TypeOK, AuditInv, NEW c \in Conns, LocalInv(c),
         Authorize(c) \/ Confirmed(c) \/ Reserve(c) \/ Refused(c)
  PROVE  LocalInv(c)'
<1>1. /\ pc[c] \in {"authorize", "confirmed", "audited", "refused"}
      /\ UNCHANGED <<recorded, sock, dead, child>>
  BY DEF Authorize, Confirmed, Reserve, Refused
<1>2. CASE Deny(c)
  BY <1>1, <1>2, OwnDenied DEF Undecided
<1>3. CASE /\ pc[c] = "authorize" /\ Goto(c, "finish") /\ UNCHANGED <<decided, audits>>
           /\ Send(c, ExitFrame(c)) /\ exited' = exited \cup {c}
  BY <1>1, <1>3, OwnExits DEF Goto, TypeOK
<1>4. CASE /\ pc[c] = "audited" /\ Enqueue(c, "reserve") /\ Goto(c, "reserving")
           /\ UNCHANGED <<decided, exited, wire>>
  BY <1>1, <1>4, OwnAsks DEF Goto, TypeOK, frames
<1>5. CASE /\ UNCHANGED <<decided, exited, wire, audits>>
           /\ \E label \in {"finish", "approval", "audited"} : Goto(c, label)
  BY <1>1, <1>5, OwnMoves DEF Goto, TypeOK, Undecided
<1>6. \/ Deny(c)
      \/ /\ pc[c] = "authorize" /\ Goto(c, "finish") /\ UNCHANGED <<decided, audits>>
         /\ Send(c, ExitFrame(c)) /\ exited' = exited \cup {c}
      \/ /\ pc[c] = "audited" /\ Enqueue(c, "reserve") /\ Goto(c, "reserving")
         /\ UNCHANGED <<decided, exited, wire>>
      \/ /\ UNCHANGED <<decided, exited, wire, audits>>
         /\ \E label \in {"finish", "approval", "audited"} : Goto(c, label)
  BY DEF Authorize, Confirmed, Reserve, Refused
<1> QED BY <1>2, <1>3, <1>4, <1>5, <1>6

LEMMA OwnLaunches ==
  ASSUME TypeOK, AuditInv, NEW c \in Conns, LocalInv(c), Launch(c)
  PROVE  LocalInv(c)'
<1>1. pc[c] = "reserved" /\ UNCHANGED <<sock, dead, decided, audits, recorded>>
  BY DEF Launch, sealed
<1>2. CASE pc'[c] = "running"
  <2>1. child'[c] = "live" /\ UNCHANGED <<exited, wire>>
    BY <1>2 DEF Launch, Goto, TypeOK
  <2> QED BY <1>1, <1>2, <2>1, OwnStarts DEF frames
<1>3. CASE pc'[c] # "running"
  <2>1. /\ pc'[c] = "finish" /\ UNCHANGED child
        /\ IF c \in dead THEN UNCHANGED <<exited, wire>>
           ELSE Send(c, ExitFrame(c)) /\ exited' = exited \cup {c}
    BY <1>3 DEF Launch, Goto, TypeOK
  <2>2. CASE c \in dead
    BY <1>1, <2>1, <2>2, OwnMoves DEF Undecided
  <2>3. CASE c \notin dead
    BY <1>1, <2>1, <2>3, OwnExits
  <2> QED BY <2>2, <2>3
<1> QED BY <1>2, <1>3

LEMMA OwnAnswers ==
  ASSUME TypeOK, AuditInv, NEW c \in Conns, LocalInv(c), Answer(c)
  PROVE  LocalInv(c)'
<1>1. /\ pc[c] = "approval" /\ Enqueue(c, "confirmation") /\ pc'[c] = "reporting"
      /\ UNCHANGED <<recorded, frames, child>>
  BY DEF Answer, Goto, TypeOK
<1> QED BY <1>1, OwnAsks

LEMMA OwnFloods ==
  ASSUME TypeOK, AuditInv, NEW c \in Conns, LocalInv(c), Flood(c)
  PROVE  LocalInv(c)'
<1>1. Terminate(c) /\ pc[c] \notin {"absent", "idle"} /\ pc' = pc
  BY DEF Flood
<1> QED BY <1>1, OwnTerminated

-----------------------------------------------------------------------------
(* Every step, for every connection.                                       *)

Acts == {"confirmation", "denied", "dropped", "reserve", "allowed", "completed"}

\* A step of c, seen by the others.
LEMMA OthersKept ==
  ASSUME TypeOK, \A d \in Conns : LocalInv(d), NEW c \in Conns, LocalInv(c)',
         \A d \in Conns : d # c =>
           /\ UNCHANGED <<pc[d], sock[d], wire[d], child[d]>>
           /\ d \in dead' <=> d \in dead
           /\ d \in decided' <=> d \in decided
           /\ d \in exited' <=> d \in exited,
         recorded \subseteq recorded',
         \/ UNCHANGED audits
         \/ \E act \in Acts : Enqueue(c, act)
         \/ audits # <<>> /\ audits' = Tail(audits) /\ Head(audits).conn = c
  PROVE  \A d \in Conns : LocalInv(d)'
<1> SUFFICES ASSUME NEW d \in Conns, d # c PROVE LocalInv(d)'
  OBVIOUS
<1>1. CASE \E act \in Acts : Enqueue(c, act)
  <2>1. \E e \in Conns, act \in {"confirmation", "denied", "dropped", "reserve", "allowed",
                                 "completed"} : e # d /\ Enqueue(e, act)
    BY <1>1 DEF Acts
  <2> QED BY <2>1, OtherKept
<1>2. CASE ~(\E act \in Acts : Enqueue(c, act))
  BY <1>2, OtherKept
<1> QED BY <1>1, <1>2

LEMMA TerminateOthers ==
  ASSUME TypeOK, NEW c \in Conns, Terminate(c)
  PROVE  /\ \A d \in Conns : d # c =>
              /\ UNCHANGED <<sock[d], wire[d], child[d]>>
              /\ d \in dead' <=> d \in dead
              /\ d \in decided' <=> d \in decided
              /\ d \in exited' <=> d \in exited
         /\ UNCHANGED audits \/ \E act \in Acts : Enqueue(c, act)
BY DEF Terminate, Abort, Kill, Send, TypeOK, Acts

LEMMA LocalStep ==
  ASSUME TypeOK, AuditInv, \A c \in Conns : LocalInv(c), Next
  PROVE  \A c \in Conns : LocalInv(c)'
<1> USE DEF Goto, frames, sealed, Acts
<1>1. ASSUME NEW c \in Conns, Connect(c) PROVE \A d \in Conns : LocalInv(d)'
  <2>1. LocalInv(c)'
    BY <1>1, OwnConnects
  <2>2. \A d \in Conns : d # c => UNCHANGED <<pc[d], sock[d]>>
    BY <1>1 DEF Connect, TypeOK
  <2>3. UNCHANGED <<wire, child, dead, decided, exited, recorded, audits>>
    BY <1>1 DEF Connect
  <2> QED BY <2>1, <2>2, <2>3, OthersKept
<1>2. ASSUME NEW c \in Conns, Request(c) \/ Resume(c) PROVE \A d \in Conns : LocalInv(d)'
  <2>1. LocalInv(c)'
    BY <1>2, OwnRequests
  <2>2. /\ \A d \in Conns : d # c => UNCHANGED pc[d]
        /\ UNCHANGED recorded
        /\ Terminate(c) \/ UNCHANGED <<frames, child, audits>>
    BY <1>2 DEF Request, Resume, Admit, Queue, Busy, TypeOK
  <2>3. CASE Terminate(c)
    BY <2>1, <2>2, <2>3, TerminateOthers, OthersKept
  <2>4. CASE UNCHANGED <<frames, child, audits>>
    BY <2>1, <2>2, <2>4, OthersKept
  <2> QED BY <2>2, <2>3, <2>4
<1>3. ASSUME NEW c \in Conns, QueueTimeout(c) PROVE \A d \in Conns : LocalInv(d)'
  <2>1. UNCHANGED <<pc, frames, child, recorded, audits>>
    BY <1>3 DEF QueueTimeout
  <2> QED BY <2>1, OtherKept
<1>4. ASSUME NEW c \in Conns, Answer(c) PROVE \A d \in Conns : LocalInv(d)'
  <2>1. LocalInv(c)'
    BY <1>4, OwnAnswers
  <2>2. /\ \A d \in Conns : d # c => UNCHANGED pc[d]
        /\ UNCHANGED <<frames, child, recorded>> /\ Enqueue(c, "confirmation")
    BY <1>4 DEF Answer, TypeOK
  <2> QED BY <2>1, <2>2, OthersKept
<1>5. ASSUME NEW c \in Conns, Authorize(c) \/ Confirmed(c) \/ Reserve(c) \/ Refused(c)
      PROVE  \A d \in Conns : LocalInv(d)'
  <2>1. LocalInv(c)'
    BY <1>5, OwnAuthorizes
  <2>2. \A d \in Conns : d # c => UNCHANGED <<pc[d], wire[d]>>
    BY <1>5 DEF Authorize, Confirmed, Reserve, Refused, Deny, Send, TypeOK
  <2>3. /\ UNCHANGED <<sock, child, dead, recorded>>
        /\ decided' \in {decided, decided \cup {c}} /\ exited' \in {exited, exited \cup {c}}
    BY <1>5 DEF Authorize, Confirmed, Reserve, Refused, Deny
  <2>4. UNCHANGED audits \/ \E act \in Acts : Enqueue(c, act)
    BY <1>5 DEF Authorize, Confirmed, Reserve, Refused, Deny
  <2> QED BY <2>1, <2>2, <2>3, <2>4, OthersKept
<1>6. ASSUME NEW c \in Conns, Launch(c) \/ Announce(c) \/ ChildCloses(c)
      PROVE  \A d \in Conns : LocalInv(d)'
  <2>1. LocalInv(c)'
    BY <1>6, OwnLaunches, OwnAnnounces, OwnCloses
  <2>2. \A d \in Conns : d # c => UNCHANGED <<pc[d], wire[d], child[d]>>
    BY <1>6 DEF Launch, Announce, ChildCloses, Send, TypeOK
  <2>3. /\ UNCHANGED <<sock, dead, recorded>>
        /\ decided' \in {decided, decided \cup {c}} /\ exited' \in {exited, exited \cup {c}}
    BY <1>6 DEF Launch, Announce, ChildCloses
  <2>4. UNCHANGED audits \/ \E act \in Acts : Enqueue(c, act)
    BY <1>6 DEF Launch, Announce, ChildCloses
  <2> QED BY <2>1, <2>2, <2>3, <2>4, OthersKept
<1>7. ASSUME NEW c \in Conns, Finish(c) \/ SocketCloses(c) PROVE \A d \in Conns : LocalInv(d)'
  <2>1. LocalInv(c)'
    BY <1>7, OwnFinishes, OwnSocketCloses
  <2>2. \A d \in Conns : d # c => UNCHANGED <<pc[d], sock[d], child[d]>>
    BY <1>7 DEF Finish, SocketCloses, Abort, Kill, TypeOK
  <2>3. /\ UNCHANGED <<wire, decided, exited, recorded, audits>>
        /\ dead' \in {dead, dead \cup {c}}
    BY <1>7 DEF Finish, SocketCloses, Abort
  <2> QED BY <2>1, <2>2, <2>3, OthersKept
<1>8. ASSUME NEW c \in Conns, Flood(c) PROVE \A d \in Conns : LocalInv(d)'
  <2>1. LocalInv(c)'
    BY <1>8, OwnFloods
  <2>2. Terminate(c) /\ UNCHANGED <<pc, recorded>>
    BY <1>8 DEF Flood
  <2> QED BY <2>1, <2>2, TerminateOthers, OthersKept
<1>9. ASSUME StateOperation \/ StateFailure PROVE \A d \in Conns : LocalInv(d)'
  <2>1. PICK c \in Conns : Head(audits).conn = c
    BY <1>9, HeadType DEF StateOperation, StateFailure
  <2>2. LocalInv(c)'
    BY <1>9, <2>1, OwnRecorded, OwnFails
  <2>3. audits # <<>> /\ audits' = Tail(audits) /\ recorded \subseteq recorded'
    BY <1>9 DEF StateOperation, StateFailure
  <2>4. \A d \in Conns : d # c =>
          /\ UNCHANGED <<pc[d], sock[d], wire[d], child[d]>>
          /\ d \in dead' <=> d \in dead
          /\ d \in decided' <=> d \in decided
          /\ d \in exited' <=> d \in exited
    <3>1. CASE StateOperation
      <4>1. UNCHANGED <<frames, child>> /\ \E label \in Working : Reach(Head(audits), label)
        BY <3>1 DEF StateOperation, Reservation, Working
      <4> QED BY <2>1, <4>1 DEF Reach, TypeOK
    <3>2. CASE StateFailure
      BY <2>1, <3>2 DEF StateFailure, Reach, Abort, Kill, Send, TypeOK
    <3> QED BY <1>9, <3>1, <3>2
  <2> QED BY <2>1, <2>2, <2>3, <2>4, OthersKept
<1>10. ASSUME AgentExits \/ CloseServer \/ ClearSecrets \/ CloseState
       PROVE  \A d \in Conns : LocalInv(d)'
  <2>1. UNCHANGED <<pc, frames, child, recorded, audits>>
    BY <1>10 DEF AgentExits, CloseServer, ClearSecrets, CloseState, unbothered
  <2> QED BY <2>1, OtherKept
<1> QED
  BY <1>1, <1>2, <1>3, <1>4, <1>5, <1>6, <1>7, <1>8, <1>9, <1>10 DEF Next, Step

\* The session's secrets are there while a socket is open.
LEMMA ClosingStep ==
  ASSUME TypeOK, ClosingInv, AuditInv, \A c \in Conns : LocalInv(c), Next
  PROVE  ClosingInv'
<1> USE DEF closing, Goto
<1>0. ASSUME UNCHANGED <<session, secrets>>,
             ~secrets => \A c \in Conns : sock'[c] \in {sock[c], "closed"}
      PROVE  ClosingInv'
  BY <1>0 DEF ClosingInv
<1>1. ASSUME NEW c \in Conns, Connect(c) PROVE ClosingInv'
  BY <1>1 DEF Connect, ClosingInv
<1>2. ASSUME NEW c \in Conns, Terminate(c), ~secrets, c \notin dead, sock[c] # "none"
      PROVE  FALSE
  BY <1>2 DEF ClosingInv, LocalInv, ConnInv
<1>3. ASSUME NEW c \in Conns, Request(c) \/ Resume(c) \/ Flood(c) PROVE ClosingInv'
  <2>1. UNCHANGED <<session, secrets>> /\ sock[c] # "none" /\ pc[c] # "absent"
    BY <1>3 DEF Request, Resume, Flood, LocalInv, ConnInv
  <2>2. UNCHANGED sock \/ (Terminate(c) /\ c \notin dead)
    BY <1>3 DEF Request, Admit, Queue, Busy, Resume, Flood, frames, LocalInv, ConnInv
  <2> QED BY <1>0, <1>2, <2>1, <2>2
<1>4. ASSUME NEW c \in Conns,
             \/ QueueTimeout(c) \/ Answer(c) \/ Authorize(c) \/ Confirmed(c) \/ Reserve(c)
             \/ Refused(c) \/ Launch(c) \/ Announce(c) \/ ChildCloses(c)
      PROVE  ClosingInv'
  <2>1. UNCHANGED <<session, secrets, sock>>
    BY <1>4 DEF QueueTimeout, Answer, Authorize, Confirmed, Reserve, Refused, Launch, Announce,
                ChildCloses, frames
  <2> QED BY <1>0, <2>1
<1>5. ASSUME NEW c \in Conns, Finish(c) PROVE ClosingInv'
  <2>1. /\ UNCHANGED <<session, secrets>> /\ pc[c] \in {"finish", "failed"}
        /\ \/ UNCHANGED sock
           \/ sock' = [sock EXCEPT ![c] = "closed"]
           \/ sock' = [sock EXCEPT ![c] = "ended"] /\ sock[c] # "closed"
    BY <1>5 DEF Finish, Abort
  <2>2. sock[c] # "none"
    BY <2>1 DEF LocalInv, ConnInv
  <2>3. ~secrets => \A d \in Conns : sock'[d] \in {sock[d], "closed"}
    BY <2>1, <2>2 DEF ClosingInv, TypeOK
  <2> QED BY <1>0, <2>1, <2>3
<1>6. ASSUME NEW c \in Conns, SocketCloses(c) PROVE ClosingInv'
  <2>1. UNCHANGED <<session, secrets>> /\ sock' = [sock EXCEPT ![c] = "closed"]
    BY <1>6 DEF SocketCloses, Abort
  <2> QED BY <1>0, <2>1 DEF TypeOK
<1>7. ASSUME StateOperation PROVE ClosingInv'
  BY <1>0, <1>7 DEF StateOperation, frames
<1>8. ASSUME StateFailure PROVE ClosingInv'
  <2>1. PICK c \in Conns : Head(audits).conn = c
    BY <1>8, HeadType DEF StateFailure
  <2>2. /\ UNCHANGED <<session, secrets>>
        /\ UNCHANGED sock \/ (Head(audits).act = "allowed" /\ c \notin dead)
    BY <1>8, <2>1 DEF StateFailure, frames
  <2>3. pc[c] # "absent"
    <3>1. 1 \in 1 .. Len(audits) /\ Head(audits) = audits[1]
      BY <1>8 DEF StateFailure, TypeOK
    <3> QED BY <2>1, <3>1 DEF LocalInv, ConnInv
  <2>4. ~secrets => c \in dead
    BY <2>3 DEF ClosingInv, LocalInv, ConnInv
  <2>5. ~secrets => UNCHANGED sock
    BY <2>2, <2>4
  <2> QED BY <1>0, <2>2, <2>5
<1>9. ASSUME AgentExits \/ CloseServer \/ ClearSecrets \/ CloseState PROVE ClosingInv'
  <2>1. sock' = sock
    BY <1>9 DEF AgentExits, CloseServer, ClearSecrets, CloseState, unbothered, frames
  <2> QED BY <1>9, <2>1 DEF AgentExits, CloseServer, ClearSecrets, CloseState, ClosingInv,
                            TypeOK
<1> QED
  BY <1>1, <1>3, <1>4, <1>5, <1>6, <1>7, <1>8, <1>9 DEF Next, Step

LEMMA InitIInv == Init => IInv
<1> SUFFICES ASSUME Init PROVE IInv
  OBVIOUS
<1> USE DEF Init
<1>1. TypeOK
  BY MaxConcurrentAssumption, LimitsAssumption DEF TypeOK, PCs
<1>2. Holders = {} /\ Waiters = {} /\ Spent = {}
  BY DEF Holders, Waiters, Spent
<1>3. Len(waiting) = 0 /\ Len(audits) = 0 /\ \A i \in 1 .. 0 : FALSE
  OBVIOUS
<1>4. SlotInv
  BY <1>2, <1>3, FS_EmptySet DEF SlotInv, Working
<1>5. UseInv
  BY <1>2, FS_EmptySet DEF UseInv
<1>6. AuditInv /\ ClosingInv
  BY <1>3 DEF AuditInv, ClosingInv
<1>7. ASSUME NEW c \in Conns PROVE LocalInv(c)
  <2>1. ConnInv(c)
    BY <1>3 DEF ConnInv
  <2>2. wire[c] = <<>> /\ wire[c] \in Silent
    BY DEF Silent
  <2>3. WireInv(c) /\ ChildInv(c)
    BY <2>2, Apart DEF WireInv, ChildInv
  <2>4. RecordInv(c)
    BY <1>3, <2>2, Apart DEF RecordInv
  <2> QED BY <2>1, <2>3, <2>4 DEF LocalInv
<1> QED BY <1>1, <1>4, <1>5, <1>6, <1>7 DEF IInv

LEMMA NextIInv == IInv /\ [Next]_vars => IInv'
<1> SUFFICES ASSUME IInv, [Next]_vars PROVE IInv'
  OBVIOUS
<1>1. CASE Next
  BY <1>1, TypeStep, SlotStep, UseStep, AuditStep, ClosingStep, LocalStep DEF IInv
<1>2. CASE UNCHANGED vars
  <2> USE <1>2 DEF vars, admission, frames, sealed, closing
  <2>1. TypeOK'
    BY DEF IInv, TypeOK
  <2>2. Holders' = Holders /\ Waiters' = Waiters /\ Spent' = Spent
    BY DEF Holders, Waiters, Spent
  <2>3. SlotInv'
    BY <2>2 DEF IInv, SlotInv
  <2>4. UseInv'
    BY <2>2 DEF IInv, UseInv
  <2>5. AuditInv' /\ ClosingInv'
    BY DEF IInv, AuditInv, ClosingInv
  <2>6. \A c \in Conns : LocalInv(c)'
    BY OtherKept DEF IInv
  <2> QED BY <2>1, <2>3, <2>4, <2>5, <2>6 DEF IInv
<1> QED BY <1>1, <1>2

-----------------------------------------------------------------------------
(* The results.                                                            *)

\* The inductive invariant holds in every reachable state.
THEOREM BrokerSafe == Spec => []IInv
BY InitIInv, NextIInv, PTL DEF Spec

\* The broker's variables keep their types; the counters of running and queued
\* requests and of spent uses stay within the session's limits.
THEOREM TypeCorrect == Spec => []TypeOK
<1>1. IInv => TypeOK
  BY DEF IInv
<1> QED BY <1>1, BrokerSafe, PTL

\* acquireExecutionSlot, its release and the admission race lose no slot and
\* hand none out twice, and every child was started on a reserved use.
THEOREM Limits == Spec => []LimitsHold
<1>1. IInv => LimitsHold
  <2> SUFFICES ASSUME IInv PROVE LimitsHold
    OBVIOUS
  <2>1. SlotsAccounted
    <3>1. /\ active = Cardinality({c \in Conns : holds[c]})
          /\ queued = Cardinality({c \in Conns : pc[c] = "waiting"})
      BY DEF IInv, SlotInv, Holders, Waiters
    <3>2. active <= MaxConcurrent
      BY MaxConcurrentAssumption DEF IInv, TypeOK
    <3>3. \A c \in Conns : holds[c] => pc[c] \notin {"absent", "idle", "done"}
      BY DEF IInv, SlotInv, Working
    <3>4. waiting # <<>> => active = MaxConcurrent
      BY DEF IInv, SlotInv
    <3> QED BY <3>1, <3>2, <3>3, <3>4 DEF SlotsAccounted
  <2>2. UsesCoverChildren
    <3>1. Started \subseteq Spent
      BY DEF Started, Spent
    <3>2. IsFiniteSet(Started) /\ Cardinality(Started) <= Cardinality(Spent)
      BY <3>1, FS_Subset DEF IInv, UseInv
    <3>3. Cardinality(Started) \in Nat /\ Cardinality(Spent) \in Nat
      BY <3>2, FS_CardinalityType DEF IInv, UseInv
    <3> QED BY <3>2, <3>3, LimitsAssumption DEF IInv, UseInv, TypeOK, UsesCoverChildren
  <2> QED BY <2>1, <2>2 DEF LimitsHold
<1> QED BY <1>1, BrokerSafe, PTL

LEMMA FramesIn ==
  ASSUME NEW c \in Conns, WireInv(c)
  PROVE  /\ \A i, j \in 1 .. Len(wire[c]) :
              wire[c][i] # "exit" /\ wire[c][j] # "exit" => i = j
         /\ \A i \in 1 .. Len(wire[c]) :
              wire[c][i] = "exit" => i = Len(wire[c]) \/ wire[c][i + 1] = "deny"
         /\ InWire(c, "deny") => wire[c] \in Denied
         /\ InWire(c, "allow") => wire[c] \in Allowed
<1> DEFINE w == wire[c]
           Good(s) == /\ \A i, j \in 1 .. Len(s) : s[i] # "exit" /\ s[j] # "exit" => i = j
                      /\ \A i \in 1 .. Len(s) :
                           s[i] = "exit" => i = Len(s) \/ s[i + 1] = "deny"
           Has(s, f) == \E i \in 1 .. Len(s) : s[i] = f
<1>0. /\ \A i \in 1 .. 0 : FALSE
      /\ \A i \in 1 .. 1 : i = 1
      /\ \A i \in 1 .. 2 : i = 1 \/ i = 2
  OBVIOUS
<1>1. ASSUME w \in Silent PROVE Good(w) /\ ~Has(w, "deny") /\ ~Has(w, "allow")
  <2>1. CASE w = <<>>
    BY <1>0, <2>1
  <2>2. CASE w = <<"exit">>
    BY <1>0, <2>2
  <2> QED BY <1>1, <2>1, <2>2 DEF Silent
<1>2. ASSUME w \in Denied PROVE Good(w) /\ ~Has(w, "allow")
  <2>1. CASE w = <<"deny">>
    BY <1>0, <2>1
  <2>2. CASE w = <<"deny", "exit">>
    BY <1>0, <2>2
  <2>3. CASE w = <<"exit", "deny">>
    BY <1>0, <2>3
  <2> QED BY <1>2, <2>1, <2>2, <2>3 DEF Denied
<1>3. ASSUME w \in Allowed PROVE Good(w) /\ ~Has(w, "deny")
  <2>1. CASE w = <<"allow">>
    BY <1>0, <2>1
  <2>2. CASE w = <<"allow", "exit">>
    BY <1>0, <2>2
  <2> QED BY <1>3, <2>1, <2>2 DEF Allowed
<1> QED BY <1>1, <1>2, <1>3 DEF WireInv, InWire

\* sendDecision, sendExit and the audit queue: a client is told one verdict at
\* most, and what it is told has happened and is in the sealed audit when its
\* request ends.
THEOREM Answers == Spec => []AnswersAreTrue
<1>1. IInv => FramesAreTrue
  <2> SUFFICES ASSUME IInv, NEW c \in Conns
               PROVE  /\ \A i, j \in 1 .. Len(wire[c]) :
                           wire[c][i] # "exit" /\ wire[c][j] # "exit" => i = j
                      /\ \A i \in 1 .. Len(wire[c]) :
                           wire[c][i] = "exit" => i = Len(wire[c]) \/ wire[c][i + 1] = "deny"
                      /\ InWire(c, "allow") => child[c] \in {"announced", "killed", "gone"}
    BY DEF FramesAreTrue
  <2>1. LocalInv(c)
    BY DEF IInv
  <2> QED BY <2>1, FramesIn DEF LocalInv, ChildInv
<1>2. IInv => VerdictsAudited
  <2> SUFFICES ASSUME IInv, NEW c \in Conns, pc[c] = "done", c \notin dead
               PROVE  /\ InWire(c, "deny")  => EventOf(c, "denied") \in recorded
                      /\ InWire(c, "allow") => EventOf(c, "allowed") \in recorded
                      /\ InWire(c, "allow") => EventOf(c, "completed") \in recorded
    BY DEF VerdictsAudited, EventOf
  <2>1. LocalInv(c) /\ TypeOK /\ AuditInv
    BY DEF IInv
  <2>2. ~Queued(EventOf(c, "denied")) /\ ~Queued(EventOf(c, "completed"))
    BY <2>1, NothingAwaited DEF Awaiting
  <2>3. ~Queued(EventOf(c, "allowed"))
    <3> SUFFICES ASSUME NEW i \in 1 .. Len(audits), audits[i] = EventOf(c, "allowed")
                 PROVE  FALSE
      BY DEF Queued
    <3>1. PICK j \in i + 1 .. Len(audits) : audits[j] = EventOf(c, "completed")
      BY <2>1 DEF LocalInv, RecordInv
    <3>2. j \in 1 .. Len(audits)
      BY <2>1 DEF TypeOK
    <3> QED BY <2>2, <3>1, <3>2 DEF Queued
  <2> QED BY <2>1, <2>2, <2>3, FramesIn DEF LocalInv, RecordInv
<1>3. IInv => AnswersAreTrue
  BY <1>1, <1>2 DEF AnswersAreTrue
<1> QED BY <1>3, BrokerSafe, PTL

LEMMA SecretsThere == IInv => SecretsOutliveConnections
<1> SUFFICES ASSUME IInv, NEW c \in Conns, Running(c), c \notin dead, ~secrets PROVE FALSE
  BY DEF SecretsOutliveConnections
<1>1. LocalInv(c) /\ sock[c] \in {"none", "closed"}
  BY DEF IInv, ClosingInv
<1>2. pc[c] = "absent"
  BY <1>1 DEF LocalInv, ConnInv
<1> QED BY <1>1, <1>2 DEF LocalInv, ChildInv, Early, Undecided, Running

\* ClearSecrets waits for every socket, and abortConnection kills the child it
\* tears down.
THEOREM Children == Spec => ChildrenAreCovered
<1>1. ASSUME IInv, Next, NEW c \in Conns, c \in dead' \ dead PROVE ~Running(c)'
  <2> USE DEF Running, Goto, frames
  <2>1. ASSUME NEW d \in Conns, NEW end, Abort(d, end), c \in dead' \ dead PROVE ~Running(c)'
    BY <1>1, <2>1 DEF Abort, Kill, IInv, TypeOK
  <2>2. \A d \in Conns : c \in dead' \ dead /\ Terminate(d) => ~Running(c)'
    BY <2>1 DEF Terminate
  <2>3. ASSUME NEW d \in Conns, Request(d) \/ Resume(d) \/ Flood(d) PROVE ~Running(c)'
    BY <1>1, <2>2, <2>3 DEF Request, Admit, Queue, Busy, Resume, Flood
  <2>4. ASSUME NEW d \in Conns, Finish(d) \/ SocketCloses(d) PROVE ~Running(c)'
    BY <1>1, <2>1, <2>4 DEF Finish, SocketCloses
  <2>5. ASSUME StateFailure PROVE ~Running(c)'
    <3>1. Head(audits).conn \in Conns /\ Abort(Head(audits).conn, "ended")
      BY <1>1, <2>5, HeadType DEF StateFailure, IInv
    <3>2. PICK d \in Conns : Abort(d, "ended")
      BY <3>1
    <3> QED BY <1>1, <2>1, <3>2
  <2>6. ASSUME NEW d \in Conns,
               \/ Connect(d) \/ QueueTimeout(d) \/ Answer(d) \/ Authorize(d) \/ Confirmed(d)
               \/ Reserve(d) \/ Refused(d) \/ Launch(d) \/ Announce(d) \/ ChildCloses(d)
        PROVE  FALSE
    BY <1>1, <2>6 DEF Connect, QueueTimeout, Answer, Authorize, Confirmed, Reserve, Refused,
                      Launch, Announce, ChildCloses
  <2>7. ~(StateOperation \/ AgentExits \/ CloseServer \/ ClearSecrets \/ CloseState)
    BY <1>1 DEF StateOperation, AgentExits, CloseServer, ClearSecrets, CloseState, unbothered
  <2> QED BY <1>1, <2>3, <2>4, <2>5, <2>6, <2>7 DEF Next, Step
<1>2. ASSUME IInv, IInv', [Next]_vars
      PROVE  [SecretsOutliveConnections' /\ \A c \in dead' \ dead : ~Running(c)']_vars
  <2> SUFFICES ASSUME Next
               PROVE  SecretsOutliveConnections' /\ \A c \in dead' \ dead : ~Running(c)'
    BY <1>2
  <2>1. SecretsOutliveConnections'
    BY <1>2, SecretsThere, PTL
  <2>2. dead' \subseteq Conns
    BY <1>2 DEF IInv, TypeOK
  <2>3. \A c \in dead' \ dead : ~Running(c)'
    BY <1>1, <1>2, <2>2
  <2> QED BY <2>1, <2>3
<1> QED BY <1>2, BrokerSafe, PTL DEF Spec, ChildrenAreCovered

-----------------------------------------------------------------------------
(* Executor: one supervised child.                                         *)

CONSTANTS Escapes, Foreign
VARIABLES setup, phase, alive, doomed, ended, group, timers, listening, aborted, requested,
          thrown, sweep, plain, result

Supervisor == INSTANCE Executor

\* What a run leaves behind and what it reports.
SettlesCleanly == Supervisor!SettlesCleanly

-----------------------------------------------------------------------------
(* Proof of SettlesCleanly, for either platform and whatever processes do.  *)

\* A leader that ended is gone, and nothing but a supervised run holds
\* anything; no process, and no request to terminate one, precedes it; a run
\* settles otherwise than by a rejection only when its leader ended.
Clean ==
  /\ phase # "supervised" => timers = {} /\ ~ listening /\ ~ plain
  /\ phase \in {"idle", "validating"} => alive = {} /\ ended = "no" /\ requested = "none"
  /\ ended # "no" => "leader" \notin alive
  /\ requested # "none" => requested \in Supervisor!Reason
  /\ phase = "settled" /\ result.why # "rejected" => ended # "no"
  /\ Supervisor!SettlesCleanly

LEMMA CleanInit == Supervisor!Init => Clean
BY DEF Supervisor!Init, Clean, Supervisor!SettlesCleanly, Supervisor!Pending, Supervisor!Reason

\* A request either settles the run, whose leader may not be signalled, or
\* leaves it supervised.
LEMMA CleanTerminate ==
  ASSUME Clean, phase = "supervised", NEW reason \in Supervisor!Reason, NEW rest,
         Supervisor!Terminate(reason, rest),
         UNCHANGED <<setup, alive, ended, group>>
  PROVE  Clean'
<1>1. CASE phase' = "supervised"
  BY <1>1 DEF Supervisor!Terminate, Clean, Supervisor!SettlesCleanly, Supervisor!Settle
<1>2. CASE phase' # "supervised"
  <2>1. Supervisor!Settle(Supervisor!Rejected) /\ Supervisor!DirectRefused /\ requested' = reason
    BY <1>2 DEF Supervisor!Terminate
  <2> QED BY <2>1 DEF Clean, Supervisor!SettlesCleanly, Supervisor!Settle, Supervisor!Rejected,
                      Supervisor!DirectRefused, Supervisor!Reason
<1> QED BY <1>1, <1>2

LEMMA CleanStep == Clean /\ [Supervisor!Next]_(Supervisor!vars) => Clean'
<1> SUFFICES ASSUME Clean, [Supervisor!Next]_(Supervisor!vars) PROVE Clean'
  OBVIOUS
<1> USE DEF Supervisor!processes, Supervisor!supervision
<1>1. CASE Supervisor!Call
  BY <1>1 DEF Supervisor!Call, Clean, Supervisor!SettlesCleanly, Supervisor!Rejected,
              Supervisor!Reason
<1>2. CASE Supervisor!Reject
  BY <1>2 DEF Supervisor!Reject, Supervisor!Settle, Clean, Supervisor!SettlesCleanly,
              Supervisor!Rejected, Supervisor!Reason
<1>3. CASE Supervisor!Spawn
  BY <1>3 DEF Supervisor!Spawn, Clean, Supervisor!SettlesCleanly
<1>4. CASE Supervisor!SpawnError
  BY <1>4 DEF Supervisor!SpawnError, Supervisor!Settle, Clean, Supervisor!SettlesCleanly,
              Supervisor!Rejected, Supervisor!Reason
<1>5. CASE Supervisor!Abort
  <2>1. CASE listening
    BY <1>5, <2>1, CleanTerminate DEF Supervisor!Abort, Clean, Supervisor!Reason
  <2>2. CASE ~ listening
    BY <1>5, <2>2 DEF Supervisor!Abort, Clean, Supervisor!SettlesCleanly
  <2> QED BY <2>1, <2>2
<1>6. CASE Supervisor!TimeoutFires
  BY <1>6, CleanTerminate DEF Supervisor!TimeoutFires, Clean, Supervisor!Reason
<1>7. CASE Supervisor!OutputLimit
  BY <1>7, CleanTerminate DEF Supervisor!OutputLimit, Supervisor!Reason
<1>8. CASE Supervisor!GraceFires
  <2>1. CASE Supervisor!DirectRefused
    BY <1>8, <2>1 DEF Supervisor!GraceFires, Supervisor!DirectRefused, Supervisor!Settle,
                      Clean, Supervisor!SettlesCleanly, Supervisor!Rejected, Supervisor!Reason
  <2>2. CASE ~ Supervisor!DirectRefused
    BY <1>8, <2>2 DEF Supervisor!GraceFires, Clean, Supervisor!SettlesCleanly
  <2> QED BY <2>1, <2>2
<1>9. CASE Supervisor!Close
  <2> USE <1>9 DEF Supervisor!Close, Supervisor!Settle
  <2>1. CASE thrown
    BY <2>1 DEF Clean, Supervisor!SettlesCleanly, Supervisor!Rejected, Supervisor!Reason
  <2>2. CASE ~ thrown
    <3>1. /\ result'.shape = Supervisor!Attributed
          /\ result'.why = IF requested # "none" THEN requested
                           ELSE IF Supervisor!Attributed = "signal" THEN "signal" ELSE "exit"
      BY <2>2
    <3>2. result'.why \in Supervisor!Reason => requested # "none"
      BY <3>1 DEF Supervisor!Reason
    <3>3. result'.why \in {"exit", "signal"} => requested' = "none"
      BY <3>1 DEF Clean, Supervisor!Reason
    <3>4. result'.why \in Supervisor!Reason /\ ended' \in {"signal", "artifact"} => result'.shape = "signal"
      BY <3>1, <3>2 DEF Supervisor!Attributed
    <3> QED BY <3>3, <3>4 DEF Clean, Supervisor!SettlesCleanly
  <2> QED BY <2>1, <2>2
<1>10. CASE Supervisor!Fork
  BY <1>10 DEF Supervisor!Fork, Clean, Supervisor!SettlesCleanly
<1>11. CASE Supervisor!Sweep
  BY <1>11 DEF Supervisor!Sweep, Clean, Supervisor!SettlesCleanly
<1>12. ASSUME NEW p \in Supervisor!Process, Supervisor!Dies(p) PROVE Clean'
  <2> USE <1>12 DEF Supervisor!Dies
  <2>1. p # "leader" => ended' = ended
    OBVIOUS
  <2>2. p = "leader" => ended = "no" /\ "leader" \notin alive'
    BY DEF Clean
  <2>3. phase \notin {"idle", "validating"}
    BY DEF Clean
  <2> QED BY <2>1, <2>2, <2>3 DEF Clean, Supervisor!SettlesCleanly, Supervisor!Reason
<1>13. CASE UNCHANGED Supervisor!vars
  BY <1>13 DEF Supervisor!vars, Clean, Supervisor!SettlesCleanly
<1> QED BY <1>1, <1>2, <1>3, <1>4, <1>5, <1>6, <1>7, <1>8, <1>9, <1>10, <1>11, <1>12, <1>13
     DEF Supervisor!Next, Supervisor!Supervise

\* However a run settles, nothing of it is left and its result names what ended
\* the child (runSecureCommand).
THEOREM RunsSettleCleanly == Supervisor!Spec => []SettlesCleanly
<1>1. Clean => SettlesCleanly
  BY DEF Clean, SettlesCleanly
<1> QED BY <1>1, CleanInit, CleanStep, PTL DEF Supervisor!Spec

-----------------------------------------------------------------------------
(* RunCommand: concurrent runs, their grants and policies, and the audit.  *)

CONSTANTS Grants, Policies, GrantUses, ExpiresAt, RingSize, Runs, Wanted, Project,
          Denying, Confirming, MaxChanges, MaxNow, MaxRunFaults
VARIABLES doc, present, runPc, held, claimed, denier, end, logged, now, changes, runFaults

Run == INSTANCE RunCommand WITH
  pc <- runPc, faults <- runFaults, MaxUses <- GrantUses, MaxFaults <- MaxRunFaults

\* Grants, policies and their audit under concurrent runs.
RunsAreAuthorized == Run!RunsAreAuthorized
AuditIsTail       == Run!AuditIsTail

RunActs   == {"policy-created", "policy-removed", "grant-created", "grant-revoked",
              "allowed", "denied", "granted", "declined", "completed"}
RunEvents == [seq : Nat, who : Runs \cup {"operator"}, act : RunActs]

\* The ring is the tail of n events, numbered from 1.
Ring(audit, n) ==
  /\ audit \in Seq(RunEvents) /\ n \in Nat
  /\ Len(audit) = IF n < RingSize THEN n ELSE RingSize
  /\ \A i \in 1 .. Len(audit) : audit[i].seq = n - Len(audit) + i

\* A recorded event is the last of the ring, and the only one that is new.
LEMMA RecordedLast ==
  ASSUME Run!ConstantsFit, NEW audit, NEW n, Ring(audit, n),
         NEW who \in Runs \cup {"operator"}, NEW act \in RunActs
  PROVE  LET next == Run!Audited(audit, who, act)
         IN  /\ Ring(next, n + 1)
             /\ next # audit
             /\ {e \in {next[i] : i \in DOMAIN next} : \A i \in DOMAIN audit : e # audit[i]}
                  = {[seq |-> n + 1, who |-> who, act |-> act]}
<1> DEFINE seq  == IF audit = <<>> THEN 1 ELSE audit[Len(audit)].seq + 1
           new  == [seq |-> seq, who |-> who, act |-> act]
           full == Append(audit, new)
           next == IF Len(full) > RingSize THEN Tail(full) ELSE full
           m    == Len(audit)
<1>0. audit \in Seq(RunEvents) /\ n \in Nat /\ RingSize \in Nat /\ RingSize > 0 /\ m \in Nat
  BY LenProperties DEF Ring, Run!ConstantsFit
<1>1. m = 0 => n = 0
  BY <1>0 DEF Ring
<1>2. seq = n + 1
  <2>1. CASE audit = <<>>
    BY <2>1, <1>0, <1>1
  <2>2. CASE audit # <<>>
    <3>1. m > 0 /\ audit[m].seq = n - m + m
      BY <2>2, <1>0, EmptySeq DEF Ring
    <3> QED BY <3>1, <2>2, <1>0
  <2> QED BY <2>1, <2>2
<1>3. new \in RunEvents
  BY <1>2, <1>0 DEF RunEvents
<1>4. full \in Seq(RunEvents) /\ Len(full) = m + 1 /\ full[m + 1] = new
      /\ \A i \in 1 .. m : full[i] = audit[i]
  BY <1>3, <1>0, AppendProperties
<1> HIDE DEF new, seq, full
<1>5. \A i \in 1 .. m : audit[i].seq < n + 1
  BY <1>0 DEF Ring
<1>6. new.seq = n + 1 /\ new = [seq |-> n + 1, who |-> who, act |-> act]
  BY <1>2 DEF new
<1>9. \A i \in 1 .. m + 1 : full[i].seq = n - m + i
  <2>1. SUFFICES ASSUME NEW i \in 1 .. m + 1 PROVE full[i].seq = n - m + i
    OBVIOUS
  <2>2. CASE i \in 1 .. m
    BY <2>2, <1>4, <1>0 DEF Ring
  <2>3. CASE i = m + 1
    BY <2>3, <1>4, <1>6, <1>0
  <2> QED BY <2>1, <2>2, <2>3, <1>0
<1>7. CASE m + 1 <= RingSize
  <2>1. next = full
    BY <1>7, <1>4, <1>0
  <2>2. m = n
    BY <1>7, <1>0 DEF Ring
  <2> HIDE DEF next
  <2>3. \A i \in 1 .. Len(full) : full[i].seq = (n + 1) - Len(full) + i
    BY <1>4, <1>9, <1>0
  <2>4. Ring(next, n + 1)
    <3>1. n \in Nat /\ Len(full) = n + 1 /\ n + 1 <= RingSize /\ RingSize \in Nat
      BY <1>7, <2>2, <1>4, <1>0
    <3>2. n + 1 \in Nat /\ Len(full) = IF n + 1 < RingSize THEN n + 1 ELSE RingSize
      BY <3>1
    <3> QED BY <3>2, <2>1, <2>3, <1>4 DEF Ring
  <2>5. next # audit
    BY <2>1, <1>4, <1>0
  <2>6. {e \in {next[i] : i \in DOMAIN next} : \A i \in DOMAIN audit : e # audit[i]} = {new}
    BY <2>1, <1>4, <1>5, <1>6, <1>0
  <2> QED BY <2>4, <2>5, <2>6, <1>6 DEF Run!Audited, next, full, new, seq
<1>8. CASE m + 1 > RingSize
  <2>1. next = Tail(full) /\ full # <<>>
    BY <1>8, <1>4, <1>0
  <2>2. m = RingSize /\ n >= RingSize
    BY <1>8, <1>0 DEF Ring
  <2>3. next \in Seq(RunEvents) /\ Len(next) = m /\ \A i \in 1 .. m : next[i] = full[i + 1]
    BY <2>1, <1>4, <1>0, HeadTailProperties
  <2> HIDE DEF next
  <2>4. \A i \in 1 .. m : next[i].seq = n + 1 - m + i
    BY <2>3, <1>9, <1>0
  <2>5. Ring(next, n + 1)
    BY <2>2, <2>3, <2>4, <1>0 DEF Ring
  <2>6. next[m] = new /\ m \in 1 .. m
    BY <2>2, <2>3, <1>4, <1>0
  <2>7. next # audit
    BY <2>6, <1>5, <1>6, <1>0
  <2>8. \A i \in 1 .. m : i < m => next[i] = audit[i + 1] /\ i + 1 \in 1 .. m
    BY <2>3, <1>4, <1>0
  <2>9. {e \in {next[i] : i \in DOMAIN next} : \A i \in DOMAIN audit : e # audit[i]} = {new}
    <3>1. DOMAIN next = 1 .. m /\ DOMAIN audit = 1 .. m
      BY <2>3, <1>0
    <3>2. \A i \in 1 .. m : i = m \/ i < m
      BY <1>0
    <3>3. \A i \in 1 .. m : new # audit[i]
      BY <1>5, <1>6, <1>0
    <3> QED BY <3>1, <3>2, <3>3, <2>6, <2>8
  <2> QED BY <2>5, <2>7, <2>9, <1>6 DEF Run!Audited, next, full, new, seq
<1> QED BY <1>7, <1>8, <1>0

-----------------------------------------------------------------------------
NotYetRun   == {"start", "create", "resolved", "denying", "asking", "answered", "planning"}
Decided == {"asking", "answered", "planning", "claiming", "allowing", "spawning", "running"}

DocInv ==
  /\ present \in BOOLEAN
  /\ doc = [policies |-> doc.policies, grants |-> doc.grants, audit |-> doc.audit]
  /\ Run!Stored(doc) \subseteq Grants /\ doc.grants \in [Run!Stored(doc) -> Run!Grant]
  /\ Ring(doc.audit, logged.all)
  /\ ~ present => doc = Run!Empty

TypeInv ==
  /\ runPc = [r \in Runs |-> runPc[r]] /\ end = [r \in Runs |-> end[r]]
  /\ claimed \in [Runs -> Seq(Grants)]
  /\ denier \in [Runs -> SUBSET Denying]
  /\ logged = [all |-> logged.all, allowed |-> logged.allowed, denied |-> logged.denied]
  /\ logged.allowed \in [Runs -> Nat] /\ logged.denied \in [Runs -> Nat]

\* Each claim is of a stored grant and is one use of it.
GrantInv ==
  /\ \A r \in Runs : \A i \in 1 .. Len(claimed[r]) : claimed[r][i] \in Run!Stored(doc)
  /\ \A g \in Run!Stored(doc) : /\ IsFiniteSet(Run!ClaimsOf(g))
                                /\ doc.grants[g].used <= GrantUses[g]
                                /\ doc.grants[g].used = Cardinality(Run!ClaimsOf(g))

\* A run has claimed what it wants when it starts its child, and its events say so.
RunInv(r) ==
  /\ ~ present => runPc[r] \in {"start", "create"}
  /\ runPc[r] # "done" => end[r] = "none"
  /\ runPc[r] \in NotYetRun \/ end[r] \in {"invalid", "denied", "unconfirmed"} => claimed[r] = <<>>
  /\ Len(claimed[r]) <= Len(Wanted[r].grants)
  /\ runPc[r] \in {"allowing", "spawning", "running"} => Len(claimed[r]) = Len(Wanted[r].grants)
  /\ runPc[r] = "allowing" => Wanted[r].policies # {}
  /\ runPc[r] \in NotYetRun \cup {"claiming", "allowing"} => logged.allowed[r] = Len(claimed[r])
  /\ runPc[r] \in {"spawning", "running"} \/ end[r] = "ran" =>
       logged.allowed[r] = Len(Wanted[r].grants) + IF Wanted[r].policies = {} THEN 0 ELSE 1
  /\ runPc[r] # "done" \/ end[r] = "ran" => logged.denied[r] = 0
  /\ end[r] = "refused" => logged.denied[r] = 1
  /\ runPc[r] \in Decided \/ end[r] = "ran" => denier[r] = {}
  /\ denier[r] \subseteq doc.policies

RunSafe == TypeInv /\ DocInv /\ GrantInv /\ \A r \in Runs : RunInv(r)

LEMMA RunSafeInit == Run!ConstantsFit /\ Run!Init => RunSafe
<1> SUFFICES ASSUME Run!ConstantsFit, Run!Init PROVE RunSafe
  OBVIOUS
<1>1. TypeInv
  <2>1. <<>> \in Seq(Grants) /\ Run!None \in [Runs -> Nat]
    BY EmptySeq DEF Run!None
  <2>2. runPc = [r \in Runs |-> runPc[r]] /\ end = [r \in Runs |-> end[r]]
    BY DEF Run!Init
  <2>4. claimed \in [Runs -> Seq(Grants)]
    BY <2>1 DEF Run!Init
  <2>5. denier \in [Runs -> SUBSET Denying]
    BY DEF Run!Init
  <2>3. logged = [all |-> 0, allowed |-> Run!None, denied |-> Run!None]
    BY DEF Run!Init
  <2> QED BY <2>1, <2>2, <2>3, <2>4, <2>5 DEF TypeInv
<1>2. DocInv
  <2>1. <<>> \in Seq(RunEvents) /\ Len(<<>>) = 0 /\ RingSize > 0
    BY EmptySeq DEF Run!ConstantsFit
  <2>2. Ring(<<>>, 0)
    BY <2>1 DEF Ring
  <2>3. /\ Run!Empty = [policies |-> Run!Empty.policies, grants |-> Run!Empty.grants,
                        audit |-> Run!Empty.audit]
        /\ Run!Empty.audit = <<>> /\ Run!Stored(Run!Empty) = {} /\ Run!Empty.grants \in [{} -> Run!Grant]
    BY DEF Run!Empty, Run!Stored
  <2> QED BY <2>2, <2>3 DEF Run!Init, DocInv
<1>3. GrantInv
  BY DEF Run!Init, GrantInv, Run!Empty, Run!Stored
<1>4. ASSUME NEW r \in Runs PROVE RunInv(r)
  BY DEF Run!Init, RunInv, Run!None, Run!Empty, Run!ConstantsFit, NotYetRun, Decided
<1> QED BY <1>1, <1>2, <1>3, <1>4 DEF RunSafe

\* What a transition that records one event does to the ring and the counts.
LEMMA OneEvent ==
  ASSUME Run!ConstantsFit, RunSafe, NEW next, Run!Publish(next),
         NEW who \in Runs \cup {"operator"}, NEW act \in RunActs,
         next.audit = Run!Audited(doc.audit, who, act)
  PROVE  /\ doc' = next /\ present' = present
         /\ Ring(doc'.audit, logged'.all)
         /\ logged' = [all |-> logged'.all, allowed |-> logged'.allowed,
                       denied |-> logged'.denied]
         /\ logged'.allowed \in [Runs -> Nat] /\ logged'.denied \in [Runs -> Nat]
         /\ \A q \in Runs :
              /\ logged'.allowed[q] =
                   logged.allowed[q] + IF who = q /\ act = "allowed" THEN 1 ELSE 0
              /\ logged'.denied[q] =
                   logged.denied[q] + IF who = q /\ act = "denied" THEN 1 ELSE 0
<1> DEFINE new(a) == {e \in {a[i] : i \in DOMAIN a} :
                        \A i \in DOMAIN doc.audit : e # doc.audit[i]}
<1>1. Ring(doc.audit, logged.all)
  BY DEF RunSafe, DocInv
<1>2. /\ Ring(next.audit, logged.all + 1) /\ next.audit # doc.audit
      /\ new(next.audit) = {[seq |-> logged.all + 1, who |-> who, act |-> act]}
  BY <1>1, RecordedLast
<1> HIDE DEF new
<1>3. \A a, r : (\E e \in new(next.audit) : e.who = r /\ e.act = a) <=> who = r /\ act = a
  BY <1>2
<1>4. \A a, of : Run!Count(next, a, of) =
                   [r \in Runs |-> of[r] + IF who = r /\ act = a THEN 1 ELSE 0]
  BY <1>3 DEF Run!Count, new
<1>5. /\ logged'.allowed = Run!Count(next, "allowed", logged.allowed)
      /\ logged'.denied = Run!Count(next, "denied", logged.denied)
  BY DEF Run!Publish
<1>6. logged.allowed \in [Runs -> Nat] /\ logged.denied \in [Runs -> Nat]
  BY DEF RunSafe, TypeInv
<1> QED BY <1>2, <1>4, <1>5, <1>6 DEF Run!Publish

\* A run that takes no step keeps its part of the invariant.
LEMMA OtherRun ==
  ASSUME NEW q \in Runs, RunInv(q), present => present',
         runPc'[q] = runPc[q], end'[q] = end[q], claimed'[q] = claimed[q],
         denier'[q] \subseteq denier[q], denier'[q] \subseteq doc'.policies,
         logged'.allowed[q] = logged.allowed[q], logged'.denied[q] = logged.denied[q]
  PROVE  RunInv(q)'
BY DEF RunInv

LEMMA GrantsKept ==
  ASSUME GrantInv, claimed' = claimed, doc'.grants = doc.grants
  PROVE  GrantInv'
<1>1. \A g : Run!ClaimsOf(g)' = Run!ClaimsOf(g)
  BY DEF Run!ClaimsOf
<1>2. Run!Stored(doc') = Run!Stored(doc)
  BY DEF Run!Stored
<1> QED BY <1>1, <1>2 DEF GrantInv

-----------------------------------------------------------------------------
OthersRest(r) ==
  \A q \in Runs \ {r} :
    /\ runPc'[q] = runPc[q] /\ end'[q] = end[q] /\ claimed'[q] = claimed[q]
    /\ denier'[q] = denier[q]
    /\ logged'.allowed[q] = logged.allowed[q] /\ logged'.denied[q] = logged.denied[q]

\* A step of one run need only show what becomes of that run.
LEMMA OneRun ==
  ASSUME RunSafe, NEW r \in Runs, OthersRest(r), present => present',
         doc'.policies = doc.policies, TypeInv', DocInv', GrantInv', RunInv(r)'
  PROVE  RunSafe'
<1>1. ASSUME NEW q \in Runs, q # r PROVE RunInv(q)'
  <2>1. RunInv(q) /\ denier'[q] \subseteq denier[q] /\ denier'[q] \subseteq doc'.policies
    BY <1>1 DEF RunSafe, OthersRest, RunInv
  <2> QED BY <2>1, <1>1, OtherRun DEF OthersRest
<1> QED BY <1>1 DEF RunSafe

\* Where a run goes.
LEMMA Moved ==
  ASSUME TypeInv, NEW r \in Runs, NEW how, Run!Goto(r, how) \/ Run!End(r, how)
  PROVE  /\ runPc' = [q \in Runs |-> runPc'[q]] /\ end' = [q \in Runs |-> end'[q]]
         /\ \A q \in Runs \ {r} : runPc'[q] = runPc[q] /\ end'[q] = end[q]
         /\ \/ Run!Goto(r, how) /\ runPc'[r] = how /\ end'[r] = end[r]
            \/ Run!End(r, how) /\ runPc'[r] = "done" /\ end'[r] = how
BY DEF TypeInv, Run!Goto, Run!End

\* A step that reads the document leaves what is known of it and of the claims.
LEMMA Reading ==
  ASSUME RunSafe, doc' = doc, claimed' = claimed, logged' = logged,
         present' \in BOOLEAN, present => present'
  PROVE  DocInv' /\ GrantInv'
<1>1. DocInv'
  BY DEF RunSafe, DocInv, Ring
<1>2. GrantInv'
  BY GrantsKept DEF RunSafe
<1> QED BY <1>1, <1>2

\* A step that records an event of a run leaves policies and grants.
LEMMA Recording ==
  ASSUME Run!ConstantsFit, RunSafe, NEW r \in Runs, NEW act \in RunActs, present,
         Run!Publish(Run!RecordEvent(doc, r, act)), claimed' = claimed
  PROVE  /\ DocInv' /\ GrantInv' /\ present' = present /\ doc'.policies = doc.policies
         /\ logged' = [all |-> logged'.all, allowed |-> logged'.allowed,
                       denied |-> logged'.denied]
         /\ logged'.allowed \in [Runs -> Nat] /\ logged'.denied \in [Runs -> Nat]
         /\ \A q \in Runs \ {r} : /\ logged'.allowed[q] = logged.allowed[q]
                                /\ logged'.denied[q] = logged.denied[q]
         /\ logged'.allowed[r] = logged.allowed[r] + IF act = "allowed" THEN 1 ELSE 0
         /\ logged'.denied[r] = logged.denied[r] + IF act = "denied" THEN 1 ELSE 0
<1> DEFINE next == Run!RecordEvent(doc, r, act)
<1>1. next = [policies |-> doc.policies, grants |-> doc.grants,
              audit |-> Run!Audited(doc.audit, r, act)]
  BY DEF Run!RecordEvent, RunSafe, DocInv
<1>2. next.audit = Run!Audited(doc.audit, r, act) /\ Run!Publish(next) /\ r \in Runs \cup {"operator"}
  BY <1>1
<1> HIDE DEF next
<1>3. /\ doc' = next /\ present' = present /\ Ring(doc'.audit, logged'.all)
      /\ logged' = [all |-> logged'.all, allowed |-> logged'.allowed,
                    denied |-> logged'.denied]
      /\ logged'.allowed \in [Runs -> Nat] /\ logged'.denied \in [Runs -> Nat]
      /\ \A q \in Runs :
           /\ logged'.allowed[q] = logged.allowed[q] + IF r = q /\ act = "allowed" THEN 1 ELSE 0
           /\ logged'.denied[q] = logged.denied[q] + IF r = q /\ act = "denied" THEN 1 ELSE 0
  BY <1>2, OneEvent DEF Run!Publish, Run!Count
<1>4. logged.allowed \in [Runs -> Nat] /\ logged.denied \in [Runs -> Nat]
  BY DEF RunSafe, TypeInv
<1>5. DocInv'
  BY <1>1, <1>3 DEF RunSafe, DocInv, Run!Stored
<1>6. GrantInv'
  BY <1>1, <1>3, GrantsKept DEF RunSafe
<1> QED BY <1>1, <1>3, <1>4, <1>5, <1>6

\* The steps of a run that record nothing.
LEMMA ReadingStep ==
  ASSUME Run!ConstantsFit, RunSafe, NEW r \in Runs,
         Run!Open(r) \/ Run!Create(r) \/ Run!Authorize(r) \/ Run!Answer(r) \/ Run!Plan(r) \/ Run!Claimed(r)
           \/ Run!Spawn(r) \/ Run!Fault(r)
  PROVE  RunSafe'
<1>1. RunInv(r) /\ TypeInv /\ DocInv
  BY DEF RunSafe
<1>2. doc' = doc /\ claimed' = claimed /\ logged' = logged
  BY <1>1 DEF Run!Open, Run!Create, Run!Authorize, Run!Answer, Run!Plan, Run!Claimed,
              Run!Spawn, Run!Fault, DocInv
<1>3. present' \in BOOLEAN /\ (present => present')
  BY <1>1 DEF Run!Open, Run!Create, Run!Authorize, Run!Answer, Run!Plan, Run!Claimed,
              Run!Spawn, Run!Fault, DocInv
<1>4. DocInv' /\ GrantInv'
  BY <1>2, <1>3, Reading
<1>5. PICK how : Run!Goto(r, how) \/ Run!End(r, how)
  BY DEF Run!Open, Run!Create, Run!Authorize, Run!Answer, Run!Plan, Run!Claimed, Run!Spawn,
         Run!Fault
<1>6. /\ runPc' = [q \in Runs |-> runPc'[q]] /\ end' = [q \in Runs |-> end'[q]]
      /\ \A q \in Runs \ {r} : runPc'[q] = runPc[q] /\ end'[q] = end[q]
  BY <1>1, <1>5, Moved
<1>7. /\ denier' \in [Runs -> SUBSET Denying]
      /\ \A q \in Runs \ {r} : denier'[q] = denier[q]
      /\ denier'[r] = denier[r] \/ (runPc[r] = "start" /\ denier'[r] = doc.policies \cap Denying)
  BY <1>1 DEF Run!Open, Run!Create, Run!Authorize, Run!Answer, Run!Plan, Run!Claimed,
              Run!Spawn, Run!Fault, TypeInv
<1>8. TypeInv'
  BY <1>1, <1>2, <1>6, <1>7 DEF TypeInv
<1>9. OthersRest(r)
  BY <1>2, <1>6, <1>7 DEF OthersRest
<1>11. Len(claimed[r]) \in Nat /\ Len(Wanted[r].grants) \in Nat
  BY <1>1, LenProperties DEF Run!ConstantsFit, TypeInv
<1>10. RunInv(r)'
  <2> USE <1>1, <1>2, <1>3 DEF RunInv, NotYetRun, Decided, Run!Goto, Run!End, TypeInv
  <2>1. CASE Run!Open(r)
    BY <2>1 DEF Run!Open
  <2>2. CASE Run!Create(r)
    BY <2>2 DEF Run!Create
  <2>3. CASE Run!Authorize(r)
    BY <2>3 DEF Run!Authorize
  <2>4. CASE Run!Answer(r)
    BY <2>4 DEF Run!Answer
  <2>5. CASE Run!Plan(r)
    BY <2>5 DEF Run!Plan
  <2>6. CASE Run!Claimed(r)
    <3>1. /\ runPc[r] = "claiming" /\ Len(claimed[r]) = Len(Wanted[r].grants)
          /\ end'[r] = end[r] /\ denier'[r] = denier[r]
          /\ Wanted[r].policies = {} => runPc'[r] = "spawning"
          /\ Wanted[r].policies # {} => runPc'[r] = "allowing"
      BY <2>6 DEF Run!Claimed
    <3>2. logged'.allowed[r] = Len(claimed[r]) /\ logged'.denied[r] = 0 /\ end[r] = "none"
          /\ denier[r] = {} /\ present
      BY <3>1
    <3>3. Len(Wanted[r].grants) + 0 = Len(Wanted[r].grants)
      BY <1>11
    <3>4. denier'[r] \subseteq doc'.policies /\ (~ present' => runPc'[r] \in {"start", "create"})
      BY <3>1, <3>2
    <3>5. CASE Wanted[r].policies = {}
       BY <3>1, <3>2, <3>3, <3>4, <3>5, <1>11
    <3>6. CASE Wanted[r].policies # {}
       BY <3>1, <3>2, <3>3, <3>4, <3>6, <1>11
    <3> QED BY <3>5, <3>6
  <2>7. CASE Run!Spawn(r)
    BY <2>7 DEF Run!Spawn
  <2>8. CASE Run!Fault(r)
    BY <2>8 DEF Run!Fault
  <2> QED BY <2>1, <2>2, <2>3, <2>4, <2>5, <2>6, <2>7, <2>8
<1> QED BY <1>2, <1>3, <1>4, <1>8, <1>9, <1>10, OneRun

\* The steps of a run that record an event and leave the grants.
LEMMA RecordingStep ==
  ASSUME Run!ConstantsFit, RunSafe, NEW r \in Runs,
         Run!RecordDenial(r) \/ Run!RecordAnswer(r) \/ Run!RecordAllowance(r) \/ Run!Complete(r)
  PROVE  RunSafe'
<1>1. RunInv(r) /\ TypeInv /\ DocInv
  BY DEF RunSafe
<1>2. claimed' = claimed /\ denier' = denier
  BY DEF Run!RecordDenial, Run!RecordAnswer, Run!RecordAllowance, Run!Complete
<1>3. present
  BY <1>1 DEF RunInv, DocInv, Run!RecordDenial, Run!RecordAnswer, Run!RecordAllowance,
              Run!Complete
<1>4. PICK act \in {"denied", "granted", "declined", "allowed", "completed"} :
        /\ Run!Publish(Run!RecordEvent(doc, r, act))
        /\ \/ Run!RecordDenial(r) /\ act = "denied"
           \/ Run!RecordAnswer(r) /\ act \in {"granted", "declined"}
           \/ Run!RecordAllowance(r) /\ act = "allowed"
           \/ Run!Complete(r) /\ act = "completed"
  BY DEF Run!RecordDenial, Run!RecordAnswer, Run!RecordAllowance, Run!Complete
<1> act \in RunActs
  BY DEF RunActs
<1>11. Len(claimed[r]) \in Nat /\ Len(Wanted[r].grants) \in Nat
  BY <1>1, LenProperties DEF Run!ConstantsFit, TypeInv
<1>5. /\ DocInv' /\ GrantInv' /\ present' = present /\ doc'.policies = doc.policies
      /\ logged' = [all |-> logged'.all, allowed |-> logged'.allowed,
                    denied |-> logged'.denied]
      /\ logged'.allowed \in [Runs -> Nat] /\ logged'.denied \in [Runs -> Nat]
      /\ \A q \in Runs \ {r} : /\ logged'.allowed[q] = logged.allowed[q]
                             /\ logged'.denied[q] = logged.denied[q]
      /\ logged'.allowed[r] = logged.allowed[r] + IF act = "allowed" THEN 1 ELSE 0
      /\ logged'.denied[r] = logged.denied[r] + IF act = "denied" THEN 1 ELSE 0
  BY <1>2, <1>3, <1>4, Recording
<1>6. PICK how : Run!Goto(r, how) \/ Run!End(r, how)
  BY DEF Run!RecordDenial, Run!RecordAnswer, Run!RecordAllowance, Run!Complete
<1>7. /\ runPc' = [q \in Runs |-> runPc'[q]] /\ end' = [q \in Runs |-> end'[q]]
      /\ \A q \in Runs \ {r} : runPc'[q] = runPc[q] /\ end'[q] = end[q]
  BY <1>1, <1>6, Moved
<1>8. TypeInv'
  BY <1>1, <1>2, <1>5, <1>7 DEF TypeInv
<1>9. OthersRest(r)
  BY <1>2, <1>5, <1>7 DEF OthersRest
<1>12. logged.allowed[r] \in Nat /\ logged.denied[r] \in Nat
  BY <1>1 DEF TypeInv
<1>10. RunInv(r)'
  <2> USE <1>1, <1>2, <1>3, <1>5 DEF RunInv, NotYetRun, Decided, Run!Goto, Run!End, TypeInv
  <2>1. CASE Run!RecordDenial(r) /\ act = "denied"
    BY <2>1 DEF Run!RecordDenial
  <2>2. CASE Run!RecordAnswer(r) /\ act \in {"granted", "declined"}
    <3>1. /\ runPc[r] = "answered"
          /\ \/ runPc'[r] = "planning" /\ end'[r] = end[r]
             \/ runPc'[r] = "done" /\ end'[r] = "unconfirmed"
      BY <2>2 DEF Run!RecordAnswer
    <3>2. logged'.allowed[r] = logged.allowed[r] /\ logged'.denied[r] = logged.denied[r]
      BY <2>2, <1>5, <1>12
    <3> QED BY <3>1, <3>2, <1>11
  <2>3. CASE Run!RecordAllowance(r) /\ act = "allowed"
    <3>1. runPc[r] = "allowing" /\ runPc'[r] = "spawning" /\ end'[r] = end[r]
      BY <2>3 DEF Run!RecordAllowance
    <3>2. logged'.allowed[r] = logged.allowed[r] + 1 /\ logged'.denied[r] = logged.denied[r]
      BY <2>3, <1>5, <1>12
    <3> QED BY <3>1, <3>2, <1>11
  <2>4. CASE Run!Complete(r) /\ act = "completed"
    <3>1. runPc[r] = "running" /\ runPc'[r] = "done" /\ end'[r] = "ran"
      BY <2>4 DEF Run!Complete
    <3>2. logged'.allowed[r] = logged.allowed[r] /\ logged'.denied[r] = logged.denied[r]
      BY <2>4, <1>5, <1>12
    <3> QED BY <3>1, <3>2, <1>11
  <2> QED BY <2>1, <2>2, <2>3, <2>4, <1>4
<1> QED BY <1>5, <1>8, <1>9, <1>10, OneRun

\* A claim adds one use of its grant and no other, or is refused and audited.
LEMMA ClaimStep ==
  ASSUME Run!ConstantsFit, RunSafe, NEW r \in Runs, Run!Claim(r)
  PROVE  RunSafe'
<1>1. RunInv(r) /\ TypeInv /\ DocInv /\ GrantInv
  BY DEF RunSafe
<1>3. /\ claimed[r] \in Seq(Grants) /\ Len(Wanted[r].grants) \in Nat
      /\ Wanted[r].grants \in Seq(Grants)
  BY <1>1, LenProperties DEF Run!ConstantsFit, TypeInv
<1>a. PICK n \in Nat : n = Len(claimed[r])
  BY <1>3, LenProperties
<1>0. n = Len(claimed[r]) /\ n < Len(Wanted[r].grants)
  BY <1>a DEF Run!Claim
<1>b. PICK g \in Grants : g = Wanted[r].grants[n + 1]
  BY <1>3, <1>0, ElementOfSeq
<1>c. PICK next : next = Run!Consumed(doc, g, r, now)
  OBVIOUS
<1>d. PICK act \in {"allowed", "denied"} :
      act = IF Run!Usable(doc, g, now) = "allowed" THEN "allowed" ELSE "denied"
  OBVIOUS
<1>2. /\ runPc[r] = "claiming"
      /\ Run!Publish(next) /\ denier' = denier
      /\ IF act = "allowed"
         THEN claimed' = [claimed EXCEPT ![r] = Append(@, g)] /\ Run!Goto(r, "claiming")
         ELSE Run!End(r, "refused") /\ UNCHANGED claimed
  BY <1>0, <1>b, <1>c, <1>d DEF Run!Claim, Run!Publish, Run!Count
<1>5. present
  BY <1>1, <1>2 DEF RunInv, DocInv
<1>6. act \in RunActs /\ r \in Runs \cup {"operator"}
  BY DEF RunActs
<1>7. Run!RecordEvent(doc, r, act) =
        [policies |-> doc.policies, grants |-> doc.grants,
         audit |-> Run!Audited(doc.audit, r, act)]
  BY <1>1 DEF Run!RecordEvent, DocInv
<1>8. next = IF act = "allowed"
             THEN [Run!RecordEvent(doc, r, act) EXCEPT !.grants[g].used = @ + 1]
             ELSE Run!RecordEvent(doc, r, act)
  BY <1>c, <1>d DEF Run!Consumed
<1>9. act = "allowed" => /\ g \in Run!Stored(doc) /\ doc.grants[g].used < GrantUses[g]
                         /\ doc.grants[g].used \in Nat /\ GrantUses[g] \in Nat
  BY <1>1, <1>d DEF Run!Usable, DocInv, Run!Grant, Run!ConstantsFit
<1>11. /\ next = [policies |-> doc.policies, grants |-> next.grants,
                  audit |-> Run!Audited(doc.audit, r, act)]
       /\ act # "allowed" => next.grants = doc.grants
       /\ act = "allowed" => next.grants = [doc.grants EXCEPT ![g].used = @ + 1]
  <2>1. CASE act # "allowed"
    BY <2>1, <1>7, <1>8
  <2>2. CASE act = "allowed"
    BY <2>2, <1>7, <1>8
  <2> QED BY <2>1, <2>2
<1>12. next.audit = Run!Audited(doc.audit, r, act)
  BY <1>11
<1>10. Run!Publish(next)
  BY <1>2
<1>13. /\ doc' = next /\ present' = present /\ Ring(doc'.audit, logged'.all)
       /\ logged' = [all |-> logged'.all, allowed |-> logged'.allowed,
                     denied |-> logged'.denied]
       /\ logged'.allowed \in [Runs -> Nat] /\ logged'.denied \in [Runs -> Nat]
       /\ \A q \in Runs :
            /\ logged'.allowed[q] = logged.allowed[q] + IF r = q /\ act = "allowed" THEN 1 ELSE 0
            /\ logged'.denied[q] = logged.denied[q] + IF r = q /\ act = "denied" THEN 1 ELSE 0
  BY <1>10, <1>6, <1>12, OneEvent DEF Run!Publish, Run!Count
<1>14. /\ Run!Stored(doc') = Run!Stored(doc) /\ doc'.policies = doc.policies
       /\ doc'.grants \in [Run!Stored(doc) -> Run!Grant]
       /\ \A h \in Run!Stored(doc) :
            doc'.grants[h].used = doc.grants[h].used + IF h = g /\ act = "allowed" THEN 1 ELSE 0
  <2>1. doc.grants \in [Run!Stored(doc) -> Run!Grant]
    BY <1>1 DEF DocInv
  <2>2. CASE act # "allowed"
    <3>1. doc'.grants = doc.grants /\ doc'.policies = doc.policies
      BY <2>2, <1>11, <1>13
    <3>2. \A h \in Run!Stored(doc) : doc.grants[h].used \in Nat
      BY <2>1 DEF Run!Grant
    <3> QED BY <3>1, <3>2, <2>1, <2>2 DEF Run!Stored
  <2>3. CASE act = "allowed"
    <3>1. doc'.grants = [doc.grants EXCEPT ![g].used = @ + 1] /\ g \in Run!Stored(doc)
      BY <2>3, <1>9, <1>11, <1>13
    <3>2. DOMAIN doc'.grants = Run!Stored(doc)
      BY <3>1, <2>1
    <3>3. \A h \in Run!Stored(doc) : h # g => doc'.grants[h] = doc.grants[h]
      BY <3>1, <2>1
    <3>4. doc'.grants[g] = [doc.grants[g] EXCEPT !.used = @ + 1] /\ doc.grants[g] \in Run!Grant
      BY <3>1, <2>1
    <3>5. doc'.grants[g] \in Run!Grant /\ doc'.grants[g].used = doc.grants[g].used + 1
      <4>1. DOMAIN doc.grants[g] = {"used", "revoked"} /\ doc.grants[g].used \in Nat
            /\ doc.grants[g].revoked \in BOOLEAN
        BY <3>4 DEF Run!Grant
      <4>2. doc'.grants[g] = [used |-> doc.grants[g].used + 1, revoked |-> doc.grants[g].revoked]
        BY <4>1, <3>4 DEF Run!Grant
      <4> QED BY <4>1, <4>2 DEF Run!Grant
    <3>6. \A h \in Run!Stored(doc) : doc'.grants[h] \in Run!Grant
      BY <3>3, <3>5, <2>1
    <3>7. doc'.grants \in [Run!Stored(doc) -> Run!Grant]
      BY <3>1, <3>2, <3>6, <2>1
    <3>8. \A h \in Run!Stored(doc) : doc.grants[h].used \in Nat
      BY <2>1 DEF Run!Grant
    <3>9. doc'.policies = doc.policies
      <4>1. next.policies = doc.policies
        BY <1>11
      <4> QED BY <4>1, <1>13
    <3> QED BY <3>2, <3>3, <3>5, <3>7, <3>8, <3>9, <2>3 DEF Run!Stored
  <2> QED BY <2>2, <2>3
<1>15. DocInv'
  BY <1>1, <1>5, <1>11, <1>13, <1>14 DEF DocInv
<1>16. TypeInv'
  <2>1. Append(claimed[r], g) \in Seq(Grants)
    BY <1>0, <1>3, AppendProperties
  <2>2. claimed' \in [Runs -> Seq(Grants)]
    BY <2>1, <1>1, <1>2 DEF TypeInv
  <2>3. runPc' = [q \in Runs |-> runPc'[q]] /\ end' = [q \in Runs |-> end'[q]]
    BY <1>1, <1>2 DEF TypeInv, Run!Goto, Run!End
  <2> QED BY <2>2, <2>3, <1>1, <1>2, <1>13 DEF TypeInv
<1>17. OthersRest(r)
  BY <1>1, <1>2, <1>13 DEF OthersRest, TypeInv, Run!Goto, Run!End
<1>18. /\ act # "allowed" => claimed' = claimed
       /\ act = "allowed" => /\ claimed'[r] = Append(claimed[r], g)
                            /\ \A q \in Runs \ {r} : claimed'[q] = claimed[q]
                            /\ Len(claimed'[r]) = n + 1 /\ claimed'[r][n + 1] = g
                            /\ \A i \in 1 .. n : claimed'[r][i] = claimed[r][i]
                            /\ DOMAIN claimed'[r] = 1 .. n + 1 /\ DOMAIN claimed[r] = 1 .. n
  <2>1. CASE act # "allowed"
    BY <2>1, <1>2
  <2>2. CASE act = "allowed"
    <3>1. claimed' = [claimed EXCEPT ![r] = Append(@, g)]
      BY <2>2, <1>2
    <3>2. claimed'[r] = Append(claimed[r], g) /\ \A q \in Runs \ {r} : claimed'[q] = claimed[q]
      BY <3>1, <1>1 DEF TypeInv
    <3>3. /\ Append(claimed[r], g) \in Seq(Grants) /\ Len(Append(claimed[r], g)) = n + 1
          /\ Append(claimed[r], g)[n + 1] = g
          /\ \A i \in 1 .. n : Append(claimed[r], g)[i] = claimed[r][i]
      BY <1>0, <1>3, AppendProperties
    <3>4. DOMAIN Append(claimed[r], g) = 1 .. n + 1 /\ DOMAIN claimed[r] = 1 .. n
      BY <3>3, <1>0, <1>3, LenProperties
    <3> QED BY <3>2, <3>3, <3>4, <2>2
  <2> QED BY <2>1, <2>2
<1>19. GrantInv'
  <2>1. ASSUME NEW q \in Runs, NEW i \in 1 .. Len(claimed'[q]) PROVE claimed'[q][i] \in Run!Stored(doc')
    <3>1. CASE act = "allowed" /\ q = r /\ i = n + 1
      BY <3>1, <1>9, <1>14, <1>18, <1>a, <1>0
    <3>2. CASE act = "allowed" /\ q = r /\ i # n + 1
      <4>0. Len(claimed'[r]) = n + 1 /\ \A j \in 1 .. n : claimed'[r][j] = claimed[r][j]
        <5>1. Len(claimed'[r]) = n + 1
          BY <3>2, <1>18, <1>a, <1>0
        <5>2. \A j \in 1 .. n : claimed'[r][j] = claimed[r][j]
          BY <3>2, <1>18, <1>a, <1>0
        <5> QED BY <5>1, <5>2
      <4>3. i \in 1 .. n + 1
        BY <2>1, <3>2, <4>0
      <4>1. i \in 1 .. n /\ claimed'[r][i] = claimed[r][i]
        BY <3>2, <4>0, <4>3, <1>a
      <4>2. n = Len(claimed[r])
        BY <1>0
      <4> QED BY <4>1, <4>2, <3>2, <1>1, <1>14 DEF GrantInv
    <3>3. CASE act # "allowed" \/ q # r
      <4>1. claimed'[q] = claimed[q]
        BY <3>3, <1>18
      <4> QED BY <4>1, <2>1, <1>1, <1>14 DEF GrantInv
    <3> QED BY <3>1, <3>2, <3>3
  <2>2. ASSUME NEW h \in Run!Stored(doc')
        PROVE /\ IsFiniteSet(Run!ClaimsOf(h)')
              /\ doc'.grants[h].used <= GrantUses[h]
              /\ doc'.grants[h].used = Cardinality(Run!ClaimsOf(h)')
    <3>1. /\ IsFiniteSet(Run!ClaimsOf(h)) /\ doc.grants[h].used <= GrantUses[h]
          /\ doc.grants[h].used = Cardinality(Run!ClaimsOf(h)) /\ h \in Run!Stored(doc)
          /\ doc.grants[h].used \in Nat
      BY <2>2, <1>1, <1>14 DEF GrantInv, DocInv, Run!Grant
    <3>2. CASE h = g /\ act = "allowed"
      <4>1. Run!ClaimsOf(h)' = Run!ClaimsOf(h) \cup {<<r, n + 1>>}
        <5>1. \A q \in Runs \ {r} : claimed'[q] = claimed[q]
          BY <3>2, <1>18, <1>a, <1>0
        <5>2. DOMAIN claimed'[r] = (DOMAIN claimed[r]) \cup {n + 1}
          BY <3>2, <1>18, <1>3, <1>a, <1>0
        <5>3. claimed'[r][n + 1] = h /\ \A i \in DOMAIN claimed[r] : claimed'[r][i] = claimed[r][i]
          BY <3>2, <1>18, <1>a, <1>0
        <5> QED BY <5>1, <5>2, <5>3 DEF Run!ClaimsOf
      <4>2. <<r, n + 1>> \notin Run!ClaimsOf(h)
        <5>1. n + 1 \notin DOMAIN claimed[r]
          BY <3>2, <1>3, <1>18, <1>a, <1>0
        <5> QED BY <5>1 DEF Run!ClaimsOf
      <4>3. /\ IsFiniteSet(Run!ClaimsOf(h)')
            /\ Cardinality(Run!ClaimsOf(h)') = Cardinality(Run!ClaimsOf(h)) + 1
        <5> DEFINE S == Run!ClaimsOf(h)
        <5>1. IsFiniteSet(S) /\ <<r, n + 1>> \notin S
          BY <4>2, <3>1
        <5> HIDE DEF S
        <5>2. IsFiniteSet(S \cup {<<r, n + 1>>})
              /\ Cardinality(S \cup {<<r, n + 1>>}) = Cardinality(S) + 1
          BY <5>1, FS_AddElement
        <5> QED BY <5>2, <4>1 DEF S
      <4> QED BY <4>3, <3>1, <3>2, <1>9, <1>14
    <3>3. CASE h # g \/ act # "allowed"
      <4>1. Run!ClaimsOf(h)' = Run!ClaimsOf(h)
        <5>1. CASE act # "allowed"
          BY <5>1, <1>18 DEF Run!ClaimsOf
        <5>2. CASE act = "allowed" /\ h # g
          <6>1. \A q \in Runs \ {r} : claimed'[q] = claimed[q]
            BY <5>2, <1>18, <1>a, <1>0
          <6>2. DOMAIN claimed'[r] = (DOMAIN claimed[r]) \cup {n + 1}
            BY <5>2, <1>18, <1>3, <1>a, <1>0
          <6>3. claimed'[r][n + 1] # h /\ \A i \in DOMAIN claimed[r] : claimed'[r][i] = claimed[r][i]
            BY <5>2, <1>18, <1>a, <1>0
          <6> QED BY <6>1, <6>2, <6>3 DEF Run!ClaimsOf
        <5> QED BY <5>1, <5>2, <3>3
      <4>2. doc'.grants[h].used = doc.grants[h].used
        BY <3>1, <3>3, <1>14
      <4> QED BY <4>1, <4>2, <3>1
    <3> QED BY <3>2, <3>3
  <2> QED BY <2>1, <2>2 DEF GrantInv
<1>20. RunInv(r)'
  <2>1. /\ end[r] = "none" /\ logged.allowed[r] = n /\ logged.denied[r] = 0
        /\ denier[r] = {} /\ present' /\ denier'[r] \subseteq doc'.policies
        /\ n = Len(claimed[r]) /\ n + 1 <= Len(Wanted[r].grants) /\ denier'[r] = {}
    BY <1>0, <1>1, <1>2, <1>3, <1>5, <1>13, <1>14 DEF RunInv, NotYetRun, Decided
  <2>2. CASE act = "allowed"
    <3>1. runPc'[r] = "claiming" /\ end'[r] = "none"
      BY <2>1, <2>2, <1>1, <1>2 DEF Run!Goto, TypeInv
    <3>2. logged'.allowed[r] = n + 1 /\ logged'.denied[r] = 0
      BY <2>1, <2>2, <1>3, <1>13
    <3> QED BY <2>1, <2>2, <3>1, <3>2, <1>18, <1>3 DEF RunInv, NotYetRun, Decided
  <2>3. CASE act # "allowed"
    <3>1. runPc'[r] = "done" /\ end'[r] = "refused" /\ claimed' = claimed
      BY <2>1, <2>3, <1>1, <1>2 DEF Run!End, TypeInv
    <3>2. logged'.denied[r] = 1
      BY <2>1, <2>3, <1>6, <1>13
    <3> QED BY <2>1, <2>3, <3>1, <3>2, <1>3 DEF RunInv, NotYetRun, Decided
  <2> QED BY <2>2, <2>3
<1> QED BY <1>5, <1>13, <1>14, <1>15, <1>16, <1>17, <1>19, <1>20, OneRun

\* Other commands: no grant that a run has claimed is ever stored anew.
LEMMA ChangeStep ==
  ASSUME Run!ConstantsFit, RunSafe, Run!Change
  PROVE  RunSafe'
<1>1. TypeInv /\ DocInv /\ GrantInv /\ present /\ \A r \in Runs : RunInv(r)
  BY DEF RunSafe, Run!Change
<1>2. runPc' = runPc /\ held' = held /\ claimed' = claimed /\ end' = end
  BY DEF Run!Change, Run!run
<1>a. PICK next, act :
        /\ act \in {"policy-created", "policy-removed", "grant-created", "grant-revoked"}
        /\ Run!Publish(next)
        /\ \/ \E p \in Policies : /\ act = "policy-created" /\ next = Run!PutPolicy(doc, p)
                                 /\ denier' = denier
           \/ \E p \in doc.policies : /\ act = "policy-removed" /\ next = Run!RemovePolicy(doc, p)
                                     /\ denier' = [r \in Runs |-> denier[r] \ {p}]
           \/ \E g \in Grants \ Run!Stored(doc) : /\ act = "grant-created"
                                                 /\ next = Run!PutGrant(doc, g) /\ denier' = denier
           \/ \E g \in Run!Stored(doc) : /\ act = "grant-revoked" /\ next = Run!RevokeGrant(doc, g)
                                       /\ denier' = denier
  BY DEF Run!Change, Run!Publish, Run!Count
<1>3. act \in RunActs /\ act # "allowed" /\ act # "denied"
  BY <1>a DEF RunActs
<1>4. Run!RecordEvent(doc, "operator", act) =
        [policies |-> doc.policies, grants |-> doc.grants,
         audit |-> Run!Audited(doc.audit, "operator", act)]
  BY <1>1 DEF Run!RecordEvent, DocInv
<1>5. next = [policies |-> next.policies, grants |-> next.grants,
              audit |-> Run!Audited(doc.audit, "operator", act)]
  <2> DEFINE event == Run!RecordEvent(doc, "operator", act)
             Fits(d) == d = [policies |-> d.policies, grants |-> d.grants, audit |-> event.audit]
  <2>0. ASSUME NEW x PROVE Fits([event EXCEPT !.policies = x]) /\ Fits([event EXCEPT !.grants = x])
    BY <1>4
  <2> HIDE DEF event, Fits
  <2>1. ASSUME NEW p, act = "policy-created", next = Run!PutPolicy(doc, p) PROVE Fits(next)
    BY <2>0, <2>1 DEF Run!PutPolicy, event
  <2>2. ASSUME NEW p, act = "policy-removed", next = Run!RemovePolicy(doc, p) PROVE Fits(next)
    BY <2>0, <2>2 DEF Run!RemovePolicy, event
  <2>3. ASSUME NEW g, act = "grant-created", next = Run!PutGrant(doc, g) PROVE Fits(next)
    <3> DEFINE x == [h \in Run!Stored(doc) \cup {g} |->
                      IF h = g THEN [used |-> 0, revoked |-> FALSE] ELSE doc.grants[h]]
    <3>1. next = [event EXCEPT !.grants = x]
      BY <2>3 DEF Run!PutGrant, event
    <3> HIDE DEF x
    <3> QED BY <3>1, <2>0
  <2>4. ASSUME NEW g, act = "grant-revoked", next = Run!RevokeGrant(doc, g) PROVE Fits(next)
    <3> DEFINE x == [event.grants EXCEPT ![g].revoked = TRUE]
    <3>1. next = [event EXCEPT !.grants = x]
      BY <2>4 DEF Run!RevokeGrant, event
    <3> HIDE DEF x
    <3> QED BY <3>1, <2>0
  <2>5. Fits(next)
    BY <2>1, <2>2, <2>3, <2>4, <1>a
  <2> QED BY <2>5, <1>4 DEF Fits, event
<1>6. next.audit = Run!Audited(doc.audit, "operator", act)
  BY <1>5
<1>7. Run!Publish(next) /\ "operator" \in Runs \cup {"operator"}
  BY <1>a
<1>8. /\ doc' = next /\ present' = present /\ Ring(doc'.audit, logged'.all)
      /\ logged' = [all |-> logged'.all, allowed |-> logged'.allowed,
                    denied |-> logged'.denied]
      /\ logged'.allowed \in [Runs -> Nat] /\ logged'.denied \in [Runs -> Nat]
      /\ \A q \in Runs :
           /\ logged'.allowed[q] =
                logged.allowed[q] + IF "operator" = q /\ act = "allowed" THEN 1 ELSE 0
           /\ logged'.denied[q] =
                logged.denied[q] + IF "operator" = q /\ act = "denied" THEN 1 ELSE 0
  BY <1>3, <1>6, <1>7, OneEvent DEF Run!Publish, Run!Count
<1>9. \A q \in Runs : logged'.allowed[q] = logged.allowed[q] /\ logged'.denied[q] = logged.denied[q]
  BY <1>1, <1>3, <1>8 DEF TypeInv
<1>10. doc.grants \in [Run!Stored(doc) -> Run!Grant]
  BY <1>1 DEF DocInv
\* What becomes of the grants.
<1> DEFINE Kept ==
       /\ Run!Stored(doc) \subseteq Run!Stored(doc') /\ Run!Stored(doc') \subseteq Grants
       /\ doc'.grants \in [Run!Stored(doc') -> Run!Grant]
       /\ \A g \in Run!Stored(doc) : doc'.grants[g].used = doc.grants[g].used
       /\ \A g \in Run!Stored(doc') \ Run!Stored(doc) : doc'.grants[g].used = 0
<1>11. Kept
  <2>1. CASE doc'.grants = doc.grants
    BY <2>1, <1>1, <1>10 DEF Run!Stored, DocInv
  <2>2. ASSUME NEW g \in Grants \ Run!Stored(doc), next = Run!PutGrant(doc, g) PROVE Kept
    <3>1. doc'.grants = [h \in Run!Stored(doc) \cup {g} |->
                          IF h = g THEN [used |-> 0, revoked |-> FALSE] ELSE doc.grants[h]]
      BY <2>2, <1>8, <1>1 DEF Run!PutGrant, Run!RecordEvent, DocInv
    <3>2. [used |-> 0, revoked |-> FALSE] \in Run!Grant
      BY DEF Run!Grant
    <3>3. Run!Stored(doc') = Run!Stored(doc) \cup {g} /\ doc'.grants \in [Run!Stored(doc) \cup {g} -> Run!Grant]
      BY <3>1, <3>2, <1>10 DEF Run!Stored
    <3> QED BY <3>1, <3>3, <2>2, <1>1 DEF DocInv
  <2>3. ASSUME NEW g \in Run!Stored(doc), next = Run!RevokeGrant(doc, g) PROVE Kept
    <3>1. doc'.grants = [doc.grants EXCEPT ![g].revoked = TRUE]
      BY <2>3, <1>8, <1>1 DEF Run!RevokeGrant, Run!RecordEvent, DocInv
    <3>2. DOMAIN doc'.grants = Run!Stored(doc) /\ \A h \in Run!Stored(doc) : h # g => doc'.grants[h] = doc.grants[h]
      BY <3>1, <1>10
    <3>3. /\ doc.grants[g] \in Run!Grant
          /\ doc'.grants[g] = [doc.grants[g] EXCEPT !.revoked = TRUE]
      BY <3>1, <1>10
    <3>4. doc'.grants[g] \in Run!Grant /\ doc'.grants[g].used = doc.grants[g].used
      BY <3>3 DEF Run!Grant
    <3>5. doc'.grants = [h \in Run!Stored(doc) |-> doc'.grants[h]]
      BY <3>1, <1>10
    <3>6. doc'.grants \in [Run!Stored(doc) -> Run!Grant]
      BY <3>2, <3>4, <3>5, <1>10
    <3> QED BY <3>2, <3>4, <3>6, <1>1 DEF Run!Stored, DocInv
  <2>4. \/ doc'.grants = doc.grants
        \/ \E g \in Grants \ Run!Stored(doc) : next = Run!PutGrant(doc, g)
        \/ \E g \in Run!Stored(doc) : next = Run!RevokeGrant(doc, g)
    <3>1. ASSUME NEW p, next = Run!PutPolicy(doc, p) \/ next = Run!RemovePolicy(doc, p)
          PROVE  doc'.grants = doc.grants
      BY <3>1, <1>8, <1>1 DEF Run!PutPolicy, Run!RemovePolicy, Run!RecordEvent, DocInv
    <3>2. CASE \E p \in Policies : next = Run!PutPolicy(doc, p)
      BY <3>1, <3>2
    <3>3. CASE \E p \in doc.policies : next = Run!RemovePolicy(doc, p)
      BY <3>1, <3>3
    <3> QED BY <3>2, <3>3, <1>a
  <2> QED BY <2>1, <2>2, <2>3, <2>4
<1>12. DocInv'
  BY <1>1, <1>5, <1>8, <1>11 DEF DocInv
<1>13. GrantInv'
  <2>1. \A g : Run!ClaimsOf(g)' = Run!ClaimsOf(g)
    BY <1>2 DEF Run!ClaimsOf
  <2>2. ASSUME NEW g \in Run!Stored(doc') \ Run!Stored(doc) PROVE Run!ClaimsOf(g)' = {}
    <3>1. \A r \in Runs : \A i \in 1 .. Len(claimed[r]) : claimed[r][i] # g
      BY <1>1, <2>2 DEF GrantInv
    <3>2. \A r \in Runs : DOMAIN claimed[r] = 1 .. Len(claimed[r])
      BY <1>1, LenProperties DEF TypeInv
    <3> QED BY <3>1, <3>2, <1>2 DEF Run!ClaimsOf
  <2>3. \A g \in Grants : GrantUses[g] \in Nat
    BY DEF Run!ConstantsFit
  <2>4. \A g \in Run!Stored(doc') \ Run!Stored(doc) :
          IsFiniteSet(Run!ClaimsOf(g)') /\ Cardinality(Run!ClaimsOf(g)') = 0
    BY <2>2, FS_EmptySet
  <2>5. \A r \in Runs : \A i \in 1 .. Len(claimed'[r]) : claimed'[r][i] \in Run!Stored(doc')
    BY <1>1, <1>2, <1>11 DEF GrantInv
  <2>6. ASSUME NEW g \in Run!Stored(doc')
        PROVE /\ IsFiniteSet(Run!ClaimsOf(g)')
              /\ doc'.grants[g].used <= GrantUses[g]
              /\ doc'.grants[g].used = Cardinality(Run!ClaimsOf(g)')
    <3>1. CASE g \in Run!Stored(doc)
      BY <3>1, <2>1, <1>1, <1>11 DEF GrantInv
    <3>2. CASE g \notin Run!Stored(doc)
      BY <3>2, <2>3, <2>4, <1>11
    <3> QED BY <3>1, <3>2
  <2> QED BY <2>5, <2>6 DEF GrantInv
<1>14. denier' \in [Runs -> SUBSET Denying] /\ \A r \in Runs : denier'[r] \subseteq denier[r]
  BY <1>1, <1>a DEF TypeInv
<1>15. \A r \in Runs : denier'[r] \subseteq doc'.policies
  <2>1. \A r \in Runs : denier[r] \subseteq doc.policies
    BY <1>1 DEF RunInv
  <2>2. ASSUME NEW p, next = Run!PutPolicy(doc, p) PROVE doc.policies \subseteq next.policies
    BY <2>2, <1>1 DEF Run!PutPolicy, Run!RecordEvent, DocInv
  <2>3. ASSUME NEW p, next = Run!RemovePolicy(doc, p) PROVE next.policies = doc.policies \ {p}
    BY <2>3, <1>1 DEF Run!RemovePolicy, Run!RecordEvent, DocInv
  <2>4. ASSUME NEW g, next = Run!PutGrant(doc, g) PROVE next.policies = doc.policies
    BY <2>4, <1>1 DEF Run!PutGrant, Run!RecordEvent, DocInv
  <2>5. ASSUME NEW g, next = Run!RevokeGrant(doc, g) PROVE next.policies = doc.policies
    BY <2>5, <1>1 DEF Run!RevokeGrant, Run!RecordEvent, DocInv
  <2> QED BY <2>1, <2>2, <2>3, <2>4, <2>5, <1>a, <1>8
<1>16. TypeInv'
  BY <1>1, <1>2, <1>8, <1>14 DEF TypeInv
<1>17. ASSUME NEW r \in Runs PROVE RunInv(r)'
  <2>1. RunInv(r) /\ present'
    BY <1>1, <1>8
  <2> QED BY <2>1, <1>2, <1>9, <1>14, <1>15, OtherRun
<1> QED BY <1>12, <1>13, <1>16, <1>17 DEF RunSafe

LEMMA RunSafeStep == Run!ConstantsFit /\ RunSafe /\ [Run!Next]_(Run!vars) => RunSafe'
<1> SUFFICES ASSUME Run!ConstantsFit, RunSafe, [Run!Next]_(Run!vars) PROVE RunSafe'
  OBVIOUS
<1>1. CASE UNCHANGED Run!vars \/ Run!Tick
  <2>1. /\ doc' = doc /\ present' = present /\ claimed' = claimed /\ logged' = logged
        /\ runPc' = runPc /\ end' = end /\ denier' = denier
    BY <1>1 DEF Run!vars, Run!run, Run!Tick
  <2>2. DocInv' /\ GrantInv'
    BY <2>1, Reading DEF RunSafe, DocInv
  <2>3. TypeInv'
    BY <2>1 DEF RunSafe, TypeInv
  <2>4. \A r \in Runs : RunInv(r)'
    BY <2>1 DEF RunSafe, RunInv
  <2> QED BY <2>2, <2>3, <2>4 DEF RunSafe
<1>2. CASE Run!Change
  BY <1>2, ChangeStep
<1>3. ASSUME NEW r \in Runs,
             Run!Open(r) \/ Run!Create(r) \/ Run!Authorize(r) \/ Run!Answer(r) \/ Run!Plan(r) \/ Run!Claimed(r)
               \/ Run!Spawn(r) \/ Run!Fault(r)
      PROVE  RunSafe'
  BY <1>3, ReadingStep
<1>4. ASSUME NEW r \in Runs,
             Run!RecordDenial(r) \/ Run!RecordAnswer(r) \/ Run!RecordAllowance(r) \/ Run!Complete(r)
      PROVE  RunSafe'
  BY <1>4, RecordingStep
<1>5. ASSUME NEW r \in Runs, Run!Claim(r) PROVE RunSafe'
  BY <1>5, ClaimStep
<1> QED BY <1>1, <1>2, <1>3, <1>4, <1>5 DEF Run!Next

LEMMA RunSafeAlways == ASSUME Run!ConstantsFit PROVE Run!Spec => []RunSafe
<1>1. Run!Init => RunSafe
  BY RunSafeInit
<1>2. RunSafe /\ [Run!Next]_(Run!vars) => RunSafe'
  BY RunSafeStep
<1> QED BY <1>1, <1>2, PTL DEF Run!Spec

\* However many runs claim at once, each use of a grant is one run's claim, a
\* child starts only after its allowances are on record, and a deny policy
\* that stood all along stops it.
THEOREM RunsAuthorized == ASSUME Run!ConstantsFit PROVE Run!Spec => []RunsAreAuthorized
<1>1. RunSafe => RunsAreAuthorized
  <2> SUFFICES ASSUME RunSafe PROVE Run!RunsAreAuthorized
    BY DEF RunsAreAuthorized
  <2>1. Run!UsesAreClaims
    BY DEF RunSafe, Run!UsesAreClaims, GrantInv, RunInv, Run!Cardinality, Cardinality
  <2>2. ASSUME NEW r \in Runs
        PROVE  /\ Run!Spawned(r) => logged.allowed[r] = Len(Wanted[r].grants)
                                     + IF Wanted[r].policies = {} THEN 0 ELSE 1
               /\ end[r] = "refused" => logged.denied[r] = 1
               /\ logged.denied[r] > 0 => ~ Run!Spawned(r)
    <3>1. RunInv(r)
      BY DEF RunSafe
    <3>2. Run!Spawned(r) => logged.denied[r] = 0
      BY <3>1 DEF Run!Spawned, RunInv
    <3>3. ~ (0 > 0)
      OBVIOUS
    <3>4. logged.denied[r] > 0 => ~ Run!Spawned(r)
      BY <3>2, <3>3
    <3>5. Run!Spawned(r) => logged.allowed[r] = Len(Wanted[r].grants)
                                     + IF Wanted[r].policies = {} THEN 0 ELSE 1
      BY <3>1 DEF Run!Spawned, RunInv
    <3> QED BY <3>1, <3>4, <3>5 DEF RunInv
  <2>3. Run!VerdictsTraced
    BY <2>2 DEF Run!VerdictsTraced
  <2>4. Run!DenyBlocks
    BY DEF RunSafe, Run!DenyBlocks, Run!Spawned, RunInv, Decided
  <2> QED BY <2>1, <2>3, <2>4 DEF Run!RunsAreAuthorized
<1> QED BY <1>1, RunSafeAlways, PTL

\* The audit ring holds the last events without a gap or a repetition.
THEOREM AuditTail == ASSUME Run!ConstantsFit PROVE Run!Spec => []AuditIsTail
<1>1. RunSafe => AuditIsTail
  BY LenProperties DEF AuditIsTail, RunSafe, DocInv, Ring, Run!AuditIsTail
<1> QED BY <1>1, RunSafeAlways, PTL

-----------------------------------------------------------------------------
(* PolicyEngine: what is told about a policy.                              *)

CONSTANTS Commands, Lower, Arguments, Digests, Directories, References, SameField, Unlimited,
          Unrepresentable, Entries, Others
VARIABLES policy, platform, told, stored

Engine == INSTANCE PolicyEngine

\* PolicyEngine: what is told about a policy agrees with what it does.
ToldIsTrue == Engine!ToldIsTrue

\* The policy that is stored is one of the entries, as its schema admits them.
EngineInv == /\ stored => policy \in Entries /\ Engine!WellFormed(policy)
             /\ platform \in {"posix", "win32"}
             /\ Engine!ToldIsTrue

-----------------------------------------------------------------------------
\* A definition that is tighter than another in what the evaluation looks at.
TighterThan(e, f) ==
  /\ e.deny => f.deny
  /\ Engine!CommandsOf(f) \subseteq Engine!CommandsOf(e)
  /\ e.operations = {Unlimited} \/ /\ f.operations # {Unlimited}
                                   /\ Engine!OperationsOf(f) \subseteq Engine!OperationsOf(e)
  /\ e.hashes = Engine!NoPins \/ f.hashes = e.hashes
  /\ e.dirs = {} \/ f.dirs = e.dirs
  /\ e.ttl = Unrepresentable => f.ttl = Unrepresentable
  /\ \/ e.asks = {} /\ ~ e.always
     \/ f.asks = e.asks /\ f.always = e.always

LEMMA CommandAllowed ==
  ASSUME Engine!ConstantsFit, platform \in {"posix", "win32"},
         NEW e \in Entries, NEW n \in Commands
  PROVE  (\E c \in e.commands : Engine!SameCommand(c, n))
           <=> Engine!Canonical(n) \in Engine!CommandsOf(e)
BY DEF Engine!ConstantsFit, Engine!SameCommand, Engine!Canonical, Engine!CommandsOf

LEMMA OperationListed ==
  ASSUME Engine!ConstantsFit, platform \in {"posix", "win32"}, NEW e \in Entries,
         e.operations # {Unlimited}, NEW x \in Engine!Context
  PROVE  Engine!OperationAllowed(e, x)
           <=> [command |-> Engine!Canonical(x.name), args |-> x.args]
                 \in Engine!OperationsOf(e)
<1>1. e.operations \subseteq [command : Commands, args : Arguments]
  BY DEF Engine!ConstantsFit
<1>2. Engine!OperationsOf(e) = {[o EXCEPT !.command = Engine!Canonical(@)] : o \in e.operations}
  BY DEF Engine!OperationsOf
<1>3. \A o \in e.operations :
        [o EXCEPT !.command = Engine!Canonical(@)]
          = [command |-> Engine!Canonical(o.command), args |-> o.args]
  BY <1>1
<1>4. \A o \in e.operations : Engine!SameCommand(o.command, x.name)
                                <=> Engine!Canonical(o.command) = Engine!Canonical(x.name)
  BY <1>1 DEF Engine!SameCommand, Engine!Canonical
<1>5. Engine!OperationAllowed(e, x)
        <=> \E o \in e.operations : /\ Engine!Canonical(o.command) = Engine!Canonical(x.name)
                                    /\ o.args = x.args
  BY <1>4 DEF Engine!OperationAllowed
<1> QED BY <1>2, <1>3, <1>5

\* Unrestricted operations are told from restricted ones after they are canonical.
LEMMA RestrictedStays ==
  ASSUME Engine!ConstantsFit, NEW e \in Entries
  PROVE  Engine!OperationsOf(e) = {Unlimited} <=> e.operations = {Unlimited}
<1>1. ASSUME e.operations # {Unlimited} PROVE Unlimited \notin Engine!OperationsOf(e)
  <2>1. e.operations \subseteq [command : Commands, args : Arguments]
    BY <1>1 DEF Engine!ConstantsFit
  <2>2. \A o \in e.operations : [o EXCEPT !.command = Engine!Canonical(@)]
                                   \in [command : Commands, args : Arguments]
    BY <2>1 DEF Engine!Canonical, Engine!ConstantsFit
  <2> QED BY <1>1, <2>2 DEF Engine!OperationsOf, Engine!ConstantsFit
<1> QED BY <1>1 DEF Engine!OperationsOf

\* Every rule but the confirmation lets the invocation through.
Passes(e, x) ==
  /\ ~ e.deny
  /\ \E c \in e.commands : Engine!SameCommand(c, x.name)
  /\ Engine!OperationAllowed(e, x) /\ Engine!HashMatches(e, x) /\ Engine!Inside(e, x)
  /\ e.ttl # Unrepresentable

LEMMA Outcomes ==
  ASSUME NEW e, NEW x
  PROVE  /\ Engine!Evaluate(e, x) = "allow"
              <=> Passes(e, x) /\ ~ Engine!RequiresConfirmation(e, x)
         /\ Engine!Evaluate(e, x) = "confirm"
              <=> Passes(e, x) /\ Engine!RequiresConfirmation(e, x)
BY DEF Engine!Evaluate, Passes

\* A tighter definition allows nothing new.
LEMMA TighterIsStricter ==
  ASSUME Engine!ConstantsFit, platform \in {"posix", "win32"},
         NEW e \in Entries, NEW f \in Entries, NEW x \in Engine!Context, TighterThan(e, f)
  PROVE  Engine!Strictness(Engine!Evaluate(e, x)) <= Engine!Strictness(Engine!Evaluate(f, x))
<1>1. ASSUME \E c \in f.commands : Engine!SameCommand(c, x.name)
      PROVE  \E c \in e.commands : Engine!SameCommand(c, x.name)
  BY <1>1, CommandAllowed DEF TighterThan, Engine!Context
<1>2. Engine!OperationAllowed(f, x) => Engine!OperationAllowed(e, x)
  BY OperationListed DEF TighterThan, Engine!OperationAllowed
<1>3. Engine!HashMatches(f, x) => Engine!HashMatches(e, x)
  BY DEF TighterThan, Engine!HashMatches, Engine!NoPins
<1>4. Engine!Inside(f, x) => Engine!Inside(e, x)
  BY DEF TighterThan, Engine!Inside
<1>5. Engine!RequiresConfirmation(e, x) => Engine!RequiresConfirmation(f, x)
  BY DEF TighterThan, Engine!RequiresConfirmation
<1>6. Passes(f, x) => Passes(e, x)
  BY <1>1, <1>2, <1>3, <1>4 DEF TighterThan, Passes
<1>7. /\ Engine!Evaluate(f, x) = "allow" => Engine!Evaluate(e, x) = "allow"
      /\ Engine!Evaluate(f, x) = "confirm" => Engine!Evaluate(e, x) \in {"allow", "confirm"}
  BY <1>5, <1>6, Outcomes
<1> QED BY <1>7 DEF Engine!Strictness

-----------------------------------------------------------------------------
\* The diff: a change in one direction only is one of a definition that is tighter.
LEMMA TightensOnly ==
  ASSUME Engine!ConstantsFit, policy \in Entries, NEW p \in Entries,
         Engine!Diff(p) \subseteq {"tightens"}
  PROVE  TighterThan(policy, p)
<1>1. /\ Engine!Impact(Engine!CommandsOf(policy), Engine!CommandsOf(p),
                       Engine!FewerCommands) \subseteq {"tightens"}
      /\ Engine!Impact(Engine!OperationsOf(policy), Engine!OperationsOf(p),
                       Engine!FewerOperations) \subseteq {"tightens"}
      /\ Engine!Impact(policy.hashes, p.hashes, Engine!FirstPins) \subseteq {"tightens"}
      /\ Engine!Impact(policy.dirs, p.dirs, Engine!Added) \subseteq {"tightens"}
      /\ Engine!Impact(policy.ttl, p.ttl, Engine!ShorterWindow) \subseteq {"tightens"}
      /\ Engine!Impact(policy.asks \cup {a \in {"any"} : policy.always},
                       p.asks \cup {a \in {"any"} : p.always}, Engine!Added) \subseteq {"tightens"}
      /\ Engine!Impact(policy.deny, p.deny, LAMBDA a, b : b) \subseteq {"tightens"}
  BY DEF Engine!Diff
<1>2. Engine!CommandsOf(p) \subseteq Engine!CommandsOf(policy)
  BY <1>1 DEF Engine!Impact, Engine!FewerCommands
<1>3. \/ policy.operations = {Unlimited}
      \/ p.operations # {Unlimited} /\ Engine!OperationsOf(p) \subseteq Engine!OperationsOf(policy)
  <2>1. \/ Engine!OperationsOf(policy) = Engine!OperationsOf(p)
        \/ Engine!FewerOperations(Engine!OperationsOf(policy), Engine!OperationsOf(p))
    BY <1>1 DEF Engine!Impact
  <2> QED BY <2>1, RestrictedStays DEF Engine!FewerOperations
<1>4. policy.hashes = Engine!NoPins \/ p.hashes = policy.hashes
  BY <1>1 DEF Engine!Impact, Engine!FirstPins
<1>5. policy.dirs = {} \/ p.dirs = policy.dirs
  BY <1>1 DEF Engine!Impact, Engine!Added
<1>6. policy.ttl = Unrepresentable => p.ttl = Unrepresentable
  BY <1>1 DEF Engine!Impact, Engine!ShorterWindow
<1>7. policy.deny => p.deny
  BY <1>1 DEF Engine!Impact
<1>8. \/ policy.asks = {} /\ ~ policy.always
      \/ p.asks = policy.asks /\ p.always = policy.always
  <2>1. \/ policy.asks \cup {a \in {"any"} : policy.always} = {}
        \/ policy.asks \cup {a \in {"any"} : policy.always}
              = p.asks \cup {a \in {"any"} : p.always}
    BY <1>1 DEF Engine!Impact, Engine!Added
  <2>2. /\ "any" \notin policy.asks /\ "any" \notin p.asks
        /\ policy.always \in BOOLEAN /\ p.always \in BOOLEAN
    BY DEF Engine!ConstantsFit
  <2>3. CASE policy.asks \cup {a \in {"any"} : policy.always} = {}
    <3>1. ~ policy.always
      BY <2>3
    <3> QED BY <2>3, <3>1
  <2>4. CASE policy.asks \cup {a \in {"any"} : policy.always}
              = p.asks \cup {a \in {"any"} : p.always}
    <3>1. policy.always <=> p.always
      BY <2>2, <2>4
    <3>2. policy.asks = p.asks
      BY <2>2, <2>4
    <3> QED BY <2>2, <3>1, <3>2
  <2> QED BY <2>1, <2>3, <2>4
<1> QED BY <1>2, <1>3, <1>4, <1>5, <1>6, <1>7, <1>8 DEF TighterThan

LEMMA WidensOnly ==
  ASSUME Engine!ConstantsFit, policy \in Entries, NEW p \in Entries,
         Engine!Diff(p) \subseteq {"widens"}
  PROVE  TighterThan(p, policy)
<1>1. /\ Engine!Impact(Engine!CommandsOf(policy), Engine!CommandsOf(p),
                       Engine!FewerCommands) \subseteq {"widens"}
      /\ Engine!Impact(Engine!OperationsOf(policy), Engine!OperationsOf(p),
                       Engine!FewerOperations) \subseteq {"widens"}
      /\ Engine!Impact(policy.hashes, p.hashes, Engine!FirstPins) \subseteq {"widens"}
      /\ Engine!Impact(policy.dirs, p.dirs, Engine!Added) \subseteq {"widens"}
      /\ Engine!Impact(policy.ttl, p.ttl, Engine!ShorterWindow) \subseteq {"widens"}
      /\ Engine!Impact(policy.asks \cup {a \in {"any"} : policy.always},
                       p.asks \cup {a \in {"any"} : p.always}, Engine!Added) \subseteq {"widens"}
      /\ Engine!Impact(policy.deny, p.deny, LAMBDA a, b : b) \subseteq {"widens"}
  BY DEF Engine!Diff
<1>2. Engine!CommandsOf(policy) \subseteq Engine!CommandsOf(p)
  BY <1>1 DEF Engine!Impact, Engine!FewerCommands
<1>3. \/ p.operations = {Unlimited}
      \/ policy.operations # {Unlimited} /\ Engine!OperationsOf(policy) \subseteq Engine!OperationsOf(p)
  <2>1. \/ Engine!OperationsOf(policy) = Engine!OperationsOf(p)
        \/ Engine!FewerOperations(Engine!OperationsOf(p), Engine!OperationsOf(policy))
    BY <1>1 DEF Engine!Impact
  <2> QED BY <2>1, RestrictedStays DEF Engine!FewerOperations
<1>4. p.hashes = Engine!NoPins \/ p.hashes = policy.hashes
  BY <1>1 DEF Engine!Impact, Engine!FirstPins
<1>5. p.dirs = {} \/ p.dirs = policy.dirs
  BY <1>1 DEF Engine!Impact, Engine!Added
<1>6. p.ttl = Unrepresentable => policy.ttl = Unrepresentable
  BY <1>1 DEF Engine!Impact, Engine!ShorterWindow
<1>7. p.deny => policy.deny
  BY <1>1 DEF Engine!Impact
<1>8. \/ p.asks = {} /\ ~ p.always
      \/ p.asks = policy.asks /\ p.always = policy.always
  <2>1. \/ p.asks \cup {a \in {"any"} : p.always} = {}
        \/ policy.asks \cup {a \in {"any"} : policy.always}
              = p.asks \cup {a \in {"any"} : p.always}
    BY <1>1 DEF Engine!Impact, Engine!Added
  <2>2. /\ "any" \notin policy.asks /\ "any" \notin p.asks
        /\ policy.always \in BOOLEAN /\ p.always \in BOOLEAN
    BY DEF Engine!ConstantsFit
  <2>3. CASE p.asks \cup {a \in {"any"} : p.always} = {}
    <3>1. ~ p.always
      BY <2>3
    <3> QED BY <2>3, <3>1
  <2>4. CASE policy.asks \cup {a \in {"any"} : policy.always}
              = p.asks \cup {a \in {"any"} : p.always}
    <3>1. policy.always <=> p.always
      BY <2>2, <2>4
    <3>2. policy.asks = p.asks
      BY <2>2, <2>4
    <3> QED BY <2>2, <3>1, <3>2
  <2> QED BY <2>1, <2>3, <2>4
<1> QED BY <1>2, <1>3, <1>4, <1>5, <1>6, <1>7, <1>8 DEF TighterThan

-----------------------------------------------------------------------------
\* The explanation goes through the rules in the order of the evaluation.
LEMMA ExplainsTheRun ==
  ASSUME Engine!ConstantsFit, policy \in Entries, NEW o, NEW x,
         Engine!Denied(o, SameField[policy.secret]) = Engine!Denied(o, {policy.secret})
  PROVE  Engine!Run(o, x) = Engine!Explain(o, x)
<1>1. CASE Engine!Denied(o, {policy.secret}) # {}
  BY <1>1 DEF Engine!Run, Engine!Explain
<1>2. CASE Engine!Denied(o, {policy.secret}) = {}
  <2>1. ~ policy.deny
    BY <1>2 DEF Engine!Denied
  <2>2. Engine!Run(o, x) = Engine!Evaluate(policy, x)
    BY <1>2 DEF Engine!Run
  <2>3. policy.dirs = {} => Engine!Inside(policy, x)
    BY DEF Engine!Inside
  <2> QED BY <1>2, <2>1, <2>2, <2>3 DEF Engine!Evaluate, Engine!Explain,
                                             Engine!OperationAllowed, Engine!HashMatches
<1> QED BY <1>1, <1>2

\* What the lint calls void is allowed in no context.
LEMMA LintIsRight ==
  ASSUME Engine!ConstantsFit, policy \in Entries, NEW o, NEW x, Engine!LintErrors(o) # {}
  PROVE  Engine!Strictness(Engine!Run(o, x)) = 2
<1>1. ~ policy.deny /\ (policy.ttl = Unrepresentable \/ (o.deny /\ o.secret = policy.secret))
  BY DEF Engine!LintErrors
<1>2. CASE policy.ttl = Unrepresentable
  <2>1. Engine!Evaluate(policy, x) # "allow" /\ Engine!Evaluate(policy, x) # "confirm"
    BY <1>2 DEF Engine!Evaluate
  <2> QED BY <2>1 DEF Engine!Run, Engine!Strictness
<1>3. CASE o.deny /\ o.secret = policy.secret
  <2>1. policy.secret \in SameField[policy.secret]
    BY DEF Engine!ConstantsFit
  <2>2. o \in Engine!Denied(o, SameField[policy.secret])
    BY <1>3, <2>1 DEF Engine!Denied
  <2> QED BY <2>2 DEF Engine!Run, Engine!Strictness
<1> QED BY <1>1, <1>2, <1>3

\* A suggestion keeps every spelling of a command it keeps, so that no pin is lost
\* that an allowed invocation still meets.
LEMMA SuggestionIsStricter ==
  ASSUME Engine!ConstantsFit, platform \in {"posix", "win32"},
         policy \in Entries, Engine!WellFormed(policy),
         NEW observed \in SUBSET Commands, Engine!Suggests(observed), NEW x \in Engine!Context
  PROVE  Engine!Strictness(Engine!Evaluate(policy, x))
           <= Engine!Strictness(Engine!Evaluate(Engine!Suggested(observed), x))
<1> DEFINE s == Engine!Suggested(observed)
<1>1. /\ policy = [f \in DOMAIN policy |-> policy[f]]
      /\ DOMAIN policy = {"deny", "secret", "commands", "operations", "hashes", "dirs", "ttl",
                          "asks", "always", "reveal"}
  BY DEF Engine!ConstantsFit
<1>2. /\ s.deny = policy.deny /\ s.dirs = policy.dirs /\ s.ttl = policy.ttl
      /\ s.asks = policy.asks /\ s.always = policy.always
      /\ s.commands = Engine!Kept(observed)
      /\ s.operations = {o \in policy.operations :
                           o = Unlimited \/ o.command \in Engine!Kept(observed)}
      /\ s.hashes = [c \in DOMAIN policy.hashes \cap Engine!Kept(observed) |-> policy.hashes[c]]
  BY <1>1 DEF Engine!Suggested
<1>3. s.operations # {}
  BY DEF Engine!Suggests
<1> HIDE DEF s
<1>4. ASSUME \E c \in s.commands : Engine!SameCommand(c, x.name)
      PROVE  \E c \in policy.commands : Engine!SameCommand(c, x.name)
  BY <1>2, <1>4 DEF Engine!Kept
<1>5. Engine!OperationAllowed(s, x) => Engine!OperationAllowed(policy, x)
  <2>1. CASE policy.operations = {Unlimited}
    BY <2>1 DEF Engine!OperationAllowed
  <2>2. CASE policy.operations \subseteq [command : Commands, args : Arguments]
    <3>1. s.operations \subseteq policy.operations /\ s.operations # {Unlimited}
      BY <1>2, <2>2 DEF Engine!ConstantsFit
    <3> QED BY <3>1 DEF Engine!OperationAllowed
  <2> QED BY <2>1, <2>2 DEF Engine!ConstantsFit
<1>6. ASSUME Passes(s, x) PROVE Engine!HashMatches(policy, x)
  <2> SUFFICES ASSUME x.name \in DOMAIN policy.hashes
               PROVE  policy.hashes[x.name] = x.sha
    BY DEF Engine!HashMatches
  <2>1. PICK c \in Engine!Kept(observed) : Engine!SameCommand(c, x.name)
    BY <1>2, <1>6 DEF Passes
  <2>2. PICK o \in observed : Engine!SameCommand(c, o)
    BY <2>1 DEF Engine!Kept
  <2>3. Engine!SameCommand(x.name, o)
    BY <2>1, <2>2 DEF Engine!SameCommand
  <2>4. x.name \in policy.commands
    BY DEF Engine!WellFormed
  <2>5. x.name \in Engine!Kept(observed)
    BY <2>3, <2>4 DEF Engine!Kept
  <2>6. x.name \in DOMAIN s.hashes /\ s.hashes[x.name] = policy.hashes[x.name]
    BY <1>2, <2>5
  <2> QED BY <1>6, <2>6 DEF Passes, Engine!HashMatches
<1>7. Engine!Inside(s, x) <=> Engine!Inside(policy, x)
  BY <1>2 DEF Engine!Inside
<1>8. Engine!RequiresConfirmation(s, x) <=> Engine!RequiresConfirmation(policy, x)
  BY <1>2 DEF Engine!RequiresConfirmation
<1>9. Passes(s, x) => Passes(policy, x)
  BY <1>2, <1>4, <1>5, <1>6, <1>7 DEF Passes
<1>10. /\ Engine!Evaluate(s, x) = "allow" => Engine!Evaluate(policy, x) = "allow"
       /\ Engine!Evaluate(s, x) = "confirm" => Engine!Evaluate(policy, x) = "confirm"
  BY <1>8, <1>9, Outcomes
<1>11. Engine!Strictness(Engine!Evaluate(policy, x)) <= Engine!Strictness(Engine!Evaluate(s, x))
  BY <1>10 DEF Engine!Strictness
<1> QED BY <1>11 DEF s

-----------------------------------------------------------------------------
LEMMA EngineInit == ASSUME Engine!ConstantsFit PROVE Engine!Init => EngineInv
BY DEF Engine!Init, EngineInv, Engine!ToldIsTrue, Engine!ExplainMirrorsRun,
       Engine!AnalysesAreSound, Engine!Answers

\* What each question is answered with in the context x.
RunAnswer(o, x) ==
  [run |-> Engine!Run(o, x), explain |-> Engine!Explain(o, x),
   literal |-> Engine!Denied(o, SameField[policy.secret]) = Engine!Denied(o, {policy.secret})]
LintAnswer(o, x) == [lint |-> Engine!LintErrors(o), run |-> Engine!Run(o, x)]
DiffAnswer(p, x) ==
  [diff |-> Engine!Diff(p), before |-> Engine!Strictness(Engine!Evaluate(policy, x)),
   after |-> Engine!Strictness(Engine!Evaluate(p, x))]
SuggestAnswer(observed, x) ==
  [suggested |-> Engine!Strictness(Engine!Evaluate(Engine!Suggested(observed), x)),
   before |-> Engine!Strictness(Engine!Evaluate(policy, x))]

LEMMA AuthorizeTold ==
  ASSUME Engine!ConstantsFit, EngineInv, Engine!Authorize
  PROVE  Engine!ToldIsTrue'
<1>1. PICK o \in Others : Engine!Ask({RunAnswer(o, x) : x \in Engine!Context})
  BY DEF Engine!Authorize, RunAnswer
<1>2. policy \in Entries
  BY <1>1 DEF Engine!Ask, EngineInv
<1>3. ASSUME NEW a \in told'
      PROVE  DOMAIN a = {"run", "explain", "literal"} /\ (a.literal => a.run = a.explain)
  <2>1. PICK x \in Engine!Context : a = RunAnswer(o, x)
    BY <1>1, <1>3 DEF Engine!Ask
  <2> QED BY <1>2, <2>1, ExplainsTheRun DEF RunAnswer
<1> QED BY <1>3 DEF Engine!ToldIsTrue, Engine!ExplainMirrorsRun, Engine!AnalysesAreSound,
                        Engine!Answers

LEMMA LintTold ==
  ASSUME Engine!ConstantsFit, EngineInv, Engine!Lint
  PROVE  Engine!ToldIsTrue'
<1>1. PICK o \in Others : Engine!Ask({LintAnswer(o, x) : x \in Engine!Context})
  BY DEF Engine!Lint, LintAnswer
<1>2. policy \in Entries
  BY <1>1 DEF Engine!Ask, EngineInv
<1>3. ASSUME NEW a \in told'
      PROVE  DOMAIN a = {"lint", "run"} /\ (a.lint # {} => Engine!Strictness(a.run) = 2)
  BY <1>1, <1>2, <1>3, LintIsRight DEF Engine!Ask, LintAnswer
<1> QED BY <1>3 DEF Engine!ToldIsTrue, Engine!ExplainMirrorsRun, Engine!AnalysesAreSound,
                        Engine!Answers

LEMMA CompareTold ==
  ASSUME Engine!ConstantsFit, EngineInv, Engine!Compare
  PROVE  Engine!ToldIsTrue'
<1>1. PICK p \in Entries : Engine!Ask({DiffAnswer(p, x) : x \in Engine!Context})
  BY DEF Engine!Compare, DiffAnswer
<1>2. policy \in Entries /\ platform \in {"posix", "win32"}
  BY <1>1 DEF Engine!Ask, EngineInv
<1>3. ASSUME NEW a \in told'
      PROVE  /\ DOMAIN a = {"diff", "before", "after"}
             /\ a.diff \subseteq {"tightens"} => a.before <= a.after
             /\ a.diff \subseteq {"widens"}   => a.after <= a.before
  <2>1. PICK x \in Engine!Context : a = DiffAnswer(p, x)
    BY <1>1, <1>3 DEF Engine!Ask
  <2> QED BY <1>2, <2>1, TightensOnly, WidensOnly, TighterIsStricter DEF DiffAnswer
<1> QED BY <1>3 DEF Engine!ToldIsTrue, Engine!ExplainMirrorsRun, Engine!AnalysesAreSound,
                        Engine!Answers

LEMMA SuggestTold ==
  ASSUME Engine!ConstantsFit, EngineInv, Engine!Suggest
  PROVE  Engine!ToldIsTrue'
<1>1. PICK observed \in SUBSET Commands :
        /\ Engine!Suggests(observed)
        /\ Engine!Ask({SuggestAnswer(observed, x) : x \in Engine!Context})
  BY DEF Engine!Suggest, SuggestAnswer
<1>2. policy \in Entries /\ Engine!WellFormed(policy) /\ platform \in {"posix", "win32"}
  BY <1>1 DEF Engine!Ask, EngineInv
<1>3. ASSUME NEW a \in told'
      PROVE  DOMAIN a = {"suggested", "before"} /\ a.before <= a.suggested
  BY <1>1, <1>2, <1>3, SuggestionIsStricter DEF Engine!Ask, SuggestAnswer
<1> QED BY <1>3 DEF Engine!ToldIsTrue, Engine!ExplainMirrorsRun, Engine!AnalysesAreSound,
                        Engine!Answers

LEMMA ShowTold ==
  ASSUME Engine!Show
  PROVE  Engine!ToldIsTrue'
<1>1. PICK reveal, denied : Engine!Ask({[reveal |-> reveal, denied |-> denied]})
  BY DEF Engine!Show
<1>2. \A a \in told' : DOMAIN a = {"reveal", "denied"}
  BY <1>1 DEF Engine!Ask
<1> QED BY <1>2 DEF Engine!ToldIsTrue, Engine!ExplainMirrorsRun, Engine!AnalysesAreSound,
                        Engine!Answers

LEMMA EngineStep ==
  ASSUME Engine!ConstantsFit, EngineInv, [Engine!Next]_(Engine!vars)
  PROVE  EngineInv'
<1>1. CASE Engine!Create
  BY <1>1 DEF Engine!Create, EngineInv, Engine!WellFormed, Engine!ToldIsTrue,
              Engine!ExplainMirrorsRun, Engine!AnalysesAreSound, Engine!Answers
<1>2. ASSUME Engine!Authorize \/ Engine!Lint \/ Engine!Compare \/ Engine!Suggest \/ Engine!Show
      PROVE  EngineInv'
  <2>1. UNCHANGED <<policy, platform, stored>>
    BY <1>2 DEF Engine!Authorize, Engine!Lint, Engine!Compare, Engine!Suggest,
                Engine!Show, Engine!Ask
  <2>2. Engine!ToldIsTrue'
    BY <1>2, AuthorizeTold, LintTold, CompareTold, SuggestTold, ShowTold
  <2> QED BY <2>1, <2>2 DEF EngineInv, Engine!WellFormed
<1>3. CASE UNCHANGED Engine!vars
  BY <1>3 DEF Engine!vars, EngineInv, Engine!WellFormed, Engine!ToldIsTrue,
              Engine!ExplainMirrorsRun, Engine!AnalysesAreSound, Engine!Answers
<1> QED BY <1>1, <1>2, <1>3 DEF Engine!Next

\* The explanation, the lint, the diff and the suggestions of any policy agree with
\* what a run of it does, in every context.
THEOREM WhatIsToldHolds == ASSUME Engine!ConstantsFit PROVE Engine!Spec => []ToldIsTrue
<1>1. Engine!Init => EngineInv
  BY EngineInit
<1>2. EngineInv /\ [Engine!Next]_(Engine!vars) => EngineInv'
  BY EngineStep
<1>3. EngineInv => ToldIsTrue
  BY DEF EngineInv, ToldIsTrue
<1> QED BY <1>1, <1>2, <1>3, PTL DEF Engine!Spec
=============================================================================

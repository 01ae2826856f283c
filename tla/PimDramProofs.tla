---------------------------- MODULE PimDramProofs ----------------------------
(***************************************************************************)
(* For every timing, geometry, refresh interval and sequence of requests:  *)
(*   - accesses leave in the order of their data and none of them late,    *)
(*     although only the first one is looked at (AccessesDepartInTime);    *)
(*   - a finished request was answered once for each of its commands and   *)
(*     the counters say so (DramAccounts);                                 *)
(*   - the row opened for an access is closed by no other access before    *)
(*     it is issued, if the scheduler sees all of them (ActiveRowsKept);   *)
(*   - weights placed within the capacity do not overlap                   *)
(*     (WeightsHaveTheirPlaces), and the closed form that stands for the   *)
(*     detailed simulation counts what it issues, or up to two more        *)
(*     (IdealFollowsKernel).                                               *)
(***************************************************************************)
EXTENDS PimDramController, NaturalFacts, TLAPS

\* A sequence is one over the values it takes.
LEMMA OverItsRange ==
  ASSUME NEW S, NEW q, q \in Seq(S)
  PROVE  q \in Seq(Range(q))
BY DEF Range

\* The ticks from a read command to the end of its data.
Delay == T.nCL + T.nBL

\* A queue whose entries wait for different ticks from `first' to `last', the
\* first one for the earliest.
InOrder(q, first, last) ==
  /\ q \in Seq(Range(q))
  /\ \A i \in 1 .. Len(q) : q[i] = [r |-> q[i].r, left |-> q[i].left]
  /\ \A i \in 1 .. Len(q) : q[i].left \in first .. last
  /\ \A i, j \in 1 .. Len(q) : j < i => q[j].left < q[i].left

\* The interface takes a request only when nothing is left of the last one.
DepartInv ==
  /\ InOrder(pending, 1, Delay)
  /\ ~ running => pending = <<>> /\ buffer["write"] = <<>>

-----------------------------------------------------------------------------
(* A queue of departures *)

LEMMA DelayPositive == Delay \in Nat \ {0} /\ Delay = T.nCL + T.nBL
BY TimingAssumption DEF Delay

\* A tick brings all of them nearer.
LEMMA TickedQueue ==
  ASSUME NEW q, InOrder(q, 1, Delay)
  PROVE  InOrder([i \in DOMAIN q |-> [q[i] EXCEPT !.left = @ - 1]], 0, Delay - 1)
<1> DEFINE u == [i \in DOMAIN q |-> [q[i] EXCEPT !.left = @ - 1]]
<1>1. DOMAIN q = 1 .. Len(q) /\ Len(q) \in Nat
  BY DEF InOrder
<1>2. \A i \in 1 .. Len(q) : u[i] = [r |-> q[i].r, left |-> q[i].left - 1]
  <2> SUFFICES ASSUME NEW i \in 1 .. Len(q)
               PROVE  u[i] = [r |-> q[i].r, left |-> q[i].left - 1]
    OBVIOUS
  <2>1. q[i] = [r |-> q[i].r, left |-> q[i].left]
    BY DEF InOrder
  <2>2. u[i] = [q[i] EXCEPT !.left = @ - 1]
    BY <1>1
  <2> DEFINE r == q[i].r
             left == q[i].left
  <2>3. q[i] = [r |-> r, left |-> left]
    BY <2>1
  <2> HIDE DEF r, left
  <2>4. [q[i] EXCEPT !.left = @ - 1] = [r |-> r, left |-> left - 1]
    BY <2>3
  <2> QED
    BY <2>2, <2>4 DEF r, left
<1>3. u \in Seq(Range(u)) /\ Len(u) = Len(q)
  <2>1. DOMAIN u = 1 .. Len(q)
    BY <1>1
  <2>2. u \in [1 .. Len(q) -> Range(u)]
    BY <2>1 DEF Range
  <2> HIDE DEF u
  <2> QED
    BY <1>1, <2>1, <2>2
<1> HIDE DEF u
<1>4. \A i \in 1 .. Len(u) : u[i].r = q[i].r /\ u[i].left = q[i].left - 1
  <2> SUFFICES ASSUME NEW i \in 1 .. Len(u)
               PROVE  u[i].r = q[i].r /\ u[i].left = q[i].left - 1
    OBVIOUS
  <2> DEFINE r == q[i].r
             left == q[i].left - 1
  <2>1. u[i] = [r |-> r, left |-> left]
    BY <1>2, <1>3
  <2> HIDE DEF r, left
  <2>2. u[i].r = r /\ u[i].left = left
    BY <2>1
  <2> QED
    BY <2>2 DEF r, left
<1>5. \A i \in 1 .. Len(u) : u[i] = [r |-> u[i].r, left |-> u[i].left]
  BY <1>2, <1>3, <1>4
<1>6. \A i \in 1 .. Len(u) : q[i].left \in 1 .. Delay
  BY <1>3 DEF InOrder
<1>7. \A i \in 1 .. Len(u) : u[i].left \in 0 .. Delay - 1
  BY <1>4, <1>6, DelayPositive
<1>8. \A i, j \in 1 .. Len(u) : j < i => u[j].left < u[i].left
  <2> SUFFICES ASSUME NEW i \in 1 .. Len(u), NEW j \in 1 .. Len(u), j < i
               PROVE  u[j].left < u[i].left
    OBVIOUS
  <2>1. q[j].left < q[i].left
    BY <1>3 DEF InOrder
  <2>2. q[i].left \in Int /\ q[j].left \in Int
    BY <1>6, DelayPositive
  <2> QED
    BY <1>4, <2>1, <2>2
<1> QED
  BY <1>3, <1>5, <1>7, <1>8 DEF InOrder, u

\* The first leaves if its data is there; the others are later.
LEMMA ServedQueue ==
  ASSUME NEW u, InOrder(u, 0, Delay - 1)
  PROVE  InOrder(IF u # <<>> /\ Head(u).left <= 0 THEN Tail(u) ELSE u, 1, Delay - 1)
<1>1. /\ u \in Seq(Range(u)) /\ Len(u) \in Nat
      /\ \A i \in 1 .. Len(u) : u[i] = [r |-> u[i].r, left |-> u[i].left]
      /\ \A i \in 1 .. Len(u) : u[i].left \in 0 .. Delay - 1
      /\ \A i, j \in 1 .. Len(u) : j < i => u[j].left < u[i].left
  BY DEF InOrder
<1>2. CASE u # <<>> /\ Head(u).left <= 0
  <2> DEFINE t == Tail(u)
  <2>1. /\ t \in Seq(Range(u)) /\ Len(t) = Len(u) - 1 /\ Len(u) \in Nat \ {0}
        /\ \A i \in 1 .. Len(t) : t[i] = u[i + 1]
    BY <1>1, <1>2
  <2> HIDE DEF t
  <2>2. t \in Seq(Range(t)) /\ Len(t) \in Nat
    BY <2>1, OverItsRange
  <2>3. \A i \in 1 .. Len(t) : i + 1 \in 1 .. Len(u)
    BY <2>1, <2>2
  <2>4. \A i \in 1 .. Len(t) : t[i] = [r |-> t[i].r, left |-> t[i].left]
    BY <1>1, <2>1, <2>3
  <2>5. \A i \in 1 .. Len(t) : t[i].left \in 1 .. Delay - 1
    <3> SUFFICES ASSUME NEW i \in 1 .. Len(t) PROVE t[i].left \in 1 .. Delay - 1
      OBVIOUS
    <3>1. i + 1 \in 1 .. Len(u) /\ 1 \in 1 .. Len(u) /\ 1 < i + 1 /\ t[i] = u[i + 1]
      BY <2>1, <2>2, <2>3
    <3>2. u[1].left < u[i + 1].left
      BY <1>1, <3>1
    <3>3. u[1].left \in 0 .. Delay - 1 /\ u[i + 1].left \in 0 .. Delay - 1
      BY <1>1, <3>1
    <3> QED
      BY <3>1, <3>2, <3>3, DelayPositive
  <2>6. \A i, j \in 1 .. Len(t) : j < i => t[j].left < t[i].left
    <3> SUFFICES ASSUME NEW i \in 1 .. Len(t), NEW j \in 1 .. Len(t), j < i
                 PROVE  t[j].left < t[i].left
      OBVIOUS
    <3>1. i + 1 \in 1 .. Len(u) /\ j + 1 \in 1 .. Len(u) /\ j + 1 < i + 1
      BY <2>2, <2>3
    <3>2. u[j + 1].left < u[i + 1].left
      BY <1>1, <3>1
    <3> QED
      BY <2>1, <3>2
  <2> QED
    BY <1>2, <2>2, <2>4, <2>5, <2>6 DEF InOrder, t
<1>3. CASE u # <<>> /\ ~ (Head(u).left <= 0)
  <2>1. Head(u) = u[1] /\ 1 \in 1 .. Len(u)
    BY <1>1, <1>3
  <2>2. u[1].left \in 0 .. Delay - 1
    BY <1>1, <2>1
  <2>3. u[1].left \in 1 .. Delay - 1
    BY <1>3, <2>1, <2>2, DelayPositive
  <2>4. ASSUME NEW i \in 1 .. Len(u) PROVE u[i].left \in 1 .. Delay - 1
    <3>1. u[i].left \in 0 .. Delay - 1
      BY <1>1
    <3>2. i = 1 \/ u[1].left < u[i].left
      BY <1>1, <2>1
    <3> QED
      BY <2>3, <3>1, <3>2, DelayPositive
  <2> QED
    BY <1>1, <1>3, <2>4 DEF InOrder
<1>4. CASE u = <<>>
  BY <1>1, <1>4 DEF InOrder
<1> QED
  BY <1>2, <1>3, <1>4

\* A read that is issued now is the last to leave.
LEMMA AppendedQueue ==
  ASSUME NEW q, InOrder(q, 1, Delay - 1), NEW r
  PROVE  InOrder(Departing(q, r), 1, Delay)
<1> DEFINE e == [r |-> r, left |-> Delay]
           p == Append(q, e)
           S == Range(q) \cup {e}
<1>1. /\ q \in Seq(Range(q)) /\ Len(q) \in Nat
      /\ \A i \in 1 .. Len(q) : q[i] = [r |-> q[i].r, left |-> q[i].left]
      /\ \A i \in 1 .. Len(q) : q[i].left \in 1 .. Delay - 1
      /\ \A i, j \in 1 .. Len(q) : j < i => q[j].left < q[i].left
  BY DEF InOrder
<1>2. e.left = Delay /\ e = [r |-> e.r, left |-> e.left]
  OBVIOUS
<1>3. Departing(q, r) = p
  BY DelayPositive DEF Departing
<1> HIDE DEF e
<1>4. q \in Seq(S) /\ e \in S
  <2>1. \A i \in 1 .. Len(q) : q[i] \in S
    BY <1>1 DEF Range
  <2> HIDE DEF S
  <2>2. q \in Seq(S)
    BY <1>1, <2>1
  <2> QED
    BY <2>2 DEF S
<1> HIDE DEF S
<1>5. /\ p \in Seq(S) /\ Len(p) = Len(q) + 1
      /\ \A i \in 1 .. Len(p) : p[i] = IF i = Len(q) + 1 THEN e ELSE q[i]
  BY <1>1, <1>4
<1> HIDE DEF p
<1>6. p \in Seq(Range(p))
  BY <1>5, OverItsRange
<1>7. \A i \in 1 .. Len(p) : p[i] = [r |-> p[i].r, left |-> p[i].left]
  <2> SUFFICES ASSUME NEW i \in 1 .. Len(p)
               PROVE  p[i] = [r |-> p[i].r, left |-> p[i].left]
    OBVIOUS
  <2>1. p[i] = e \/ (i \in 1 .. Len(q) /\ p[i] = q[i])
    BY <1>1, <1>5
  <2> QED
    BY <1>1, <1>2, <2>1
<1>8. \A i \in 1 .. Len(p) : /\ i = Len(q) + 1 => p[i].left = Delay
                             /\ i # Len(q) + 1 => /\ i \in 1 .. Len(q)
                                                  /\ p[i].left = q[i].left
                                                  /\ p[i].left \in 1 .. Delay - 1
  BY <1>1, <1>2, <1>5
<1>9. \A i \in 1 .. Len(p) : p[i].left \in 1 .. Delay
  BY <1>8, DelayPositive
<1>10. \A i, j \in 1 .. Len(p) : j < i => p[j].left < p[i].left
  <2> SUFFICES ASSUME NEW i \in 1 .. Len(p), NEW j \in 1 .. Len(p), j < i
               PROVE  p[j].left < p[i].left
    OBVIOUS
  <2>1. j # Len(q) + 1 /\ j \in 1 .. Len(q) /\ p[j].left \in 1 .. Delay - 1
    <3>1. j # Len(q) + 1
      BY <1>1, <1>5
    <3> QED
      BY <1>8, <3>1
  <2>2. CASE i = Len(q) + 1
    BY <1>8, <2>1, <2>2, DelayPositive
  <2>3. CASE i # Len(q) + 1
    BY <1>1, <1>8, <2>1, <2>3
  <2> QED
    BY <2>2, <2>3
<1>11. InOrder(p, 1, Delay)
  BY <1>6, <1>7, <1>9, <1>10 DEF InOrder
<1> QED
  BY <1>3, <1>11

\* A queue without later entries has none too late.
LEMMA EarlierQueue ==
  ASSUME NEW q, InOrder(q, 1, Delay - 1)
  PROVE  InOrder(q, 1, Delay)
BY DelayPositive DEF InOrder

-----------------------------------------------------------------------------
(* The invariant *)

LEMMA InitDepartInv == Init => DepartInv
<1> SUFFICES ASSUME Init PROVE DepartInv
  OBVIOUS
<1>1. pending = <<>> /\ running = FALSE /\ buffer["write"] = <<>>
  BY DEF Init, Buffers
<1>2. <<>> \in Seq(Range(<<>>)) /\ Len(<<>>) = 0
  OBVIOUS
<1> QED
  BY <1>1, <1>2 DEF DepartInv, InOrder

\* No request finds a write still queued, so none is answered from the buffer.
LEMMA HandleDepartInv ==
  ASSUME DepartInv, NEW o, NEW q, HandleRequest(o, q)
  PROVE  DepartInv'
<1>1. ~ running /\ running' = TRUE /\ buffer["write"] = <<>>
  BY DEF HandleRequest, DepartInv
<1>2. pending' = pending
  BY <1>1 DEF HandleRequest
<1> QED
  BY <1>1, <1>2 DEF DepartInv

\* A tick serves at most one access and issues at most one read.
LEMMA TickDepartInv ==
  ASSUME DepartInv, Tick
  PROVE  DepartInv'
<1> DEFINE under == [i \in DOMAIN pending |-> [pending[i] EXCEPT !.left = @ - 1]]
           serve == under # <<>> /\ Head(under).left <= 0
           pend == IF serve THEN Tail(under) ELSE under
<1>1. /\ pending' = Ticking.pending /\ buffer' = Ticking.buffer
      /\ running' = ~ Finished(buffer', pending')
  BY DEF Tick
<1>2. InOrder(pend, 1, Delay - 1)
  <2>1. InOrder(pending, 1, Delay)
    BY DEF DepartInv
  <2>2. InOrder(under, 0, Delay - 1)
    BY <2>1, TickedQueue
  <2> HIDE DEF under
  <2> QED
    BY <2>2, ServedQueue
<1>3. \/ pending' = pend
      \/ \E r : pending' = Departing(pend, r)
  BY <1>1 DEF Ticking, Issue
<1> HIDE DEF pend
<1>4. InOrder(pending', 1, Delay)
  BY <1>2, <1>3, AppendedQueue, EarlierQueue
<1>5. ~ running' => pending' = <<>> /\ buffer'["write"] = <<>>
  BY <1>1 DEF Finished, Buffers
<1> QED
  BY <1>4, <1>5 DEF DepartInv

LEMMA NextDepartInv ==
  ASSUME DepartInv, [Next]_vars
  PROVE  DepartInv'
<1>1. CASE UNCHANGED vars
  BY <1>1 DEF vars, DepartInv, InOrder
<1>2. CASE SetNormal
  BY <1>2 DEF SetNormal, DepartInv, InOrder
<1> QED
  BY <1>1, <1>2, HandleDepartInv, TickDepartInv DEF Next

-----------------------------------------------------------------------------
(* The theorem *)

\* Accesses under way leave in the order in which their data arrives and none
\* is late, although only the first is looked at and one leaves in a tick.
THEOREM AccessesDepartInTime == Spec => []DepartsInTime
<1>1. DepartInv => DepartsInTime
  <2> SUFFICES ASSUME DepartInv, NEW i \in DOMAIN pending
               PROVE  /\ pending[i].left >= 0
                      /\ i > 1 => pending[i - 1].left < pending[i].left
    BY DEF DepartsInTime
  <2>1. i \in 1 .. Len(pending) /\ Len(pending) \in Nat
    BY DEF DepartInv, InOrder
  <2>2. pending[i].left \in 1 .. Delay
    BY <2>1 DEF DepartInv, InOrder
  <2>3. i > 1 => i - 1 \in 1 .. Len(pending) /\ i - 1 < i
    BY <2>1
  <2>4. i > 1 => pending[i - 1].left < pending[i].left
    BY <2>1, <2>3 DEF DepartInv, InOrder
  <2> QED
    BY <2>2, <2>4, DelayPositive
<1> QED
  BY <1>1, InitDepartInv, NextDepartInv, PTL DEF Spec

-----------------------------------------------------------------------------
(* The accounts of a request *)

\* The buffers in which the commands of a request wait, its refreshes apart.
Held == Buffers \ {"priority"}

Counters == Range(DRAMCommandType)

\* The counters of the commands that end a DRAM request, and the one of them
\* that a request of each kind fills.
EndCounters == {"kREAD", "kWRITE", "kALL_READ"}
CounterOfRequest ==
  [none |-> "none", kRead |-> "kREAD", kWrite |-> "kWRITE", GEMV |-> "kALL_READ"]

\* What of the end counters a number of ended commands has filled.
Filled(kind, n, issued) ==
  \A k \in EndCounters : issued[k] = IF k = CounterOfRequest[kind] THEN n ELSE 0

CommandRecords ==
  [id : Nat, type : {"Read", "Write", "AllRead"}, addr : [path : Banks, row : Nat],
   issued : [Counters -> Nat]]

\* A command on its way, of a request of this kind: its end counter shows
\* whether the DRAM has done it.
CommandsOf(kind, n) ==
  {r \in CommandRecords : /\ kind \in DOMAIN TypeOfRequest
                          /\ r.type = TypeOfRequest[kind]
                          /\ Filled(kind, n, r.issued)}

RefreshRecords ==
  [id : Nat, type : {"Refresh"}, addr : [path : Seq(Nat), row : {-1}],
   issued : [Counters -> Nat]]

Ids(q) == {q[i].id : i \in DOMAIN q}
DistinctIds(q) == \A i, j \in DOMAIN q : q[i].id = q[j].id => i = j

\* The commands whose data is under way.
Under(pend) == [i \in DOMAIN pend |-> pend[i].r]

BuffersOK(buf, p) ==
  /\ buf = [b \in Buffers |-> buf[b]]
  /\ \A b \in Held : buf[b] \in Seq(CommandsOf(p.kind, 0))
  /\ buf["priority"] \in Seq(RefreshRecords)

RequestOK(p) ==
  /\ p = [kind |-> p.kind, n |-> p.n, done |-> p.done, issued |-> p.issued]
  /\ p.kind \in {"none", "kRead", "kWrite", "GEMV"}
  /\ p.n \in Nat
  /\ p.done \subseteq 1 .. p.n
  /\ p.issued \in [Counters -> Nat]
  /\ Filled(p.kind, Cardinality(p.done), p.issued)

\* The ids 1 .. n are parted among the buffers, those under way and those done.
Parted(I, under, done, n) ==
  /\ \A b, c \in Held : b # c => I[b] \cap I[c] = {}
  /\ \A b \in Held : I[b] \cap (under \cup done) = {}
  /\ under \cap done = {}
  /\ 1 .. n = (UNION {I[b] : b \in Held}) \cup under \cup done

\* Every command of the request is in one place, once.
OnePlaceEach(buf, pend, p) ==
  /\ \A b \in Held : DistinctIds(buf[b])
  /\ DistinctIds(Under(pend))
  /\ Parted([b \in Held |-> Ids(buf[b])], Ids(Under(pend)), p.done, p.n)

\* The commands are well formed and none is lost or there twice.
Kept(buf, pend, p) ==
  /\ BuffersOK(buf, p)
  /\ Under(pend) \in Seq(CommandsOf(p.kind, 1))
  /\ RequestOK(p)
  /\ OnePlaceEach(buf, pend, p)

DeviceOK(d) ==
  /\ d = [wait |-> d.wait, open |-> d.open]
  /\ d.wait = [k \in DOMAIN d.wait |-> d.wait[k]]
  /\ DOMAIN d.wait \subseteq Nodes \X Commands
  /\ \A k \in DOMAIN d.wait : d.wait[k] \in Nat \ {0}
  /\ d.open \in [Banks -> SUBSET Nat]

AccountInv ==
  /\ DepartInv
  /\ objects \in Seq([tag : STRING, size : Nat, address : Nat])
  /\ start_addr_normal \in Nat
  /\ DeviceOK(dev)
  /\ next_refresh \in 1 .. NREFI
  /\ Kept(buffer, pending, request)
  /\ ~ running => /\ Finished(buffer, pending)
                  /\ exec_status = UpdateStatus(request)

-----------------------------------------------------------------------------
(* Commands in a buffer *)

\* RemoveAt closes the gap.
LEMMA Removed ==
  ASSUME NEW S, NEW q \in Seq(S), NEW i \in 1 .. Len(q)
  PROVE  /\ RemoveAt(q, i) \in Seq(S)
         /\ Len(RemoveAt(q, i)) = Len(q) - 1
         /\ \A j \in 1 .. Len(q) - 1 :
              RemoveAt(q, i)[j] = IF j < i THEN q[j] ELSE q[j + 1]
<1> DEFINE a == SubSeq(q, 1, i - 1)
           c == SubSeq(q, i + 1, Len(q))
<1>0. Len(q) \in Nat
  OBVIOUS
<1>1. a \in Seq(S) /\ Len(a) = i - 1 /\ \A j \in 1 .. i - 1 : a[j] = q[j]
  OBVIOUS
<1>2. /\ c \in Seq(S) /\ Len(c) = Len(q) - i
      /\ \A j \in 1 .. Len(q) - i : c[j] = q[i + j]
  OBVIOUS
<1>3. RemoveAt(q, i) = a \o c
  BY DEF RemoveAt
<1> HIDE DEF a, c
<1>4. a \o c \in Seq(S) /\ Len(a \o c) = Len(q) - 1
  <2> a \in Seq(S) /\ c \in Seq(S)
    BY <1>1, <1>2
  <2>1. a \o c \in Seq(S)
    OBVIOUS
  <2>2. Len(a \o c) = Len(a) + Len(c)
    OBVIOUS
  <2> QED
    BY <1>0, <1>1, <1>2, <2>1, <2>2
<1>5. ASSUME NEW j \in 1 .. Len(q) - 1
      PROVE  (a \o c)[j] = IF j < i THEN q[j] ELSE q[j + 1]
  <2>1. CASE j < i
    <3>1. (a \o c)[j] = a[j] /\ j \in 1 .. i - 1
      BY <1>1, <1>2, <2>1
    <3> QED
      BY <1>1, <2>1, <3>1
  <2>2. CASE ~ (j < i)
    <3>1. (a \o c)[j] = c[j - (i - 1)] /\ j - (i - 1) \in 1 .. Len(q) - i
      BY <1>1, <1>2, <2>2
    <3>2. c[j - (i - 1)] = q[i + (j - (i - 1))] /\ i + (j - (i - 1)) = j + 1
      BY <1>2, <3>1
    <3> QED
      BY <2>2, <3>1, <3>2
  <2> QED
    BY <2>1, <2>2
<1> QED
  BY <1>3, <1>4, <1>5

\* A command that leaves a buffer takes its id along and no other.
LEMMA RemovedIds ==
  ASSUME NEW S, NEW q \in Seq(S), NEW i \in 1 .. Len(q), DistinctIds(q)
  PROVE  /\ Ids(RemoveAt(q, i)) = Ids(q) \ {q[i].id}
         /\ DistinctIds(RemoveAt(q, i))
<1> DEFINE t == RemoveAt(q, i)
           at == [j \in 1 .. Len(q) - 1 |-> IF j < i THEN j ELSE j + 1]
<1>1. /\ DOMAIN q = 1 .. Len(q) /\ Len(q) \in Nat
      /\ t \in Seq(S) /\ Len(t) = Len(q) - 1 /\ DOMAIN t = 1 .. Len(q) - 1
      /\ \A j \in 1 .. Len(q) - 1 : t[j] = q[at[j]]
  BY Removed
<1> HIDE DEF t
<1>2. \A j \in 1 .. Len(q) - 1 : at[j] \in 1 .. Len(q) /\ at[j] # i
  BY <1>1
<1>3. \A j, k \in 1 .. Len(q) - 1 : at[j] = at[k] => j = k
  BY <1>1
<1>4. \A k \in 1 .. Len(q) : k # i => \E j \in 1 .. Len(q) - 1 : at[j] = k
  <2> SUFFICES ASSUME NEW k \in 1 .. Len(q), k # i
               PROVE  \E j \in 1 .. Len(q) - 1 : at[j] = k
    OBVIOUS
  <2>1. CASE k < i
    <3>1. k \in 1 .. Len(q) - 1 /\ at[k] = k
      BY <1>1, <2>1
    <3> QED
      BY <3>1
  <2>2. CASE ~ (k < i)
    <3>1. k - 1 \in 1 .. Len(q) - 1 /\ at[k - 1] = k
      BY <1>1, <2>2
    <3> QED
      BY <3>1
  <2> QED
    BY <2>1, <2>2
<1> HIDE DEF at
<1>5. \A j, k \in 1 .. Len(q) : q[j].id = q[k].id => j = k
  BY <1>1 DEF DistinctIds
<1>6. Ids(t) = Ids(q) \ {q[i].id}
  <2>1. ASSUME NEW j \in 1 .. Len(q) - 1 PROVE t[j].id \in Ids(q) \ {q[i].id}
    <3>1. at[j] \in 1 .. Len(q) /\ at[j] # i /\ t[j] = q[at[j]]
      BY <1>1, <1>2
    <3>2. q[at[j]].id # q[i].id
      BY <1>5, <3>1
    <3> QED
      BY <1>1, <3>1, <3>2 DEF Ids
  <2>2. ASSUME NEW k \in 1 .. Len(q), q[k].id # q[i].id PROVE q[k].id \in Ids(t)
    <3>1. PICK j \in 1 .. Len(q) - 1 : at[j] = k
      BY <1>4, <2>2
    <3>2. t[j] = q[k]
      BY <1>1, <3>1
    <3> QED
      BY <1>1, <3>2 DEF Ids
  <2>3. \A x \in Ids(t) : x \in Ids(q) \ {q[i].id}
    BY <1>1, <2>1 DEF Ids
  <2>4. \A x \in Ids(q) : x # q[i].id => x \in Ids(t)
    <3> SUFFICES ASSUME NEW x \in Ids(q), x # q[i].id PROVE x \in Ids(t)
      OBVIOUS
    <3>1. PICK k \in 1 .. Len(q) : x = q[k].id
      BY <1>1 DEF Ids
    <3> QED
      BY <2>2, <3>1
  <2> QED
    BY <2>3, <2>4
<1>7. DistinctIds(t)
  BY <1>1, <1>2, <1>3, <1>5 DEF DistinctIds
<1> QED
  BY <1>6, <1>7 DEF t

\* A command enters at the end.
LEMMA AppendedIds ==
  ASSUME NEW S, NEW q \in Seq(S), NEW r \in S, r.id \notin Ids(q), DistinctIds(q)
  PROVE  /\ Append(q, r) \in Seq(S)
         /\ Ids(Append(q, r)) = Ids(q) \cup {r.id}
         /\ DistinctIds(Append(q, r))
<1> DEFINE t == Append(q, r)
<1>1. /\ DOMAIN q = 1 .. Len(q) /\ Len(q) \in Nat
      /\ t \in Seq(S) /\ DOMAIN t = 1 .. Len(q) + 1
      /\ \A j \in 1 .. Len(q) : t[j] = q[j]
      /\ t[Len(q) + 1] = r
  OBVIOUS
<1> HIDE DEF t
<1>2. \A j \in 1 .. Len(q) + 1 : j \in 1 .. Len(q) \/ j = Len(q) + 1
  BY <1>1
<1>3. \A j \in 1 .. Len(q) : j \in 1 .. Len(q) + 1
  BY <1>1
<1>4. \A j, k \in 1 .. Len(q) : q[j].id = q[k].id => j = k
  BY <1>1 DEF DistinctIds
<1>5. \A j \in 1 .. Len(q) : q[j].id # r.id
  BY <1>1 DEF Ids
<1>6. Ids(t) = Ids(q) \cup {r.id}
  <2>1. Len(q) + 1 \in DOMAIN t
    BY <1>1
  <2> QED
    BY <1>1, <1>2, <1>3, <2>1 DEF Ids
<1>7. DistinctIds(t)
  BY <1>1, <1>2, <1>4, <1>5 DEF DistinctIds
<1> QED
  BY <1>1, <1>6, <1>7 DEF t

\* A command that stays in its place keeps its id.
LEMMA ReplacedIds ==
  ASSUME NEW S, NEW q \in Seq(S), NEW i \in 1 .. Len(q), NEW r \in S, r.id = q[i].id
  PROVE  /\ [q EXCEPT ![i] = r] \in Seq(S)
         /\ Ids([q EXCEPT ![i] = r]) = Ids(q)
         /\ DistinctIds(q) => DistinctIds([q EXCEPT ![i] = r])
<1> DEFINE t == [q EXCEPT ![i] = r]
<1>1. t \in Seq(S) /\ DOMAIN t = 1 .. Len(q) /\ DOMAIN q = 1 .. Len(q)
  OBVIOUS
<1>2. \A j \in 1 .. Len(q) : t[j].id = q[j].id
  BY <1>1
<1> HIDE DEF t
<1>3. Ids(t) = Ids(q) /\ (DistinctIds(q) => DistinctIds(t))
  BY <1>1, <1>2 DEF Ids, DistinctIds
<1> QED
  BY <1>1, <1>3 DEF t

\* The commands of a queue of departures, and how they change with it.
LEMMA UnderTicked ==
  ASSUME NEW q, InOrder(q, 1, Delay)
  PROVE  Under([i \in DOMAIN q |-> [q[i] EXCEPT !.left = @ - 1]]) = Under(q)
<1> DEFINE u == [i \in DOMAIN q |-> [q[i] EXCEPT !.left = @ - 1]]
<1>1. DOMAIN q = 1 .. Len(q)
  BY DEF InOrder
<1>2. ASSUME NEW i \in DOMAIN q PROVE u[i].r = q[i].r
  <2> DEFINE r == q[i].r
             left == q[i].left
  <2>1. q[i] = [r |-> r, left |-> left]
    BY <1>1 DEF InOrder
  <2> HIDE DEF r, left
  <2>2. [q[i] EXCEPT !.left = @ - 1] = [r |-> r, left |-> left - 1]
    BY <2>1
  <2>3. u[i] = [r |-> r, left |-> left - 1]
    BY <2>2
  <2> HIDE DEF u
  <2>4. u[i].r = r
    BY <2>3
  <2> QED
    BY <2>4 DEF r
<1>3. DOMAIN u = DOMAIN q
  OBVIOUS
<1> HIDE DEF u
<1>4. Under(u) = Under(q)
  BY <1>2, <1>3 DEF Under
<1> QED
  BY <1>4 DEF u

LEMMA UnderTail ==
  ASSUME NEW q, q \in Seq(Range(q)), q # <<>>
  PROVE  Under(Tail(q)) = RemoveAt(Under(q), 1) /\ Under(q)[1] = Head(q).r
<1> DEFINE u == Under(q)
           t == Tail(q)
<1>1. /\ Len(q) \in Nat \ {0} /\ DOMAIN q = 1 .. Len(q) /\ Head(q) = q[1]
      /\ DOMAIN t = 1 .. Len(q) - 1
      /\ \A i \in 1 .. Len(q) - 1 : t[i] = q[i + 1]
  OBVIOUS
<1> HIDE DEF t
<1>2. /\ u = [i \in 1 .. Len(q) |-> q[i].r]
      /\ u \in Seq(Range(u)) /\ Len(u) = Len(q) /\ 1 \in 1 .. Len(u)
  <2>1. u = [i \in 1 .. Len(q) |-> q[i].r]
    BY <1>1 DEF Under
  <2> HIDE DEF u
  <2>2. u \in [1 .. Len(q) -> Range(u)]
    BY <2>1 DEF Range
  <2> QED
    BY <1>1, <2>1, <2>2
<1> DEFINE w == RemoveAt(u, 1)
<1> HIDE DEF u
<1>3. /\ w \in Seq(Range(u)) /\ Len(w) = Len(q) - 1
      /\ \A j \in 1 .. Len(q) - 1 : w[j] = IF j < 1 THEN u[j] ELSE u[j + 1]
  BY <1>2, Removed
<1> HIDE DEF w
<1>4. w = [j \in 1 .. Len(q) - 1 |-> w[j]]
  BY <1>1, <1>3
<1>5. ASSUME NEW j \in 1 .. Len(q) - 1 PROVE w[j] = t[j].r
  <2>1. j + 1 \in 1 .. Len(q) /\ ~ (j < 1)
    BY <1>1
  <2> QED
    BY <1>1, <1>2, <1>3, <2>1
<1>6. Under(t) = w
  BY <1>1, <1>4, <1>5 DEF Under
<1> QED
  BY <1>1, <1>2, <1>6 DEF u, w, t

LEMMA UnderDeparting ==
  ASSUME NEW q, q \in Seq(Range(q)), NEW r
  PROVE  Under(Departing(q, r)) = Append(Under(q), r)
<1> DEFINE e == [r |-> r, left |-> T.nCL + T.nBL]
           S == Range(q) \cup {e}
           p == Append(q, e)
<1>1. Len(q) \in Nat /\ DOMAIN q = 1 .. Len(q)
  OBVIOUS
<1>2. e.r = r
  OBVIOUS
<1> HIDE DEF e
<1>3. q \in Seq(S) /\ e \in S
  <2>1. \A i \in 1 .. Len(q) : q[i] \in S
    BY <1>1 DEF Range
  <2> HIDE DEF S
  <2> QED
    <3>1. q \in Seq(S)
      BY <1>1, <2>1
    <3> QED
      BY <3>1 DEF S
<1> HIDE DEF S
<1>4. /\ DOMAIN p = 1 .. Len(q) + 1
      /\ \A i \in 1 .. Len(q) + 1 : p[i] = IF i = Len(q) + 1 THEN e ELSE q[i]
  BY <1>1, <1>3
<1> HIDE DEF p
<1> DEFINE u == Under(q)
           R == Range(u) \cup {r}
           a == Append(u, r)
<1>5. /\ DOMAIN u = 1 .. Len(q) /\ \A i \in 1 .. Len(q) : u[i] = q[i].r
      /\ u = [i \in 1 .. Len(q) |-> u[i]]
  BY <1>1 DEF Under
<1> HIDE DEF u
<1>6. u \in Seq(R) /\ r \in R /\ Len(u) = Len(q)
  <2>1. u \in [1 .. Len(q) -> R]
    BY <1>5 DEF Range
  <2> HIDE DEF R
  <2>2. u \in Seq(R) /\ Len(u) = Len(q)
    BY <1>1, <2>1
  <2> QED
    BY <2>2 DEF R
<1> HIDE DEF R
<1>7. /\ a = [i \in 1 .. Len(q) + 1 |-> a[i]]
      /\ \A i \in 1 .. Len(q) + 1 : a[i] = IF i = Len(q) + 1 THEN r ELSE u[i]
  <2>1. /\ a \in Seq(R) /\ Len(a) = Len(q) + 1
        /\ \A i \in 1 .. Len(q) + 1 : a[i] = IF i = Len(q) + 1 THEN r ELSE u[i]
    BY <1>1, <1>6
  <2> HIDE DEF a
  <2>2. a = [i \in 1 .. Len(a) |-> a[i]]
    BY <2>1
  <2> QED
    BY <2>1, <2>2
<1> HIDE DEF a
<1>8. ASSUME NEW i \in 1 .. Len(q) + 1 PROVE p[i].r = a[i]
  <2>1. i = Len(q) + 1 \/ i \in 1 .. Len(q)
    BY <1>1
  <2> QED
    BY <1>1, <1>2, <1>4, <1>5, <1>7, <2>1
<1>9. Under(p) = a
  BY <1>4, <1>7, <1>8 DEF Under
<1> QED
  BY <1>9 DEF Departing, p, e, a, u

-----------------------------------------------------------------------------
(* One command moves *)

\* One id leaves a buffer; it enters one.
Loses(I, J, b, x) ==
  /\ DOMAIN I = Held /\ DOMAIN J = Held
  /\ \A c \in Held : J[c] = IF c = b THEN I[c] \ {x} ELSE I[c]
Gains(I, J, b, x) ==
  /\ DOMAIN I = Held /\ DOMAIN J = Held
  /\ \A c \in Held : J[c] = IF c = b THEN I[c] \cup {x} ELSE I[c]

\* An id that leaves a buffer may go to any other place.
LEMMA PartedMoves ==
  ASSUME NEW I, NEW J, NEW b \in Held, NEW x \in I[b], Loses(I, J, b, x),
         NEW under, NEW done, NEW n, Parted(I, under, done, n)
  PROVE  /\ Parted(J, under \cup {x}, done, n)
         /\ Parted(J, under, done \cup {x}, n)
         /\ x \in 1 .. n /\ x \notin done /\ x \notin under
         /\ \A c \in Held : x \notin J[c]
<1>0. \A c \in Held : J[c] = IF c = b THEN I[c] \ {x} ELSE I[c]
  BY DEF Loses
<1>1. x \in 1 .. n /\ x \notin done /\ x \notin under
  BY DEF Parted
<1>2. \A c, d \in Held : c # d => J[c] \cap J[d] = {}
  BY <1>0 DEF Parted
<1>3. \A c \in Held : x \notin J[c] /\ J[c] \subseteq I[c]
  BY <1>0 DEF Parted
<1>4. \A c \in Held : J[c] \cap (under \cup done \cup {x}) = {}
  BY <1>3 DEF Parted
<1>5. UNION {I[c] : c \in Held} = (UNION {J[c] : c \in Held}) \cup {x}
  <2>1. \A c \in Held : I[c] \subseteq J[c] \cup {x}
    BY <1>0
  <2>2. x \in UNION {I[c] : c \in Held}
    OBVIOUS
  <2> QED
    BY <1>3, <2>1, <2>2
<1> DEFINE all == UNION {J[c] : c \in Held}
<1>6. 1 .. n = all \cup {x} \cup under \cup done /\ under \cap done = {}
  BY <1>5 DEF Parted
<1>7. Parted(J, under \cup {x}, done, n)
  <2>1. \A c \in Held : J[c] \cap ((under \cup {x}) \cup done) = {}
    BY <1>4
  <2>2. (under \cup {x}) \cap done = {}
    BY <1>1, <1>6
  <2> HIDE DEF all
  <2>3. 1 .. n = all \cup (under \cup {x}) \cup done
    BY <1>6
  <2> QED
    BY <1>2, <2>1, <2>2, <2>3 DEF Parted, all
<1>8. Parted(J, under, done \cup {x}, n)
  <2>1. \A c \in Held : J[c] \cap (under \cup (done \cup {x})) = {}
    BY <1>4
  <2>2. under \cap (done \cup {x}) = {}
    BY <1>1, <1>6
  <2> HIDE DEF all
  <2>3. 1 .. n = all \cup under \cup (done \cup {x})
    BY <1>6
  <2> QED
    BY <1>2, <2>1, <2>2, <2>3 DEF Parted, all
<1> QED
  BY <1>1, <1>3, <1>7, <1>8

LEMMA PartedReturns ==
  ASSUME NEW J, NEW K, NEW c \in Held, NEW x, Gains(J, K, c, x),
         NEW under, NEW done, NEW n, Parted(J, under \cup {x}, done, n), x \notin under
  PROVE  Parted(K, under, done, n)
<1>0. \A d \in Held : K[d] = IF d = c THEN J[d] \cup {x} ELSE J[d]
  BY DEF Gains
<1>1. \A d \in Held : x \notin J[d] /\ J[d] \cap (under \cup done) = {}
  BY DEF Parted
<1>2. \A d, e \in Held : d # e => K[d] \cap K[e] = {}
  BY <1>0, <1>1 DEF Parted
<1>3. \A d \in Held : K[d] \cap (under \cup done) = {}
  <2>1. x \notin done
    BY DEF Parted
  <2>2. \A d \in Held : K[d] \subseteq J[d] \cup {x}
    BY <1>0
  <2> QED
    BY <1>1, <2>1, <2>2
<1>4. UNION {K[d] : d \in Held} = (UNION {J[d] : d \in Held}) \cup {x}
  <2>1. \A d \in Held : J[d] \subseteq K[d] /\ K[d] \subseteq J[d] \cup {x}
    BY <1>0
  <2>2. x \in UNION {K[d] : d \in Held}
    BY <1>0
  <2> QED
    BY <2>1, <2>2
<1> QED
  BY <1>2, <1>3, <1>4 DEF Parted

LEMMA PartedArrives ==
  ASSUME NEW I, NEW under, NEW done, NEW n, Parted(I, under, done, n), NEW x \in under
  PROVE  /\ Parted(I, under \ {x}, done \cup {x}, n)
         /\ x \in 1 .. n /\ x \notin done
BY DEF Parted

\* A command that is done is counted, once.
LEMMA CalledBackOK ==
  ASSUME NEW p, RequestOK(p), NEW r \in CommandsOf(p.kind, 1),
         r.id \in 1 .. p.n, r.id \notin p.done
  PROVE  /\ RequestOK(CalledBack(p, r))
         /\ CalledBack(p, r).kind = p.kind /\ CalledBack(p, r).n = p.n
         /\ CalledBack(p, r).done = p.done \cup {r.id}
<1> DEFINE kind == p.kind
           n == p.n
           done == p.done
           issued == p.issued
           sum == [k \in DOMAIN issued |-> issued[k] + r.issued[k]]
<1>1. /\ p = [kind |-> kind, n |-> n, done |-> done, issued |-> issued]
      /\ DOMAIN issued = Counters
      /\ kind \in {"none", "kRead", "kWrite", "GEMV"} /\ n \in Nat /\ done \subseteq 1 .. n
      /\ issued \in [Counters -> Nat] /\ Filled(kind, Cardinality(done), issued)
  BY DEF RequestOK
<1>2. r.issued \in [Counters -> Nat] /\ Filled(kind, 1, r.issued)
  BY DEF CommandsOf, CommandRecords
<1>3. sum \in [Counters -> Nat] /\ \A k \in Counters : sum[k] = issued[k] + r.issued[k]
  BY <1>1, <1>2
<1>4. Cardinality(done \cup {r.id}) = Cardinality(done) + 1 /\ Cardinality(done) \in Nat
  <2> HIDE DEF done, n
  <2>0. done \subseteq 1 .. n /\ n \in Int /\ 1 \in Int
    BY <1>1
  <2>1. IsFiniteSet(1 .. n)
    BY <2>0, FS_Interval
  <2>2. IsFiniteSet(done)
    BY <2>0, <2>1, FS_Subset
  <2> QED
    BY <2>2, FS_AddElement, FS_CardinalityType DEF done
<1> HIDE DEF sum
<1>5. Filled(kind, Cardinality(done \cup {r.id}), sum)
  <2>1. \A k \in EndCounters : k \in Counters
    BY DEF EndCounters, Counters, Range, DRAMCommandType
  <2> QED
    BY <1>1, <1>2, <1>3, <1>4, <2>1 DEF Filled
<1> HIDE DEF kind, n, done, issued
<1>6. CalledBack(p, r) = [kind |-> kind, n |-> n, done |-> done \cup {r.id}, issued |-> sum]
  <2>1. CalledBack(p, r) = [p EXCEPT !.done = done \cup {r.id}, !.issued = sum]
    BY DEF CalledBack, sum, done, issued
  <2> HIDE DEF sum
  <2> QED
    BY <1>1, <2>1
<1>7. RequestOK([kind |-> kind, n |-> n, done |-> done \cup {r.id}, issued |-> sum])
  <2>1. done \cup {r.id} \subseteq 1 .. n
    BY <1>1 DEF n
  <2> QED
    BY <1>1, <1>3, <1>5, <2>1 DEF RequestOK
<1> QED
  BY <1>6, <1>7 DEF kind, n, done, issued

-----------------------------------------------------------------------------
(* Which command is issued, and what it counts *)

\* A command is filed under its number.
LEMMA CommandIds ==
  /\ CommandId("ACT") = 0 /\ CommandId("ALL-ACT") = 1 /\ CommandId("PRE") = 2
  /\ CommandId("PREA") = 3 /\ CommandId("ALL-PRE") = 4 /\ CommandId("RD") = 5
  /\ CommandId("WR") = 6 /\ CommandId("ALL-RD") = 9 /\ CommandId("REFab") = 11
<1>1. DOMAIN CommandName = 1 .. 12
  BY DEF CommandName
<1>2. \A i, j \in 1 .. 12 : CommandName[i] = CommandName[j] => i = j
  BY DEF CommandName
<1>3. \A i \in 1 .. 12 : CommandId(CommandName[i]) = i - 1
  BY <1>1, <1>2 DEF CommandId
<1>4. /\ CommandName[1] = "ACT" /\ CommandName[2] = "ALL-ACT" /\ CommandName[3] = "PRE"
      /\ CommandName[4] = "PREA" /\ CommandName[5] = "ALL-PRE" /\ CommandName[6] = "RD"
      /\ CommandName[7] = "WR" /\ CommandName[10] = "ALL-RD" /\ CommandName[12] = "REFab"
  BY DEF CommandName
<1> HIDE DEF CommandName
<1> QED
  BY <1>3, <1>4

LEMMA CommandCounters ==
  /\ CountedAs("ACT") = "kACT" /\ CountedAs("ALL-ACT") = "kALL_ACT"
  /\ CountedAs("PRE") = "none" /\ CountedAs("PREA") = "none"
  /\ CountedAs("ALL-PRE") = "kALL_PRE" /\ CountedAs("RD") = "kREAD"
  /\ CountedAs("WR") = "kWRITE" /\ CountedAs("ALL-RD") = "kALL_READ"
  /\ CountedAs("REFab") = "kREF"
BY CommandIds DEF CountedAs

LEMMA CounterNames ==
  Counters = {"kACT", "kPRE", "kPREA", "kALL_PRE", "kREAD", "kWRITE",
              "kALL_ACT", "kALL_READ", "kALL_WRITE", "kREF"}
<1>1. DOMAIN DRAMCommandType = 1 .. 10
  BY DEF DRAMCommandType
<1>2. \A k \in Counters : \E i \in 1 .. 10 : k = DRAMCommandType[i]
  BY <1>1 DEF Counters, Range
<1>3. \A i \in 1 .. 10 : DRAMCommandType[i] \in Counters
  BY <1>1 DEF Counters, Range
<1>4. /\ DRAMCommandType[1] = "kACT" /\ DRAMCommandType[2] = "kPRE"
      /\ DRAMCommandType[3] = "kPREA" /\ DRAMCommandType[4] = "kALL_PRE"
      /\ DRAMCommandType[5] = "kREAD" /\ DRAMCommandType[6] = "kWRITE"
      /\ DRAMCommandType[7] = "kALL_ACT" /\ DRAMCommandType[8] = "kALL_READ"
      /\ DRAMCommandType[9] = "kALL_WRITE" /\ DRAMCommandType[10] = "kREF"
  BY DEF DRAMCommandType
<1>5. \A i \in 1 .. 10 : i \in {1, 2, 3, 4, 5, 6, 7, 8, 9, 10}
  OBVIOUS
<1>6. \A k \in Counters : k \in {"kACT", "kPRE", "kPREA", "kALL_PRE", "kREAD", "kWRITE",
              "kALL_ACT", "kALL_READ", "kALL_WRITE", "kREF"}
  BY <1>2, <1>4, <1>5
<1>7. {1, 2, 3, 4, 5, 6, 7, 8, 9, 10} \subseteq 1 .. 10
  OBVIOUS
<1> QED
  BY <1>3, <1>4, <1>6, <1>7

\* What a request of each kind does to the row of its bank, and its last command.
EndCommand(kind) ==
  CASE kind = "kRead" -> "RD" [] kind = "kWrite" -> "WR" [] OTHER -> "ALL-RD"
RowCommands == {"ACT", "ALL-ACT", "PRE", "ALL-PRE"}

LEMMA EndOfCommand ==
  ASSUME NEW kind, NEW n, NEW r \in CommandsOf(kind, n)
  PROVE  /\ kind \in {"kRead", "kWrite", "GEMV"}
         /\ FinalCommand(r.type) = EndCommand(kind)
         /\ EndCommand(kind) \in {"RD", "WR", "ALL-RD"}
         /\ CountedAs(EndCommand(kind)) = CounterOfRequest[kind]
         /\ CounterOfRequest[kind] \in EndCounters
         /\ kind = "kWrite" <=> r.type \in {"Write", "AllWrite"}
         /\ kind # "kWrite" <=> r.type \in {"Read", "AllRead"}
<1>1. kind \in {"kRead", "kWrite", "GEMV"} /\ r.type = TypeOfRequest[kind]
  BY DEF CommandsOf, TypeOfRequest
<1>2. CASE kind = "kRead"
  <2>1. r.type = "Read" /\ CounterOfRequest[kind] = "kREAD" /\ EndCommand(kind) = "RD"
    BY <1>1, <1>2 DEF TypeOfRequest, CounterOfRequest, EndCommand
  <2> QED
    BY <1>2, <2>1, CommandCounters DEF FinalCommand, EndCounters
<1>3. CASE kind = "kWrite"
  <2>1. r.type = "Write" /\ CounterOfRequest[kind] = "kWRITE" /\ EndCommand(kind) = "WR"
    BY <1>1, <1>3 DEF TypeOfRequest, CounterOfRequest, EndCommand
  <2> QED
    BY <1>3, <2>1, CommandCounters DEF FinalCommand, EndCounters
<1>4. CASE kind = "GEMV"
  <2>1. /\ r.type = "AllRead" /\ CounterOfRequest[kind] = "kALL_READ"
        /\ EndCommand(kind) = "ALL-RD"
    BY <1>1, <1>4 DEF TypeOfRequest, CounterOfRequest, EndCommand
  <2> QED
    BY <1>4, <2>1, CommandCounters DEF FinalCommand, EndCounters
<1> QED
  BY <1>1, <1>2, <1>3, <1>4

LEMMA AskedCommand ==
  ASSUME NEW kind, NEW r \in CommandsOf(kind, 0), NEW d
  PROVE  CommandOf(d, r) \in RowCommands \cup {EndCommand(kind)}
BY EndOfCommand DEF CommandOf, Preq, RowCommands

\* The end counter tells whether the last command of a request has been issued.
LEMMA CommandCounted ==
  ASSUME NEW kind, NEW r \in CommandsOf(kind, 0), NEW c \in RowCommands \cup {EndCommand(kind)}
  PROVE  /\ UpdateState(r, c) \in CommandsOf(kind, IF c = EndCommand(kind) THEN 1 ELSE 0)
         /\ UpdateState(r, c).id = r.id /\ UpdateState(r, c).addr = r.addr
         /\ UpdateState(r, c).type = r.type
<1> DEFINE k == CountedAs(c)
           u == UpdateState(r, c)
           issued == [r.issued EXCEPT ![k] = @ + 1]
<1>1. /\ r.issued \in [Counters -> Nat] /\ Filled(kind, 0, r.issued)
      /\ r = [id |-> r.id, type |-> r.type, addr |-> r.addr, issued |-> r.issued]
      /\ r.id \in Nat /\ r.type \in {"Read", "Write", "AllRead"}
      /\ r.addr \in [path : Banks, row : Nat]
      /\ kind \in DOMAIN TypeOfRequest /\ r.type = TypeOfRequest[kind]
  BY DEF CommandsOf, CommandRecords
<1>2. /\ c = EndCommand(kind) => k = CounterOfRequest[kind] /\ k \in EndCounters
      /\ c # EndCommand(kind) => k \notin EndCounters
      /\ k # "none" => k \in Counters
  <2>1. c = EndCommand(kind) => k = CounterOfRequest[kind] /\ k \in EndCounters
    BY EndOfCommand
  <2>2. c # EndCommand(kind) => k \in {"kACT", "kALL_ACT", "none", "kALL_PRE"}
    BY CommandCounters DEF RowCommands
  <2> QED
    BY <2>1, <2>2, CounterNames DEF EndCounters
<1>3. CASE k = "none"
  <2>1. c # EndCommand(kind) /\ u = r
    BY <1>2, <1>3 DEF EndCounters, UpdateState
  <2> QED
    BY <2>1
<1>4. CASE k # "none"
  <2>1. u = [r EXCEPT !.issued = issued]
    BY <1>4 DEF UpdateState
  <2>2. /\ issued \in [Counters -> Nat]
        /\ \A l \in Counters : issued[l] = IF l = k THEN r.issued[l] + 1 ELSE r.issued[l]
    BY <1>1, <1>2, <1>4
  <2> HIDE DEF issued, u
  <2>3. u = [id |-> r.id, type |-> r.type, addr |-> r.addr, issued |-> issued]
    BY <1>1, <2>1
  <2>4. Filled(kind, IF c = EndCommand(kind) THEN 1 ELSE 0, issued)
    <3>1. \A l \in EndCounters : l \in Counters
      BY CounterNames DEF EndCounters
    <3> QED
      BY <1>1, <1>2, <2>2, <3>1 DEF Filled
  <2>5. u \in CommandRecords
    BY <1>1, <2>2, <2>3 DEF CommandRecords
  <2>6. u.type = r.type /\ u.id = r.id /\ u.addr = r.addr /\ u.issued = issued
    BY <2>3
  <2> QED
    BY <1>1, <2>4, <2>5, <2>6 DEF CommandsOf, u
<1> QED
  BY <1>3, <1>4

\* A refresh asks for all banks to be closed first.
LEMMA RefreshCounted ==
  ASSUME NEW r \in RefreshRecords, NEW d
  PROVE  /\ CommandOf(d, r) \in {"REFab", "PREA"} /\ FinalCommand(r.type) = "REFab"
         /\ UpdateState(r, CommandOf(d, r)) \in RefreshRecords
         /\ UpdateState(r, CommandOf(d, r)).addr = r.addr
         /\ UpdateState(r, CommandOf(d, r)).type = "Refresh"
<1> DEFINE c == CommandOf(d, r)
           u == UpdateState(r, c)
           issued == [r.issued EXCEPT !["kREF"] = @ + 1]
<1>1. /\ r.type = "Refresh" /\ r.issued \in [Counters -> Nat]
      /\ r = [id |-> r.id, type |-> r.type, addr |-> r.addr, issued |-> r.issued]
      /\ r.id \in Nat /\ r.addr \in [path : Seq(Nat), row : {-1}]
  BY DEF RefreshRecords
<1>2. FinalCommand(r.type) = "REFab"
  BY <1>1 DEF FinalCommand
<1>3. c \in {"REFab", "PREA"}
  BY <1>2 DEF CommandOf, Preq
<1> HIDE DEF c
<1>4. u = r \/ u = [r EXCEPT !.issued = issued]
  BY <1>3, CommandCounters DEF UpdateState
<1>5. issued \in [Counters -> Nat]
  BY <1>1, CounterNames
<1> HIDE DEF issued, u
<1>6. u = r \/ u = [id |-> r.id, type |-> r.type, addr |-> r.addr, issued |-> issued]
  BY <1>1, <1>4
<1>7. u \in RefreshRecords /\ u.addr = r.addr /\ u.type = "Refresh"
  BY <1>1, <1>5, <1>6 DEF RefreshRecords
<1> QED
  BY <1>2, <1>3, <1>7 DEF c, u

-----------------------------------------------------------------------------
(* The scheduler *)

LEMMA WindowIs ==
  ASSUME NEW S, NEW b \in Seq(S)
  PROVE  Window(b) = 1 .. (IF BufferSize <= Len(b) THEN BufferSize ELSE Len(b))
<1> DEFINE m == IF BufferSize <= Len(b) THEN BufferSize ELSE Len(b)
           M == {BufferSize, Len(b)}
<1>1. BufferSize \in Nat \ {0} /\ Len(b) \in Nat
  BY ControllerAssumption
<1>2. m \in M /\ \A y \in M : m <= y
  BY <1>1
<1>3. \A x \in M : (\A y \in M : x <= y) => x = m
  BY <1>1
<1>4. (CHOOSE x \in M : \A y \in M : x <= y) = m
  BY <1>2, <1>3
<1> QED
  BY <1>4 DEF Window, Min

\* The best entry is one of those the scheduler looks at; it is ready if any is.
LEMMA BestInWindow ==
  ASSUME NEW S, NEW b \in Seq(S), b # <<>>, NEW d
  PROVE  /\ Best(d, b) \in Window(b) /\ Window(b) \subseteq 1 .. Len(b)
         /\ \A i \in Window(b) : Ready(d, b[i]) => Ready(d, b[Best(d, b)])
<1> DEFINE ready == {i \in Window(b) : Ready(d, b[i])}
<1>1. Len(b) \in Nat \ {0} /\ BufferSize \in Nat \ {0}
  BY ControllerAssumption
<1>2. Window(b) \subseteq 1 .. Len(b) /\ 1 \in Window(b)
  BY <1>1, WindowIs
<1>3. CASE ready = {}
  BY <1>2, <1>3 DEF Best
<1>4. CASE ready # {}
  <2>1. ready \in SUBSET Nat
    BY <1>2
  <2> HIDE DEF ready
  <2>2. Min(ready) \in ready
    BY <1>4, <2>1, LeastElement DEF Min
  <2>3. Best(d, b) = Min(ready)
    BY <1>4 DEF Best, ready
  <2> QED
    BY <1>2, <2>2, <2>3 DEF ready
<1> QED
  BY <1>3, <1>4

\* What the scheduler finds is an entry of a buffer and the command it needs.
\* An active entry comes first if it is ready, a request of PIM next.
LEMMA ScheduleFinds ==
  ASSUME NEW buf, NEW p, BuffersOK(buf, p), NEW d, NEW mode, Schedule(d, buf, mode).found
  PROVE  LET s == Schedule(d, buf, mode)
             r == buf[s.from][s.at]
         IN  /\ s.from \in Buffers
             /\ s.at \in 1 .. Len(buf[s.from])
             /\ s.command = CommandOf(d, r) /\ Ready(d, r)
             /\ ~ Interrupts(s.command, r.addr, buf["active"])
             /\ s.from # "active" => ~ ReadyBest(d, buf["active"])
<1> DEFINE early == IF ReadyBest(d, buf["active"]) THEN "active"
                    ELSE IF ReadyBest(d, buf["pim"]) THEN "pim" ELSE "none"
           asks  == early = "none" /\ buf["priority"] = <<>>
           mode1 == IF asks THEN SetWriteMode(buf, mode) ELSE mode
           late  == IF mode1 THEN "write" ELSE "read"
           from  == CASE early # "none" -> early
                      [] early = "none" /\ ~ asks ->
                           IF Ready(d, Head(buf["priority"])) THEN "priority" ELSE "none"
                      [] asks -> IF ReadyBest(d, buf[late]) THEN late ELSE "none"
           at    == IF from = "priority" THEN 1 ELSE Best(d, buf[from])
           r     == buf[from][at]
           c     == CommandOf(d, r)
           s     == Schedule(d, buf, mode)
<1>1. s = IF from = "none" \/ Interrupts(c, r.addr, buf["active"])
          THEN [found |-> FALSE, mode |-> mode1]
          ELSE [found |-> TRUE, mode |-> mode1, from |-> from, at |-> at, command |-> c]
  BY DEF Schedule
<1>2. late \in {"read", "write"}
  OBVIOUS
<1>3. early \in {"active", "pim", "none"}
  OBVIOUS
<1>4. /\ early = "active" => ReadyBest(d, buf["active"])
      /\ early = "pim" => ReadyBest(d, buf["pim"])
      /\ early # "active" => ~ ReadyBest(d, buf["active"])
  OBVIOUS
<1> HIDE DEF early, late, mode1
<1> DEFINE fits(x) ==
      \/ x = "none"
      \/ x \in {"active", "pim", "read", "write"} /\ ReadyBest(d, buf[x])
      \/ x = "priority" /\ buf["priority"] # <<>> /\ Ready(d, Head(buf["priority"]))
<1>5. fits(from) /\ (from = "active" \/ from = "none" \/ ~ ReadyBest(d, buf["active"]))
  <2>1. CASE early # "none"
    <3>1. from = early
      BY <2>1
    <3> HIDE DEF from
    <3> QED
      BY <1>3, <1>4, <3>1
  <2>2. CASE early = "none" /\ ~ asks
    <3>1. from = IF Ready(d, Head(buf["priority"])) THEN "priority" ELSE "none"
      BY <2>2
    <3>2. buf["priority"] # <<>>
      BY <2>2
    <3> HIDE DEF from
    <3> QED
      BY <1>4, <2>2, <3>1, <3>2
  <2>3. CASE early = "none" /\ asks
    <3>1. from = IF ReadyBest(d, buf[late]) THEN late ELSE "none"
      BY <2>3
    <3> HIDE DEF from
    <3> QED
      BY <1>2, <1>4, <2>3, <3>1
  <2> QED
    BY <2>1, <2>2, <2>3
<1> HIDE DEF from
<1>7. from # "none" /\ ~ Interrupts(c, r.addr, buf["active"])
  BY <1>1
<1>8. CASE from = "priority"
  <2>1. buf["priority"] \in Seq(RefreshRecords) /\ at = 1
    BY <1>8 DEF BuffersOK
  <2>2. 1 \in 1 .. Len(buf["priority"]) /\ Head(buf["priority"]) = buf["priority"][1]
    BY <1>5, <1>8, <2>1
  <2>3. at \in 1 .. Len(buf[from]) /\ Ready(d, r)
    BY <1>5, <1>8, <2>1, <2>2
  <2> QED
    BY <1>1, <1>5, <1>7, <1>8, <2>3 DEF Buffers
<1>9. CASE from # "priority"
  <2>1. from \in Held /\ buf[from] \in Seq(CommandsOf(p.kind, 0)) /\ at = Best(d, buf[from])
    BY <1>5, <1>7, <1>9 DEF BuffersOK, Held, Buffers
  <2>2. buf[from] # <<>> /\ Ready(d, buf[from][Best(d, buf[from])])
    BY <1>5, <1>7, <1>9 DEF ReadyBest
  <2>3. Best(d, buf[from]) \in 1 .. Len(buf[from])
    BY <2>1, <2>2, BestInWindow
  <2>4. at \in 1 .. Len(buf[from]) /\ Ready(d, r) /\ from \in Buffers
    BY <2>1, <2>2, <2>3 DEF Held
  <2> QED
    BY <1>1, <1>5, <1>7, <2>4
<1> QED
  BY <1>8, <1>9

-----------------------------------------------------------------------------
(* The device *)

\* A set of numbers that none exceeds has a largest one.
LEMMA BoundedMax ==
  ASSUME NEW S \in SUBSET Int, S # {}, NEW n \in Int, \A x \in S : x <= n
  PROVE  Max(S) \in S /\ \A x \in S : x <= Max(S)
<1> DEFINE D == {n - x : x \in S}
<1>1. D \in SUBSET Nat /\ D # {}
  <2>1. \A x \in S : x \in Int /\ n - x \in Nat
    OBVIOUS
  <2> QED
    BY <2>1
<1>2. PICK y \in D : \A z \in D : y <= z
  BY <1>1, LeastElement
<1>3. PICK m \in S : y = n - m
  OBVIOUS
<1>4. \A x \in S : x <= m
  <2> SUFFICES ASSUME NEW x \in S PROVE x <= m
    OBVIOUS
  <2>1. n - x \in D
    OBVIOUS
  <2>2. y <= n - x
    BY <1>2, <2>1
  <2> QED
    BY <1>3, <2>2
<1>5. m \in S /\ \A x \in S : m >= x
  BY <1>4
<1> QED
  BY <1>5 DEF Max

\* Three numbers that make up the latencies are below a fourth.
LEMMA NumberAbove ==
  ASSUME NEW S \in SUBSET Nat, IsFiniteSet(S), S # {}
  PROVE  \E n \in Nat : /\ \A x \in S : x <= n
                        /\ \A x, y, z \in S : x + y + z <= n /\ x + y + 2 - z <= n
<1>1. PICK m \in S : \A x \in S : m >= x
  BY LargestElement
<1>2. \A x, y, z \in S : /\ x \in Nat /\ y \in Nat /\ z \in Nat
                         /\ x <= m /\ y <= m /\ z <= m
  BY <1>1
<1>3. m \in Nat /\ 3 * m + 2 \in Nat
  BY <1>1
<1>4. \A x, y, z \in S : /\ x <= 3 * m + 2 /\ x + y + z <= 3 * m + 2
                         /\ x + y + 2 - z <= 3 * m + 2
  BY <1>2, <1>3
<1> QED
  BY <1>3, <1>4

\* Every latency of the table is a number, and there is a bound on them.
LEMMA LatencyBounded ==
  \E n \in Int : \A t \in Timing : t.lat \in Int /\ t.lat <= n
<1> DEFINE A == {T.nRC, T.nRCD, T.nRAS, T.nRP, T.nRTP}
           B == {T.nCCDL, T.nBL, T.nCWL, T.nCL, T.nWR}
           C == {T.nWTR, T.nRRD, T.nRFC, 2}
           S == A \cup B \cup C
           L == S \cup {T.nCWL + T.nBL + T.nWR, T.nCWL + T.nBL + T.nWTR,
                        T.nCL + T.nBL + 2 - T.nCWL}
<1>1. S \in SUBSET Nat
  BY TimingAssumption
<1>2. IsFiniteSet(S)
  <2>1. ASSUME NEW a, NEW b, NEW c, NEW d, NEW e PROVE IsFiniteSet({a, b, c, d, e})
    <3>1. IsFiniteSet({a, b}) /\ IsFiniteSet({c, d}) /\ IsFiniteSet({e})
      <4>1. ASSUME NEW x, NEW y PROVE IsFiniteSet({x, y})
        <5>1. IsFiniteSet({x}) /\ {x, y} = {x} \cup {y}
          BY FS_Singleton
        <5> QED
          BY <5>1, FS_AddElement
      <4> QED
        BY <4>1, FS_Singleton
    <3>2. IsFiniteSet({a, b} \cup {c, d})
      BY <3>1, FS_Union
    <3>3. IsFiniteSet(({a, b} \cup {c, d}) \cup {e})
      BY <3>1, <3>2, FS_Union
    <3>4. {a, b, c, d, e} = ({a, b} \cup {c, d}) \cup {e}
      OBVIOUS
    <3> QED
      BY <3>3, <3>4
  <2>2. C = {T.nWTR, T.nRRD, T.nRFC, 2, 2}
    OBVIOUS
  <2>3. IsFiniteSet(A) /\ IsFiniteSet(B) /\ IsFiniteSet(C)
    BY <2>1, <2>2
  <2> HIDE DEF A, B, C
  <2>4. IsFiniteSet(A \cup B)
    BY <2>3, FS_Union
  <2> QED
    BY <2>3, <2>4, FS_Union
<1>3. S # {}
  OBVIOUS
<1>4. {T.nCWL, T.nBL, T.nWR, T.nWTR, T.nCL} \subseteq S
  OBVIOUS
<1>5. \A t \in Timing : t.lat \in L
  <2>1. \A level, prev, next, lat : Con(level, prev, next, lat).lat = lat
    BY DEF Con
  <2>2. \A t \in PimTiming : t.lat \in L
    BY <2>1 DEF PimTiming
  <2>3. \A t \in DramTiming : t.lat \in L
    BY <2>1 DEF DramTiming
  <2> QED
    BY <2>2, <2>3 DEF Timing
<1> HIDE DEF S
<1>6. PICK n \in Nat : /\ \A x \in S : x <= n
                       /\ \A x, y, z \in S : x + y + z <= n /\ x + y + 2 - z <= n
  BY <1>1, <1>2, <1>3, NumberAbove
<1>7. \A l \in L : l \in Int /\ l <= n
  <2>1. \A l \in S : l \in Int /\ l <= n
    BY <1>1, <1>6
  <2>2. /\ T.nCWL + T.nBL + T.nWR <= n /\ T.nCWL + T.nBL + T.nWTR <= n
        /\ T.nCL + T.nBL + 2 - T.nCWL <= n
    BY <1>4, <1>6
  <2>3. T.nCWL \in Nat /\ T.nBL \in Nat /\ T.nWR \in Nat /\ T.nWTR \in Nat /\ T.nCL \in Nat
    BY <1>1, <1>4
  <2> QED
    BY <2>1, <2>2, <2>3
<1> HIDE DEF L
<1> QED
  BY <1>5, <1>6, <1>7

\* Whoever has to wait waits for a positive time.
LEMMA LatencyPositive ==
  ASSUME NEW level \in 0 .. 4, NEW prev \in Commands
  PROVE  /\ DOMAIN Latency[level][prev] \subseteq Commands
         /\ \A next \in DOMAIN Latency[level][prev] :
              Latency[level][prev][next] \in Nat \ {0}
<1> DEFINE cons(next) == {t \in Timing : t.level = level /\ prev \in t.prev /\ next \in t.next}
           D == {d \in Commands : \E t \in cons(d) : t.lat > 0}
           l == [next \in D |-> Max({t.lat : t \in cons(next)})]
<1>1. Latency[level][prev] = l
  BY DEF Latency
<1>2. ASSUME NEW next \in D PROVE Max({t.lat : t \in cons(next)}) \in Nat \ {0}
  <2> DEFINE S == {t.lat : t \in cons(next)}
  <2>1. PICK n \in Int : \A t \in Timing : t.lat \in Int /\ t.lat <= n
    BY LatencyBounded
  <2>2. PICK t \in cons(next) : t.lat > 0
    OBVIOUS
  <2>3. S \in SUBSET Int /\ t.lat \in S /\ \A x \in S : x <= n
    BY <2>1
  <2> HIDE DEF S
  <2>4. Max(S) \in S /\ \A x \in S : x <= Max(S)
    BY <2>1, <2>3, BoundedMax
  <2>5. Max(S) \in Int /\ t.lat \in Int /\ t.lat <= Max(S)
    BY <2>3, <2>4
  <2>6. Max(S) \in Nat \ {0}
    BY <2>2, <2>5
  <2> QED
    BY <2>6 DEF S
<1>3. DOMAIN l = D /\ D \subseteq Commands /\ \A next \in D : l[next] \in Nat \ {0}
  BY <1>2
<1> QED
  BY <1>1, <1>3

\* The tree is five levels deep.
LEMMA NodeLevels ==
  ASSUME NEW n \in Nodes
  PROVE  Len(n) \in 0 .. 4
<1>1. PICK b \in Banks : n \in Prefixes(b)
  BY DEF Nodes
<1>2. PICK l \in 0 .. Len(b) : n = SubSeq(b, 1, l)
  BY <1>1 DEF Prefixes
<1>3. b \in Seq(Int) /\ Len(b) = 4
  <2>1. b = <<b[1], b[2], b[3], b[4]>> /\ b[1] \in Int /\ b[2] \in Int /\ b[3] \in Int /\ b[4] \in Int
    BY ConfigAssumption DEF Banks, NumPc
  <2> DEFINE x == b[1]
             y == b[2]
             z == b[3]
             w == b[4]
  <2>2. b = <<x, y, z, w>> /\ x \in Int /\ y \in Int /\ z \in Int /\ w \in Int
    BY <2>1
  <2> HIDE DEF x, y, z, w
  <2> QED
    BY <2>2
<1>4. Len(n) = l
  BY <1>2, <1>3
<1> QED
  BY <1>2, <1>3, <1>4

LEMMA TickedDevice ==
  ASSUME NEW d, DeviceOK(d)
  PROVE  DeviceOK(Ticked(d)) /\ Ticked(d).open = d.open
<1> DEFINE wait == d.wait
           open == d.open
           K == {k \in DOMAIN wait : wait[k] > 1}
           w == [k \in K |-> wait[k] - 1]
<1>1. /\ d = [wait |-> wait, open |-> open] /\ DOMAIN wait \subseteq Nodes \X Commands
      /\ \A k \in DOMAIN wait : wait[k] \in Nat \ {0}
      /\ open \in [Banks -> SUBSET Nat]
  BY DEF DeviceOK
<1>2. Ticked(d) = [d EXCEPT !.wait = w]
  BY DEF Ticked
<1>3. /\ w = [k \in DOMAIN w |-> w[k]] /\ DOMAIN w \subseteq Nodes \X Commands
      /\ \A k \in DOMAIN w : w[k] \in Nat \ {0}
  BY <1>1
<1> HIDE DEF wait, open, w
<1>4. Ticked(d) = [wait |-> w, open |-> open]
  BY <1>1, <1>2
<1> QED
  BY <1>1, <1>3, <1>4 DEF DeviceOK, open

LEMMA IssuedDevice ==
  ASSUME NEW d, DeviceOK(d), NEW c \in Commands, NEW addr, addr.row \in Nat \/ ~ IsOpening(c)
  PROVE  DeviceOK(Issued(d, c, addr))
<1> DEFINE new  == {k \in PathOf(addr) \X Commands : k[2] \in DOMAIN Latency[Len(k[1])][c]}
           lat(k) == Latency[Len(k[1])][c][k[2]]
           kept == {k \in DOMAIN d.wait : k \in new => d.wait[k] > lat(k)}
           w == [k \in DOMAIN d.wait \cup new |-> IF k \in kept THEN d.wait[k] ELSE lat(k)]
           o == CASE IsOpening(c) -> [d.open EXCEPT ![addr.path] = @ \cup {addr.row}]
                  [] c \in {"PRE", "ALL-PRE"} -> [d.open EXCEPT ![addr.path] = {}]
                  [] c = "PREA" -> [b \in Banks |-> {}]
                  [] OTHER -> d.open
<1>1. Issued(d, c, addr) = [wait |-> w, open |-> o]
  BY DEF Issued
<1>2. new \subseteq Nodes \X Commands
  BY DEF PathOf
<1>3. ASSUME NEW k \in new PROVE lat(k) \in Nat \ {0}
  <2>1. k[1] \in Nodes /\ k[2] \in DOMAIN Latency[Len(k[1])][c]
    BY <1>2
  <2>2. Len(k[1]) \in 0 .. 4
    BY <2>1, NodeLevels
  <2> QED
    BY <2>1, <2>2, LatencyPositive
<1>4. /\ DOMAIN d.wait \subseteq Nodes \X Commands
      /\ \A k \in DOMAIN d.wait : d.wait[k] \in Nat \ {0}
      /\ d.open \in [Banks -> SUBSET Nat]
  BY DEF DeviceOK
<1> HIDE DEF new, lat
<1>5. ASSUME NEW k \in DOMAIN d.wait \cup new PROVE w[k] \in Nat \ {0}
  <2>1. CASE k \in kept
    BY <1>4, <2>1
  <2>2. CASE k \notin kept
    <3>1. k \in new
      BY <2>2
    <3> QED
      BY <1>3, <2>2, <3>1
  <2> QED
    BY <2>1, <2>2
<1>6. /\ w = [k \in DOMAIN w |-> w[k]] /\ DOMAIN w \subseteq Nodes \X Commands
      /\ \A k \in DOMAIN w : w[k] \in Nat \ {0}
  BY <1>2, <1>4, <1>5
<1>7. o \in [Banks -> SUBSET Nat]
  <2>1. CASE IsOpening(c)
    <3>1. o = [d.open EXCEPT ![addr.path] = @ \cup {addr.row}]
      BY <2>1 DEF IsOpening
    <3> QED
      BY <1>4, <2>1, <3>1
  <2>2. CASE c \in {"PRE", "ALL-PRE"}
    <3>1. o = [d.open EXCEPT ![addr.path] = {}]
      BY <2>2 DEF IsOpening
    <3> QED
      BY <1>4, <3>1
  <2>3. CASE ~ IsOpening(c) /\ c \notin {"PRE", "ALL-PRE"}
    <3>1. o = [b \in Banks |-> {}] \/ o = d.open
      BY <2>3
    <3> QED
      BY <1>4, <3>1
  <2> QED
    BY <2>1, <2>2, <2>3
<1> HIDE DEF w, o
<1> QED
  BY <1>1, <1>6, <1>7 DEF DeviceOK

-----------------------------------------------------------------------------
(* A tick keeps the accounts *)

\* The refresh manager adds to the priority buffer only.
LEMMA RefreshKept ==
  ASSUME NEW buf, NEW pend, NEW p, Kept(buf, pend, p)
  PROVE  Kept([buf EXCEPT !["priority"] = @ \o RefreshRequests], pend, p)
<1> DEFINE new == [buf EXCEPT !["priority"] = @ \o RefreshRequests]
           q == buf["priority"]
<1>1. RefreshRequests \in Seq(RefreshRecords)
  <2>1. NumRank \in Nat
    BY ConfigAssumption
  <2>2. \A k \in Counters : k \in Counters
    OBVIOUS
  <2>3. NoCommands \in [Counters -> Nat]
    BY DEF NoCommands, Counters
  <2>4. ASSUME NEW i \in 1 .. NumRank PROVE RefreshRequests[i] \in RefreshRecords
    <3>1. <<i - 1>> \in Seq(Nat)
      BY <2>1
    <3>2. RefreshRequests[i] = [id |-> 0, type |-> "Refresh",
                                addr |-> [path |-> <<i - 1>>, row |-> -1],
                                issued |-> NoCommands]
      BY DEF RefreshRequests
    <3> DEFINE path == <<i - 1>>
    <3> HIDE DEF path
    <3> QED
      BY <2>3, <3>1, <3>2 DEF RefreshRecords, path
  <2>5. RefreshRequests \in [1 .. NumRank -> RefreshRecords]
    <3>1. RefreshRequests = [i \in 1 .. NumRank |-> RefreshRequests[i]]
      BY DEF RefreshRequests
    <3> QED
      BY <2>4, <3>1
  <2> QED
    BY <2>1, <2>5
<1>2. q \in Seq(RefreshRecords) /\ DOMAIN buf = Buffers
  BY DEF Kept, BuffersOK
<1>3. q \o RefreshRequests \in Seq(RefreshRecords)
  BY <1>1, <1>2
<1>4. /\ DOMAIN new = Buffers /\ new["priority"] = q \o RefreshRequests
      /\ \A b \in Held : new[b] = buf[b]
      /\ new = [b \in Buffers |-> new[b]]
  BY <1>2 DEF Held, Buffers
<1> HIDE DEF new
<1>5. BuffersOK(new, p)
  BY <1>3, <1>4 DEF Kept, BuffersOK
<1>6. OnePlaceEach(new, pend, p)
  <2>1. [b \in Held |-> Ids(new[b])] = [b \in Held |-> Ids(buf[b])]
    BY <1>4
  <2> QED
    BY <1>4, <2>1 DEF Kept, OnePlaceEach
<1> QED
  BY <1>5, <1>6 DEF Kept, new

\* The first of the accesses under way is done.
LEMMA ServeKept ==
  ASSUME NEW buf, NEW pend, NEW p, Kept(buf, pend, p),
         pend \in Seq(Range(pend)), pend # <<>>
  PROVE  Kept(buf, Tail(pend), CalledBack(p, Head(pend).r))
<1> DEFINE r == Head(pend).r
           u == Under(pend)
           w == Under(Tail(pend))
           done == CalledBack(p, r)
           I == [b \in Held |-> Ids(buf[b])]
           C == CommandsOf(p.kind, 1)
<1>1. /\ BuffersOK(buf, p) /\ u \in Seq(C) /\ RequestOK(p)
      /\ \A b \in Held : DistinctIds(buf[b])
      /\ DistinctIds(u) /\ Parted(I, Ids(u), p.done, p.n)
  BY DEF Kept, OnePlaceEach
<1>2. w = RemoveAt(u, 1) /\ u[1] = r
  BY UnderTail
<1>3. 1 \in 1 .. Len(u) /\ 1 \in DOMAIN u
  <2>1. DOMAIN u = DOMAIN pend /\ DOMAIN pend = 1 .. Len(pend) /\ 1 \in DOMAIN pend
    BY DEF Under
  <2> HIDE DEF u
  <2> QED
    BY <1>1, <2>1
<1> HIDE DEF u, w, I, r, C
<1>4. r \in C /\ r.id \in Ids(u)
  BY <1>1, <1>2, <1>3 DEF Ids
<1>5. w \in Seq(C) /\ Ids(w) = Ids(u) \ {r.id} /\ DistinctIds(w)
  <2>1. w \in Seq(C)
    BY <1>1, <1>2, <1>3, Removed
  <2>2. Ids(w) = Ids(u) \ {u[1].id} /\ DistinctIds(w)
    BY <1>1, <1>2, <1>3, RemovedIds
  <2> QED
    BY <1>2, <2>1, <2>2
<1>6. /\ Parted(I, Ids(u) \ {r.id}, p.done \cup {r.id}, p.n)
      /\ r.id \in 1 .. p.n /\ r.id \notin p.done
  BY <1>1, <1>4, PartedArrives
<1>7. /\ RequestOK(done) /\ done.kind = p.kind /\ done.n = p.n
      /\ done.done = p.done \cup {r.id}
  BY <1>1, <1>4, <1>6, CalledBackOK DEF C
<1> HIDE DEF done
<1>8. BuffersOK(buf, done)
  BY <1>1, <1>7 DEF BuffersOK
<1>9. OnePlaceEach(buf, Tail(pend), done)
  BY <1>1, <1>5, <1>6, <1>7 DEF OnePlaceEach, w, I
<1> QED
  BY <1>5, <1>7, <1>8, <1>9 DEF Kept, w, done, r, C

\* A command takes part in the accounts no more when its buffer lets it go.
LEMMA LeavesBuffer ==
  ASSUME NEW buf, NEW pend, NEW p, Kept(buf, pend, p),
         NEW from \in Held, NEW at \in 1 .. Len(buf[from])
  PROVE  LET rest == [buf EXCEPT ![from] = RemoveAt(@, at)]
             x == buf[from][at].id
             J == [b \in Held |-> Ids(rest[b])]
         IN  /\ BuffersOK(rest, p)
             /\ \A b \in Held : DistinctIds(rest[b])
             /\ Parted(J, Ids(Under(pend)) \cup {x}, p.done, p.n)
             /\ Parted(J, Ids(Under(pend)), p.done \cup {x}, p.n)
             /\ x \in 1 .. p.n /\ x \notin p.done /\ x \notin Ids(Under(pend))
             /\ \A b \in Held : x \notin J[b]
<1> DEFINE rest == [buf EXCEPT ![from] = RemoveAt(@, at)]
           x == buf[from][at].id
           I == [b \in Held |-> Ids(buf[b])]
           J == [b \in Held |-> Ids(rest[b])]
           q == buf[from]
           C == CommandsOf(p.kind, 0)
<1>1. /\ buf = [b \in Buffers |-> buf[b]]
      /\ \A b \in Held : buf[b] \in Seq(C)
      /\ buf["priority"] \in Seq(RefreshRecords)
      /\ \A b \in Held : DistinctIds(buf[b])
      /\ Parted(I, Ids(Under(pend)), p.done, p.n)
  BY DEF Kept, BuffersOK, OnePlaceEach
<1>2. /\ DOMAIN rest = Buffers /\ rest = [b \in Buffers |-> rest[b]]
      /\ rest[from] = RemoveAt(q, at)
      /\ \A b \in Buffers : b # from => rest[b] = buf[b]
  BY <1>1 DEF Held
<1> HIDE DEF rest, C
<1>3. /\ RemoveAt(q, at) \in Seq(C)
      /\ Ids(RemoveAt(q, at)) = Ids(q) \ {x}
      /\ DistinctIds(RemoveAt(q, at))
  <2>1. q \in Seq(C) /\ DistinctIds(q)
    BY <1>1
  <2> HIDE DEF q
  <2>2. at \in 1 .. Len(q) /\ x = q[at].id
    BY DEF q
  <2> HIDE DEF x
  <2> QED
    BY <2>1, <2>2, Removed, RemovedIds
<1>4. "priority" \notin Held /\ Held \subseteq Buffers /\ "priority" \in Buffers
  BY DEF Held, Buffers
<1>5. BuffersOK(rest, p)
  BY <1>1, <1>2, <1>3, <1>4 DEF BuffersOK, C
<1>6. \A b \in Held : DistinctIds(rest[b])
  BY <1>1, <1>2, <1>3, <1>4
<1>7. x \in I[from]
  <2>1. at \in DOMAIN q
    BY <1>1
  <2> QED
    BY <2>1 DEF Ids
<1>8. Loses(I, J, from, x)
  BY <1>2, <1>3, <1>4 DEF Loses
<1> HIDE DEF I, J, x
<1>9. /\ Parted(J, Ids(Under(pend)) \cup {x}, p.done, p.n)
      /\ Parted(J, Ids(Under(pend)), p.done \cup {x}, p.n)
      /\ x \in 1 .. p.n /\ x \notin p.done /\ x \notin Ids(Under(pend))
      /\ \A b \in Held : x \notin J[b]
  <2> DEFINE under == Ids(Under(pend))
             done == p.done
             n == p.n
  <2>1. Parted(I, under, done, n) /\ from \in Held /\ x \in I[from]
    BY <1>1, <1>7
  <2> HIDE DEF under, done, n
  <2>2. /\ Parted(J, under \cup {x}, done, n)
        /\ Parted(J, under, done \cup {x}, n)
        /\ x \in 1 .. n /\ x \notin done /\ x \notin under
        /\ \A c \in Held : x \notin J[c]
    BY <1>8, <2>1, PartedMoves, Zenon
  <2> QED
    BY <2>2 DEF under, done, n
<1> QED
  BY <1>5, <1>6, <1>9 DEF J, x, rest

\* Issuing a command keeps the accounts: a refresh is nobody's, another command
\* stays in its buffer, becomes active, or ends what it was issued for.
LEMMA IssueKept ==
  ASSUME NEW buf, NEW pend, NEW p, Kept(buf, pend, p), pend \in Seq(Range(pend)),
         NEW s, s.from \in Buffers, s.at \in 1 .. Len(buf[s.from]), NEW e,
         s.command = CommandOf(e, buf[s.from][s.at]), NEW d
  PROVE  LET out == Issue(s, d, buf, pend, p)
         IN  Kept(out.buffer, out.pending, out.request)
<1> DEFINE from == s.from
           at == s.at
           r0 == buf[from][at]
           r == UpdateState(r0, s.command)
           final == s.command = FinalCommand(r.type)
           rest == [buf EXCEPT ![from] = RemoveAt(@, at)]
           moves == IsOpening(s.command) /\ CommandId(s.command) \in {0, 1}
           out == Issue(s, d, buf, pend, p)
           b1 == out.buffer
           pend1 == out.pending
           p1 == out.request
           same == [buf EXCEPT ![from][at] = r]
<1>1. /\ b1 = CASE final -> rest
                [] ~ final /\ moves -> [rest EXCEPT !["active"] = Append(@, r)]
                [] OTHER -> same
      /\ pend1 = IF final /\ r.type \in {"Read", "AllRead"} THEN Departing(pend, r) ELSE pend
      /\ p1 = IF final /\ r.type \in {"Write", "AllWrite"} THEN CalledBack(p, r) ELSE p
  BY DEF Issue
<1> HIDE DEF out
<1>2. /\ buf = [b \in Buffers |-> buf[b]]
      /\ \A b \in Held : buf[b] \in Seq(CommandsOf(p.kind, 0))
      /\ buf["priority"] \in Seq(RefreshRecords)
      /\ Under(pend) \in Seq(CommandsOf(p.kind, 1)) /\ RequestOK(p)
      /\ DistinctIds(Under(pend))
  BY DEF Kept, BuffersOK, OnePlaceEach
<1>3. CASE from = "priority"
  <2>1. r0 \in RefreshRecords
    BY <1>2, <1>3
  <2>2. /\ s.command \in {"REFab", "PREA"} /\ r \in RefreshRecords /\ r.type = "Refresh"
    BY <2>1, RefreshCounted
  <2>3. ~ moves
    BY <2>2 DEF IsOpening
  <2>4. pend1 = pend /\ p1 = p /\ (b1 = rest \/ b1 = same)
    BY <1>1, <2>2, <2>3
  <2> DEFINE q == buf["priority"]
  <2>5. RemoveAt(q, at) \in Seq(RefreshRecords) /\ [q EXCEPT ![at] = r] \in Seq(RefreshRecords)
    <3> HIDE DEF r, at
    <3>1. q \in Seq(RefreshRecords) /\ at \in 1 .. Len(q)
      BY <1>2, <1>3 DEF at
    <3> HIDE DEF q
    <3> QED
      BY <2>2, <3>1, Removed
  <2>6. /\ DOMAIN rest = Buffers /\ rest["priority"] = RemoveAt(q, at)
        /\ DOMAIN same = Buffers /\ same["priority"] = [q EXCEPT ![at] = r]
        /\ \A b \in Held : rest[b] = buf[b] /\ same[b] = buf[b]
        /\ rest = [b \in Buffers |-> rest[b]] /\ same = [b \in Buffers |-> same[b]]
    BY <1>2, <1>3 DEF Held, Buffers
  <2> HIDE DEF rest, same, q
  <2>7. /\ DOMAIN b1 = Buffers /\ b1["priority"] \in Seq(RefreshRecords)
        /\ \A b \in Held : b1[b] = buf[b]
        /\ b1 = [b \in Buffers |-> b1[b]]
    BY <2>4, <2>5, <2>6
  <2> HIDE DEF b1, pend1, p1
  <2>8. BuffersOK(b1, p)
    BY <1>2, <2>7 DEF BuffersOK
  <2>9. OnePlaceEach(b1, pend, p)
    <3>1. [b \in Held |-> Ids(b1[b])] = [b \in Held |-> Ids(buf[b])]
      BY <2>7
    <3> QED
      BY <2>7, <3>1 DEF Kept, OnePlaceEach
  <2> QED
    BY <1>2, <2>4, <2>8, <2>9 DEF Kept, b1, pend1, p1, out
<1>4. CASE from # "priority"
  <2>1. from \in Held /\ "active" \in Held /\ Held \subseteq Buffers /\ "priority" \notin Held
    BY <1>4 DEF Held, Buffers
  <2>2. r0 \in CommandsOf(p.kind, 0) /\ at \in 1 .. Len(buf[from])
    <3> HIDE DEF r
    <3>1. buf[from] \in Seq(CommandsOf(p.kind, 0)) /\ at \in 1 .. Len(buf[from])
      BY <1>2, <2>1
    <3> QED
      BY <3>1
  <2>3. s.command \in RowCommands \cup {EndCommand(p.kind)}
    BY <2>2, AskedCommand
  <2>4. /\ r \in CommandsOf(p.kind, IF s.command = EndCommand(p.kind) THEN 1 ELSE 0)
        /\ r.id = r0.id /\ r.type = r0.type
    BY <2>2, <2>3, CommandCounted
  <2>5. /\ final <=> s.command = EndCommand(p.kind)
        /\ p.kind = "kWrite" <=> r.type \in {"Write", "AllWrite"}
        /\ p.kind # "kWrite" <=> r.type \in {"Read", "AllRead"}
    BY <2>2, <2>4, EndOfCommand
  <2> DEFINE U == Under(pend)
             x == r.id
             J == [b \in Held |-> Ids(rest[b])]
  <2>6. /\ BuffersOK(rest, p)
        /\ \A b \in Held : DistinctIds(rest[b])
        /\ Parted(J, Ids(U) \cup {x}, p.done, p.n)
        /\ Parted(J, Ids(U), p.done \cup {x}, p.n)
        /\ x \in 1 .. p.n /\ x \notin p.done /\ x \notin Ids(U)
        /\ \A b \in Held : x \notin J[b]
    <3> DEFINE y == buf[from][at].id
    <3>1. x = y
      BY <2>4
    <3>2. /\ BuffersOK(rest, p)
          /\ \A b \in Held : DistinctIds(rest[b])
          /\ Parted(J, Ids(U) \cup {y}, p.done, p.n)
          /\ Parted(J, Ids(U), p.done \cup {y}, p.n)
          /\ y \in 1 .. p.n /\ y \notin p.done /\ y \notin Ids(U)
          /\ \A b \in Held : y \notin J[b]
      BY <2>1, <2>2, LeavesBuffer
    <3> HIDE DEF x, y, J, rest, U
    <3> QED
      BY <3>1, <3>2
  <2> HIDE DEF r, final, moves, b1, pend1, p1
  <2>7. CASE final /\ p.kind = "kWrite"
    <3>1. b1 = rest /\ pend1 = pend /\ p1 = CalledBack(p, r)
      BY <1>1, <2>5, <2>7
    <3>2. /\ RequestOK(p1) /\ p1.kind = p.kind /\ p1.n = p.n
          /\ p1.done = p.done \cup {x}
      BY <1>2, <2>4, <2>5, <2>6, <2>7, <3>1, CalledBackOK
    <3> HIDE DEF rest, x, J
    <3>3. BuffersOK(b1, p1)
      BY <2>6, <3>1, <3>2 DEF BuffersOK
    <3>4. OnePlaceEach(b1, pend1, p1)
      BY <1>2, <2>6, <3>1, <3>2 DEF OnePlaceEach, J
    <3> QED
      BY <1>2, <3>1, <3>2, <3>3, <3>4 DEF Kept, b1, pend1, p1, out
  <2>8. CASE final /\ p.kind # "kWrite"
    <3>1. b1 = rest /\ pend1 = Departing(pend, r) /\ p1 = p
      BY <1>1, <2>5, <2>8
    <3>2. Under(pend1) = Append(U, r)
      BY <3>1, UnderDeparting
    <3>3. r \in CommandsOf(p.kind, 1)
      BY <2>4, <2>5, <2>8
    <3>4. /\ Append(U, r) \in Seq(CommandsOf(p.kind, 1))
          /\ Ids(Append(U, r)) = Ids(U) \cup {x}
          /\ DistinctIds(Append(U, r))
      <4> HIDE DEF U
      <4>1. U \in Seq(CommandsOf(p.kind, 1)) /\ DistinctIds(U)
        BY <1>2 DEF U
      <4> QED
        BY <2>6, <3>3, <4>1, AppendedIds
    <3> HIDE DEF rest, x, J, U
    <3>5. OnePlaceEach(b1, pend1, p1)
      BY <2>6, <3>1, <3>2, <3>4 DEF OnePlaceEach, J
    <3> QED
      BY <1>2, <2>6, <3>1, <3>2, <3>4, <3>5 DEF Kept, b1, pend1, p1, out
  <2>9. CASE ~ final /\ moves
    <3>1. b1 = [rest EXCEPT !["active"] = Append(@, r)] /\ pend1 = pend /\ p1 = p
      BY <1>1, <2>9
    <3> DEFINE a == rest["active"]
               K == [b \in Held |-> Ids(b1[b])]
    <3>2. /\ Append(a, r) \in Seq(CommandsOf(p.kind, 0))
          /\ Ids(Append(a, r)) = Ids(a) \cup {x}
          /\ DistinctIds(Append(a, r))
      <4>1. /\ a \in Seq(CommandsOf(p.kind, 0)) /\ DistinctIds(a) /\ x \notin Ids(a)
        BY <2>1, <2>6 DEF BuffersOK
      <4>2. r \in CommandsOf(p.kind, 0)
        BY <2>4, <2>5, <2>9
      <4> HIDE DEF a
      <4> QED
        BY <4>1, <4>2, AppendedIds
    <3>3. /\ DOMAIN b1 = Buffers /\ b1 = [b \in Buffers |-> b1[b]]
          /\ b1["active"] = Append(a, r)
          /\ \A b \in Buffers : b # "active" => b1[b] = rest[b]
      <4>1. rest = [b \in Buffers |-> rest[b]]
        BY <2>6 DEF BuffersOK
      <4> HIDE DEF rest
      <4> QED
        BY <2>1, <3>1, <4>1
    <3> HIDE DEF rest
    <3>4. BuffersOK(b1, p)
      <4> HIDE DEF a
      <4>1. \A b \in Held : b1[b] \in Seq(CommandsOf(p.kind, 0))
        BY <2>1, <2>6, <3>2, <3>3 DEF BuffersOK
      <4>2. b1["priority"] \in Seq(RefreshRecords)
        BY <2>1, <2>6, <3>3 DEF BuffersOK, Buffers
      <4> QED
        BY <3>3, <4>1, <4>2 DEF BuffersOK
    <3>5. \A b \in Held : DistinctIds(b1[b])
      BY <2>1, <2>6, <3>2, <3>3
    <3>6. Gains(J, K, "active", x)
      BY <2>1, <3>2, <3>3 DEF Gains
    <3> HIDE DEF J, K, x, U
    <3>7. Parted(K, Ids(U), p.done, p.n)
      BY <2>1, <2>6, <3>6, PartedReturns
    <3>8. OnePlaceEach(b1, pend, p)
      BY <1>2, <3>5, <3>7 DEF OnePlaceEach, K, U
    <3> QED
      BY <1>2, <3>1, <3>4, <3>8 DEF Kept, b1, pend1, p1, out
  <2>10. CASE ~ final /\ ~ moves
    <3>1. b1 = same /\ pend1 = pend /\ p1 = p
      BY <1>1, <2>10
    <3> DEFINE q == buf[from]
    <3>2. /\ [q EXCEPT ![at] = r] \in Seq(CommandsOf(p.kind, 0))
          /\ Ids([q EXCEPT ![at] = r]) = Ids(q)
          /\ DistinctIds(q) => DistinctIds([q EXCEPT ![at] = r])
      <4>1. /\ q \in Seq(CommandsOf(p.kind, 0)) /\ at \in 1 .. Len(q)
            /\ r \in CommandsOf(p.kind, 0) /\ r.id = q[at].id
        BY <1>2, <2>1, <2>2, <2>4, <2>5, <2>10
      <4> HIDE DEF q, at
      <4> QED
        BY <4>1, ReplacedIds
    <3>3. /\ DOMAIN b1 = Buffers /\ b1 = [b \in Buffers |-> b1[b]]
          /\ b1[from] = [q EXCEPT ![at] = r]
          /\ \A b \in Buffers : b # from => b1[b] = buf[b]
      BY <1>2, <3>1
    <3>4. BuffersOK(b1, p)
      <4> HIDE DEF q
      <4>1. \A b \in Held : b1[b] \in Seq(CommandsOf(p.kind, 0))
        BY <1>2, <2>1, <3>2, <3>3
      <4>2. b1["priority"] \in Seq(RefreshRecords)
        BY <1>2, <1>4, <3>3 DEF Buffers
      <4> QED
        BY <3>3, <4>1, <4>2 DEF BuffersOK
    <3>5. OnePlaceEach(b1, pend, p)
      <4>1. \A b \in Held : DistinctIds(b1[b]) /\ Ids(b1[b]) = Ids(buf[b])
        BY <2>1, <3>2, <3>3 DEF Kept, OnePlaceEach
      <4>2. [b \in Held |-> Ids(b1[b])] = [b \in Held |-> Ids(buf[b])]
        BY <4>1
      <4> QED
        BY <4>1, <4>2 DEF Kept, OnePlaceEach
    <3> QED
      BY <1>2, <3>1, <3>4, <3>5 DEF Kept, b1, pend1, p1, out
  <2> QED
    BY <2>7, <2>8, <2>9, <2>10
<1> QED
  BY <1>3, <1>4

\* What tick finds to issue is a command of the device, on a row if it opens one.
LEMMA IssuedOK ==
  ASSUME NEW buf, NEW p, BuffersOK(buf, p), NEW d, DeviceOK(d), NEW s,
         s.from \in Buffers, s.at \in 1 .. Len(buf[s.from]),
         s.command = CommandOf(d, buf[s.from][s.at]), NEW pend
  PROVE  DeviceOK(Issue(s, d, buf, pend, p).dev)
<1> DEFINE r0 == buf[s.from][s.at]
           r == UpdateState(r0, s.command)
<1>1. Issue(s, d, buf, pend, p).dev = Issued(d, s.command, r.addr)
  BY DEF Issue
<1>2. s.command \in Commands /\ (r.addr.row \in Nat \/ ~ IsOpening(s.command))
  <2>1. CASE s.from = "priority"
    <3>1. r0 \in RefreshRecords
      <4>1. buf["priority"] \in Seq(RefreshRecords)
        BY DEF BuffersOK
      <4> QED
        BY <2>1, <4>1
    <3> QED
      BY <3>1, RefreshCounted DEF Commands, IsOpening
  <2>2. CASE s.from # "priority"
    <3>1. r0 \in CommandsOf(p.kind, 0)
      <4> HIDE DEF r
      <4>1. s.from \in Held
        BY <2>2 DEF Held
      <4>2. buf[s.from] \in Seq(CommandsOf(p.kind, 0))
        BY <4>1 DEF BuffersOK
      <4> QED
        BY <4>2
    <3>2. s.command \in RowCommands \cup {EndCommand(p.kind)}
      BY <3>1, AskedCommand
    <3>3. r.addr = r0.addr /\ r0.addr.row \in Nat
      <4>1. r.addr = r0.addr
        BY <3>1, <3>2, CommandCounted
      <4> HIDE DEF r0, r
      <4>2. r0.addr.row \in Nat
        BY <3>1 DEF CommandsOf, CommandRecords
      <4> QED
        BY <4>1, <4>2
    <3>4. EndCommand(p.kind) \in Commands /\ RowCommands \subseteq Commands
      BY DEF EndCommand, RowCommands, Commands
    <3> QED
      BY <3>2, <3>3, <3>4
  <2> QED
    BY <2>1, <2>2
<1> HIDE DEF r
<1>3. DeviceOK(Issued(d, s.command, r.addr))
  BY <1>2, IssuedDevice
<1> QED
  BY <1>1, <1>3

LEMMA TickAccountInv ==
  ASSUME AccountInv, Tick
  PROVE  AccountInv'
<1> DEFINE d == Ticked(dev)
           under == [i \in DOMAIN pending |-> [pending[i] EXCEPT !.left = @ - 1]]
           serve == under # <<>> /\ Head(under).left <= 0
           pend == IF serve THEN Tail(under) ELSE under
           p == IF serve THEN CalledBack(request, Head(under).r) ELSE request
           buf == IF next_refresh = 1
                  THEN [buffer EXCEPT !["priority"] = @ \o RefreshRequests] ELSE buffer
           s == Schedule(d, buf, is_write_mode)
<1>1. /\ dev' = Ticking.dev /\ pending' = Ticking.pending /\ buffer' = Ticking.buffer
      /\ request' = Ticking.request
      /\ running' = ~ Finished(buffer', pending')
      /\ exec_status' = IF Finished(buffer', pending') THEN UpdateStatus(request')
                        ELSE exec_status
      /\ UNCHANGED <<objects, start_addr_normal>>
      /\ next_refresh' = IF next_refresh = 1 THEN NREFI ELSE next_refresh - 1
  BY DEF Tick, Clock
<1>2. Ticking = IF s.found THEN Issue(s, d, buf, pend, p)
                ELSE [dev |-> d, buffer |-> buf, pending |-> pend, request |-> p,
                      mode |-> s.mode]
  BY DEF Ticking
<1> HIDE DEF s
<1>3. Kept(buffer, pend, p) /\ pend \in Seq(Range(pend))
  <2>1. InOrder(pending, 1, Delay) /\ Kept(buffer, pending, request)
    BY DEF AccountInv, DepartInv
  <2>2. Under(under) = Under(pending) /\ InOrder(under, 0, Delay - 1)
    BY <2>1, UnderTicked, TickedQueue
  <2> HIDE DEF under
  <2>3. Kept(buffer, under, request) /\ under \in Seq(Range(under))
    BY <2>1, <2>2 DEF Kept, OnePlaceEach, InOrder
  <2>4. InOrder(pend, 1, Delay - 1)
    BY <2>2, ServedQueue
  <2>5. pend \in Seq(Range(pend))
    BY <2>4 DEF InOrder
  <2>6. CASE serve
    BY <2>3, <2>5, <2>6, ServeKept
  <2>7. CASE ~ serve
    BY <2>3, <2>5, <2>7
  <2> QED
    BY <2>6, <2>7
<1> HIDE DEF pend, p
<1>4. Kept(buf, pend, p)
  BY <1>3, RefreshKept
<1> HIDE DEF buf
<1>5. DeviceOK(d)
  BY TickedDevice DEF AccountInv
<1> HIDE DEF d
<1>6. Kept(buffer', pending', request') /\ DeviceOK(dev')
  <2>1. CASE s.found
    <3>1. /\ s.from \in Buffers /\ s.at \in 1 .. Len(buf[s.from])
          /\ s.command = CommandOf(d, buf[s.from][s.at])
      <4>1. BuffersOK(buf, p)
        BY <1>4 DEF Kept
      <4> QED
        BY <2>1, <4>1, ScheduleFinds DEF s
    <3>2. Ticking = Issue(s, d, buf, pend, p)
      BY <1>2, <2>1
    <3>3. /\ dev' = Issue(s, d, buf, pend, p).dev
          /\ pending' = Issue(s, d, buf, pend, p).pending
          /\ buffer' = Issue(s, d, buf, pend, p).buffer
          /\ request' = Issue(s, d, buf, pend, p).request
      BY <1>1, <3>2
    <3>4. Kept(buffer', pending', request')
      BY <1>3, <1>4, <3>1, <3>3, IssueKept
    <3>5. DeviceOK(dev')
      <4>1. BuffersOK(buf, p)
        BY <1>4 DEF Kept
      <4> QED
        BY <1>5, <3>1, <3>3, <4>1, IssuedOK
    <3> QED
      BY <3>4, <3>5
  <2>2. CASE ~ s.found
    <3>1. dev' = d /\ pending' = pend /\ buffer' = buf /\ request' = p
      BY <1>1, <1>2, <2>2
    <3> QED
      BY <1>4, <1>5, <3>1
  <2> QED
    BY <2>1, <2>2
<1>7. DepartInv'
  BY TickDepartInv DEF AccountInv
<1>8. next_refresh' \in 1 .. NREFI
  BY <1>1, ControllerAssumption DEF AccountInv
<1>9. ~ running' => Finished(buffer', pending') /\ exec_status' = UpdateStatus(request')
  BY <1>1
<1> QED
  BY <1>1, <1>6, <1>7, <1>8, <1>9 DEF AccountInv

-----------------------------------------------------------------------------
(* The commands of a request *)

\* Places in the DRAM.
Places ==
  [channel : Nat, pc : 0 .. NumPc - 1, rank : 0 .. NumRank - 1,
   bankgroup : 0 .. NumBankgroup - 1, bank : 0 .. NumBank - 1, row : Nat, col : Nat]

LEMMA Parts ==
  ASSUME NEW x \in Nat, NEW n \in Nat \ {0}
  PROVE  x \div n \in Nat /\ x % n \in 0 .. n - 1 /\ x % n \in Nat
<1>1. x \div n \in Nat
  BY Division
<1>2. x % n \in 0 .. n - 1
  OBVIOUS
<1> DEFINE m == x % n
<1>3. m \in 0 .. n - 1
  BY <1>2
<1> HIDE DEF m
<1>4. m \in Nat
  BY <1>3
<1> QED
  BY <1>1, <1>2, <1>4 DEF m

\* Either codec names a bank there is.
LEMMA VecPlaces ==
  ASSUME NEW address \in Nat, NEW v \in {AddrToVec(address), AddrToVecLogic(address)}
  PROVE  /\ v.cube \in Nat /\ v.channel \in Nat
         /\ v.rank \in 0 .. NumRank - 1 /\ v.bankgroup \in 0 .. NumBankgroup - 1
         /\ v.bank \in 0 .. NumBank - 1 /\ v.row \in Nat /\ v.col \in Nat
<1>1. /\ NumCube \in Nat \ {0} /\ NumLogicCube \in Nat \ {0} /\ NumChannel \in Nat \ {0}
      /\ NumRank \in Nat \ {0} /\ NumBankgroup \in Nat \ {0} /\ NumBank \in Nat \ {0}
      /\ NumRow \in Nat \ {0} /\ NumCol \in Nat \ {0} /\ Granul \in Nat \ {0}
      /\ NumBank >= 4 /\ 2 \in Nat \ {0}
  BY ConfigAssumption
<1> DEFINE bundle == address \div Granul
<1>2. bundle \in Nat
  BY <1>1, Parts
<1> HIDE DEF bundle
<1>3. CASE v = AddrToVec(address)
  <2> DEFINE q1 == bundle \div NumCube
             q2 == q1 \div NumChannel
             q3 == q2 \div NumRank
             q4 == q3 \div NumBankgroup
             q5 == q4 \div NumBank
  <2>1. v = [cube |-> bundle % NumCube, channel |-> q1 % NumChannel,
             rank |-> q2 % NumRank, bankgroup |-> q3 % NumBankgroup,
             bank |-> q4 % NumBank, row |-> q5 \div NumCol, col |-> q5 % NumCol]
    BY <1>3 DEF AddrToVec, bundle
  <2> HIDE DEF q1, q2, q3, q4, q5
  <2>2. q1 \in Nat /\ bundle % NumCube \in Nat
    BY <1>1, <1>2, Parts DEF q1
  <2>3. q2 \in Nat /\ q1 % NumChannel \in Nat
    BY <1>1, <2>2, Parts DEF q2
  <2>4. q3 \in Nat /\ q2 % NumRank \in 0 .. NumRank - 1
    BY <1>1, <2>3, Parts DEF q3
  <2>5. q4 \in Nat /\ q3 % NumBankgroup \in 0 .. NumBankgroup - 1
    BY <1>1, <2>4, Parts DEF q4
  <2>6. q5 \in Nat /\ q4 % NumBank \in 0 .. NumBank - 1
    BY <1>1, <2>5, Parts DEF q5
  <2>7. q5 \div NumCol \in Nat /\ q5 % NumCol \in Nat
    BY <1>1, <2>6, Parts
  <2> QED
    BY <2>1, <2>2, <2>3, <2>4, <2>5, <2>6, <2>7
<1>4. CASE v = AddrToVecLogic(address)
  <2> DEFINE q1 == bundle \div NumLogicCube
             q2 == q1 \div NumChannel
             q3 == q2 \div NumBankgroup
             q4 == q3 \div 2
             q5 == q4 \div NumCol
             q6 == q5 \div NumRow
             h == q6 \div 2
  <2>1. v = [cube |-> bundle % NumLogicCube, channel |-> q1 % NumChannel,
             rank |-> h % NumRank, bankgroup |-> q2 % NumBankgroup,
             bank |-> (q6 % 2) * 2 + (q3 % 2), row |-> q5 % NumRow, col |-> q4 % NumCol]
    BY <1>4 DEF AddrToVecLogic, bundle
  <2> HIDE DEF q1, q2, q3, q4, q5, q6, h
  <2>2. q1 \in Nat /\ bundle % NumLogicCube \in Nat
    BY <1>1, <1>2, Parts DEF q1
  <2>3. q2 \in Nat /\ q1 % NumChannel \in Nat
    BY <1>1, <2>2, Parts DEF q2
  <2>4. q3 \in Nat /\ q2 % NumBankgroup \in 0 .. NumBankgroup - 1
    BY <1>1, <2>3, Parts DEF q3
  <2>5. q4 \in Nat /\ q3 % 2 \in 0 .. 1
    BY <1>1, <2>4, Parts DEF q4
  <2>6. q5 \in Nat /\ q4 % NumCol \in Nat
    BY <1>1, <2>5, Parts DEF q5
  <2>7. q6 \in Nat /\ q5 % NumRow \in Nat
    BY <1>1, <2>6, Parts DEF q6
  <2>8. h \in Nat /\ q6 % 2 \in 0 .. 1
    BY <1>1, <2>7, Parts DEF h
  <2>9. h % NumRank \in 0 .. NumRank - 1
    BY <1>1, <2>8, Parts
  <2>10. (q6 % 2) * 2 + (q3 % 2) \in 0 .. NumBank - 1
    <3> DEFINE x == q6 % 2
               y == q3 % 2
    <3>1. x \in 0 .. 1 /\ y \in 0 .. 1
      BY <2>5, <2>8
    <3> HIDE DEF x, y
    <3>2. x * 2 + y \in 0 .. NumBank - 1
      BY <1>1, <3>1
    <3> QED
      BY <3>2 DEF x, y
  <2> QED
    BY <2>1, <2>2, <2>3, <2>4, <2>5, <2>6, <2>7, <2>9, <2>10
<1> QED
  BY <1>3, <1>4

LEMMA PlaceOfBundle ==
  ASSUME NEW address \in Nat, NEW i \in Nat, NEW type
  PROVE  GetAddrVec(address, i, type) \in Places
<1> DEFINE target == address + i * Granul
           v == IF type = "LOGIC" THEN AddrToVecLogic(target) ELSE AddrToVec(target)
           channel == NumChannel * v.cube + v.channel
<1>1. target \in Nat
  BY ConfigAssumption
<1>2. GetAddrVec(address, i, type) =
        [channel |-> channel \div 2, pc |-> channel % 2, rank |-> v.rank,
         bankgroup |-> v.bankgroup, bank |-> v.bank, row |-> v.row, col |-> v.col]
  BY DEF GetAddrVec
<1>3. v \in {AddrToVec(target), AddrToVecLogic(target)}
  OBVIOUS
<1> HIDE DEF target, v
<1>4. /\ v.cube \in Nat /\ v.channel \in Nat
      /\ v.rank \in 0 .. NumRank - 1 /\ v.bankgroup \in 0 .. NumBankgroup - 1
      /\ v.bank \in 0 .. NumBank - 1 /\ v.row \in Nat /\ v.col \in Nat
  BY <1>1, <1>3, VecPlaces
<1>5. channel \in Nat
  BY <1>4, ConfigAssumption
<1> HIDE DEF channel
<1>6. channel \div 2 \in Nat /\ channel % 2 \in 0 .. 1
  BY <1>5, Parts
<1> QED
  BY <1>2, <1>4, <1>6 DEF Places, NumPc

\* Whether a kernel takes a bundle.
Takes(a, kind, type, bandwidth_x) ==
  IF kind = "GEMV" THEN GEMVSelects(a, type, bandwidth_x) ELSE ReadWriteSelects(a)

\* f[n] is what the kernel has made of the first n bundles.
MadeOf(f, kind, address, size, type, bandwidth_x) ==
  /\ f \in [0 .. NumBundle(size) -> Seq(Places)]
  /\ Kernel(kind, address, size, type, bandwidth_x) = f[NumBundle(size)]
  /\ f[0] = <<>>
  /\ \A n \in 1 .. NumBundle(size) : f[n] =
       IF Takes(GetAddrVec(address, n - 1, type), kind, type, bandwidth_x)
       THEN Append(f[n - 1], GetAddrVec(address, n - 1, type)) ELSE f[n - 1]

\* The kernels go through the bundles and append those they take; each is at a
\* place there is.
LEMMA KernelSteps ==
  ASSUME NEW kind, NEW address \in Nat, NEW size \in Nat, NEW type, NEW bandwidth_x
  PROVE  \E f : MadeOf(f, kind, address, size, type, bandwidth_x)
<1> DEFINE place(i) == GetAddrVec(address, i - 1, type)
           Selects(a) == IF kind = "GEMV" THEN GEMVSelects(a, type, bandwidth_x)
                         ELSE ReadWriteSelects(a)
           top == NumBundle(size)
           After(f, n) == IF n = 0 THEN <<>>
                          ELSE IF Selects(place(n)) THEN Append(f[n - 1], place(n))
                          ELSE f[n - 1]
           first == CHOOSE f : f = [n \in 0 .. top |-> After(f, n)]
           S == {n \in Nat : \E f \in [0 .. n -> Seq(Places)] :
                               \A k \in 0 .. n : f[k] = After(f, k)}
<1>1. Kernel(kind, address, size, type, bandwidth_x) = first[top]
  BY DEF Kernel
<1>2. top \in Nat
  BY Parts, ConfigAssumption DEF NumBundle
<1>3. \A n \in Nat : n # 0 => place(n) \in Places
  BY PlaceOfBundle
<1> HIDE DEF place, Selects, top
<1>4. 0 \in S
  <2> DEFINE f == [k \in 0 .. 0 |-> <<>>]
  <2>1. f \in [0 .. 0 -> Seq(Places)] /\ \A k \in 0 .. 0 : f[k] = After(f, k)
    OBVIOUS
  <2> QED
    BY <2>1
<1>5. ASSUME NEW n \in Nat, n \in S PROVE n + 1 \in S
  <2>1. PICK f \in [0 .. n -> Seq(Places)] : \A k \in 0 .. n : f[k] = After(f, k)
    BY <1>5
  <2> DEFINE last == IF Selects(place(n + 1)) THEN Append(f[n], place(n + 1)) ELSE f[n]
             g == [k \in 0 .. n + 1 |-> IF k = n + 1 THEN last ELSE f[k]]
  <2>2. last \in Seq(Places)
    <3>1. f[n] \in Seq(Places) /\ place(n + 1) \in Places
      BY <1>3, <2>1
    <3> QED
      BY <3>1
  <2>3. g \in [0 .. n + 1 -> Seq(Places)]
    <3> HIDE DEF last
    <3> QED
      BY <2>1, <2>2
  <2>4. ASSUME NEW k \in 0 .. n + 1 PROVE g[k] = After(g, k)
    <3>1. CASE k = n + 1
      <4>1. g[k - 1] = f[n] /\ k # 0 /\ g[k] = last
        BY <3>1
      <4> HIDE DEF g
      <4> QED
        BY <3>1, <4>1
    <3>2. CASE k # n + 1
      <4>1. k \in 0 .. n /\ g[k] = f[k] /\ (k # 0 => g[k - 1] = f[k - 1])
        BY <3>2
      <4> HIDE DEF g
      <4> QED
        BY <2>1, <4>1
    <3> QED
      BY <3>1, <3>2
  <2> HIDE DEF g
  <2>5. \E h \in [0 .. n + 1 -> Seq(Places)] : \A k \in 0 .. n + 1 : h[k] = After(h, k)
    <3> HIDE DEF After
    <3> QED
      BY <2>3, <2>4
  <2> DEFINE m == n + 1
  <2>6. \E h \in [0 .. m -> Seq(Places)] : \A k \in 0 .. m : h[k] = After(h, k)
    <3> HIDE DEF After
    <3> QED
      BY <2>5
  <2>7. m \in Nat
    OBVIOUS
  <2> HIDE DEF m, After
  <2>8. m \in S
    BY <2>6, <2>7
  <2> QED
    BY <2>8 DEF m
<1> HIDE DEF S
<1>6. Nat \subseteq S
  BY <1>4, <1>5, SetInduction
<1>7. PICK f \in [0 .. top -> Seq(Places)] : \A k \in 0 .. top : f[k] = After(f, k)
  BY <1>2, <1>6 DEF S
<1>8. f = [n \in 0 .. top |-> After(f, n)]
  BY <1>7
<1>9. first = [n \in 0 .. top |-> After(first, n)]
  BY <1>8
<1> DEFINE E == {n \in Nat : n \in 0 .. top => first[n] \in Seq(Places)}
<1> HIDE DEF first
<1>10. \A n \in 0 .. top : first[n] = After(first, n)
  BY <1>9
<1>11. 0 \in E
  <2>1. first[0] = <<>>
    BY <1>2, <1>10
  <2>2. first[0] \in Seq(Places)
    BY <2>1
  <2> QED
    BY <2>2
<1>12. ASSUME NEW n \in Nat, n \in E PROVE n + 1 \in E
  <2> SUFFICES ASSUME n + 1 \in 0 .. top PROVE first[n + 1] \in Seq(Places)
    OBVIOUS
  <2>1. n \in 0 .. top /\ n + 1 # 0 /\ (n + 1) - 1 = n
    BY <1>2
  <2>2. first[n] \in Seq(Places)
    BY <1>12, <2>1
  <2>3. first[n + 1] = IF Selects(place(n + 1)) THEN Append(first[n], place(n + 1))
                       ELSE first[n]
    BY <1>10, <2>1
  <2>4. place(n + 1) \in Places
    BY <1>3, <2>1
  <2> QED
    BY <2>2, <2>3, <2>4
<1> HIDE DEF E
<1>13. Nat \subseteq E
  BY <1>11, <1>12, SetInduction
<1>14. first \in [0 .. top -> Seq(Places)]
  <2>1. \A n \in 0 .. top : first[n] \in Seq(Places)
    BY <1>2, <1>13 DEF E
  <2>2. first = [n \in 0 .. top |-> first[n]]
    BY <1>9, <1>10
  <2> QED
    BY <2>1, <2>2
<1>15. /\ first[0] = <<>>
       /\ \A n \in 1 .. top : first[n] =
            IF Selects(place(n)) THEN Append(first[n - 1], place(n)) ELSE first[n - 1]
  BY <1>2, <1>10
<1>16. MadeOf(first, kind, address, size, type, bandwidth_x)
  BY <1>1, <1>14, <1>15 DEF MadeOf, Takes, top, Selects, place
<1> QED
  BY <1>16

LEMMA KernelPlaces ==
  ASSUME NEW kind, NEW address \in Nat, NEW size \in Nat, NEW type, NEW bandwidth_x
  PROVE  Kernel(kind, address, size, type, bandwidth_x) \in Seq(Places)
<1>1. NumBundle(size) \in Nat
  BY Parts, ConfigAssumption DEF NumBundle
<1> DEFINE top == NumBundle(size)
<1>2. PICK f : MadeOf(f, kind, address, size, type, bandwidth_x)
  BY KernelSteps, Zenon
<1>3. /\ f \in [0 .. top -> Seq(Places)]
      /\ Kernel(kind, address, size, type, bandwidth_x) = f[top]
  BY <1>2 DEF MadeOf
<1>4. top \in 0 .. top
  BY <1>1
<1> HIDE DEF top
<1> QED
  BY <1>3, <1>4
-----------------------------------------------------------------------------
(* The invariant of the accounts *)

LEMMA EmptyIsOne ==
  ASSUME NEW S
  PROVE  <<>> \in Seq(S)
OBVIOUS

LEMMA NoneCounted ==
  /\ NoCommands \in [Counters -> Nat]
  /\ \A kind : Filled(kind, 0, NoCommands)
<1>1. \A k \in Counters : NoCommands[k] = 0
  BY DEF NoCommands, Counters
<1>2. NoCommands \in [Counters -> Nat]
  BY DEF NoCommands, Counters
<1> QED
  BY <1>1, <1>2, CounterNames DEF Filled, EndCounters

\* A new device waits for nothing and has no row open.
LEMMA NewDeviceOK == DeviceOK(NewDevice)
<1> DEFINE w == NewDevice.wait
<1>1. NewDevice = [wait |-> NewDevice.wait, open |-> NewDevice.open]
  BY DEF NewDevice
<1>2. NewDevice.open \in [Banks -> SUBSET Nat] /\ w = <<>>
  BY DEF NewDevice
<1> HIDE DEF w
<1>3. DOMAIN w = {} /\ w = [k \in DOMAIN w |-> w[k]]
  BY <1>2
<1> QED
  BY <1>1, <1>2, <1>3 DEF DeviceOK, w

LEMMA InitAccountInv == Init => AccountInv
<1> SUFFICES ASSUME Init PROVE AccountInv
  OBVIOUS
<1>1. DepartInv
  BY InitDepartInv
<1>2. objects \in Seq([tag : STRING, size : Nat, address : Nat]) /\ start_addr_normal \in Nat
  BY DEF Init
<1>3. DeviceOK(dev)
  BY NewDeviceOK DEF Init
<1>4. next_refresh \in 1 .. NREFI
  BY ControllerAssumption DEF Init
<1>5. buffer = [b \in Buffers |-> <<>>] /\ pending = <<>>
  BY DEF Init
<1>6. /\ request = [kind |-> "none", n |-> 0, done |-> {}, issued |-> NoCommands]
      /\ request.kind = "none" /\ request.n = 0 /\ request.done = {}
      /\ request.issued = NoCommands
  BY DEF Init
<1>7. BuffersOK(buffer, request)
  <2>1. \A b \in Buffers : buffer[b] = <<>>
    BY <1>5
  <2>2. \A b \in Held : buffer[b] \in Seq(CommandsOf(request.kind, 0))
    <3> DEFINE C == CommandsOf(request.kind, 0)
    <3> HIDE DEF C
    <3>1. \A b \in Held : buffer[b] \in Seq(C)
      BY <2>1, EmptyIsOne DEF Held
    <3> QED
      BY <3>1 DEF C
  <2>3. buffer["priority"] \in Seq(RefreshRecords)
    BY <2>1, EmptyIsOne DEF Buffers
  <2>4. buffer = [b \in Buffers |-> buffer[b]]
    BY <1>5
  <2> QED
    BY <2>2, <2>3, <2>4 DEF BuffersOK
<1>8. Under(pending) = <<>>
  <2>1. DOMAIN pending = {}
    BY <1>5
  <2> QED
    BY <2>1 DEF Under
<1>9. RequestOK(request)
  BY <1>6, NoneCounted, FS_EmptySet DEF RequestOK
<1>10. OnePlaceEach(buffer, pending, request)
  <2>1. \A b \in Held : Ids(buffer[b]) = {} /\ DistinctIds(buffer[b])
    BY <1>5 DEF Held, Ids, DistinctIds
  <2>2. Ids(Under(pending)) = {} /\ DistinctIds(Under(pending))
    BY <1>8 DEF Ids, DistinctIds
  <2> QED
    BY <1>6, <2>1, <2>2 DEF OnePlaceEach, Parted
<1>11. Kept(buffer, pending, request)
  BY <1>7, <1>8, <1>9, <1>10 DEF Kept
<1>12. Finished(buffer, pending)
  BY <1>5 DEF Finished
<1>13. exec_status = UpdateStatus(request)
  <2>1. \A i \in 0 .. 9 : request.issued[DRAMCommandType[i + 1]] = 0
    BY <1>6 DEF NoCommands, DRAMCommandType, Range
  <2> QED
    BY <2>1 DEF Init, UpdateStatus, NewStatus
<1> QED
  BY <1>1, <1>2, <1>3, <1>4, <1>11, <1>12, <1>13 DEF AccountInv

\* Placing a tensor leaves the controller alone.
LEMMA SetNormalAccountInv ==
  ASSUME AccountInv, SetNormal
  PROVE  AccountInv'
<1>1. UNCHANGED <<dev, buffer, pending, next_refresh, request, exec_status, running>>
  BY DEF SetNormal
<1>2. DepartInv'
  BY <1>1 DEF AccountInv, DepartInv, InOrder
<1> DEFINE t == Tensors[Len(objects) + 1]
           shared == t[1] \in {"act", "cache"}
           new == [tag |-> t[1], size |-> t[2],
                   address |-> IF shared THEN 0 ELSE start_addr_normal]
<1>3. t[1] \in STRING /\ t[2] \in Nat
  <2>1. Len(objects) \in Nat /\ Len(objects) + 1 \in 1 .. Len(Tensors)
    BY ControllerAssumption DEF AccountInv, SetNormal
  <2>2. t \in STRING \X Nat
    BY <2>1, ControllerAssumption
  <2> QED
    BY <2>2
<1>4. /\ objects' = Append(objects, new)
      /\ start_addr_normal' = start_addr_normal + (IF shared THEN 0 ELSE t[2])
  BY DEF SetNormal
<1> HIDE DEF t
<1>5. start_addr_normal' \in Nat
  BY <1>3, <1>4 DEF AccountInv
<1>6. new \in [tag : STRING, size : Nat, address : Nat]
  BY <1>3 DEF AccountInv
<1> HIDE DEF new
<1>7. objects' \in Seq([tag : STRING, size : Nat, address : Nat])
  BY <1>4, <1>6 DEF AccountInv
<1>8. Kept(buffer, pending, request)' /\ DeviceOK(dev)'
  BY <1>1 DEF AccountInv
<1> QED
  BY <1>1, <1>2, <1>5, <1>7, <1>8 DEF AccountInv

\* The commands of a new request are numbered from one and none is done.
LEMMA HandleAccountInv ==
  ASSUME AccountInv, NEW o \in DOMAIN objects, NEW q \in Requests, HandleRequest(o, q)
  PROVE  AccountInv'
<1> DEFINE cmds == Kernel(q[1], objects[o].address, objects[o].size, q[2], q[3])
           type == TypeOfRequest[q[1]]
           into == CASE type = "Read" -> "read" [] type = "Write" -> "write"
                     [] OTHER -> "pim"
           sent == [i \in DOMAIN cmds |->
                     [id |-> i, type |-> type, issued |-> NoCommands,
                      addr |-> [path |-> <<cmds[i].pc, cmds[i].rank,
                                           cmds[i].bankgroup, cmds[i].bank>>,
                                row |-> cmds[i].row]]]
           C == CommandsOf(q[1], 0)
<1>1. /\ ~ running /\ running' = TRUE
      /\ UNCHANGED <<objects, start_addr_normal, dev, next_refresh>>
  BY DEF HandleRequest
<1>2. pending = <<>> /\ \A b \in Buffers : buffer[b] = <<>>
  BY <1>1 DEF AccountInv, Finished
<1>3. buffer = [b \in Buffers |-> buffer[b]]
  BY DEF AccountInv, Kept, BuffersOK
<1>4. q[1] \in {"kRead", "kWrite", "GEMV"}
  BY ControllerAssumption
<1>5. /\ q[1] \in DOMAIN TypeOfRequest /\ type \in {"Read", "Write", "AllRead"}
      /\ into \in Held /\ into \in Buffers
  BY <1>4 DEF TypeOfRequest, Held, Buffers
<1>6. cmds \in Seq(Places)
  <2>1. objects[o].address \in Nat /\ objects[o].size \in Nat
    <3> DEFINE O == [tag : STRING, size : Nat, address : Nat]
    <3> HIDE DEF O
    <3>1. objects \in Seq(O)
      BY DEF AccountInv, O
    <3>2. objects[o] \in O
      BY <3>1
    <3> QED
      BY <3>2 DEF O
  <2> QED
    BY <2>1, KernelPlaces
<1>7. /\ request' = [kind |-> q[1], n |-> Len(cmds), done |-> {}, issued |-> NoCommands]
      /\ pending' = pending
      /\ buffer' = [buffer EXCEPT ![into] = @ \o sent]
  BY <1>2 DEF HandleRequest, Buffers
<1> HIDE DEF cmds, type
<1>8. Len(cmds) \in Nat /\ DOMAIN cmds = 1 .. Len(cmds)
  BY <1>6
<1>9. /\ sent \in Seq(C) /\ DOMAIN sent = 1 .. Len(cmds)
      /\ \A i \in 1 .. Len(cmds) : sent[i].id = i
  <2>1. ASSUME NEW i \in 1 .. Len(cmds) PROVE sent[i] \in C /\ sent[i].id = i
    <3> DEFINE addr == [path |-> <<cmds[i].pc, cmds[i].rank,
                                   cmds[i].bankgroup, cmds[i].bank>>,
                        row |-> cmds[i].row]
    <3>1. cmds[i] \in Places
      BY <1>6
    <3>2. addr \in [path : Banks, row : Nat]
      BY <3>1 DEF Places, Banks
    <3>3. sent[i] = [id |-> i, type |-> type, issued |-> NoCommands, addr |-> addr]
      BY <1>8
    <3> HIDE DEF addr, sent
    <3>4. i \in Nat
      OBVIOUS
    <3>5. sent[i] \in CommandRecords /\ sent[i].type = type /\ sent[i].id = i
          /\ sent[i].issued = NoCommands
      BY <1>5, <3>2, <3>3, <3>4, NoneCounted DEF CommandRecords
    <3>6. Filled(q[1], 0, sent[i].issued)
      BY <3>5, NoneCounted
    <3> QED
      BY <1>5, <3>5, <3>6 DEF CommandsOf, type
  <2>2. sent = [i \in 1 .. Len(cmds) |-> sent[i]]
    BY <1>8
  <2> HIDE DEF sent, C
  <2>3. sent \in [1 .. Len(cmds) -> C]
    BY <2>1, <2>2
  <2> QED
    BY <1>8, <2>1, <2>3
<1>10. \A b \in Buffers : buffer'[b] = IF b = into THEN sent ELSE <<>>
  <2>1. buffer[into] \o sent = sent
    <3> HIDE DEF sent, into, C
    <3> QED
      BY <1>2, <1>5, <1>9
  <2> HIDE DEF sent, into
  <2> QED
    BY <1>2, <1>3, <1>5, <1>7, <2>1
<1> HIDE DEF sent, into
<1>11. /\ request'.kind = q[1] /\ request'.n = Len(cmds) /\ request'.done = {}
       /\ request'.issued = NoCommands
       /\ request' = [kind |-> request'.kind, n |-> request'.n, done |-> request'.done,
                      issued |-> request'.issued]
  BY <1>7
<1>12. BuffersOK(buffer', request')
  <2>1. buffer' = [b \in Buffers |-> buffer'[b]]
    BY <1>3, <1>7
  <2>2. \A b \in Held : buffer'[b] \in Seq(C)
    <3> HIDE DEF C
    <3>1. \A b \in Held : buffer'[b] = sent \/ buffer'[b] = <<>>
      BY <1>10 DEF Held
    <3> QED
      BY <1>9, <3>1, EmptyIsOne
  <2>3. buffer'["priority"] \in Seq(RefreshRecords)
    <3>1. buffer'["priority"] = <<>>
      BY <1>5, <1>10 DEF Held, Buffers
    <3> QED
      BY <3>1
  <2> QED
    BY <1>11, <2>1, <2>2, <2>3 DEF BuffersOK
<1>13. Under(pending') = <<>>
  <2>1. DOMAIN pending' = {}
    BY <1>2, <1>7
  <2> QED
    BY <2>1 DEF Under
<1>14. RequestOK(request')
  BY <1>4, <1>8, <1>11, NoneCounted, FS_EmptySet DEF RequestOK
<1>15. OnePlaceEach(buffer', pending', request')
  <2>1. Ids(sent) = 1 .. Len(cmds) /\ DistinctIds(sent)
    BY <1>9 DEF Ids, DistinctIds
  <2>2. Ids(<<>>) = {} /\ DistinctIds(<<>>)
    BY DEF Ids, DistinctIds
  <2>3. \A b \in Held : /\ Ids(buffer'[b]) = IF b = into THEN 1 .. Len(cmds) ELSE {}
                        /\ DistinctIds(buffer'[b])
    BY <1>10, <2>1, <2>2 DEF Held
  <2>4. Parted([b \in Held |-> Ids(buffer'[b])], {}, {}, Len(cmds))
    BY <1>5, <2>3 DEF Parted
  <2> QED
    BY <1>11, <1>13, <2>2, <2>3, <2>4 DEF OnePlaceEach
<1>16. Kept(buffer', pending', request')
  BY <1>12, <1>13, <1>14, <1>15 DEF Kept
<1>17. DepartInv'
  BY HandleDepartInv DEF AccountInv
<1> QED
  BY <1>1, <1>16, <1>17 DEF AccountInv

LEMMA NextAccountInv ==
  ASSUME AccountInv, [Next]_vars
  PROVE  AccountInv'
<1>1. CASE UNCHANGED vars
  <2>1. DepartInv'
    BY <1>1, NextDepartInv DEF AccountInv
  <2> QED
    BY <1>1, <2>1 DEF vars, AccountInv
<1>2. CASE Next
  BY <1>2, SetNormalAccountInv, HandleAccountInv, TickAccountInv DEF Next
<1> QED
  BY <1>1, <1>2

-----------------------------------------------------------------------------
(* The theorem *)

\* Whatever the timing, the geometry of the DRAM, the refresh interval and the
\* requests: a finished request has every command back once, has them all in
\* the one counter of its kind, and has left nothing in the buffers.
THEOREM DramAccounts == Spec => []DramInv
<1>1. AccountInv => DramTypeOK
  <2> SUFFICES ASSUME AccountInv PROVE DramTypeOK
    OBVIOUS
  <2>1. ASSUME NEW b \in Buffers, NEW i \in DOMAIN buffer[b]
        PROVE  /\ RequestRecord(buffer[b][i])
               /\ b = "priority" <=> buffer[b][i].type = "Refresh"
    <3>1. CASE b = "priority"
      <4>1. buffer[b][i] \in RefreshRecords
        BY <3>1 DEF AccountInv, Kept, BuffersOK
      <4> QED
        BY <3>1, <4>1 DEF RefreshRecords, RequestRecord, Counters
    <3>2. CASE b # "priority"
      <4>1. buffer[b][i] \in CommandRecords
        <5> DEFINE C == CommandsOf(request.kind, 0)
        <5>1. \A h \in Held : buffer[h] \in Seq(C)
          BY DEF AccountInv, Kept, BuffersOK
        <5>2. b \in Held
          BY <3>2 DEF Held
        <5>3. \A c \in C : c \in CommandRecords
          BY DEF CommandsOf
        <5> HIDE DEF C
        <5> QED
          BY <5>1, <5>2, <5>3
      <4> QED
        BY <3>2, <4>1 DEF CommandRecords, RequestRecord, Counters
    <3> QED
      BY <3>1, <3>2
  <2>2. ASSUME NEW i \in DOMAIN pending PROVE RequestRecord(pending[i].r)
    <3> DEFINE u == Under(pending)
    <3>1. u[i] = pending[i].r /\ i \in DOMAIN u
      BY DEF Under
    <3>2. u \in Seq(CommandsOf(request.kind, 1))
      BY DEF AccountInv, Kept
    <3> HIDE DEF u
    <3>3. u[i] \in CommandRecords
      BY <3>1, <3>2 DEF CommandsOf
    <3> QED
      BY <3>1, <3>3 DEF CommandRecords, RequestRecord, Counters
  <2>3. request.done \subseteq 1 .. request.n
    BY DEF AccountInv, Kept, RequestOK
  <2> QED
    BY <2>1, <2>2, <2>3 DEF DramTypeOK, AccountInv, DeviceOK
<1>2. AccountInv => AccountedFor
  <2> SUFFICES ASSUME AccountInv, ~ running
               PROVE  /\ request.done = 1 .. request.n
                      /\ exec_status.read = IF request.kind = "kRead" THEN request.n ELSE 0
                      /\ exec_status.write = IF request.kind = "kWrite" THEN request.n ELSE 0
                      /\ exec_status.all_read = IF request.kind = "GEMV" THEN request.n ELSE 0
                      /\ Finished(buffer, pending)
    BY DEF AccountedFor
  <2>1. /\ Finished(buffer, pending) /\ exec_status = UpdateStatus(request)
        /\ RequestOK(request) /\ OnePlaceEach(buffer, pending, request)
    BY DEF AccountInv, Kept
  <2>2. request.done = 1 .. request.n
    <3>1. \A b \in Held : Ids(buffer[b]) = {}
      BY <2>1 DEF Finished, Held, Ids
    <3>2. Ids(Under(pending)) = {}
      <4>1. DOMAIN pending = {}
        BY <2>1 DEF Finished
      <4> QED
        BY <4>1 DEF Ids, Under
    <3> DEFINE I == [b \in Held |-> Ids(buffer[b])]
    <3>3. 1 .. request.n =
            (UNION {I[b] : b \in Held}) \cup Ids(Under(pending)) \cup request.done
      BY <2>1 DEF OnePlaceEach, Parted
    <3>4. \A b \in Held : I[b] = {}
      BY <3>1
    <3> HIDE DEF I
    <3>5. UNION {I[b] : b \in Held} = {}
      BY <3>4
    <3> QED
      BY <3>2, <3>3, <3>5
  <2>3. Cardinality(request.done) = request.n
    BY <2>1, <2>2, FS_Interval DEF RequestOK
  <2>4. /\ exec_status.read = request.issued["kREAD"]
        /\ exec_status.write = request.issued["kWRITE"]
        /\ exec_status.all_read = request.issued["kALL_READ"]
    BY <2>1 DEF UpdateStatus, DRAMCommandType
  <2>5. \A k \in EndCounters : request.issued[k] =
          IF k = CounterOfRequest[request.kind] THEN request.n ELSE 0
    BY <2>1, <2>3 DEF RequestOK, Filled
  <2>6. request.kind \in {"none", "kRead", "kWrite", "GEMV"}
    BY <2>1 DEF RequestOK
  <2> QED
    BY <2>1, <2>2, <2>4, <2>5, <2>6 DEF EndCounters, CounterOfRequest
<1> QED
  BY <1>1, <1>2, InitAccountInv, NextAccountInv, PTL DEF Spec, DramInv
-----------------------------------------------------------------------------
(* The rows of the active requests *)

\* What a tick schedules from, and what it finds.
Queued ==
  IF next_refresh = 1 THEN [buffer EXCEPT !["priority"] = @ \o RefreshRequests] ELSE buffer
FoundNow == Schedule(Ticked(dev), Queued, is_write_mode)

LEMMA TickFinds ==
  ASSUME AccountInv, Tick
  PROVE  /\ BuffersOK(Queued, request) /\ Queued["active"] = buffer["active"]
         /\ DeviceOK(Ticked(dev)) /\ Ticked(dev).open = dev.open
         /\ ~ FoundNow.found => dev' = Ticked(dev) /\ buffer' = Queued
         /\ FoundNow.found => \E pend, p :
              LET out == Issue(FoundNow, Ticked(dev), Queued, pend, p)
              IN  dev' = out.dev /\ buffer' = out.buffer
<1> DEFINE under == [i \in DOMAIN pending |-> [pending[i] EXCEPT !.left = @ - 1]]
           serve == under # <<>> /\ Head(under).left <= 0
           pend == IF serve THEN Tail(under) ELSE under
           p == IF serve THEN CalledBack(request, Head(under).r) ELSE request
           out == Issue(FoundNow, Ticked(dev), Queued, pend, p)
<1>1. Kept(buffer, pending, request) /\ DeviceOK(dev)
  BY DEF AccountInv
<1>2. BuffersOK(Queued, request)
  BY <1>1, RefreshKept DEF Queued, Kept
<1>3. Queued["active"] = buffer["active"]
  <2>1. buffer = [b \in Buffers |-> buffer[b]]
    BY <1>1 DEF Kept, BuffersOK
  <2> QED
    BY <2>1 DEF Queued, Buffers
<1>4. dev' = Ticking.dev /\ buffer' = Ticking.buffer
  BY DEF Tick
<1>5. Ticking = IF FoundNow.found THEN out
                ELSE [dev |-> Ticked(dev), buffer |-> Queued, pending |-> pend,
                      request |-> p, mode |-> FoundNow.mode]
  BY DEF Ticking, FoundNow, Queued
<1> HIDE DEF pend, p
<1>6. CASE FoundNow.found
  <2>1. dev' = out.dev /\ buffer' = out.buffer
    BY <1>4, <1>5, <1>6
  <2> QED
    BY <1>1, <1>2, <1>3, <1>6, <2>1, TickedDevice
<1>7. CASE ~ FoundNow.found
  <2>1. dev' = Ticked(dev) /\ buffer' = Queued
    BY <1>4, <1>5, <1>7
  <2> QED
    BY <1>1, <1>2, <1>3, <1>7, <2>1, TickedDevice
<1> QED
  BY <1>6, <1>7

\* A command issued for a request is one of the device, on its address.
LEMMA IssuedFor ==
  ASSUME NEW buf, NEW p, BuffersOK(buf, p), NEW d, NEW mode, Schedule(d, buf, mode).found
  PROVE  LET s == Schedule(d, buf, mode)
             r == buf[s.from][s.at]
         IN  /\ UpdateState(r, s.command).addr = r.addr
             /\ s.from = "priority" => s.command \in {"PREA", "REFab"}
             /\ s.from # "priority" =>
                  /\ s.command \in RowCommands \cup {"RD", "WR", "ALL-RD"}
                  /\ r \in CommandsOf(p.kind, 0)
                  /\ UpdateState(r, s.command).type = r.type
<1> DEFINE s == Schedule(d, buf, mode)
           from == s.from
           at == s.at
           r == buf[from][at]
<1>1. from \in Buffers /\ at \in 1 .. Len(buf[from]) /\ s.command = CommandOf(d, r)
  BY ScheduleFinds
<1> HIDE DEF s, from, at
<1>2. CASE from = "priority"
  <2>1. buf[from] \in Seq(RefreshRecords)
    BY <1>2 DEF BuffersOK
  <2>2. r \in RefreshRecords
    BY <1>1, <2>1
  <2> HIDE DEF r
  <2>3. UpdateState(r, s.command).addr = r.addr /\ s.command \in {"PREA", "REFab"}
    BY <1>1, <2>2, RefreshCounted
  <2> QED
    BY <1>2, <2>3 DEF s, from, at, r
<1>3. CASE from # "priority"
  <2>1. from \in Held
    BY <1>1, <1>3 DEF Held
  <2>2. buf[from] \in Seq(CommandsOf(p.kind, 0))
    BY <2>1 DEF BuffersOK
  <2>3. r \in CommandsOf(p.kind, 0)
    BY <1>1, <2>2
  <2> HIDE DEF r
  <2>4. s.command \in RowCommands \cup {EndCommand(p.kind)}
    BY <1>1, <2>3, AskedCommand
  <2>5. /\ UpdateState(r, s.command).addr = r.addr
        /\ UpdateState(r, s.command).type = r.type
        /\ EndCommand(p.kind) \in {"RD", "WR", "ALL-RD"}
    BY <2>3, <2>4, CommandCounted, EndOfCommand
  <2> QED
    BY <1>3, <2>3, <2>4, <2>5 DEF s, from, at, r
<1> QED
  BY <1>2, <1>3

\* Nothing but a refresh closes a row the scheduler sees an active request for.
KeepsRow(addr) ==
  addr.row \in dev.open[addr.path] =>
    \/ addr.row \in dev'.open[addr.path]
    \/ \A b \in Banks : dev'.open[b] = {}

LEMMA WindowKeepsRow ==
  ASSUME AccountInv, Tick, NEW i \in Window(buffer["active"])
  PROVE  KeepsRow(buffer["active"][i].addr)
<1> DEFINE q == buffer["active"]
           addr == q[i].addr
           d == Ticked(dev)
           s == FoundNow
           r == Queued[s.from][s.at]
           c == s.command
<1>1. /\ BuffersOK(Queued, request) /\ Queued["active"] = q
      /\ d.open = dev.open
      /\ ~ s.found => dev' = d
      /\ s.found => dev' = Issued(d, c, UpdateState(r, c).addr)
  <2>1. s.found => \E pend, p : dev' = Issue(s, d, Queued, pend, p).dev
    BY TickFinds
  <2>2. \A pend, p : Issue(s, d, Queued, pend, p).dev = Issued(d, c, UpdateState(r, c).addr)
    BY DEF Issue
  <2> HIDE DEF s
  <2>3. s.found => dev' = Issued(d, c, UpdateState(r, c).addr)
    BY <2>1, <2>2
  <2> QED
    BY <2>3, TickFinds DEF s
<1>2. addr.path \in Banks
  <2>1. q \in Seq(CommandsOf(request.kind, 0))
    BY <1>1 DEF BuffersOK, Held, Buffers
  <2>2. i \in Window(q)
    OBVIOUS
  <2> HIDE DEF q
  <2>3. i \in 1 .. Len(q)
    <3>1. Window(q) = 1 .. (IF BufferSize <= Len(q) THEN BufferSize ELSE Len(q))
      BY <2>1, WindowIs
    <3>2. BufferSize \in Nat /\ Len(q) \in Nat
      BY <2>1, ControllerAssumption
    <3> QED
      BY <2>2, <3>1, <3>2
  <2>4. q[i] \in CommandRecords
    BY <2>1, <2>3 DEF CommandsOf
  <2> QED
    BY <2>4 DEF CommandRecords
<1>3. dev.open \in [Banks -> SUBSET Nat]
  BY DEF AccountInv, DeviceOK
<1> HIDE DEF addr
<1>4. CASE ~ s.found
  BY <1>1, <1>4 DEF KeepsRow, addr
<1>5. CASE s.found
  <2>1. /\ UpdateState(r, c).addr = r.addr
        /\ c \in RowCommands \cup {"RD", "WR", "ALL-RD"} \cup {"PREA", "REFab"}
        /\ ~ Interrupts(c, r.addr, q)
    <3>1. /\ UpdateState(r, c).addr = r.addr
          /\ s.from = "priority" => c \in {"PREA", "REFab"}
          /\ s.from # "priority" => c \in RowCommands \cup {"RD", "WR", "ALL-RD"}
      BY <1>1, <1>5, IssuedFor DEF FoundNow
    <3>2. ~ Interrupts(c, r.addr, q)
      BY <1>1, <1>5, ScheduleFinds DEF FoundNow
    <3> QED
      BY <3>1, <3>2
  <2>2. dev' = Issued(d, c, r.addr)
    BY <1>1, <1>5, <2>1
  <2> DEFINE path == r.addr.path
             row == r.addr.row
  <2>3. dev'.open = CASE IsOpening(c) -> [dev.open EXCEPT ![path] = @ \cup {row}]
                      [] c \in {"PRE", "ALL-PRE"} -> [dev.open EXCEPT ![path] = {}]
                      [] c = "PREA" -> [b \in Banks |-> {}]
                      [] OTHER -> dev.open
    BY <1>1, <2>2 DEF Issued
  <2>4. IsClosing(c) => path # addr.path
    BY <2>1 DEF Interrupts, addr
  <2> HIDE DEF path, row, c, q, s
  <2>5. CASE IsOpening(c)
    <3>1. dev'.open = [dev.open EXCEPT ![path] = @ \cup {row}]
      BY <2>3, <2>5 DEF IsOpening
    <3> QED
      BY <1>2, <1>3, <3>1 DEF KeepsRow, addr, q
  <2>6. CASE c \in {"PRE", "ALL-PRE"}
    <3>1. dev'.open = [dev.open EXCEPT ![path] = {}]
      BY <2>3, <2>6 DEF IsOpening
    <3>2. path # addr.path
      BY <2>4, <2>6 DEF IsClosing
    <3> QED
      BY <1>2, <1>3, <3>1, <3>2 DEF KeepsRow, addr, q
  <2>7. CASE c = "PREA"
    <3>1. dev'.open = [b \in Banks |-> {}]
      BY <2>3, <2>7 DEF IsOpening
    <3> QED
      BY <3>1 DEF KeepsRow
  <2>8. CASE c \in {"RD", "WR", "ALL-RD", "REFab"}
    <3>1. dev'.open = dev.open
      BY <2>3, <2>8 DEF IsOpening
    <3> QED
      BY <3>1 DEF KeepsRow, addr, q
  <2> QED
    BY <2>1, <2>5, <2>6, <2>7, <2>8 DEF RowCommands, IsOpening
<1> QED
  BY <1>4, <1>5

-----------------------------------------------------------------------------
(* One active request for each bank *)

OnePerBank(q) == \A i, j \in DOMAIN q : q[i].addr.path = q[j].addr.path => i = j

LEMMA RemovedBank ==
  ASSUME NEW S, NEW q \in Seq(S), NEW i \in 1 .. Len(q), OnePerBank(q)
  PROVE  /\ RemoveAt(q, i) \in Seq(S) /\ OnePerBank(RemoveAt(q, i))
         /\ \A j \in DOMAIN RemoveAt(q, i) : RemoveAt(q, i)[j].addr.path # q[i].addr.path
<1> DEFINE t == RemoveAt(q, i)
           at == [j \in 1 .. Len(q) - 1 |-> IF j < i THEN j ELSE j + 1]
<1>1. /\ DOMAIN q = 1 .. Len(q) /\ Len(q) \in Nat
      /\ t \in Seq(S) /\ Len(t) = Len(q) - 1 /\ DOMAIN t = 1 .. Len(q) - 1
      /\ \A j \in 1 .. Len(q) - 1 : t[j] = q[at[j]]
  <2>1. /\ t \in Seq(S) /\ Len(t) = Len(q) - 1
        /\ \A j \in 1 .. Len(q) - 1 : t[j] = IF j < i THEN q[j] ELSE q[j + 1]
    BY Removed
  <2> HIDE DEF t
  <2>2. DOMAIN q = 1 .. Len(q) /\ Len(q) \in Nat
    OBVIOUS
  <2> QED
    BY <2>1, <2>2
<1> HIDE DEF t
<1>2. \A j \in 1 .. Len(q) - 1 : at[j] \in 1 .. Len(q) /\ at[j] # i
  BY <1>1
<1>3. \A j, k \in 1 .. Len(q) - 1 : at[j] = at[k] => j = k
  BY <1>1
<1> HIDE DEF at
<1>4. \A j \in DOMAIN t : t[j].addr.path # q[i].addr.path
  BY <1>1, <1>2 DEF OnePerBank
<1>5. OnePerBank(t)
  <2> SUFFICES ASSUME NEW j \in DOMAIN t, NEW k \in DOMAIN t,
                      t[j].addr.path = t[k].addr.path
               PROVE  j = k
    BY DEF OnePerBank
  <2>1. t[j] = q[at[j]] /\ t[k] = q[at[k]] /\ at[j] \in DOMAIN q /\ at[k] \in DOMAIN q
    BY <1>1, <1>2
  <2>2. at[j] = at[k]
    BY <2>1 DEF OnePerBank
  <2> QED
    BY <1>1, <1>3, <2>2
<1> QED
  BY <1>1, <1>4, <1>5 DEF t

LEMMA AppendedBank ==
  ASSUME NEW S, NEW q \in Seq(S), NEW r \in S, OnePerBank(q),
         \A j \in DOMAIN q : q[j].addr.path # r.addr.path
  PROVE  OnePerBank(Append(q, r))
<1> DEFINE t == Append(q, r)
<1>1. /\ DOMAIN q = 1 .. Len(q) /\ Len(q) \in Nat /\ DOMAIN t = 1 .. Len(q) + 1
      /\ \A j \in 1 .. Len(q) : t[j] = q[j]
      /\ t[Len(q) + 1] = r
  OBVIOUS
<1> HIDE DEF t
<1>2. \A j \in 1 .. Len(q) + 1 : j \in 1 .. Len(q) \/ j = Len(q) + 1
  BY <1>1
<1>3. OnePerBank(t)
  BY <1>1, <1>2 DEF OnePerBank
<1> QED
  BY <1>3 DEF t

LEMMA ReplacedBank ==
  ASSUME NEW S, NEW q \in Seq(S), NEW i \in 1 .. Len(q), NEW r, r.addr = q[i].addr,
         OnePerBank(q)
  PROVE  OnePerBank([q EXCEPT ![i] = r])
<1> DEFINE t == [q EXCEPT ![i] = r]
<1>1. DOMAIN t = DOMAIN q /\ \A j \in DOMAIN q : t[j].addr = q[j].addr
  OBVIOUS
<1> HIDE DEF t
<1>2. OnePerBank(t)
  BY <1>1 DEF OnePerBank
<1> QED
  BY <1>2 DEF t

\* There are as many banks as the product of the levels of the device.
LEMMA NumberOfBanks ==
  ASSUME NEW q \in Seq(CommandRecords), OnePerBank(q)
  PROVE  Len(q) <= NumPc * NumRank * NumBankgroup * NumBank
<1> DEFINE A == 0 .. NumPc - 1
           B == 0 .. NumRank - 1
           C == 0 .. NumBankgroup - 1
           D == 0 .. NumBank - 1
           All == ((A \X B) \X C) \X D
           path(i) == q[i].addr.path
           f == [i \in 1 .. Len(q) |->
                   <<<<<<path(i)[1], path(i)[2]>>, path(i)[3]>>, path(i)[4]>>]
<1>1. /\ NumPc \in Nat /\ NumRank \in Nat /\ NumBankgroup \in Nat /\ NumBank \in Nat
      /\ NumPc > 0 /\ NumRank > 0 /\ NumBankgroup > 0 /\ NumBank > 0
  BY ConfigAssumption DEF NumPc
<1>2. /\ IsFiniteSet(A) /\ IsFiniteSet(B) /\ IsFiniteSet(C) /\ IsFiniteSet(D)
      /\ Cardinality(A) = NumPc /\ Cardinality(B) = NumRank
      /\ Cardinality(C) = NumBankgroup /\ Cardinality(D) = NumBank
  <2>1. ASSUME NEW n \in Nat, n > 0
        PROVE  IsFiniteSet(0 .. n - 1) /\ Cardinality(0 .. n - 1) = n
    BY FS_Interval
  <2> HIDE DEF NumPc
  <2> QED
    BY <1>1, <2>1
<1>3. \A i \in 1 .. Len(q) : path(i) \in A \X B \X C \X D
  <2>1. \A r \in CommandRecords : r.addr.path \in Banks
    BY DEF CommandRecords
  <2>2. \A i \in 1 .. Len(q) : q[i] \in CommandRecords
    OBVIOUS
  <2> QED
    BY <2>1, <2>2 DEF Banks
<1>4. \A i, j \in 1 .. Len(q) : path(i) = path(j) => i = j
  <2>1. DOMAIN q = 1 .. Len(q)
    OBVIOUS
  <2> QED
    BY <2>1 DEF OnePerBank
<1> HIDE DEF A, B, C, D, path
<1>5. IsFiniteSet(All) /\ Cardinality(All) = NumPc * NumRank * NumBankgroup * NumBank
  <2> DEFINE AB == A \X B
             ABC == AB \X C
  <2>1. IsFiniteSet(AB) /\ Cardinality(AB) = NumPc * NumRank
    BY <1>2, FS_Product
  <2>2. All = ABC \X D
    OBVIOUS
  <2> HIDE DEF AB, All
  <2>3. IsFiniteSet(ABC) /\ Cardinality(ABC) = Cardinality(AB) * Cardinality(C)
    BY <1>2, <2>1, FS_Product
  <2> HIDE DEF ABC
  <2>4. IsFiniteSet(All) /\ Cardinality(All) = Cardinality(ABC) * Cardinality(D)
    BY <1>2, <2>2, <2>3, FS_Product
  <2> QED
    BY <1>2, <2>1, <2>3, <2>4
<1>6. f \in Injection(1 .. Len(q), All)
  <2>1. \A i \in 1 .. Len(q) :
          /\ path(i) = <<path(i)[1], path(i)[2], path(i)[3], path(i)[4]>>
          /\ path(i)[1] \in A /\ path(i)[2] \in B /\ path(i)[3] \in C /\ path(i)[4] \in D
    BY <1>3
  <2>2. f \in [1 .. Len(q) -> All]
    BY <2>1
  <2>3. ASSUME NEW i \in 1 .. Len(q), NEW j \in 1 .. Len(q), f[i] = f[j] PROVE i = j
    <3>1. /\ path(i)[1] = path(j)[1] /\ path(i)[2] = path(j)[2]
          /\ path(i)[3] = path(j)[3] /\ path(i)[4] = path(j)[4]
      BY <2>3
    <3>2. path(i) = path(j)
      BY <2>1, <3>1
    <3> QED
      BY <1>4, <3>2
  <2> HIDE DEF f, All
  <2> QED
    BY <2>2, <2>3 DEF Injection, IsInjective
<1> HIDE DEF f, All
<1>7. Cardinality(1 .. Len(q)) = Len(q) /\ Len(q) \in Nat
  BY FS_Interval
<1> QED
  BY <1>5, <1>6, <1>7, FS_Injection

\* The scheduler looks at all active requests: they fit in its window ...
AllSeen == Len(buffer["active"]) <= BufferSize

LEMMA WindowIsAll ==
  ASSUME NEW q \in Seq(CommandRecords), Len(q) <= BufferSize
  PROVE  Window(q) = DOMAIN q
<1>1. Len(q) \in Nat /\ BufferSize \in Nat /\ DOMAIN q = 1 .. Len(q)
  BY ControllerAssumption
<1> DEFINE n == Len(q)
           m == IF BufferSize <= n THEN BufferSize ELSE n
<1>2. Window(q) = 1 .. m
  BY WindowIs
<1>3. n \in Nat /\ n <= BufferSize
  BY <1>1
<1>4. m = n
  <2> HIDE DEF n
  <2> QED
    BY <1>1, <1>3
<1> HIDE DEF m
<1> QED
  BY <1>1, <1>2, <1>4

\* ... which they do if it has an entry for each bank.
AnEntryForEachBank == NumPc * NumRank * NumBankgroup * NumBank <= BufferSize

LEMMA EntriesEnough ==
  ASSUME AnEntryForEachBank, NEW q \in Seq(CommandRecords), OnePerBank(q)
  PROVE  Len(q) <= BufferSize
<1> DEFINE banks == NumPc * NumRank * NumBankgroup * NumBank
<1>1. Len(q) <= banks /\ banks <= BufferSize
  BY NumberOfBanks DEF AnEntryForEachBank
<1>2. banks \in Nat
  <2>1. NumPc \in Nat /\ NumRank \in Nat /\ NumBankgroup \in Nat /\ NumBank \in Nat
    BY ConfigAssumption DEF NumPc
  <2> HIDE DEF NumPc
  <2>2. NumPc * NumRank \in Nat
    BY <2>1
  <2> DEFINE x == NumPc * NumRank
             y == x * NumBankgroup
  <2> HIDE DEF x
  <2>3. y \in Nat
    BY <2>1, <2>2 DEF x
  <2> HIDE DEF y
  <2>4. y * NumBank \in Nat
    BY <2>1, <2>3
  <2> QED
    BY <2>4 DEF x, y
<1> HIDE DEF banks
<1>3. Len(q) \in Nat /\ BufferSize \in Nat
  BY ControllerAssumption
<1> QED
  BY <1>1, <1>2, <1>3

\* Two requests of a kind for the same closed bank need the same command and
\* are ready together.
LEMMA ReadyTogether ==
  ASSUME NEW kind, NEW r \in CommandsOf(kind, 0), NEW a \in CommandsOf(kind, 0), NEW d,
         r.addr.path = a.addr.path, IsOpening(CommandOf(d, r)), Ready(d, r)
  PROVE  Ready(d, a)
<1>1. r.type = a.type /\ FinalCommand(r.type) \in {"RD", "WR", "ALL-RD"}
  BY EndOfCommand DEF CommandsOf
<1> DEFINE final == FinalCommand(r.type)
<1> HIDE DEF final
<1>2. d.open[r.addr.path] = {}
  <2>1. IsOpening(Preq(d, final, r.addr)) /\ final \in {"RD", "WR", "ALL-RD"}
    BY <1>1 DEF CommandOf, final
  <2> QED
    BY <2>1 DEF Preq, IsOpening
<1>3. Preq(d, final, r.addr) = Preq(d, final, a.addr)
  <2>1. final # "REFab"
    BY <1>1 DEF final
  <2> QED
    BY <1>2, <2>1 DEF Preq
<1>4. CommandOf(d, r) = CommandOf(d, a)
  BY <1>1, <1>3 DEF CommandOf, final
<1>5. PathOf(r.addr) = PathOf(a.addr)
  BY DEF PathOf
<1> QED
  BY <1>4, <1>5 DEF Ready, CheckReady

\* A request becomes active for a bank that has no active request.
LEMMA IssueOnePerBank ==
  ASSUME NEW buf, NEW p, BuffersOK(buf, p), OnePerBank(buf["active"]),
         Len(buf["active"]) <= BufferSize,
         NEW d, NEW mode, Schedule(d, buf, mode).found, NEW e, NEW pend, NEW p1
  PROVE  OnePerBank(Issue(Schedule(d, buf, mode), e, buf, pend, p1).buffer["active"])
<1> DEFINE s == Schedule(d, buf, mode)
           from == s.from
           at == s.at
           r0 == buf[from][at]
           c == s.command
           r == UpdateState(r0, c)
           q == buf["active"]
           final == c = FinalCommand(r.type)
           moves == IsOpening(c) /\ CommandId(c) \in {0, 1}
           rest == [buf EXCEPT ![from] = RemoveAt(@, at)]
           same == [buf EXCEPT ![from][at] = r]
           b1 == Issue(s, e, buf, pend, p1).buffer
           C == CommandsOf(p.kind, 0)
<1>1. b1 = CASE final -> rest
             [] ~ final /\ moves -> [rest EXCEPT !["active"] = Append(@, r)]
             [] OTHER -> same
  BY DEF Issue
<1>2. /\ from \in Buffers /\ at \in 1 .. Len(buf[from])
      /\ c = CommandOf(d, r0) /\ Ready(d, r0)
      /\ from # "active" => ~ ReadyBest(d, q)
  BY ScheduleFinds
<1>3. /\ r.addr = r0.addr
      /\ from = "priority" => c \in {"PREA", "REFab"}
      /\ from # "priority" => r0 \in C
  BY IssuedFor
<1> HIDE DEF s
<1>4. /\ q \in Seq(C) /\ DOMAIN buf = Buffers /\ "active" \in Buffers
      /\ q \in Seq(CommandRecords) /\ C \subseteq CommandRecords
  <2>1. q \in Seq(C)
    BY DEF BuffersOK, Held, Buffers
  <2>2. C \subseteq CommandRecords
    BY DEF CommandsOf
  <2>3. DOMAIN buf = Buffers
    BY DEF BuffersOK
  <2> HIDE DEF q, C
  <2>4. q \in Seq(CommandRecords)
    BY <2>1, <2>2
  <2> QED
    BY <2>1, <2>2, <2>3, <2>4 DEF Buffers
<1> HIDE DEF C, r, final, moves, b1, c
<1>5. CASE from = "active"
  <2> DEFINE t == RemoveAt(q, at)
             u == [q EXCEPT ![at] = r]
  <2>1. at \in 1 .. Len(q) /\ r.addr = q[at].addr
    BY <1>2, <1>3, <1>5
  <2>2. /\ t \in Seq(C) /\ OnePerBank(t)
        /\ \A j \in DOMAIN t : t[j].addr.path # q[at].addr.path
    <3> HIDE DEF q
    <3> QED
      BY <1>4, <2>1, RemovedBank DEF q
  <2>3. OnePerBank(u)
    <3> HIDE DEF q, at
    <3> QED
      BY <1>4, <2>1, ReplacedBank DEF q
  <2>4. OnePerBank(Append(t, r))
    <3> DEFINE S == C \cup {r}
    <3>1. t \in Seq(S) /\ r \in S
      <4> HIDE DEF t
      <4>1. \A i \in 1 .. Len(t) : t[i] \in S
        BY <2>2
      <4> HIDE DEF S
      <4>2. t \in Seq(S)
        BY <2>2, <4>1
      <4> QED
        BY <4>2 DEF S
    <3> HIDE DEF S, t, q, at
    <3> QED
      BY <2>1, <2>2, <3>1, AppendedBank
  <2>5. rest["active"] = t /\ same["active"] = u /\ DOMAIN rest = Buffers
    BY <1>4, <1>5
  <2> HIDE DEF t, u, rest, same
  <2>6. b1["active"] \in {t, u, Append(t, r)}
    BY <1>1, <1>4, <2>5
  <2> QED
    BY <2>2, <2>3, <2>4, <2>6 DEF b1, s
<1>6. CASE from # "active"
  <2>1. rest["active"] = q /\ same["active"] = q /\ DOMAIN rest = Buffers
    BY <1>4, <1>6
  <2>2. CASE ~ final /\ moves
    <3>1. b1["active"] = Append(q, r)
      <4>1. b1 = [rest EXCEPT !["active"] = Append(@, r)]
        BY <1>1, <2>2
      <4> HIDE DEF rest, q
      <4> QED
        BY <1>4, <2>1, <4>1
    <3>2. IsOpening(c) /\ r0 \in C
      <4>1. IsOpening(c)
        BY <2>2 DEF moves
      <4> QED
        BY <1>3, <4>1 DEF IsOpening
    <3>3. ASSUME NEW j \in DOMAIN q PROVE q[j].addr.path # r.addr.path
      <4> SUFFICES ASSUME q[j].addr.path = r0.addr.path PROVE FALSE
        BY <1>3
      <4>1. Window(q) = DOMAIN q
        BY <1>4, WindowIsAll
      <4>2. q # <<>> /\ q[j] \in C
        <5> HIDE DEF q
        <5> QED
          BY <1>4
      <4>3. Ready(d, q[j])
        <5> DEFINE a == q[j]
        <5> HIDE DEF a, r0
        <5>1. a \in C /\ r0 \in C /\ r0.addr.path = a.addr.path
              /\ IsOpening(CommandOf(d, r0)) /\ Ready(d, r0)
          BY <1>2, <3>2, <4>2 DEF a
        <5>2. Ready(d, a)
          BY <5>1, ReadyTogether DEF C
        <5> QED
          BY <5>2 DEF a
      <4>4. Ready(d, q[Best(d, q)])
        <5> HIDE DEF q
        <5> QED
          BY <1>4, <4>1, <4>2, <4>3, BestInWindow
      <4> QED
        BY <1>2, <1>6, <4>2, <4>4 DEF ReadyBest
    <3>4. OnePerBank(Append(q, r))
      <4> DEFINE S == C \cup {r}
      <4> HIDE DEF q
      <4>1. q \in Seq(S) /\ r \in S
        <5>1. \A i \in 1 .. Len(q) : q[i] \in S
          BY <1>4
        <5> HIDE DEF S
        <5>2. q \in Seq(S)
          BY <1>4, <5>1
        <5> QED
          BY <5>2 DEF S
      <4>2. OnePerBank(q)
        BY DEF q
      <4> HIDE DEF S
      <4> QED
        BY <3>3, <4>1, <4>2, AppendedBank
    <3> QED
      BY <3>1, <3>4 DEF b1, s
  <2>3. CASE final \/ ~ moves
    <3>1. b1 = rest \/ b1 = same
      BY <1>1, <2>3
    <3>2. b1["active"] = q
      BY <2>1, <3>1
    <3> QED
      BY <3>2 DEF b1, s
  <2> QED
    BY <2>2, <2>3
<1> QED
  BY <1>5, <1>6

\* The active requests are commands.
LEMMA ActiveCommands ==
  ASSUME AccountInv
  PROVE  buffer["active"] \in Seq(CommandRecords)
<1> DEFINE q == buffer["active"]
           C == CommandsOf(request.kind, 0)
<1>1. q \in Seq(C)
  BY DEF AccountInv, Kept, BuffersOK, Held, Buffers
<1>2. \A r \in C : r \in CommandRecords
  BY DEF CommandsOf
<1> HIDE DEF q, C
<1>3. q \in Seq(CommandRecords)
  BY <1>1, <1>2
<1> QED
  BY <1>3 DEF q

RowInv == AccountInv /\ OnePerBank(buffer["active"])

LEMMA InitRowInv == Init => RowInv
<1> SUFFICES ASSUME Init PROVE RowInv
  OBVIOUS
<1>1. buffer["active"] = <<>>
  BY DEF Init, Buffers
<1> QED
  BY <1>1, InitAccountInv DEF RowInv, OnePerBank

LEMMA NextRowInv ==
  ASSUME AllSeen, RowInv, [Next]_vars
  PROVE  RowInv'
<1>1. AccountInv /\ OnePerBank(buffer["active"])
  BY DEF RowInv
<1>2. AccountInv'
  BY <1>1, NextAccountInv
<1>3. CASE buffer' = buffer
  BY <1>1, <1>2, <1>3 DEF RowInv, OnePerBank
<1>4. CASE Tick
  <2> DEFINE s == FoundNow
             d == Ticked(dev)
             b0 == Queued
  <2>1. /\ BuffersOK(b0, request) /\ b0["active"] = buffer["active"]
        /\ ~ s.found => buffer' = b0
        /\ s.found => \E pend, p : buffer' = Issue(s, d, b0, pend, p).buffer
    BY <1>1, <1>4, TickFinds
  <2>2. OnePerBank(b0["active"])
    BY <1>1, <2>1
  <2>3. CASE s.found
    <3>1. PICK pend, p : buffer' = Issue(s, d, b0, pend, p).buffer
      BY <2>1, <2>3
    <3>2. OnePerBank(Issue(s, d, b0, pend, p).buffer["active"])
      <4>1. Len(b0["active"]) <= BufferSize
        BY <2>1 DEF AllSeen
      <4> QED
        BY <2>1, <2>2, <2>3, <4>1, IssueOnePerBank DEF FoundNow
    <3>3. OnePerBank(buffer'["active"])
      BY <3>1, <3>2
    <3> QED
      BY <1>2, <3>3 DEF RowInv, OnePerBank
  <2>4. CASE ~ s.found
    <3>1. OnePerBank(buffer'["active"])
      BY <2>1, <2>2, <2>4
    <3> QED
      BY <1>2, <3>1 DEF RowInv, OnePerBank
  <2> QED
    BY <2>3, <2>4
<1>5. CASE \E o \in DOMAIN objects, q \in Requests : HandleRequest(o, q)
  <2>1. PICK o \in DOMAIN objects, q \in Requests : HandleRequest(o, q)
    BY <1>5
  <2>2. buffer["active"] = <<>> /\ DOMAIN buffer = Buffers
    BY <1>1, <2>1 DEF HandleRequest, AccountInv, Finished, Kept, BuffersOK, Buffers
  <2>3. buffer'["active"] = <<>>
    BY <2>1, <2>2 DEF HandleRequest, Buffers
  <2> QED
    BY <1>2, <2>3 DEF RowInv, OnePerBank
<1> QED
  BY <1>3, <1>4, <1>5 DEF Next, SetNormal, vars

\* A row opened for an active request stays open until the request is served,
\* unless a refresh closes all banks, as long as the controller looks at all
\* active requests.
THEOREM ActiveRowsKept == Spec /\ []AllSeen => ActiveKeepsItsRow
<1> DEFINE AllKept ==
      \A i \in DOMAIN buffer["active"] : KeepsRow(buffer["active"][i].addr)
<1>1. AllSeen /\ RowInv /\ [Next]_vars => [AllKept]_dev
  <2> SUFFICES ASSUME AllSeen, RowInv, [Next]_vars PROVE [AllKept]_dev
    OBVIOUS
  <2>1. CASE ~ Tick
    <3>1. dev' = dev
      <4>1. SetNormal => dev' = dev
        BY DEF SetNormal
      <4>2. ASSUME NEW o, NEW q, HandleRequest(o, q) PROVE dev' = dev
        BY <4>2 DEF HandleRequest
      <4> QED
        BY <2>1, <4>1, <4>2 DEF Next, vars
    <3> QED
      BY <3>1
  <2>2. CASE Tick
    <3>1. AccountInv /\ buffer["active"] \in Seq(CommandRecords)
      BY ActiveCommands DEF RowInv
    <3>2. Window(buffer["active"]) = DOMAIN buffer["active"]
      BY <3>1, WindowIsAll DEF AllSeen
    <3> QED
      BY <2>2, <3>1, <3>2, WindowKeepsRow
  <2> QED
    BY <2>1, <2>2
<1>2. AllSeen /\ RowInv /\ [Next]_vars => RowInv'
  BY NextRowInv
<1> QED
  BY <1>1, <1>2, InitRowInv, PTL DEF Spec, ActiveKeepsItsRow, KeepsRow

\* With a buffer entry for each bank (32 of each in HBM3's one-rank presets)
\* nothing else is needed: no bank ever has two active requests.
THEOREM ActiveRowsKeptOneRank == AnEntryForEachBank => (Spec => ActiveKeepsItsRow)
<1> SUFFICES ASSUME AnEntryForEachBank PROVE Spec => ActiveKeepsItsRow
  OBVIOUS
<1>1. RowInv => AllSeen
  BY ActiveCommands, EntriesEnough DEF RowInv, AllSeen
<1>2. RowInv /\ [Next]_vars => RowInv'
  BY <1>1, NextRowInv
<1> QED
  BY <1>1, <1>2, InitRowInv, ActiveRowsKept, PTL DEF Spec
-----------------------------------------------------------------------------
(* Places of the weights *)

\* A number is known by its quotient and its remainder.
LEMMA SameParts ==
  ASSUME NEW n \in Nat \ {0}, NEW x \in Nat, NEW y \in Nat,
         x \div n = y \div n, x % n = y % n
  PROVE  x = y
<1>1. x = (x \div n) * n + (x % n) /\ y = (y \div n) * n + (y % n)
  BY Division
<1> DEFINE q == x \div n
           r == x % n
<1>2. x = q * n + r /\ y = q * n + r
  BY <1>1
<1> HIDE DEF q, r
<1> QED
  BY <1>2

\* The quotients of two numbers are in their order.
LEMMA QuotientsOrdered ==
  ASSUME NEW n \in Nat \ {0}, NEW x \in Nat, NEW y \in Nat, x <= y
  PROVE  x \div n <= y \div n
<1> DEFINE q == x \div n
           r == x % n
           p == y \div n
           s == y % n
<1>1. q \in Nat /\ r \in 0 .. n - 1 /\ x = q * n + r
  BY Division
<1>2. p \in Nat /\ s \in 0 .. n - 1 /\ y = p * n + s
  BY Division
<1> HIDE DEF q, r, p, s
<1>3. ~ (p < q)
  <2> SUFFICES ASSUME p + 1 <= q PROVE FALSE
    BY <1>1, <1>2
  <2>1. (p + 1) * n <= q * n /\ (p + 1) * n = p * n + n
    BY <1>1, <1>2
  <2> QED
    BY <1>1, <1>2, <2>1
<1> QED
  BY <1>1, <1>2, <1>3 DEF q, p

LEMMA QuotientBelow ==
  ASSUME NEW n \in Nat \ {0}, NEW a \in Nat, NEW x \in Nat, x < a * n
  PROVE  x \div n < a
<1> DEFINE q == x \div n
           r == x % n
<1>1. q \in Nat /\ r \in 0 .. n - 1 /\ x = q * n + r
  BY Division
<1> HIDE DEF q, r
<1>2. ~ (a <= q)
  <2> SUFFICES ASSUME a <= q PROVE FALSE
    OBVIOUS
  <2>1. a * n <= q * n
    BY <1>1
  <2> QED
    BY <1>1, <2>1
<1> QED
  BY <1>1, <1>2 DEF q

\* Whole bundles add up, what is left over may make one more.
LEMMA QuotientOfSum ==
  ASSUME NEW n \in Nat \ {0}, NEW x \in Nat, NEW y \in Nat
  PROVE  x \div n + y \div n <= (x + y) \div n
<1> DEFINE q == x \div n
           r == x % n
           p == y \div n
           s == y % n
<1>1. q \in Nat /\ r \in 0 .. n - 1 /\ x = q * n + r
  BY Division
<1>2. p \in Nat /\ s \in 0 .. n - 1 /\ y = p * n + s
  BY Division
<1> HIDE DEF q, r, p, s
<1>3. (q + p) * n <= x + y /\ (q + p) * n \in Nat
  <2>1. (q + p) * n = q * n + p * n
    BY <1>1, <1>2
  <2>2. q * n \in Nat /\ p * n \in Nat
    BY <1>1, <1>2
  <2> QED
    BY <1>1, <1>2, <2>1, <2>2
<1> DEFINE m == (q + p) * n
<1>4. m \div n <= (x + y) \div n
  <2> HIDE DEF m
  <2> QED
    BY <1>3, QuotientsOrdered DEF m
<1>5. m \div n = q + p
  <2>1. q + p \in Nat /\ 0 \in 0 .. n - 1 /\ m = (q + p) * n + 0
    BY <1>1, <1>2, <1>3
  <2> QED
    BY <2>1, DivisionUnique
<1> QED
  BY <1>4, <1>5 DEF q, p

\* A bundle of a tensor is so many bundles behind its first.
LEMMA BundleAt ==
  ASSUME NEW a \in Nat, NEW i \in Nat
  PROVE  (a + i * Granul) \div Granul = a \div Granul + i
<1> DEFINE q == a \div Granul
           r == a % Granul
<1>0. Granul \in Nat \ {0}
  BY ConfigAssumption
<1>1. q \in Nat /\ r \in 0 .. Granul - 1 /\ a = q * Granul + r
  BY <1>0, Division
<1> HIDE DEF q, r
<1>2. a + i * Granul = (q + i) * Granul + r
  <2>1. (q + i) * Granul = q * Granul + i * Granul
    BY <1>0, <1>1
  <2>2. q * Granul \in Nat /\ i * Granul \in Nat
    BY <1>0, <1>1
  <2> QED
    BY <1>0, <1>1, <2>1, <2>2
<1>3. q + i \in Nat
  BY <1>1
<1> QED
  BY <1>0, <1>1, <1>2, <1>3, DivisionUnique DEF q

\* The bundles the logic die's codec tells apart.
LogicBundles ==
  NumRank * 2 * NumRow * NumCol * 2 * NumBankgroup * NumChannel * NumLogicCube

\* The GPU's codec tells all bundles apart, its row has no end.
LEMMA GpuCodec ==
  ASSUME NEW x \in Nat, NEW y \in Nat, AddrToVec(x) = AddrToVec(y)
  PROVE  x \div Granul = y \div Granul
<1>1. /\ NumCube \in Nat \ {0} /\ NumChannel \in Nat \ {0} /\ NumRank \in Nat \ {0}
      /\ NumBankgroup \in Nat \ {0} /\ NumBank \in Nat \ {0}
      /\ NumCol \in Nat \ {0} /\ Granul \in Nat \ {0}
  BY ConfigAssumption
<1> DEFINE b(a)  == a \div Granul
           q1(a) == b(a) \div NumCube
           q2(a) == q1(a) \div NumChannel
           q3(a) == q2(a) \div NumRank
           q4(a) == q3(a) \div NumBankgroup
           q5(a) == q4(a) \div NumBank
<1>2. \A a : AddrToVec(a) =
        [cube |-> b(a) % NumCube, channel |-> q1(a) % NumChannel,
         rank |-> q2(a) % NumRank, bankgroup |-> q3(a) % NumBankgroup,
         bank |-> q4(a) % NumBank, row |-> q5(a) \div NumCol, col |-> q5(a) % NumCol]
  BY DEF AddrToVec
<1>3. /\ b(x) % NumCube = b(y) % NumCube /\ q1(x) % NumChannel = q1(y) % NumChannel
      /\ q2(x) % NumRank = q2(y) % NumRank
      /\ q3(x) % NumBankgroup = q3(y) % NumBankgroup
      /\ q4(x) % NumBank = q4(y) % NumBank
      /\ q5(x) \div NumCol = q5(y) \div NumCol /\ q5(x) % NumCol = q5(y) % NumCol
  <2> HIDE DEF b, q1, q2, q3, q4, q5
  <2> DEFINE vx == AddrToVec(x)
             vy == AddrToVec(y)
  <2>1. /\ vx.cube = vy.cube /\ vx.channel = vy.channel /\ vx.rank = vy.rank
        /\ vx.bankgroup = vy.bankgroup /\ vx.bank = vy.bank
        /\ vx.row = vy.row /\ vx.col = vy.col
    OBVIOUS
  <2> QED
    BY <1>2, <2>1
<1> HIDE DEF q5
<1>4. \A a \in {x, y} : b(a) \in Nat /\ q1(a) \in Nat /\ q2(a) \in Nat
                          /\ q3(a) \in Nat /\ q4(a) \in Nat /\ q5(a) \in Nat
  <2> SUFFICES ASSUME NEW a \in Nat
               PROVE  b(a) \in Nat /\ q1(a) \in Nat /\ q2(a) \in Nat
                        /\ q3(a) \in Nat /\ q4(a) \in Nat /\ q5(a) \in Nat
    OBVIOUS
  <2> HIDE DEF b, q1, q2, q3, q4
  <2>1. b(a) \in Nat
    BY <1>1, Parts DEF b
  <2>2. q1(a) \in Nat
    BY <1>1, <2>1, Parts DEF q1
  <2>3. q2(a) \in Nat
    BY <1>1, <2>2, Parts DEF q2
  <2>4. q3(a) \in Nat
    BY <1>1, <2>3, Parts DEF q3
  <2>5. q4(a) \in Nat
    BY <1>1, <2>4, Parts DEF q4
  <2>6. q5(a) \in Nat
    BY <1>1, <2>5, Parts DEF q5
  <2> QED
    BY <2>1, <2>2, <2>3, <2>4, <2>5, <2>6
<1> HIDE DEF b, q1, q2, q3, q4
<1>5. q5(x) = q5(y)
  BY <1>1, <1>3, <1>4, SameParts
<1>6. q4(x) = q4(y)
  BY <1>1, <1>3, <1>4, <1>5, SameParts DEF q5
<1>7. q3(x) = q3(y)
  BY <1>1, <1>3, <1>4, <1>6, SameParts DEF q4
<1>8. q2(x) = q2(y)
  BY <1>1, <1>3, <1>4, <1>7, SameParts DEF q3
<1>9. q1(x) = q1(y)
  BY <1>1, <1>3, <1>4, <1>8, SameParts DEF q2
<1>10. b(x) = b(y)
  BY <1>1, <1>3, <1>4, <1>9, SameParts DEF q1
<1> QED
  BY <1>10 DEF b

\* The logic die's codec does so for as many bundles as it has places.
LEMMA LogicCodec ==
  ASSUME NEW x \in Nat, NEW y \in Nat, AddrToVecLogic(x) = AddrToVecLogic(y),
         x \div Granul < LogicBundles, y \div Granul < LogicBundles
  PROVE  x \div Granul = y \div Granul
<1>1. /\ NumLogicCube \in Nat \ {0} /\ NumChannel \in Nat \ {0} /\ NumRank \in Nat \ {0}
      /\ NumBankgroup \in Nat \ {0} /\ NumRow \in Nat \ {0}
      /\ NumCol \in Nat \ {0} /\ Granul \in Nat \ {0} /\ 2 \in Nat \ {0}
  BY ConfigAssumption
<1> DEFINE b(a)  == a \div Granul
           q1(a) == b(a) \div NumLogicCube
           q2(a) == q1(a) \div NumChannel
           q3(a) == q2(a) \div NumBankgroup
           q4(a) == q3(a) \div 2
           q5(a) == q4(a) \div NumCol
           q6(a) == q5(a) \div NumRow
           h(a)  == q6(a) \div 2
<1>2. \A a : AddrToVecLogic(a) =
        [cube |-> b(a) % NumLogicCube, channel |-> q1(a) % NumChannel,
         rank |-> h(a) % NumRank, bankgroup |-> q2(a) % NumBankgroup,
         bank |-> (q6(a) % 2) * 2 + (q3(a) % 2), row |-> q5(a) % NumRow,
         col |-> q4(a) % NumCol]
  BY DEF AddrToVecLogic
<1>3. /\ b(x) % NumLogicCube = b(y) % NumLogicCube
      /\ q1(x) % NumChannel = q1(y) % NumChannel
      /\ h(x) % NumRank = h(y) % NumRank
      /\ q2(x) % NumBankgroup = q2(y) % NumBankgroup
      /\ (q6(x) % 2) * 2 + (q3(x) % 2) = (q6(y) % 2) * 2 + (q3(y) % 2)
      /\ q5(x) % NumRow = q5(y) % NumRow
      /\ q4(x) % NumCol = q4(y) % NumCol
  <2> HIDE DEF b, q1, q2, q3, q4, q5, q6, h
  <2> DEFINE vx == AddrToVecLogic(x)
             vy == AddrToVecLogic(y)
  <2>1. /\ vx.cube = vy.cube /\ vx.channel = vy.channel /\ vx.rank = vy.rank
        /\ vx.bankgroup = vy.bankgroup /\ vx.bank = vy.bank
        /\ vx.row = vy.row /\ vx.col = vy.col
    OBVIOUS
  <2> QED
    BY <1>2, <2>1
<1> DEFINE n6 == NumRank * 2
           n5 == n6 * NumRow
           n4 == n5 * NumCol
           n3 == n4 * 2
           n2 == n3 * NumBankgroup
           n1 == n2 * NumChannel
<1>4. \A a \in {x, y} :
        /\ b(a) \in Nat /\ q1(a) \in Nat /\ q2(a) \in Nat /\ q3(a) \in Nat
        /\ q4(a) \in Nat /\ q5(a) \in Nat /\ q6(a) \in Nat /\ h(a) \in Nat
        /\ h(a) < NumRank
  <2> SUFFICES ASSUME NEW a \in Nat, b(a) < LogicBundles
               PROVE  /\ b(a) \in Nat /\ q1(a) \in Nat /\ q2(a) \in Nat /\ q3(a) \in Nat
                      /\ q4(a) \in Nat /\ q5(a) \in Nat /\ q6(a) \in Nat /\ h(a) \in Nat
                      /\ h(a) < NumRank
    OBVIOUS
  <2>1. b(a) < n1 * NumLogicCube
    BY DEF LogicBundles
  <2> HIDE DEF b, q1, q2, q3, q4, q5, q6, h
  <2>2. /\ n6 \in Nat /\ n5 \in Nat /\ n4 \in Nat /\ n3 \in Nat /\ n2 \in Nat /\ n1 \in Nat
    <3> HIDE DEF n6, n5, n4, n3, n2, n1
    <3>1. n6 \in Nat
      BY <1>1 DEF n6
    <3>2. n5 \in Nat
      BY <1>1, <3>1 DEF n5
    <3>3. n4 \in Nat
      BY <1>1, <3>2 DEF n4
    <3>4. n3 \in Nat
      BY <1>1, <3>3 DEF n3
    <3>5. n2 \in Nat
      BY <1>1, <3>4 DEF n2
    <3>6. n1 \in Nat
      BY <1>1, <3>5 DEF n1
    <3> QED
      BY <3>1, <3>2, <3>3, <3>4, <3>5, <3>6
  <2> HIDE DEF n6, n5, n4, n3, n2, n1
  <2>3. b(a) \in Nat
    BY <1>1, Parts DEF b
  <2>4. q1(a) \in Nat /\ q1(a) < n1
    BY <1>1, <2>1, <2>2, <2>3, Parts, QuotientBelow DEF q1
  <2>5. q2(a) \in Nat /\ q2(a) < n2
    BY <1>1, <2>2, <2>4, Parts, QuotientBelow DEF q2, n1
  <2>6. q3(a) \in Nat /\ q3(a) < n3
    BY <1>1, <2>2, <2>5, Parts, QuotientBelow DEF q3, n2
  <2>7. q4(a) \in Nat /\ q4(a) < n4
    BY <1>1, <2>2, <2>6, Parts, QuotientBelow DEF q4, n3
  <2>8. q5(a) \in Nat /\ q5(a) < n5
    BY <1>1, <2>2, <2>7, Parts, QuotientBelow DEF q5, n4
  <2>9. q6(a) \in Nat /\ q6(a) < n6
    BY <1>1, <2>2, <2>8, Parts, QuotientBelow DEF q6, n5
  <2>10. h(a) \in Nat /\ h(a) < NumRank
    BY <1>1, <2>2, <2>9, Parts, QuotientBelow DEF h, n6
  <2> QED
    BY <2>3, <2>4, <2>5, <2>6, <2>7, <2>8, <2>9, <2>10
<1>5. q6(x) % 2 = q6(y) % 2 /\ q3(x) % 2 = q3(y) % 2
  <2> DEFINE u(a) == q6(a) % 2
             v(a) == q3(a) % 2
  <2> HIDE DEF b, q1, q2, q3, q4, q5, q6, h
  <2>1. \A a \in {x, y} : u(a) \in 0 .. 1 /\ v(a) \in 0 .. 1
    BY <1>4
  <2>2. u(x) * 2 + v(x) = u(y) * 2 + v(y)
    BY <1>3
  <2> HIDE DEF u, v
  <2>3. u(x) = u(y) /\ v(x) = v(y)
    BY <2>1, <2>2
  <2> QED
    BY <2>3 DEF u, v
<1> HIDE DEF b, q1, q2, q3, q4, q5, q6, h
<1>6. h(x) = h(y)
  <2>1. \A k \in Nat : k < NumRank => k % NumRank = k
    BY <1>1
  <2> QED
    BY <1>3, <1>4, <2>1
<1>7. q6(x) = q6(y)
  BY <1>1, <1>4, <1>5, <1>6, SameParts DEF h
<1>8. q5(x) = q5(y)
  BY <1>1, <1>3, <1>4, <1>7, SameParts DEF q6
<1>9. q4(x) = q4(y)
  BY <1>1, <1>3, <1>4, <1>8, SameParts DEF q5
<1>10. q3(x) = q3(y)
  BY <1>1, <1>4, <1>5, <1>9, SameParts DEF q4
<1>11. q2(x) = q2(y)
  BY <1>1, <1>3, <1>4, <1>10, SameParts DEF q3
<1>12. q1(x) = q1(y)
  BY <1>1, <1>3, <1>4, <1>11, SameParts DEF q2
<1>13. b(x) = b(y)
  BY <1>1, <1>3, <1>4, <1>12, SameParts DEF q1
<1> QED
  BY <1>13 DEF b

\* A place in the DRAM belongs to one bundle.
LEMMA OneBundleAPlace ==
  ASSUME NEW a \in Nat, NEW i \in Nat, NEW c \in Nat, NEW j \in Nat,
         NEW type \in {"GPU", "LOGIC"},
         a \div Granul + i < LogicBundles, c \div Granul + j < LogicBundles,
         GetAddrVec(a, i, type) = GetAddrVec(c, j, type)
  PROVE  a \div Granul + i = c \div Granul + j
<1> DEFINE x == a + i * Granul
           y == c + j * Granul
           Vec(z) == IF type = "LOGIC" THEN AddrToVecLogic(z) ELSE AddrToVec(z)
           ch(z) == NumChannel * Vec(z).cube + Vec(z).channel
           place(z) == [channel |-> ch(z) \div 2, pc |-> ch(z) % 2, rank |-> Vec(z).rank,
                        bankgroup |-> Vec(z).bankgroup, bank |-> Vec(z).bank,
                        row |-> Vec(z).row, col |-> Vec(z).col]
<1>1. x \in Nat /\ y \in Nat /\ NumChannel \in Nat \ {0} /\ 2 \in Nat \ {0}
  BY ConfigAssumption
<1>2. x \div Granul = a \div Granul + i /\ y \div Granul = c \div Granul + j
  BY BundleAt
<1>3. place(x) = place(y)
  BY DEF GetAddrVec
<1> HIDE DEF x, y
<1>4. \A z \in {x, y} : Vec(z).cube \in Nat /\ Vec(z).channel \in 0 .. NumChannel - 1
  <2> SUFFICES ASSUME NEW z \in Nat
               PROVE  Vec(z).cube \in Nat /\ Vec(z).channel \in 0 .. NumChannel - 1
    BY <1>1
  <2>1. Vec(z) \in {AddrToVec(z), AddrToVecLogic(z)}
    OBVIOUS
  <2> DEFINE v == Vec(z)
  <2> HIDE DEF v
  <2>2. v.cube \in Nat
    BY <2>1, VecPlaces DEF v
  <2>3. v.channel \in 0 .. NumChannel - 1
    <3>1. \E q \in Nat : v.channel = q % NumChannel
      <4>1. /\ AddrToVec(z).channel = ((z \div Granul) \div NumCube) % NumChannel
            /\ AddrToVecLogic(z).channel = ((z \div Granul) \div NumLogicCube) % NumChannel
        BY DEF AddrToVec, AddrToVecLogic
      <4>2. /\ (z \div Granul) \div NumCube \in Nat
            /\ (z \div Granul) \div NumLogicCube \in Nat
        BY Parts, ConfigAssumption
      <4> QED
        BY <2>1, <4>1, <4>2 DEF v
    <3> QED
      BY <1>1, <3>1, Parts
  <2> QED
    BY <2>2, <2>3 DEF v
<1> HIDE DEF Vec
<1>5. ch(x) = ch(y)
  <2>1. ch(x) \div 2 = ch(y) \div 2 /\ ch(x) % 2 = ch(y) % 2
    <3> DEFINE px == place(x)
               py == place(y)
    <3>1. px.channel = py.channel /\ px.pc = py.pc
      BY <1>3
    <3> QED
      BY <3>1
  <2>2. ch(x) \in Nat /\ ch(y) \in Nat
    BY <1>1, <1>4
  <2> HIDE DEF ch
  <2> QED
    BY <1>1, <2>1, <2>2, SameParts
<1>6. Vec(x).cube = Vec(y).cube /\ Vec(x).channel = Vec(y).channel
  <2> DEFINE p == Vec(x).cube
             q == Vec(y).cube
             k == Vec(x).channel
             l == Vec(y).channel
  <2>1. p \in Nat /\ q \in Nat /\ k \in 0 .. NumChannel - 1 /\ l \in 0 .. NumChannel - 1
    BY <1>4
  <2>2. p * NumChannel + k = q * NumChannel + l
    <3>1. ch(x) = NumChannel * p + k /\ ch(y) = NumChannel * q + l
      OBVIOUS
    <3>2. NumChannel * p + k = NumChannel * q + l
      BY <1>5, <3>1
    <3> HIDE DEF ch, p, q, k, l
    <3>3. NumChannel * p = p * NumChannel /\ NumChannel * q = q * NumChannel
      BY <1>1, <2>1
    <3> QED
      BY <3>2, <3>3
  <2> HIDE DEF p, q, k, l
  <2>3. /\ (p * NumChannel + k) \div NumChannel = p /\ (p * NumChannel + k) % NumChannel = k
        /\ (q * NumChannel + l) \div NumChannel = q /\ (q * NumChannel + l) % NumChannel = l
    BY <1>1, <2>1, DivisionUnique
  <2> QED
    BY <2>2, <2>3 DEF p, q, k, l
<1>7. Vec(x) = Vec(y)
  <2>1. /\ Vec(x).rank = Vec(y).rank /\ Vec(x).bankgroup = Vec(y).bankgroup
        /\ Vec(x).bank = Vec(y).bank /\ Vec(x).row = Vec(y).row /\ Vec(x).col = Vec(y).col
    <3> DEFINE px == place(x)
               py == place(y)
    <3>1. /\ px.rank = py.rank /\ px.bankgroup = py.bankgroup /\ px.bank = py.bank
          /\ px.row = py.row /\ px.col = py.col
      BY <1>3
    <3> QED
      BY <3>1
  <2>2. \A z : Vec(z) = [cube |-> Vec(z).cube, channel |-> Vec(z).channel,
          rank |-> Vec(z).rank, bankgroup |-> Vec(z).bankgroup, bank |-> Vec(z).bank,
          row |-> Vec(z).row, col |-> Vec(z).col]
    BY DEF Vec, AddrToVec, AddrToVecLogic
  <2> QED
    BY <1>6, <2>1, <2>2
<1>8. x \div Granul = y \div Granul
  <2>1. CASE type = "LOGIC"
    BY <1>1, <1>2, <1>7, <2>1, LogicCodec DEF Vec
  <2>2. CASE type = "GPU"
    BY <1>1, <1>7, <2>2, GpuCodec DEF Vec
  <2> QED
    BY <2>1, <2>2
<1> QED
  BY <1>2, <1>8

IsWeight(t) == t.tag \notin {"act", "cache"}

\* Each weight begins where those before it have ended, the next one at top.
InARow(obs, top) ==
  \A o \in DOMAIN obs : IsWeight(obs[o]) =>
    /\ obs[o].address + obs[o].size <= top
    /\ \A p \in DOMAIN obs : o < p /\ IsWeight(obs[p]) =>
         obs[o].address + obs[o].size <= obs[p].address

MemoryObjects == [tag : STRING, size : Nat, address : Nat]

LEMMA ObjectParts ==
  ASSUME NEW t \in MemoryObjects
  PROVE  t.address \in Nat /\ t.size \in Nat /\ t.address + t.size \in Nat
<1>1. t.address \in Nat /\ t.size \in Nat
  BY DEF MemoryObjects
<1> QED
  BY <1>1

\* The bundles of a weight lie within its bytes.
LEMMA BundlesInside ==
  ASSUME NEW t \in MemoryObjects, NEW i \in 0 .. NumBundle(t.size) - 1
  PROVE  /\ i \in Nat
         /\ t.address \div Granul <= t.address \div Granul + i
         /\ t.address \div Granul + i < (t.address + t.size) \div Granul
         /\ t.address \div Granul \in Nat
<1> DEFINE a == t.address
           z == t.size
           n == z \div Granul
           f == a \div Granul
           l == (a + z) \div Granul
<1>1. a \in Nat /\ z \in Nat /\ a + z \in Nat /\ Granul \in Nat \ {0}
  BY ConfigAssumption DEF MemoryObjects
<1>2. i \in 0 .. n - 1
  BY DEF NumBundle
<1> HIDE DEF a, z
<1>3. n \in Nat /\ f \in Nat /\ l \in Nat /\ f + n <= l
  BY <1>1, Parts, QuotientOfSum
<1> HIDE DEF n, f, l
<1>4. i \in Nat /\ f <= f + i /\ f + i < l
  BY <1>2, <1>3
<1> QED
  BY <1>3, <1>4 DEF a, z, f, l

\* So bundles of two weights are different ones.
LEMMA BundlesApart ==
  ASSUME NEW obs \in Seq(MemoryObjects), NEW top \in Nat, InARow(obs, top),
         NEW o \in DOMAIN obs, NEW p \in DOMAIN obs, IsWeight(obs[o]), IsWeight(obs[p]),
         NEW i \in 0 .. NumBundle(obs[o].size) - 1,
         NEW j \in 0 .. NumBundle(obs[p].size) - 1,
         obs[o].address \div Granul + i = obs[p].address \div Granul + j
  PROVE  o = p /\ i = j
<1>1. obs[o] \in MemoryObjects /\ obs[p] \in MemoryObjects /\ o \in Nat /\ p \in Nat
      /\ Granul \in Nat \ {0}
  BY ConfigAssumption
<1>2. ASSUME NEW m \in DOMAIN obs, NEW n \in DOMAIN obs, IsWeight(obs[m]), IsWeight(obs[n]),
             m < n, NEW k \in 0 .. NumBundle(obs[m].size) - 1,
             NEW l \in 0 .. NumBundle(obs[n].size) - 1
      PROVE  obs[m].address \div Granul + k < obs[n].address \div Granul + l
  <2> DEFINE s == obs[m]
             t == obs[n]
             e == (s.address + s.size) \div Granul
             f == t.address \div Granul
             g == s.address \div Granul
  <2>1. s \in MemoryObjects /\ t \in MemoryObjects
    OBVIOUS
  <2>2. s.address + s.size <= t.address
    BY <1>2 DEF InARow
  <2>3. k \in Nat /\ g + k < e /\ g \in Nat
    <3> HIDE DEF s
    <3>1. k \in 0 .. NumBundle(s.size) - 1
      BY DEF s
    <3> QED
      BY <2>1, <3>1, BundlesInside
  <2>4. l \in Nat /\ f <= f + l /\ f \in Nat
    <3> HIDE DEF t
    <3>1. l \in 0 .. NumBundle(t.size) - 1
      BY DEF t
    <3> QED
      BY <2>1, <3>1, BundlesInside
  <2>5. e <= f /\ e \in Nat
    <3> HIDE DEF s, t
    <3>1. s.address + s.size \in Nat /\ t.address \in Nat
      BY <2>1, ObjectParts
    <3> QED
      BY <1>1, <2>2, <3>1, QuotientsOrdered, Parts
  <2> HIDE DEF e, f, g
  <2>6. g + k < f + l
    BY <2>3, <2>4, <2>5
  <2> QED
    BY <2>6 DEF f, g, s, t
<1>3. obs[o].address \div Granul \in Nat /\ i \in Nat /\ j \in Nat
      /\ obs[p].address \div Granul \in Nat
  BY <1>1, BundlesInside
<1>4. ~ (o < p)
  <2> SUFFICES ASSUME o < p PROVE FALSE
    OBVIOUS
  <2>1. obs[o].address \div Granul + i < obs[p].address \div Granul + j
    BY <1>2
  <2> QED
    BY <1>3, <2>1
<1>5. ~ (p < o)
  <2> SUFFICES ASSUME p < o PROVE FALSE
    OBVIOUS
  <2>1. obs[p].address \div Granul + j < obs[o].address \div Granul + i
    BY <1>2
  <2> QED
    BY <1>3, <2>1
<1>6. o = p
  BY <1>1, <1>4, <1>5
<1> DEFINE f == obs[o].address \div Granul
<1>7. f \in Nat /\ f + i = f + j
  BY <1>3, <1>6
<1> HIDE DEF f
<1>8. i = j
  BY <1>3, <1>7
<1> QED
  BY <1>6, <1>8

\* The weights fit in what the logic die's codec tells apart.
WeightsFit == start_addr_normal <= LogicBundles * Granul

LEMMA WeightsApart ==
  ASSUME NEW obs \in Seq(MemoryObjects), NEW top \in Nat, InARow(obs, top),
         top <= LogicBundles * Granul, NEW type \in {"GPU", "LOGIC"},
         NEW o \in DOMAIN obs, NEW p \in DOMAIN obs, IsWeight(obs[o]), IsWeight(obs[p]),
         NEW i \in 0 .. NumBundle(obs[o].size) - 1,
         NEW j \in 0 .. NumBundle(obs[p].size) - 1,
         GetAddrVec(obs[o].address, i, type) = GetAddrVec(obs[p].address, j, type)
  PROVE  o = p /\ i = j
<1>1. LogicBundles \in Nat /\ Granul \in Nat \ {0}
  <2>1. /\ NumLogicCube \in Nat /\ NumChannel \in Nat /\ NumRank \in Nat
        /\ NumBankgroup \in Nat /\ NumRow \in Nat /\ NumCol \in Nat /\ Granul \in Nat \ {0}
    BY ConfigAssumption
  <2> DEFINE n5 == NumRank * 2 * NumRow
             n3 == n5 * NumCol * 2
             n2 == n3 * NumBankgroup
             n1 == n2 * NumChannel
  <2>2. LogicBundles = n1 * NumLogicCube
    BY DEF LogicBundles
  <2>3. n5 \in Nat
    BY <2>1
  <2> HIDE DEF n5
  <2>4. n3 \in Nat
    BY <2>1, <2>3
  <2> HIDE DEF n3
  <2>5. n2 \in Nat
    BY <2>1, <2>4
  <2> HIDE DEF n2
  <2>6. n1 \in Nat
    BY <2>1, <2>5
  <2> HIDE DEF n1
  <2> QED
    BY <2>1, <2>2, <2>6
<1> HIDE DEF LogicBundles
<1>2. ASSUME NEW m \in DOMAIN obs, IsWeight(obs[m]), NEW k \in 0 .. NumBundle(obs[m].size) - 1
      PROVE  /\ obs[m].address \in Nat /\ k \in Nat
             /\ obs[m].address \div Granul + k < LogicBundles
  <2> DEFINE t == obs[m]
             e == (t.address + t.size) \div Granul
             f == t.address \div Granul
  <2>1. t \in MemoryObjects /\ t.address \in Nat /\ t.address + t.size \in Nat
    <3>1. t \in MemoryObjects
      OBVIOUS
    <3> HIDE DEF t
    <3> QED
      BY <3>1, ObjectParts
  <2>2. t.address + t.size <= LogicBundles * Granul
    <3>1. t.address + t.size <= top
      BY <1>2 DEF InARow
    <3>2. LogicBundles * Granul \in Nat
      BY <1>1
    <3> HIDE DEF t
    <3> QED
      BY <2>1, <3>1, <3>2
  <2>3. k \in Nat /\ f + k < e /\ f \in Nat
    <3> HIDE DEF t
    <3>1. k \in 0 .. NumBundle(t.size) - 1
      BY DEF t
    <3> QED
      BY <2>1, <3>1, BundlesInside
  <2>4. e <= LogicBundles /\ e \in Nat
    <3> DEFINE c == LogicBundles * Granul
               b == t.address + t.size
    <3>1. c \in Nat /\ c = LogicBundles * Granul + 0 /\ 0 \in 0 .. Granul - 1
      BY <1>1
    <3>2. c \div Granul = LogicBundles
      <4> HIDE DEF c
      <4> QED
        BY <1>1, <3>1, DivisionUnique
    <3>3. b \in Nat /\ b <= c
      BY <2>1, <2>2
    <3> HIDE DEF b, c
    <3>4. b \div Granul <= c \div Granul /\ b \div Granul \in Nat
      BY <1>1, <3>1, <3>3, QuotientsOrdered, Parts
    <3> QED
      BY <3>2, <3>4 DEF b
  <2> HIDE DEF e, f
  <2>5. f + k < LogicBundles
    BY <1>1, <2>3, <2>4
  <2> QED
    BY <2>1, <2>3, <2>5 DEF f, t
<1>3. obs[o].address \div Granul + i = obs[p].address \div Granul + j
  <2> DEFINE a == obs[o].address
             c == obs[p].address
  <2>1. /\ a \in Nat /\ i \in Nat /\ a \div Granul + i < LogicBundles
        /\ c \in Nat /\ j \in Nat /\ c \div Granul + j < LogicBundles
    BY <1>2
  <2>2. GetAddrVec(a, i, type) = GetAddrVec(c, j, type)
    OBVIOUS
  <2> HIDE DEF a, c
  <2>3. a \div Granul + i = c \div Granul + j
    BY <2>1, <2>2, OneBundleAPlace
  <2> QED
    BY <2>3 DEF a, c
<1> QED
  <2>1. InARow(obs, top) /\ IsWeight(obs[o]) /\ IsWeight(obs[p])
    OBVIOUS
  <2>2. /\ i \in 0 .. NumBundle(obs[o].size) - 1
        /\ j \in 0 .. NumBundle(obs[p].size) - 1
    OBVIOUS
  <2> QED
    BY ONLY <1>3, <2>1, <2>2, BundlesApart

PlacedInv ==
  /\ objects \in Seq(MemoryObjects)
  /\ start_addr_normal \in Nat
  /\ InARow(objects, start_addr_normal)

LEMMA SetNormalPlacedInv ==
  ASSUME PlacedInv, SetNormal
  PROVE  PlacedInv'
<1> DEFINE t == Tensors[Len(objects) + 1]
           shared == t[1] \in {"act", "cache"}
           new == [tag |-> t[1], size |-> t[2],
                   address |-> IF shared THEN 0 ELSE start_addr_normal]
           n == Len(objects)
           top == start_addr_normal + (IF shared THEN 0 ELSE t[2])
<1>1. t[1] \in STRING /\ t[2] \in Nat
  <2>1. Len(objects) \in Nat /\ Len(objects) + 1 \in 1 .. Len(Tensors)
    BY ControllerAssumption DEF PlacedInv, SetNormal
  <2>2. t \in STRING \X Nat
    BY <2>1, ControllerAssumption
  <2> QED
    BY <2>2
<1>2. objects' = Append(objects, new) /\ start_addr_normal' = top
  BY DEF SetNormal
<1> HIDE DEF t
<1>3. top \in Nat /\ start_addr_normal <= top
  BY <1>1 DEF PlacedInv
<1>4. /\ new \in MemoryObjects
      /\ IsWeight(new) => new.address = start_addr_normal /\ new.address + new.size = top
  BY <1>1 DEF PlacedInv, MemoryObjects, IsWeight
<1> HIDE DEF new, top
<1> DEFINE obs == Append(objects, new)
<1>5. /\ obs \in Seq(MemoryObjects) /\ DOMAIN obs = 1 .. n + 1 /\ n \in Nat
      /\ DOMAIN objects = 1 .. n
      /\ obs[n + 1] = new /\ \A o \in 1 .. n : obs[o] = objects[o]
      /\ \A o \in 1 .. n : objects[o] \in MemoryObjects
  BY <1>4 DEF PlacedInv
<1> HIDE DEF obs, n
<1>6. ASSUME NEW o \in 1 .. n + 1, IsWeight(obs[o])
      PROVE  /\ obs[o].address + obs[o].size <= top
             /\ \A p \in 1 .. n + 1 : o < p /\ IsWeight(obs[p]) =>
                  obs[o].address + obs[o].size <= obs[p].address
  <2>1. CASE o = n + 1
    <3>1. \A p \in 1 .. n + 1 : ~ (o < p)
      BY <1>5, <2>1
    <3> QED
      BY <1>3, <1>4, <1>5, <1>6, <2>1, <3>1
  <2>2. CASE o # n + 1
    <3>1. o \in 1 .. n /\ obs[o] = objects[o]
      BY <1>5, <2>2
    <3>2. /\ objects[o].address + objects[o].size <= start_addr_normal
          /\ \A p \in 1 .. n : o < p /\ IsWeight(objects[p]) =>
               objects[o].address + objects[o].size <= objects[p].address
      BY <1>5, <1>6, <3>1 DEF PlacedInv, InARow
    <3>3. objects[o].address + objects[o].size \in Nat
      BY <1>5, <3>1, ObjectParts
    <3>4. obs[o].address + obs[o].size <= top
      BY <1>3, <3>1, <3>2, <3>3 DEF PlacedInv
    <3>5. ASSUME NEW p \in 1 .. n + 1, o < p, IsWeight(obs[p])
          PROVE  obs[o].address + obs[o].size <= obs[p].address
      <4>1. CASE p = n + 1
        BY <1>4, <1>5, <3>1, <3>2, <3>5, <4>1
      <4>2. CASE p # n + 1
        <5>1. p \in 1 .. n /\ obs[p] = objects[p]
          BY <1>5, <4>2
        <5> QED
          BY <3>1, <3>2, <3>5, <5>1
      <4> QED
        BY <4>1, <4>2
    <3> QED
      BY <3>4, <3>5
  <2> QED
    BY <2>1, <2>2
<1>7. InARow(obs, top)
  BY <1>5, <1>6 DEF InARow
<1> QED
  BY <1>2, <1>3, <1>5, <1>7 DEF PlacedInv, obs

LEMMA PlacedInvariant == Spec => []PlacedInv
<1>1. Init => PlacedInv
  BY DEF Init, PlacedInv, InARow
<1>2. PlacedInv /\ [Next]_vars => PlacedInv'
  <2> SUFFICES ASSUME PlacedInv, [Next]_vars PROVE PlacedInv'
    OBVIOUS
  <2>1. CASE SetNormal
    BY <2>1, SetNormalPlacedInv
  <2>2. CASE ~ SetNormal
    <3>1. objects' = objects /\ start_addr_normal' = start_addr_normal
      <4>1. ASSUME NEW o, NEW q, HandleRequest(o, q)
            PROVE  objects' = objects /\ start_addr_normal' = start_addr_normal
        BY <4>1 DEF HandleRequest
      <4>2. Tick => objects' = objects /\ start_addr_normal' = start_addr_normal
        BY DEF Tick
      <4> QED
        BY <2>2, <4>1, <4>2 DEF Next, vars
    <3> QED
      BY <3>1 DEF PlacedInv, InARow
  <2> QED
    BY <2>1, <2>2
<1> QED
  BY <1>1, <1>2, PTL DEF Spec

\* As long as the weights fit in what the logic die's codec tells apart, two
\* bundles of theirs never share a place, whichever codec is used and wherever
\* in a bundle a tensor ends.
THEOREM WeightsHaveTheirPlaces == Spec /\ []WeightsFit => WeightsDoNotOverlap
<1> DEFINE Apart ==
      \A new \in DOMAIN objects' \ DOMAIN objects : \A type \in {"GPU", "LOGIC"} :
        LET weights == {o \in DOMAIN objects' : objects'[o].tag \notin {"act", "cache"}}
            bundles(o) == {<<o, i>> : i \in 0 .. NumBundle(objects'[o].size) - 1}
            place(b) == GetAddrVec(objects'[b[1]].address, b[2], type)
        IN  new \in weights =>
              \A b \in bundles(new), c \in UNION {bundles(o) : o \in weights} :
                place(b) = place(c) => b = c
<1>1. PlacedInv' /\ WeightsFit' => Apart
  <2> SUFFICES ASSUME PlacedInv', WeightsFit',
                      NEW new \in DOMAIN objects' \ DOMAIN objects,
                      NEW type \in {"GPU", "LOGIC"}, IsWeight(objects'[new]),
                      NEW o \in DOMAIN objects', IsWeight(objects'[o]),
                      NEW i \in 0 .. NumBundle(objects'[new].size) - 1,
                      NEW j \in 0 .. NumBundle(objects'[o].size) - 1,
                      GetAddrVec(objects'[new].address, i, type) =
                        GetAddrVec(objects'[o].address, j, type)
               PROVE  <<new, i>> = <<o, j>>
    BY DEF IsWeight
  <2> DEFINE obs == objects'
             top == start_addr_normal'
  <2>1. /\ obs \in Seq(MemoryObjects) /\ top \in Nat /\ InARow(obs, top)
        /\ top <= LogicBundles * Granul
    BY DEF PlacedInv, InARow, WeightsFit
  <2>2. /\ new \in DOMAIN obs /\ o \in DOMAIN obs
        /\ IsWeight(obs[new]) /\ IsWeight(obs[o])
        /\ i \in 0 .. NumBundle(obs[new].size) - 1 /\ j \in 0 .. NumBundle(obs[o].size) - 1
        /\ GetAddrVec(obs[new].address, i, type) = GetAddrVec(obs[o].address, j, type)
    OBVIOUS
  <2> HIDE DEF obs, top
  <2>3. new = o /\ i = j
    BY <2>1, <2>2, WeightsApart
  <2> QED
    BY <2>3
<1> QED
  BY <1>1, PlacedInvariant, PTL DEF WeightsDoNotOverlap

-----------------------------------------------------------------------------
(* How many commands the kernel makes *)

\* Of the bundles below m, one in NumCube begins a round through the channels of
\* the first stack; of the first k rounds, two in NumChannel are in the first
\* pair of channels.
Rounds(m) == CeilDiv(m, NumCube)
AtMostTwo(x) == IF x >= 2 THEN 2 ELSE x
Hits(k) == 2 * (k \div NumChannel) + AtMostTwo(k % NumChannel)
IsHit(m) == m % NumCube = 0 /\ (m \div NumCube) % NumChannel \in {0, 1}

LEMMA NextParts ==
  ASSUME NEW n \in Nat \ {0}, NEW x \in Nat
  PROVE  IF x % n = n - 1
         THEN (x + 1) \div n = (x \div n) + 1 /\ (x + 1) % n = 0
         ELSE (x + 1) \div n = x \div n /\ (x + 1) % n = (x % n) + 1
<1> DEFINE q == x \div n
           r == x % n
<1>1. q \in Nat /\ r \in 0 .. n - 1 /\ x = q * n + r
  BY Division
<1> HIDE DEF q, r
<1>2. CASE r = n - 1
  <2>1. (q + 1) * n = q * n + n
    BY <1>1
  <2>2. q * n \in Nat
    BY <1>1
  <2>3. x + 1 = (q + 1) * n + 0 /\ 0 \in 0 .. n - 1 /\ q + 1 \in Nat
    BY <1>1, <1>2, <2>1, <2>2
  <2>4. ((q + 1) * n + 0) \div n = q + 1 /\ ((q + 1) * n + 0) % n = 0
    BY <2>3, DivisionUnique
  <2>5. (x + 1) \div n = q + 1 /\ (x + 1) % n = 0
    BY <2>3, <2>4
  <2> QED
    BY <1>2, <2>5 DEF q, r
<1>3. CASE r # n - 1
  <2>1. q * n \in Nat
    BY <1>1
  <2>2. x + 1 = q * n + (r + 1) /\ r + 1 \in 0 .. n - 1
    BY <1>1, <1>3, <2>1
  <2>3. (x + 1) \div n = q /\ (x + 1) % n = r + 1
    BY <1>1, <2>2, DivisionUnique
  <2> QED
    BY <1>3, <2>3 DEF q, r
<1> QED
  BY <1>2, <1>3

\* A bundle begins a round or does not; the round is in the pair or is not.
LEMMA RoundsStep ==
  ASSUME NEW m \in Nat
  PROVE  /\ Rounds(m) \in Nat
         /\ Rounds(m + 1) = IF m % NumCube = 0 THEN Rounds(m) + 1 ELSE Rounds(m)
         /\ m % NumCube = 0 => Rounds(m) = m \div NumCube
<1> DEFINE n == NumCube
           q == m \div n
           r == m % n
<1>1. n \in Nat \ {0}
  BY ConfigAssumption
<1>2. q \in Nat /\ r \in 0 .. n - 1
  BY <1>1, Division
<1>3. IF r = n - 1
      THEN (m + 1) \div n = q + 1 /\ (m + 1) % n = 0
      ELSE (m + 1) \div n = q /\ (m + 1) % n = r + 1
  BY <1>1, NextParts
<1>4. /\ Rounds(m) = IF r = 0 THEN q ELSE q + 1
      /\ Rounds(m + 1) = IF (m + 1) % n = 0 THEN (m + 1) \div n ELSE (m + 1) \div n + 1
  BY DEF Rounds, CeilDiv
<1> DEFINE u == (m + 1) \div n
           v == (m + 1) % n
<1> HIDE DEF n, q, r, u, v
<1>5. Rounds(m + 1) = q + 1
  BY <1>2, <1>3, <1>4 DEF u, v
<1>6. /\ Rounds(m) \in Nat
      /\ Rounds(m + 1) = IF r = 0 THEN Rounds(m) + 1 ELSE Rounds(m)
      /\ r = 0 => Rounds(m) = q
  BY <1>2, <1>4, <1>5
<1> QED
  BY <1>6 DEF q, r, n

LEMMA HitsStep ==
  ASSUME NumChannel >= 2, NEW k \in Nat
  PROVE  /\ Hits(k) \in Nat
         /\ Hits(k + 1) = IF k % NumChannel \in {0, 1} THEN Hits(k) + 1 ELSE Hits(k)
<1> DEFINE n == NumChannel
           q == k \div n
           r == k % n
           u == (k + 1) \div n
           v == (k + 1) % n
<1>1. n \in Nat \ {0} /\ n >= 2
  BY ConfigAssumption
<1>2. q \in Nat /\ r \in 0 .. n - 1
  BY <1>1, Division
<1>3. IF r = n - 1 THEN u = q + 1 /\ v = 0 ELSE u = q /\ v = r + 1
  BY <1>1, NextParts
<1>4. Hits(k) = 2 * q + AtMostTwo(r) /\ Hits(k + 1) = 2 * u + AtMostTwo(v)
  BY DEF Hits
<1> HIDE DEF n, q, r, u, v
<1>5. /\ Hits(k) \in Nat
      /\ Hits(k + 1) = IF r \in {0, 1} THEN Hits(k) + 1 ELSE Hits(k)
  BY <1>1, <1>2, <1>3, <1>4 DEF AtMostTwo
<1> QED
  BY <1>5 DEF r, n

LEMMA HitsBelow ==
  ASSUME NumChannel >= 2, NEW m \in Nat
  PROVE  /\ Hits(Rounds(m)) \in Nat
         /\ Hits(Rounds(m + 1)) =
              IF IsHit(m) THEN Hits(Rounds(m)) + 1 ELSE Hits(Rounds(m))
BY RoundsStep, HitsStep DEF IsHit

\* The kernel of the GPU takes the bundles of the first pair of channels.
LEMMA ReadSelects ==
  ASSUME NumChannel >= 2, NEW a \in Nat, NEW i \in Nat
  PROVE  ReadWriteSelects(GetAddrVec(a, i, "GPU")) <=> IsHit(a \div Granul + i)
<1> DEFINE x == a + i * Granul
           b == a \div Granul + i
           cube == b % NumCube
           channel == (b \div NumCube) % NumChannel
           ch == NumChannel * cube + channel
<1>1. NumChannel \in Nat \ {0} /\ NumCube \in Nat \ {0} /\ Granul \in Nat \ {0}
  BY ConfigAssumption
<1>2. x \div Granul = b
  BY BundleAt
<1>3. b \in Nat
  BY <1>1, Parts
<1>4. cube \in 0 .. NumCube - 1 /\ channel \in 0 .. NumChannel - 1
  <2>1. b \div NumCube \in Nat
    BY <1>1, <1>3, Parts
  <2> HIDE DEF b
  <2> QED
    BY <1>1, <1>3, <2>1, Parts
<1>5. GetAddrVec(a, i, "GPU").channel = ch \div 2
  <2> HIDE DEF x, b
  <2>1. /\ AddrToVec(x).cube = (x \div Granul) % NumCube
        /\ AddrToVec(x).channel = ((x \div Granul) \div NumCube) % NumChannel
    BY DEF AddrToVec
  <2>2. AddrToVec(x).cube = cube /\ AddrToVec(x).channel = channel
    BY <1>2, <2>1
  <2>3. GetAddrVec(a, i, "GPU").channel =
          (NumChannel * AddrToVec(x).cube + AddrToVec(x).channel) \div 2
    BY DEF GetAddrVec, x
  <2> QED
    BY <2>2, <2>3
<1> HIDE DEF b, cube, channel
<1>6. ch \in Nat /\ (ch \in {0, 1} <=> cube = 0 /\ channel \in {0, 1})
  <2>1. CASE cube = 0
    BY <1>1, <1>4, <2>1
  <2>2. CASE cube # 0
    <3>1. NumChannel * cube >= NumChannel /\ NumChannel * cube \in Nat
      <4>1. cube \in Nat \ {0}
        BY <1>1, <1>4, <2>2
      <4> QED
        BY <1>1, <4>1
    <3> QED
      BY <1>1, <1>4, <2>2, <3>1
  <2> QED
    BY <2>1, <2>2
<1> HIDE DEF ch
<1>7. ch \div 2 = 0 <=> ch \in {0, 1}
  BY <1>6
<1> QED
  BY <1>5, <1>6, <1>7 DEF ReadWriteSelects, IsHit, cube, channel, b

\* The rounds in n bundles, wherever they start.
LEMMA RoundsBetween ==
  ASSUME NEW s \in Nat, NEW n \in Nat
  PROVE  \E d \in Nat : /\ Rounds(s + n) = Rounds(s) + d
                        /\ d = Rounds(n) \/ d + 1 = Rounds(n)
<1> DEFINE k == NumCube
           p == s \div k
           r == s % k
           q == n \div k
           t == n % k
<1>1. k \in Nat \ {0}
  BY ConfigAssumption
<1>2. /\ p \in Nat /\ r \in 0 .. k - 1 /\ s = p * k + r
      /\ q \in Nat /\ t \in 0 .. k - 1 /\ n = q * k + t
  BY <1>1, Division
<1>3. Rounds(s) = (IF r = 0 THEN p ELSE p + 1) /\ Rounds(n) = (IF t = 0 THEN q ELSE q + 1)
  BY DEF Rounds, CeilDiv
<1> DEFINE u == (s + n) \div k
           v == (s + n) % k
<1>4. Rounds(s + n) = IF v = 0 THEN u ELSE u + 1
  BY DEF Rounds, CeilDiv
<1> HIDE DEF k, p, r, q, t
<1>5. IF r + t < k THEN u = p + q /\ v = r + t ELSE u = p + q + 1 /\ v = r + t - k
  <2>1. /\ (p + q) * k = p * k + q * k /\ (p + q + 1) * k = p * k + q * k + k
        /\ p * k \in Nat /\ q * k \in Nat
    BY <1>1, <1>2
  <2>2. CASE r + t < k
    <3>1. s + n = (p + q) * k + (r + t) /\ r + t \in 0 .. k - 1 /\ p + q \in Nat
      BY <1>1, <1>2, <2>1, <2>2
    <3>2. /\ ((p + q) * k + (r + t)) \div k = p + q
          /\ ((p + q) * k + (r + t)) % k = r + t
      BY <1>1, <3>1, DivisionUnique
    <3>3. u = p + q /\ v = r + t
      BY <3>1, <3>2
    <3> QED
      BY <2>2, <3>3
  <2>3. CASE ~ (r + t < k)
    <3>1. /\ s + n = (p + q + 1) * k + (r + t - k) /\ r + t - k \in 0 .. k - 1
          /\ p + q + 1 \in Nat
      BY <1>1, <1>2, <2>1, <2>3
    <3>2. /\ ((p + q + 1) * k + (r + t - k)) \div k = p + q + 1
          /\ ((p + q + 1) * k + (r + t - k)) % k = r + t - k
      BY <1>1, <3>1, DivisionUnique
    <3>3. u = p + q + 1 /\ v = r + t - k
      BY <3>1, <3>2
    <3> QED
      BY <2>3, <3>3
  <2> QED
    BY <2>2, <2>3
<1> DEFINE d == Rounds(s + n) - Rounds(s)
<1> HIDE DEF u, v
<1>6. p \in Nat /\ r \in 0 .. k - 1 /\ q \in Nat /\ t \in 0 .. k - 1
  BY <1>2
<1>7. d \in Nat /\ (d = Rounds(n) \/ d + 1 = Rounds(n)) /\ Rounds(s + n) = Rounds(s) + d
  BY <1>1, <1>3, <1>6, <1>4, <1>5
<1> QED
  BY <1>7

\* What run_ideal reports of so many rounds.
IdealOfRounds(c) ==
  CeilDiv(c, NumChannel)
    + (IF c % NumChannel = 1 THEN c \div NumChannel ELSE c \div NumChannel + 1)

LEMMA IdealOfHits ==
  ASSUME NumChannel >= 2, NEW a \in Nat, NEW d \in Nat, NEW c \in Nat, c = d \/ c = d + 1
  PROVE  IdealOfRounds(c) - (Hits(a + d) - Hits(a)) \in 0 .. 2
<1> DEFINE n == NumChannel
           p == a \div n
           r == a % n
           q == d \div n
           t == d % n
           u == (a + d) \div n
           v == (a + d) % n
           x == c \div n
           y == c % n
<1>1. n \in Nat \ {0} /\ n >= 2
  BY ConfigAssumption
<1>2. /\ p \in Nat /\ r \in 0 .. n - 1 /\ a = p * n + r
      /\ q \in Nat /\ t \in 0 .. n - 1 /\ d = q * n + t
  BY <1>1, Division
<1>3. /\ Hits(a) = 2 * p + AtMostTwo(r)
      /\ Hits(a + d) = 2 * u + AtMostTwo(v)
      /\ IdealOfRounds(c) = (IF y = 0 THEN x ELSE x + 1) + (IF y = 1 THEN x ELSE x + 1)
  BY DEF Hits, IdealOfRounds, CeilDiv
<1>4. /\ c = d => x = q /\ y = t
      /\ c = d + 1 => IF t = n - 1 THEN x = q + 1 /\ y = 0 ELSE x = q /\ y = t + 1
  BY <1>1, NextParts
<1> HIDE DEF n, p, r, q, t
<1>5. IF r + t < n THEN u = p + q /\ v = r + t ELSE u = p + q + 1 /\ v = r + t - n
  <2>1. /\ (p + q) * n = p * n + q * n /\ (p + q + 1) * n = p * n + q * n + n
        /\ p * n \in Nat /\ q * n \in Nat
    BY <1>1, <1>2
  <2>2. CASE r + t < n
    <3>1. a + d = (p + q) * n + (r + t) /\ r + t \in 0 .. n - 1 /\ p + q \in Nat
      BY <1>1, <1>2, <2>1, <2>2
    <3>2. /\ ((p + q) * n + (r + t)) \div n = p + q
          /\ ((p + q) * n + (r + t)) % n = r + t
      BY <1>1, <3>1, DivisionUnique
    <3>3. u = p + q /\ v = r + t
      BY <3>1, <3>2
    <3> QED
      BY <2>2, <3>3
  <2>3. CASE ~ (r + t < n)
    <3>1. /\ a + d = (p + q + 1) * n + (r + t - n) /\ r + t - n \in 0 .. n - 1
          /\ p + q + 1 \in Nat
      BY <1>1, <1>2, <2>1, <2>3
    <3>2. /\ ((p + q + 1) * n + (r + t - n)) \div n = p + q + 1
          /\ ((p + q + 1) * n + (r + t - n)) % n = r + t - n
      BY <1>1, <3>1, DivisionUnique
    <3>3. u = p + q + 1 /\ v = r + t - n
      BY <3>1, <3>2
    <3> QED
      BY <2>3, <3>3
  <2> QED
    BY <2>2, <2>3
<1> HIDE DEF u, v, x, y
<1>6. p \in Nat /\ r \in 0 .. n - 1 /\ q \in Nat /\ t \in 0 .. n - 1
  BY <1>2
<1>7. Hits(a + d) - Hits(a) = 2 * q +
        (IF r + t < n THEN AtMostTwo(r + t) - AtMostTwo(r)
                      ELSE 2 + AtMostTwo(r + t - n) - AtMostTwo(r))
  BY <1>1, <1>6, <1>3, <1>5 DEF AtMostTwo
<1>8. IdealOfRounds(c) = 2 * q +
        (IF c = d THEN IF t <= 1 THEN 1 ELSE 2
                  ELSE IF t = n - 1 THEN 3 ELSE IF t = 0 THEN 1 ELSE 2)
  BY <1>1, <1>6, <1>3, <1>4
<1> QED
  BY <1>1, <1>6, <1>7, <1>8 DEF AtMostTwo

\* A read of a tensor makes a command of each of its bundles that is a hit.
LEMMA KernelLength ==
  ASSUME NumChannel >= 2, NEW address \in Nat, NEW size \in Nat
  PROVE  LET s == address \div Granul
         IN  /\ Hits(Rounds(s)) \in Nat /\ Hits(Rounds(s + NumBundle(size))) \in Nat
             /\ Len(Kernel("kRead", address, size, "GPU", 0)) =
                  Hits(Rounds(s + NumBundle(size))) - Hits(Rounds(s))
<1> DEFINE s == address \div Granul
           top == NumBundle(size)
           H(m) == Hits(Rounds(m))
           place(n) == GetAddrVec(address, n - 1, "GPU")
           kernel == Kernel("kRead", address, size, "GPU", 0)
<1>1. s \in Nat /\ top \in Nat
  BY Parts, ConfigAssumption DEF NumBundle
<1>2. PICK f \in [0 .. top -> Seq(Places)] :
        /\ kernel = f[top]
        /\ f[0] = <<>>
        /\ \A n \in 1 .. top :
             f[n] = IF ReadWriteSelects(place(n)) THEN Append(f[n - 1], place(n)) ELSE f[n - 1]
  <2>0. PICK g : MadeOf(g, "kRead", address, size, "GPU", 0)
    <3>1. 0 \in Nat
      OBVIOUS
    <3> QED
      BY <3>1, KernelSteps, Zenon
  <2>1. /\ g \in [0 .. top -> Seq(Places)]
        /\ kernel = g[top]
        /\ g[0] = <<>>
        /\ \A n \in 1 .. top :
             g[n] = IF Takes(place(n), "kRead", "GPU", 0)
                    THEN Append(g[n - 1], place(n)) ELSE g[n - 1]
    BY <2>0 DEF MadeOf
  <2> HIDE DEF kernel, top, place
  <2>2. \A n \in 1 .. top : Takes(place(n), "kRead", "GPU", 0) = ReadWriteSelects(place(n))
    BY DEF Takes
  <2> QED
    BY <2>1, <2>2
<1> HIDE DEF kernel
<1>3. \A m \in Nat : ReadWriteSelects(place(m + 1)) <=> IsHit(s + m)
  <2> SUFFICES ASSUME NEW m \in Nat PROVE ReadWriteSelects(place(m + 1)) <=> IsHit(s + m)
    OBVIOUS
  <2>1. place(m + 1) = GetAddrVec(address, m, "GPU")
    <3>1. (m + 1) - 1 = m
      OBVIOUS
    <3> QED
      BY <3>1
  <2> QED
    BY <2>1, ReadSelects
<1>4. \A m \in Nat : /\ H(m) \in Nat
                     /\ H(m + 1) = IF IsHit(m) THEN H(m) + 1 ELSE H(m)
  BY HitsBelow
<1> HIDE DEF s, top, H
<1> DEFINE E == {m \in Nat : m \in 0 .. top => Len(f[m]) + H(s) = H(s + m)}
<1>5. 0 \in E
  <2>1. Len(f[0]) = 0 /\ s + 0 = s
    BY <1>1, <1>2
  <2> QED
    BY <1>1, <1>4, <2>1
<1>6. ASSUME NEW m \in Nat, m \in E PROVE m + 1 \in E
  <2> SUFFICES ASSUME m + 1 \in 0 .. top PROVE Len(f[m + 1]) + H(s) = H(s + (m + 1))
    OBVIOUS
  <2>1. m \in 0 .. top /\ m + 1 \in 1 .. top /\ (m + 1) - 1 = m /\ s + (m + 1) = (s + m) + 1
    BY <1>1
  <2>2. Len(f[m]) + H(s) = H(s + m)
    BY <1>6, <2>1
  <2>3. H((s + m) + 1) = IF IsHit(s + m) THEN H(s + m) + 1 ELSE H(s + m)
    BY <1>1, <1>4
  <2>4. f[m + 1] = IF IsHit(s + m) THEN Append(f[m], place(m + 1)) ELSE f[m]
    BY <1>2, <1>3, <2>1
  <2>5. f[m] \in Seq(Places) /\ Len(f[m]) \in Nat
    BY <1>2, <2>1
  <2>6. Len(f[m + 1]) = IF IsHit(s + m) THEN Len(f[m]) + 1 ELSE Len(f[m])
    <3> DEFINE e == place(m + 1)
               S == Places \cup {e}
    <3>1. Len(Append(f[m], e)) = Len(f[m]) + 1
      <4> HIDE DEF e
      <4>1. \A i \in 1 .. Len(f[m]) : f[m][i] \in S
        BY <2>5
      <4> HIDE DEF S
      <4>2. f[m] \in Seq(S)
        BY <2>5, <4>1
      <4>3. e \in S
        BY DEF S
      <4> QED
        BY <4>2, <4>3
    <3> HIDE DEF e
    <3> QED
      BY <2>4, <3>1 DEF e
  <2>7. H(s) \in Nat /\ H(s + m) \in Nat
    <3>1. s + m \in Nat
      BY <1>1
    <3>2. H(s) \in Nat
      BY <1>1, <1>4
    <3>3. H(s + m) \in Nat
      BY <3>1, <1>4
    <3> QED
      BY <3>2, <3>3
  <2> QED
    BY <2>1, <2>2, <2>3, <2>5, <2>6, <2>7
<1> HIDE DEF E
<1>7. Nat \subseteq E
  BY <1>5, <1>6, SetInduction
<1>8. Len(f[top]) + H(s) = H(s + top) /\ f[top] \in Seq(Places)
  BY <1>1, <1>2, <1>7 DEF E
<1>9. H(s) \in Nat /\ H(s + top) \in Nat /\ Len(f[top]) \in Nat
  <2>1. s + top \in Nat
    BY <1>1
  <2>2. H(s) \in Nat
    BY <1>1, <1>4
  <2>3. H(s + top) \in Nat
    BY <2>1, <1>4
  <2>4. Len(f[top]) \in Nat
    BY <1>8
  <2> QED
    BY <2>2, <2>3, <2>4
<1>10. Len(kernel) = H(s + top) - H(s)
  BY <1>2, <1>8, <1>9
<1> QED
  BY <1>9, <1>10 DEF s, top, H, kernel

\* What Device::run_ideal reports of a tensor is what the kernel issues for it, or
\* one or two more, wherever the tensor starts and ends; every preset has at
\* least the two channels of the first pair.
THEOREM IdealFollowsKernel == NumChannel >= 2 => (Spec => IdealTracksKernel)
<1> SUFFICES ASSUME NumChannel >= 2 PROVE Spec => IdealTracksKernel
  OBVIOUS
<1>1. ASSUME NEW t \in MemoryObjects
      PROVE  IdealCount(t.size) - Len(Kernel("kRead", t.address, t.size, "GPU", 0)) \in 0 .. 2
  <2> DEFINE s == t.address \div Granul
             n == NumBundle(t.size)
             a == Rounds(s)
             c == Rounds(n)
             l == Len(Kernel("kRead", t.address, t.size, "GPU", 0))
  <2>1. t.address \in Nat /\ t.size \in Nat
    BY ObjectParts
  <2>2. s \in Nat /\ n \in Nat
    BY <2>1, Parts, ConfigAssumption DEF NumBundle
  <2>3. IdealCount(t.size) = IdealOfRounds(c)
    BY DEF IdealCount, IdealOfRounds, Rounds, NumBundle
  <2>4. l = Hits(Rounds(s + n)) - Hits(a)
    BY <2>1, KernelLength
  <2> HIDE DEF s, n, l
  <2>5. PICK d \in Nat : Rounds(s + n) = a + d /\ (d = c \/ d + 1 = c)
    BY <2>2, RoundsBetween
  <2>6. a \in Nat /\ c \in Nat
    BY <2>2, RoundsStep
  <2> HIDE DEF a, c
  <2>7. c = d \/ c = d + 1
    BY <2>5, <2>6
  <2>8. IdealOfRounds(c) - (Hits(a + d) - Hits(a)) \in 0 .. 2
    BY <2>6, <2>7, IdealOfHits
  <2>9. IdealCount(t.size) - l \in 0 .. 2
    BY <2>3, <2>4, <2>5, <2>8
  <2> QED
    BY <2>9 DEF l
<1> DEFINE Tracks ==
      \A o \in DOMAIN objects' \ DOMAIN objects :
        LET n == Len(Kernel("kRead", objects'[o].address, objects'[o].size, "GPU", 0))
        IN  objects'[o].size > 0 => IdealCount(objects'[o].size) - n \in 0 .. 2
<1>2. PlacedInv' => Tracks
  <2> SUFFICES ASSUME PlacedInv', NEW o \in DOMAIN objects'
               PROVE  IdealCount(objects'[o].size)
                        - Len(Kernel("kRead", objects'[o].address, objects'[o].size, "GPU", 0))
                        \in 0 .. 2
    OBVIOUS
  <2> DEFINE t == objects'[o]
  <2>1. t \in MemoryObjects
    BY DEF PlacedInv
  <2> HIDE DEF t
  <2>2. IdealCount(t.size) - Len(Kernel("kRead", t.address, t.size, "GPU", 0)) \in 0 .. 2
    BY <1>1, <2>1
  <2> QED
    BY <2>2 DEF t
<1> QED
  BY <1>2, PlacedInvariant, PTL DEF IdealTracksKernel
=============================================================================

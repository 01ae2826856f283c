-------------------------- MODULE PimDramController --------------------------
(***************************************************************************)
(* The DRAM side of a device: a tensor's memory object, the request that   *)
(* DRAMInterface::HandleRequest makes of it, and the controller that       *)
(* serves its commands tick by tick until nothing is left. The caller      *)
(* waits: one request at a time. All its commands arrive at the same       *)
(* clock, so first come first served is the order in a buffer. Clocks are  *)
(* relative: a departure is the number of ticks until it.                  *)
(***************************************************************************)
EXTENDS HBM3

CONSTANTS NREFI,       \* ticks between refreshes
          BufferSize,  \* entries of a buffer the scheduler looks at (max_size)
          Tensors,     \* the tensors to place, <<tag, size>>, in order
          Requests     \* what a layer may ask for, <<kind, processor, bandwidth_x>>

ASSUME ControllerAssumption ==
  /\ NREFI \in Nat \ {0} /\ BufferSize \in Nat \ {0}
  /\ Tensors \in Seq(STRING \X Nat)
  /\ \A q \in Requests : q[1] \in {"kRead", "kWrite", "GEMV"}

VARIABLES
  objects,       \* the memory objects made so far
  start_addr_normal,
  dev,           \* the DRAM device
  buffer,        \* "active", "pim", "priority", "read", "write"
  pending,       \* accesses whose data is under way
  is_write_mode,
  next_refresh,  \* ticks until the refresh manager sends requests
  request,       \* the PIMRequest being served or served last
  exec_status,   \* what the interface reports of it
  running        \* within DRAMInterface::run

vars == <<objects, start_addr_normal, dev, buffer, pending, is_write_mode,
          next_refresh, request, exec_status, running>>

Buffers == {"active", "pim", "priority", "read", "write"}

-----------------------------------------------------------------------------
(* Counters. update_state files a command under a DRAMCommandType by the   *)
(* number of the command; updateStatus reads the counters by position.     *)
DRAMCommandType == <<"kACT", "kPRE", "kPREA", "kALL_PRE", "kREAD", "kWRITE",
                     "kALL_ACT", "kALL_READ", "kALL_WRITE", "kREF">>
CommandName == <<"ACT", "ALL-ACT", "PRE", "PREA", "ALL-PRE", "RD", "WR",
                 "RDA", "WRA", "ALL-RD", "ALL-WR", "REFab">>
CommandId(c) == (CHOOSE i \in DOMAIN CommandName : CommandName[i] = c) - 1

CountedAs(c) ==
  CASE CommandId(c) = 0 -> "kACT"        [] CommandId(c) = 1 -> "kALL_ACT"
    [] CommandId(c) = 4 -> "kALL_PRE"    [] CommandId(c) = 5 -> "kREAD"
    [] CommandId(c) = 6 -> "kWRITE"      [] CommandId(c) = 9 -> "kALL_READ"
    [] CommandId(c) = 10 -> "kALL_WRITE" [] CommandId(c) = 11 -> "kREF"
    [] OTHER -> "none"

NoCommands == [k \in Range(DRAMCommandType) |-> 0]

UpdateState(r, c) ==
  IF CountedAs(c) = "none" THEN r ELSE [r EXCEPT !.issued[CountedAs(c)] = @ + 1]

NewStatus == [act |-> 0, read |-> 0, write |-> 0,
              all_act |-> 0, all_read |-> 0, all_write |-> 0]

UpdateStatus(p) ==
  LET at(i) == p.issued[DRAMCommandType[i + 1]]
  IN  [act |-> at(0), read |-> at(4), write |-> at(5),
       all_act |-> at(6), all_read |-> at(7), all_write |-> at(8)]

-----------------------------------------------------------------------------
(* The scheduler: of the entries it looks at, the first that is ready,     *)
(* else the first.                                                         *)
Window(b) == 1 .. Min({BufferSize, Len(b)})
CommandOf(d, r) == Preq(d, FinalCommand(r.type), r.addr)
Ready(d, r) == CheckReady(d, CommandOf(d, r), r.addr)

Best(d, b) ==
  LET ready == {i \in Window(b) : Ready(d, b[i])}
  IN  IF ready = {} THEN 1 ELSE Min(ready)

ReadyBest(d, b) == b # <<>> /\ Ready(d, b[Best(d, b)])

NeverLowMutant(buf, mode) ==
  mode \/ 10 * Len(buf["write"]) > 8 * BufferSize \/ buf["read"] = <<>>

SetWriteMode(buf, mode) ==
  IF mode
  THEN ~ (10 * Len(buf["write"]) < 2 * BufferSize /\ buf["read"] # <<>>)
  ELSE 10 * Len(buf["write"]) > 8 * BufferSize \/ buf["read"] = <<>>

NoCheckMutant(c, addr, active) == FALSE

(* A closing command must not hit the row group of an active request.      *)
Interrupts(c, addr, active) ==
  IsClosing(c) /\ \E i \in Window(active) : active[i].addr.path = addr.path

(* schedule_request: the buffer to serve, the place in it, the write mode  *)
(* after it. A priority request that is not ready blocks read and write.   *)
Schedule(d, buf, mode) ==
  LET early == IF ReadyBest(d, buf["active"]) THEN "active"
               ELSE IF ReadyBest(d, buf["pim"]) THEN "pim" ELSE "none"
      asks  == early = "none" /\ buf["priority"] = <<>>
      mode1 == IF asks THEN SetWriteMode(buf, mode) ELSE mode
      late  == IF mode1 THEN "write" ELSE "read"
      from  == CASE early # "none" -> early
                 [] early = "none" /\ ~ asks ->
                      IF Ready(d, Head(buf["priority"])) THEN "priority" ELSE "none"
                 [] asks -> IF ReadyBest(d, buf[late]) THEN late ELSE "none"
      at    == IF from = "priority" THEN 1 ELSE Best(d, buf[from])
      c     == CommandOf(d, buf[from][at])
  IN  IF from = "none" \/ Interrupts(c, buf[from][at].addr, buf["active"])
      THEN [found |-> FALSE, mode |-> mode1]
      ELSE [found |-> TRUE, mode |-> mode1, from |-> from, at |-> at, command |-> c]

(* set_end_time, the callback of every command of a request. *)
CalledBack(p, r) ==
  [p EXCEPT !.done = @ \cup {r.id},
            !.issued = [k \in DOMAIN @ |-> @[k] + r.issued[k]]]

(* AllBankRefresh::tick: one request for each rank, through priority_send. *)
RefreshRequests ==
  [i \in 1 .. NumRank |->
     [id |-> 0, type |-> "Refresh", addr |-> [path |-> <<i - 1>>, row |-> -1],
      issued |-> NoCommands]]

-----------------------------------------------------------------------------
Init ==
  /\ objects = <<>>
  /\ start_addr_normal = 0
  /\ dev = NewDevice
  /\ buffer = [b \in Buffers |-> <<>>]
  /\ pending = <<>>
  /\ is_write_mode = FALSE
  /\ next_refresh = NREFI
  /\ request = [kind |-> "none", n |-> 0, done |-> {}, issued |-> NoCommands]
  /\ exec_status = NewStatus
  /\ running = FALSE

(* MMapController::setNormal: weights follow each other, activations and   *)
(* cache all start at address 0.                                           *)
SetNormal ==
  /\ ~ running
  /\ Len(objects) < Len(Tensors)
  /\ LET t == Tensors[Len(objects) + 1]
         shared == t[1] \in {"act", "cache"}
     IN  /\ objects' = Append(objects,
              [tag |-> t[1], size |-> t[2],
               address |-> IF shared THEN 0 ELSE start_addr_normal])
         /\ start_addr_normal' = start_addr_normal + (IF shared THEN 0 ELSE t[2])
  /\ UNCHANGED <<dev, buffer, pending, is_write_mode, next_refresh, request,
                 exec_status, running>>

TypeOfRequest == [kRead |-> "Read", kWrite |-> "Write", GEMV |-> "AllRead"]

(* HandleRequest up to run: reset the counters, make the commands, send    *)
(* them. send answers a read from the write buffer if that holds its       *)
(* address; the address of every command is -1, its place is in addr_vec.  *)
HandleRequest(o, q) ==
  /\ ~ running
  /\ Len(objects) = Len(Tensors)
  /\ LET cmds == Kernel(q[1], objects[o].address, objects[o].size, q[2], q[3])
         type == TypeOfRequest[q[1]]
         sent == [i \in DOMAIN cmds |->
                   [id |-> i, type |-> type, issued |-> NoCommands,
                    addr |-> [path |-> <<cmds[i].pc, cmds[i].rank,
                                         cmds[i].bankgroup, cmds[i].bank>>,
                              row |-> cmds[i].row]]]
         forward == type = "Read" /\ buffer["write"] # <<>>
         into == CASE type = "Read" -> "read" [] type = "Write" -> "write"
                   [] OTHER -> "pim"
     IN  /\ request' = [kind |-> q[1], n |-> Len(cmds), done |-> {},
                        issued |-> NoCommands]
         /\ pending' = IF forward
                       THEN pending \o [i \in DOMAIN sent |-> [r |-> sent[i], left |-> 1]]
                       ELSE pending
         /\ buffer' = IF forward THEN buffer ELSE [buffer EXCEPT ![into] = @ \o sent]
  /\ exec_status' = NewStatus
  /\ running' = TRUE
  /\ UNCHANGED <<objects, start_addr_normal, dev, is_write_mode, next_refresh>>

BuffersOnlyMutant(buf, pend) == \A b \in Buffers : buf[b] = <<>>

(* is_finished *)
Finished(buf, pend) == pend = <<>> /\ \A b \in Buffers : buf[b] = <<>>

NewestFirstMutant(pend, r) == <<[r |-> r, left |-> T.nCL + T.nBL]>> \o pend

(* A read departs when its data has arrived. *)
Departing(pend, r) == Append(pend, [r |-> r, left |-> T.nCL + T.nBL])

(* What tick does with the request it has found: the new device, buffers,  *)
(* pending queue and PIMRequest.                                           *)
Issue(s, d, buf, pend, p) ==
  LET r     == UpdateState(buf[s.from][s.at], s.command)
      final == s.command = FinalCommand(r.type)
      rest  == [buf EXCEPT ![s.from] = RemoveAt(@, s.at)]
      moves == /\ IsOpening(s.command)
               /\ CommandId(s.command) \in {0, 1}  \* Request::Type::Read, Write
  IN  [dev |-> Issued(d, s.command, r.addr), mode |-> s.mode,
       buffer |-> CASE final -> rest
                    [] ~ final /\ moves -> [rest EXCEPT !["active"] = Append(@, r)]
                    [] OTHER -> [buf EXCEPT ![s.from][s.at] = r],
       pending |-> IF final /\ r.type \in {"Read", "AllRead"}
                   THEN Departing(pend, r)
                   ELSE pend,
       request |-> IF final /\ r.type \in {"Write", "AllWrite"}
                   THEN CalledBack(p, r) ELSE p]

(* The memory system after one tick. Of the accesses under way only the    *)
(* first is looked at, and at most one is served.                          *)
Ticking ==
  LET d     == Ticked(dev)
      under == [i \in DOMAIN pending |-> [pending[i] EXCEPT !.left = @ - 1]]
      serve == under # <<>> /\ Head(under).left <= 0
      pend  == IF serve THEN Tail(under) ELSE under
      p     == IF serve THEN CalledBack(request, Head(under).r) ELSE request
      buf   == IF next_refresh = 1
               THEN [buffer EXCEPT !["priority"] = @ \o RefreshRequests] ELSE buffer
      s     == Schedule(d, buf, is_write_mode)
  IN  IF s.found THEN Issue(s, d, buf, pend, p)
      ELSE [dev |-> d, buffer |-> buf, pending |-> pend, request |-> p, mode |-> s.mode]

Clock ==
  /\ running
  /\ next_refresh' = IF next_refresh = 1 THEN NREFI ELSE next_refresh - 1

(* One turn of DRAMInterface::run: a tick, and is anything left?           *)
Tick ==
  /\ Clock
  /\ \E out \in {Ticking} :
       LET over == Finished(out.buffer, out.pending)
       IN  /\ dev' = out.dev
           /\ buffer' = out.buffer
           /\ pending' = out.pending
           /\ request' = out.request
           /\ is_write_mode' = out.mode
           /\ exec_status' = IF over THEN UpdateStatus(out.request) ELSE exec_status
           /\ running' = ~ over
  /\ UNCHANGED <<objects, start_addr_normal>>

Next ==
  \/ SetNormal
  \/ \E o \in DOMAIN objects, q \in Requests : HandleRequest(o, q)
  \/ Tick

(* run does not return before the memory system is finished. The clock     *)
(* moves in a tick only, so this is fairness of Tick.                      *)
Spec == Init /\ [][Next]_vars /\ WF_next_refresh(Clock)

-----------------------------------------------------------------------------
RequestRecord(r) ==
  /\ r.id \in Nat
  /\ r.type \in {"Read", "Write", "AllRead", "AllWrite", "Refresh"}
  /\ r.issued \in [Range(DRAMCommandType) -> Nat]

(* The buffers hold requests, clocks are natural numbers, a refresh never  *)
(* leaves the priority buffer and nothing else enters it.                  *)
DramTypeOK ==
  /\ DOMAIN dev.wait \subseteq Nodes \X Commands
  /\ \A k \in DOMAIN dev.wait : dev.wait[k] \in Nat \ {0}
  /\ dev.open \in [Banks -> SUBSET Nat]
  /\ \A b \in Buffers : \A i \in DOMAIN buffer[b] :
       /\ RequestRecord(buffer[b][i])
       /\ b = "priority" <=> buffer[b][i].type = "Refresh"
  /\ \A i \in DOMAIN pending : RequestRecord(pending[i].r)
  /\ next_refresh \in 1 .. NREFI
  /\ request.done \subseteq 1 .. request.n

(* What the interface reports of a finished request is what the kernel     *)
(* asked for: every command came back once and went to the DRAM once. In   *)
(* particular no read is answered out of the write buffer, where it would  *)
(* match any write (PIM_dram_controller.cpp:84: all addresses are -1), and *)
(* no callback outlives the PIMRequest it points into.                     *)
AccountedFor ==
  ~ running =>
    /\ request.done = 1 .. request.n
    /\ exec_status.read = IF request.kind = "kRead" THEN request.n ELSE 0
    /\ exec_status.write = IF request.kind = "kWrite" THEN request.n ELSE 0
    /\ exec_status.all_read = IF request.kind = "GEMV" THEN request.n ELSE 0
    /\ Finished(buffer, pending)

(* The types hold, and so do the accounts of every finished request.       *)
DramInv == DramTypeOK /\ AccountedFor

(* A row that was opened for a request stays open until the request is     *)
(* served, though requests behind it want other rows of the bank: nobody   *)
(* closes it (PIM_dram_controller.cpp:314) but a refresh, which closes all *)
(* banks without asking for the active requests.                           *)
ActiveKeepsItsRow ==
  [][\A i \in DOMAIN buffer["active"] :
       LET addr == buffer["active"][i].addr
       IN  addr.row \in dev.open[addr.path] =>
             \/ addr.row \in dev'.open[addr.path]
             \/ \A b \in Banks : dev'.open[b] = {}]_dev

(* Refresh comes after the active and the PIM requests and still is done   *)
(* before the next one is due (PIM_dram_controller.cpp:285).               *)
RefreshKeepsUp == Len(buffer["priority"]) <= NumRank

(* Accesses under way leave in the order in which their data arrives, none *)
(* late: only the first is looked at, and at most one leaves in a tick     *)
(* (PIM_dram_controller.cpp:199). So the end of a request, which           *)
(* set_end_time assigns without taking a maximum, is that of its last      *)
(* command.                                                                *)
DepartsInTime ==
  \A i \in DOMAIN pending :
    /\ pending[i].left >= 0
    /\ i > 1 => pending[i - 1].left < pending[i].left

(* The loop of DRAMInterface::run has an end, whatever refreshes come.     *)
RequestsEnd == running ~> ~ running

(* The closed formula never reports less than the kernel issues and at     *)
(* most two more: one where the second channel gets as many as the first   *)
(* (device.cpp:207), one where the tensor starts between two rounds.       *)
IdealTracksKernel ==
  [][\A o \in DOMAIN objects' \ DOMAIN objects :
       LET n == Len(Kernel("kRead", objects'[o].address, objects'[o].size, "GPU", 0))
       IN  objects'[o].size > 0 => IdealCount(objects'[o].size) - n \in 0 .. 2]_objects

(* Two bundles of the weights never share a place in the DRAM, whichever   *)
(* codec is used, though a tensor may end in the middle of a bundle.       *)
WeightsDoNotOverlap ==
  [][\A new \in DOMAIN objects' \ DOMAIN objects : \A type \in {"GPU", "LOGIC"} :
       LET weights == {o \in DOMAIN objects' : objects'[o].tag \notin {"act", "cache"}}
           bundles(o) == {<<o, i>> : i \in 0 .. NumBundle(objects'[o].size) - 1}
           place(b) == GetAddrVec(objects'[b[1]].address, b[2], type)
       IN  new \in weights =>
             \A b \in bundles(new), c \in UNION {bundles(o) : o \in weights} :
               place(b) = place(c) => b = c]_objects
=============================================================================

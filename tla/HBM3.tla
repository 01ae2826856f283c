-------------------------------- MODULE HBM3 --------------------------------
(***************************************************************************)
(* The DRAM device of the simulator: a tree of channel, pseudochannels,    *)
(* ranks, bank groups and banks. Each node remembers from when on a        *)
(* command may be issued in it, each bank which rows are open. A device is *)
(* a record; time is relative, wait[n, c] is the number of ticks until     *)
(* node n accepts c, and a pair that has nothing to wait for is left out.  *)
(* A node is the sequence of ids that leads to it.                         *)
(* Commands nobody requests (RDA, WRA, REFsb, RFM) and the window of four  *)
(* activations (nFAW) are left out.                                        *)
(***************************************************************************)
EXTENDS AddressMapping, SequencesExt, FiniteSets, FiniteSetsExt

CONSTANT T      \* the timing parameters, a record

(* Data needs some time from a read to its arrival.                        *)
ASSUME TimingAssumption ==
  /\ T \in [nRC : Nat, nRCD : Nat, nRAS : Nat, nRP : Nat, nRTP : Nat, nCCDL : Nat,
           nBL : Nat, nCWL : Nat, nCL : Nat, nWR : Nat, nWTR : Nat, nRRD : Nat,
           nRFC : Nat]
  /\ T.nCL > 0 /\ T.nBL > 0

NumPc == 2      \* pseudochannels

Commands == {"ACT", "ALL-ACT", "PRE", "PREA", "ALL-PRE",
             "RD", "WR", "ALL-RD", "ALL-WR", "REFab"}

(* m_command_meta *)
IsOpening(c) == c \in {"ACT", "ALL-ACT"}
IsClosing(c) == c \in {"PRE", "PREA", "ALL-PRE"}

(* m_command_scopes: these two look at the channel and no deeper. *)
ChannelScope(c) == c \in {"PREA", "REFab"}

(* m_request_translations *)
FinalCommand(type) ==
  CASE type = "Read" -> "RD"          [] type = "Write" -> "WR"
    [] type = "AllRead" -> "ALL-RD"   [] type = "AllWrite" -> "ALL-WR"
    [] type = "Refresh" -> "REFab"

-----------------------------------------------------------------------------
Banks == (0 .. NumPc - 1) \X (0 .. NumRank - 1) \X (0 .. NumBankgroup - 1)
           \X (0 .. NumBank - 1)
Nodes == UNION {Prefixes(b) : b \in Banks}

(* The nodes an address leads through; a refresh names no more than the    *)
(* first level (its other entries are -1) and may name one there is not.   *)
PathOf(addr) == Prefixes(addr.path) \cap Nodes

NewDevice == [wait |-> <<>>, open |-> [b \in Banks |-> {}]]

(***************************************************************************)
(* The table of timing constraints: after a command of `prev' at a node of *)
(* this level, one of `next' waits for lat.                                *)
(***************************************************************************)
Con(level, prev, next, lat) == [level |-> level, prev |-> prev, next |-> next, lat |-> lat]

PimTiming ==
  {Con(2, {"ALL-ACT"}, {"ALL-ACT"}, T.nRC),
   Con(2, {"ALL-ACT"}, {"ALL-RD", "ALL-WR"}, T.nRCD),
   Con(2, {"ALL-ACT"}, {"ALL-PRE"}, T.nRAS),
   Con(2, {"ALL-PRE"}, {"ALL-ACT", "REFab"}, T.nRP),
   Con(2, {"ALL-RD"}, {"ALL-RD"}, T.nCCDL),
   Con(2, {"ALL-WR"}, {"ALL-WR"}, T.nCCDL),
   Con(2, {"ALL-RD"}, {"ALL-PRE", "PREA"}, T.nRTP),
   Con(2, {"ALL-WR"}, {"ALL-PRE"}, T.nCWL + T.nBL + T.nWR),
   Con(2, {"ALL-WR"}, {"ALL-RD"}, T.nCWL + T.nBL + T.nWTR),
   Con(2, {"ALL-RD"}, {"ALL-WR"}, T.nCL + T.nBL + 2 - T.nCWL),
   Con(2, {"PREA", "REFab"}, {"ALL-ACT"}, T.nRFC),
   Con(1, {"REFab"}, {"ALL-ACT"}, T.nRFC)}

DramTiming ==
  {Con(0, {"ACT"}, {"ACT", "PRE", "PREA", "REFab"}, 2),
   Con(1, {"ACT"}, {"ACT"}, T.nRRD),
   Con(1, {"RD"}, {"RD"}, T.nBL), Con(1, {"WR"}, {"WR"}, T.nBL),
   Con(1, {"RD"}, {"WR"}, T.nCL + T.nBL + 2 - T.nCWL),
   Con(1, {"WR"}, {"RD"}, T.nCWL + T.nBL + T.nWTR),
   Con(1, {"RD"}, {"PREA"}, T.nRTP),
   Con(1, {"WR"}, {"PREA"}, T.nCWL + T.nBL + T.nWR),
   Con(1, {"ACT"}, {"PREA"}, T.nRAS),
   Con(1, {"PREA"}, {"ACT"}, T.nRP),
   Con(1, {"ACT"}, {"REFab"}, T.nRC),
   Con(1, {"PRE", "PREA"}, {"REFab"}, T.nRP),
   Con(1, {"REFab"}, {"ACT"}, T.nRFC),
   Con(3, {"RD"}, {"RD"}, T.nCCDL), Con(3, {"WR"}, {"WR"}, T.nCCDL),
   Con(3, {"WR"}, {"RD"}, T.nCWL + T.nBL + T.nWTR),
   Con(3, {"ACT"}, {"ACT"}, T.nRRD),
   Con(4, {"ACT"}, {"ACT"}, T.nRC),
   Con(4, {"ACT"}, {"RD", "WR"}, T.nRCD),
   Con(4, {"ACT"}, {"PRE"}, T.nRAS),
   Con(4, {"PRE"}, {"ACT"}, T.nRP),
   Con(4, {"RD"}, {"PRE"}, T.nRTP),
   Con(4, {"WR"}, {"PRE"}, T.nCWL + T.nBL + T.nWR)}

Timing == PimTiming \cup DramTiming

(* How long each command waits after `prev' at a level, if it does. *)
Latency == [level \in 0 .. 4 |-> [prev \in Commands |->
  LET cons(next) == {t \in Timing : t.level = level /\ prev \in t.prev /\ next \in t.next}
  IN  [next \in {d \in Commands : \E t \in cons(d) : t.lat > 0} |->
         Max({t.lat : t \in cons(next)})]]]

-----------------------------------------------------------------------------
(* m_dram->tick *)
Ticked(dev) ==
  [dev EXCEPT !.wait = [k \in {k \in DOMAIN @ : @[k] > 1} |-> @[k] - 1]]

(* check_ready: the nodes of the address down to the scope of the command. *)
CheckReady(dev, c, addr) ==
  \A n \in PathOf(addr) : (ChannelScope(c) => n = <<>>) => <<n, c>> \notin DOMAIN dev.wait

(* RequireRowOpen and RequirePIMRowOpen; RequireAllBanksClosed. *)
Preq(dev, final, addr) ==
  IF final = "REFab"
  THEN IF \A b \in Banks : dev.open[b] = {} THEN "REFab" ELSE "PREA"
  ELSE LET pim  == final \in {"ALL-RD", "ALL-WR"}
           rows == dev.open[addr.path]
       IN  CASE rows = {}        -> IF pim THEN "ALL-ACT" ELSE "ACT"
             [] addr.row \in rows -> final
             [] OTHER            -> IF pim THEN "ALL-PRE" ELSE "PRE"

StillOpenMutant(dev, c, addr) ==
  LET new  == {k \in PathOf(addr) \X Commands : k[2] \in DOMAIN Latency[Len(k[1])][c]}
      lat(k) == Latency[Len(k[1])][c][k[2]]
      kept == {k \in DOMAIN dev.wait : k \in new => dev.wait[k] > lat(k)}
  IN  [wait |-> [k \in DOMAIN dev.wait \cup new |->
                   IF k \in kept THEN dev.wait[k] ELSE lat(k)],
       open |-> CASE IsOpening(c) -> [dev.open EXCEPT ![addr.path] = @ \cup {addr.row}]
                  [] c \in {"PRE", "ALL-PRE"} -> [dev.open EXCEPT ![addr.path] = {}]
                  [] OTHER -> dev.open]

(* issue_command: the clocks of the nodes on the way, the rows of the bank. *)
Issued(dev, c, addr) ==
  LET new  == {k \in PathOf(addr) \X Commands : k[2] \in DOMAIN Latency[Len(k[1])][c]}
      lat(k) == Latency[Len(k[1])][c][k[2]]
      kept == {k \in DOMAIN dev.wait : k \in new => dev.wait[k] > lat(k)}
  IN  [wait |-> [k \in DOMAIN dev.wait \cup new |->
                   IF k \in kept THEN dev.wait[k] ELSE lat(k)],
       open |-> CASE IsOpening(c) -> [dev.open EXCEPT ![addr.path] = @ \cup {addr.row}]
                  [] c \in {"PRE", "ALL-PRE"} -> [dev.open EXCEPT ![addr.path] = {}]
                  [] c = "PREA" -> [b \in Banks |-> {}]
                  [] OTHER -> dev.open]
=============================================================================

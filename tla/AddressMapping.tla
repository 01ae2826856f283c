---------------------------- MODULE AddressMapping ----------------------------
(***************************************************************************)
(* Where the bytes of a tensor lie in the stacked DRAM: the address codecs *)
(* of MMapController, the commands the kernels make of a memory object,    *)
(* and the closed formula Device::run_ideal uses in their place.           *)
(* An address is in bytes, a bundle is Granul of them.                     *)
(***************************************************************************)
EXTENDS Integers, Sequences

CONSTANTS NumCube, NumLogicCube,  \* stacks seen by the GPU and by the logic die
          NumChannel, NumRank, NumBankgroup, NumBank, NumRow, NumCol,
          Granul                  \* bytes of one access

(* The logic die's codec counts four banks, as all presets of HBM3.cpp do. *)
ASSUME ConfigAssumption ==
  /\ {NumCube, NumLogicCube, NumChannel, NumRank, NumBankgroup, NumBank,
      NumRow, NumCol, Granul} \subseteq Nat \ {0}
  /\ NumBank >= 4

(* Channels lie next to each other, columns above the banks, rows on top. *)
(* Addresses lie in the memory: the assertion that a row is one of NumRow  *)
(* is not modelled.                                                        *)
AddrToVec(address) ==
  LET bundle == address \div Granul
      q1 == bundle \div NumCube
      q2 == q1 \div NumChannel
      q3 == q2 \div NumRank
      q4 == q3 \div NumBankgroup
      q5 == q4 \div NumBank
  IN  [cube |-> bundle % NumCube, channel |-> q1 % NumChannel,
       rank |-> q2 % NumRank, bankgroup |-> q3 % NumBankgroup,
       bank |-> q4 % NumBank, row |-> q5 \div NumCol, col |-> q5 % NumCol]

LowBitTwiceMutant(address) ==
  LET bundle == address \div Granul
      q1 == bundle \div NumLogicCube
      q2 == q1 \div NumChannel
      q3 == q2 \div NumBankgroup
      q4 == q3 \div 2
      q5 == q4 \div NumCol
      q6 == q5 \div NumRow
  IN  [cube |-> bundle % NumLogicCube, channel |-> q1 % NumChannel,
       rank |-> (q6 \div 2) % NumRank, bankgroup |-> q2 % NumBankgroup,
       bank |-> (q6 % 2) * 2 + (q6 % 2), row |-> q5 % NumRow, col |-> q4 % NumCol]

(* The logic die sees four banks: the lower bit of the bank lies under the *)
(* columns, the upper bit over the rows. The rank is taken modulo its      *)
(* number, so the assertion on it never fires.                             *)
AddrToVecLogic(address) ==
  LET bundle == address \div Granul
      q1 == bundle \div NumLogicCube
      q2 == q1 \div NumChannel
      q3 == q2 \div NumBankgroup
      q4 == q3 \div 2
      q5 == q4 \div NumCol
      q6 == q5 \div NumRow
  IN  [cube |-> bundle % NumLogicCube, channel |-> q1 % NumChannel,
       rank |-> (q6 \div 2) % NumRank, bankgroup |-> q2 % NumBankgroup,
       bank |-> (q6 % 2) * 2 + (q3 % 2), row |-> q5 % NumRow, col |-> q4 % NumCol]

(* The first level of a DRAM address is a pair of channels. *)
GetAddrVec(address, bundle_idx, type) ==
  LET target == address + bundle_idx * Granul
      v == IF type = "LOGIC" THEN AddrToVecLogic(target) ELSE AddrToVec(target)
      channel == NumChannel * v.cube + v.channel
  IN  [channel |-> channel \div 2, pc |-> channel % 2, rank |-> v.rank,
       bankgroup |-> v.bankgroup, bank |-> v.bank, row |-> v.row, col |-> v.col]

NumBundle(size) == size \div Granul

(* Only the first pair of channels is simulated; the rest behaves alike. *)
ReadWriteSelects(a) == a.channel = 0

GEMVSelects(a, type, bandwidth_x) ==
  /\ a.channel = 0
  /\ a.pc = 0
  /\ a.bankgroup = 0
  /\ CASE type = "PIM" /\ bandwidth_x = 16 -> a.rank = 0 /\ a.bank = 0
       [] type = "PIM" /\ bandwidth_x = 8  -> a.rank = 0 /\ a.bank % 2 = 0
       [] type = "PIM" /\ bandwidth_x = 4  -> a.rank = 0
       [] type = "LOGIC" /\ bandwidth_x = 4 -> a.bank % 2 = 0

(* The commands of one request on a memory object, in order of the bundles. *)
(* The PIM kernel takes the GPU's codec, as getAddrVec's default argument.  *)
Kernel(kind, address, size, type, bandwidth_x) ==
  LET place(i) == GetAddrVec(address, i - 1, type)
      Selects(a) == IF kind = "GEMV" THEN GEMVSelects(a, type, bandwidth_x)
                    ELSE ReadWriteSelects(a)
      first[n \in 0 .. NumBundle(size)] ==
        IF n = 0 THEN <<>>
        ELSE IF Selects(place(n)) THEN Append(first[n - 1], place(n)) ELSE first[n - 1]
  IN  first[NumBundle(size)]

CeilDiv(n, d) == IF n % d = 0 THEN n \div d ELSE n \div d + 1

LostRemainderMutant(size) ==
  LET toCube == CeilDiv(size \div Granul, NumCube)
      toPch0 == toCube \div NumChannel
      toPch1 == IF toCube % NumChannel = 1 THEN toCube \div NumChannel
                ELSE toCube \div NumChannel + 1
  IN  toPch0 + toPch1

(* The reads or writes run_ideal reports for the first two channels of the *)
(* first stack. Nothing is reported, and nothing reset, for an empty       *)
(* tensor.                                                                 *)
IdealCount(size) ==
  LET toCube == CeilDiv(size \div Granul, NumCube)
      toPch0 == CeilDiv(toCube, NumChannel)
      toPch1 == IF toCube % NumChannel = 1 THEN toCube \div NumChannel
                ELSE toCube \div NumChannel + 1
  IN  toPch0 + toPch1

-----------------------------------------------------------------------------
(* The logic die's encoder; nothing calls it. *)
VecToAddrLogic(v) ==
  LET place(high, base, digit) == high * base + digit
      bankUp == place(v.rank, 2, v.bank \div 2)
      row    == place(bankUp, NumRow, v.row)
      col    == place(row, NumCol, v.col)
      bankLo == place(col, 2, v.bank % 2)
      bg     == place(bankLo, NumBankgroup, v.bankgroup)
      ch     == place(bg, NumChannel, v.channel)
  IN  place(ch, NumCube, v.cube) * Granul
=============================================================================

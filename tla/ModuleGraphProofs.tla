-------------------------- MODULE ModuleGraphProofs --------------------------
(***************************************************************************)
(* What holds of the module graphs of any cluster.                         *)
(***************************************************************************)
EXTENDS ModuleGraph, NaturalFacts, SequenceTheorems, TLAPS

-----------------------------------------------------------------------------
(* Devices and their groups *)

\* The degrees are positive.
LEMMA Degrees ==
  /\ NeTp \in Nat \ {0} /\ PpDegree \in Nat \ {0} /\ DpDegree \in Nat \ {0}
  /\ ETp \in Nat \ {0} /\ Layers \in Nat \ {0} /\ MaxPasses \in Nat \ {0}
  /\ NumDevices \in Nat \ {0}
<1>1. /\ NeTp \in Nat \ {0} /\ PpDegree \in Nat \ {0} /\ DpDegree \in Nat \ {0}
      /\ ETp \in Nat \ {0} /\ Layers \in Nat \ {0} /\ MaxPasses \in Nat \ {0}
  BY GraphAssumption
<1>2. NeTp * PpDegree \in Nat \ {0}
  BY <1>1
<1>3. NumDevices \in Nat \ {0}
  <2> DEFINE n == NeTp * PpDegree
  <2>1. NumDevices = n * DpDegree /\ n \in Nat \ {0}
    BY <1>2 DEF NumDevices
  <2> HIDE DEF n
  <2> QED
    BY <1>1, <2>1
<1> QED
  BY <1>1, <1>3

\* The devices are finitely many numbers.
LEMMA DevicesFinite ==
  /\ Devices \subseteq Nat /\ IsFiniteSet(Devices)
  /\ \A G \in SUBSET Devices : IsFiniteSet(G)
<1>1. 0 \in Int /\ NumDevices - 1 \in Int
  BY Degrees
<1>2. IsFiniteSet(Devices)
  BY <1>1, FS_Interval DEF Devices
<1>3. Devices \subseteq Nat
  BY DEF Devices
<1>4. \A G \in SUBSET Devices : IsFiniteSet(G)
  BY <1>2, FS_Subset
<1> QED
  BY <1>2, <1>3, <1>4

\* The quotient that the layout is computed from.
LEMMA Ranks ==
  ASSUME NEW d \in Devices
  PROVE  /\ d \div NeTp \in Nat /\ d % NeTp \in 0 .. NeTp - 1
         /\ d = (d \div NeTp) * NeTp + (d % NeTp)
         /\ PpRank(d) \in 0 .. PpDegree - 1
<1>1. d \in Nat /\ NeTp \in Nat \ {0} /\ PpDegree \in Nat \ {0}
  BY DevicesFinite, Degrees
<1>2. d \div NeTp \in Nat
  BY <1>1, Division
<1> QED
  BY <1>1, <1>2, Division DEF PpRank

\* Tensor-parallel neighbours are in the same stage.
LEMMA TpGroups ==
  ASSUME NEW d \in Devices
  PROVE  /\ d \in TpGroup(d)
         /\ \A e \in TpGroup(d) :
              e \in Devices /\ PpRank(e) = PpRank(d) /\ TpGroup(e) = TpGroup(d)
BY DEF TpGroup, PpRank

\* The devices of a stage agree on who they are.
LEMMA StageGroups ==
  ASSUME NEW d \in Devices
  PROVE  /\ d \in StageGroup(d)
         /\ \A e \in StageGroup(d) :
              e \in Devices /\ PpRank(e) = PpRank(d) /\ StageGroup(e) = StageGroup(d)
BY DEF StageGroup

\* So do the devices that exchange tokens.
LEMMA ExpertGroups ==
  ASSUME NEW d \in Devices
  PROVE  /\ d \in ExpertGroup(d)
         /\ TpGroup(d) \subseteq ExpertGroup(d)
         /\ \A e \in ExpertGroup(d) :
              e \in Devices /\ PpRank(e) = PpRank(d) /\ ExpertGroup(e) = ExpertGroup(d)
<1>1. TpGroup(d) \subseteq StageGroup(d)
  BY TpGroups DEF StageGroup
<1> QED
  BY <1>1, TpGroups, StageGroups DEF ExpertGroup

\* Whether a layer has experts is a matter of the stage.
LEMMA SameLayers ==
  ASSUME NEW d \in Devices, NEW e \in Devices, PpRank(d) = PpRank(e), NEW l
  PROVE  IsMoE(d, l) <=> IsMoE(e, l)
BY DEF IsMoE

-----------------------------------------------------------------------------
(* Places in a list of ranks *)

\* The members of G before x.
Below(G, x) == {e \in G : e < x}

\* How many they are.
Place(G, x) == Cardinality(Below(G, x))

\* A place is a number.
LEMMA PlaceType ==
  ASSUME NEW G \in SUBSET Nat, IsFiniteSet(G), NEW x
  PROVE  Place(G, x) \in Nat /\ IsFiniteSet(Below(G, x))
<1>1. Below(G, x) \in SUBSET G
  BY DEF Below
<1> QED
  BY <1>1, FS_Subset, FS_CardinalityType DEF Place

\* Places increase.
LEMMA PlaceIncreases ==
  ASSUME NEW G \in SUBSET Nat, IsFiniteSet(G), NEW x \in G, NEW y \in G, x < y
  PROVE  Place(G, x) < Place(G, y)
<1> DEFINE B == Below(G, x)
           C == Below(G, y)
<1>1. IsFiniteSet(B) /\ IsFiniteSet(C)
  BY PlaceType
<1>2. x \notin B /\ B \cup {x} \in SUBSET C
  <2>1. \A e \in B : e \in G /\ e < x /\ e < y
    BY DEF Below
  <2>2. ~ (x < x)
    OBVIOUS
  <2> QED
    BY <2>1, <2>2 DEF Below
<1>3. Place(G, x) = Cardinality(B) /\ Place(G, y) = Cardinality(C)
  BY DEF Place
<1> HIDE DEF B, C
<1>4. Cardinality(B \cup {x}) = Cardinality(B) + 1
  BY <1>1, <1>2, FS_AddElement
<1>5. Cardinality(B \cup {x}) <= Cardinality(C)
  BY <1>1, <1>2, FS_Subset
<1>6. Cardinality(B) \in Nat /\ Cardinality(C) \in Nat
  BY <1>1, FS_CardinalityType
<1> QED
  BY <1>3, <1>4, <1>5, <1>6

\* After the last member before x comes x.
LEMMA PlaceAfter ==
  ASSUME NEW G \in SUBSET Nat, IsFiniteSet(G), NEW x \in G, Below(G, x) # {}
  PROVE  \E y \in G : y < x /\ Place(G, x) = Place(G, y) + 1
<1> DEFINE B == Below(G, x)
<1>1. B \in SUBSET Nat /\ IsFiniteSet(B) /\ B # {}
  BY PlaceType DEF Below
<1>2. PICK y \in B : \A z \in B : y >= z
  <2> HIDE DEF B
  <2> QED
    BY <1>1, LargestElement
<1>3. y \in G /\ y < x /\ y \in Nat
  BY <1>2 DEF Below
<1>4. B = Below(G, y) \cup {y} /\ y \notin Below(G, y)
  <2>1. ASSUME NEW z \in B PROVE z < y \/ z = y
    <3>1. y >= z /\ z \in Nat
      BY <1>2 DEF Below
    <3> QED
      BY <1>3, <3>1
  <2>2. \A z \in B : z \in G
    BY DEF Below
  <2>3. \A z \in G : z < y => z < x
    BY <1>3
  <2>4. y \notin Below(G, y)
    BY <1>3 DEF Below
  <2>5. \A z \in B : z \in Below(G, y) \cup {y}
    BY <2>1, <2>2 DEF Below
  <2>6. \A z \in Below(G, y) : z \in B
    BY <2>3 DEF Below
  <2> HIDE DEF B
  <2> QED
    BY <1>2, <2>4, <2>5, <2>6
<1>5. IsFiniteSet(Below(G, y))
  BY PlaceType
<1>6. Cardinality(B) = Cardinality(Below(G, y)) + 1
  BY <1>4, <1>5, FS_AddElement
<1> QED
  BY <1>3, <1>6 DEF Place

\* Every place up to that of a member is somebody's.
LEMMA PlaceTaken ==
  ASSUME NEW G \in SUBSET Nat, IsFiniteSet(G), NEW x \in G,
         NEW c \in Nat, c <= Place(G, x)
  PROVE  \E y \in G : Place(G, y) = c
<1> DEFINE S == {y \in G : Place(G, y) >= c}
<1>1. S \in SUBSET Nat /\ S # {}
  <2>1. x \in S
    BY PlaceType
  <2> QED
    BY <2>1
<1>2. PICK y \in S : \A z \in S : y <= z
  <2> HIDE DEF S
  <2> QED
    BY <1>1, LeastElement
<1>3. y \in G /\ y \in Nat /\ Place(G, y) \in Nat /\ Place(G, y) >= c
  BY <1>2, PlaceType
<1>4. ASSUME Place(G, y) > c PROVE FALSE
  <2>1. Below(G, y) # {}
    BY <1>3, <1>4, FS_EmptySet DEF Place
  <2>2. PICK z \in G : z < y /\ Place(G, y) = Place(G, z) + 1
    BY <1>3, <2>1, PlaceAfter
  <2>3. Place(G, z) \in Nat
    BY PlaceType
  <2>4. z \in S /\ z \in Nat
    BY <1>3, <1>4, <2>2, <2>3
  <2>5. y <= z
    BY <1>2, <2>4
  <2> QED
    BY <1>3, <2>2, <2>4, <2>5
<1> QED
  BY <1>3, <1>4

\* Consecutive ranks have consecutive places.
LEMMA PlaceOfNext ==
  ASSUME NEW G \in SUBSET Nat, IsFiniteSet(G), NEW x \in G, NEW k \in Nat,
         \A i \in x .. x + k : i \in G
  PROVE  Place(G, x + k) = Place(G, x) + k
<1> DEFINE B == Below(G, x)
           I == x .. x + k - 1
<1>1. x \in Nat
  OBVIOUS
<1>2. Below(G, x + k) = B \cup I
  <2>1. ASSUME NEW e \in G, e < x + k PROVE e < x \/ e \in I
    BY <1>1, <2>1
  <2>2. \A e \in I : e \in G /\ e < x + k
    BY <1>1
  <2>3. \A e \in G : e < x => e < x + k
    BY <1>1
  <2> HIDE DEF I
  <2> QED
    BY <2>1, <2>2, <2>3 DEF Below
<1>3. B \cap I = {}
  <2>1. ASSUME NEW e \in I PROVE ~ (e < x)
    BY <1>1
  <2> HIDE DEF I
  <2> QED
    BY <2>1 DEF Below
<1>4. IsFiniteSet(I) /\ Cardinality(I) = k
  <2>1. x \in Int /\ x + k - 1 \in Int
    BY <1>1
  <2>2. IsFiniteSet(I) /\ Cardinality(I) = IF x > x + k - 1 THEN 0 ELSE (x + k - 1) - x + 1
    BY <2>1, FS_Interval
  <2> HIDE DEF I
  <2> QED
    BY <1>1, <2>2
<1>5. IsFiniteSet(B) /\ Cardinality(B) \in Nat
  BY PlaceType, FS_CardinalityType
<1> HIDE DEF B, I
<1>6. Cardinality(B \cup I) = Cardinality(B) + Cardinality(I) - Cardinality(B \cap I)
  BY <1>4, <1>5, FS_Union
<1>7. Cardinality(B \cap I) = 0
  BY <1>3, FS_EmptySet
<1>8. Cardinality(B \cup I) = Cardinality(B) + k
  BY <1>4, <1>5, <1>6, <1>7
<1> QED
  BY <1>2, <1>8 DEF Place, B

-----------------------------------------------------------------------------
(* The devices that share experts, and pipeline peers *)

\* The rank at which the chunk of d starts.
ChunkStart(d) ==
  CHOOSE e \in ExpertGroup(d) : LocalRank(e) = (LocalRank(d) \div ETp) * ETp

\* Local ranks are places in the group.
LEMMA LocalRanks ==
  ASSUME NEW d \in Devices
  PROVE  /\ ExpertGroup(d) \in SUBSET Nat /\ IsFiniteSet(ExpertGroup(d))
         /\ \A e \in ExpertGroup(d) : LocalRank(e) = Place(ExpertGroup(d), e)
         /\ LocalRank(d) \in Nat
<1>1. ExpertGroup(d) \in SUBSET Devices
  BY ExpertGroups
<1>2. ExpertGroup(d) \in SUBSET Nat /\ IsFiniteSet(ExpertGroup(d))
  BY <1>1, DevicesFinite
<1>3. \A e \in ExpertGroup(d) : LocalRank(e) = Place(ExpertGroup(d), e)
  BY ExpertGroups DEF LocalRank, Place, Below
<1>4. LocalRank(d) \in Nat
  BY <1>2, <1>3, ExpertGroups, PlaceType
<1> QED
  BY <1>2, <1>3, <1>4

\* A chunk has ETp ranks, and the local ranks of its members are consecutive.
LEMMA Chunks ==
  ASSUME NEW d \in Devices, NEW l \in 1 .. Layers, IsMoE(d, l)
  PROVE  LET c == (LocalRank(d) \div ETp) * ETp
         IN  /\ ChunkStart(d) \in ExpertGroup(d) /\ LocalRank(ChunkStart(d)) = c
             /\ ChunkStart(d) \in Nat
             /\ ExpertTpGroup(d) = ChunkStart(d) .. ChunkStart(d) + ETp - 1
             /\ ExpertTpGroup(d) \subseteq ExpertGroup(d)
             /\ \A k \in 0 .. ETp - 1 :
                  ChunkStart(d) + k \in ExpertGroup(d) /\ LocalRank(ChunkStart(d) + k) = c + k
<1> DEFINE G == ExpertGroup(d)
           r == LocalRank(d)
           c == (r \div ETp) * ETp
           a == ChunkStart(d)
<1>1. /\ G \in SUBSET Nat /\ IsFiniteSet(G) /\ d \in G /\ r \in Nat /\ r = Place(G, d)
      /\ \A e \in G : LocalRank(e) = Place(G, e)
  BY LocalRanks, ExpertGroups
<1>2. ETp \in Nat \ {0}
  BY Degrees
<1>3. c \in Nat /\ c <= r
  <2>1. r \div ETp \in Nat /\ r % ETp \in Nat /\ r = (r \div ETp) * ETp + (r % ETp)
    <3>1. r \in Nat
      BY <1>1
    <3> HIDE DEF r, G
    <3>2. r % ETp \in 0 .. ETp - 1 /\ r \div ETp \in Nat /\ r = (r \div ETp) * ETp + (r % ETp)
      BY <1>2, <3>1, Division
    <3> QED
      BY <1>2, <3>2
  <2>2. (r \div ETp) * ETp \in Nat
    BY <1>2, <2>1
  <2> HIDE DEF r
  <2> QED
    BY <1>1, <2>1, <2>2
<1>4. ExpertTpGroup(d) = a .. a + ETp - 1
  BY DEF ExpertTpGroup, ChunkStart
<1>5. ExpertTpGroup(d) \subseteq G
  BY LayoutAssumption
<1> HIDE DEF c
<1>6. \E e \in G : LocalRank(e) = c
  <2>1. c <= Place(G, d)
    BY <1>1, <1>3
  <2> HIDE DEF G, r
  <2>2. \E e \in G : Place(G, e) = c
    BY <1>1, <1>3, <2>1, PlaceTaken
  <2> QED
    BY <1>1, <2>2
<1>7. a \in G /\ LocalRank(a) = c
  <2>1. a = CHOOSE e \in G : LocalRank(e) = c
    BY DEF ChunkStart, c
  <2> HIDE DEF a
  <2> QED
    BY <1>6, <2>1
<1> HIDE DEF G, r, a
<1>8. a \in Nat
  BY <1>1, <1>7
<1>9. ASSUME NEW k \in 0 .. ETp - 1
      PROVE  a + k \in G /\ LocalRank(a + k) = c + k
  <2>1. \A i \in a .. a + k : i \in G
    BY <1>2, <1>4, <1>5, <1>8
  <2>2. k \in Nat /\ a + k \in G
    BY <1>2, <1>8, <2>1
  <2>3. Place(G, a + k) = Place(G, a) + k
    BY <1>1, <1>7, <2>1, <2>2, PlaceOfNext
  <2> QED
    BY <1>1, <1>7, <2>2, <2>3
<1> QED
  BY <1>4, <1>5, <1>7, <1>8, <1>9 DEF G, a, c, r

\* The members of a chunk agree on it.
LEMMA ExpertTpGroups ==
  ASSUME NEW d \in Devices, NEW l \in 1 .. Layers, IsMoE(d, l)
  PROVE  /\ d \in ExpertTpGroup(d) /\ ExpertTpGroup(d) \subseteq ExpertGroup(d)
         /\ \A e \in ExpertTpGroup(d) : ExpertTpGroup(e) = ExpertTpGroup(d)
<1> DEFINE G == ExpertGroup(d)
           r == LocalRank(d)
           q == r \div ETp
           a == ChunkStart(d)
<1>1. /\ ETp \in Nat \ {0} /\ r \in Nat /\ q \in Nat
      /\ r % ETp \in 0 .. ETp - 1 /\ r = q * ETp + (r % ETp)
  BY Degrees, LocalRanks, Division
<1>2. /\ a \in G /\ a \in Nat /\ ExpertTpGroup(d) = a .. a + ETp - 1
      /\ ExpertTpGroup(d) \subseteq G
      /\ \A k \in 0 .. ETp - 1 : a + k \in G /\ LocalRank(a + k) = q * ETp + k
  BY Chunks
<1>3. d \in ExpertTpGroup(d)
  <2> DEFINE k == r % ETp
             e == a + k
  <2>1. e \in G /\ LocalRank(e) = r
    <3>1. LocalRank(e) = q * ETp + k /\ e \in G
      BY <1>1, <1>2
    <3> QED
      BY <1>1, <3>1
  <2>2. /\ G \in SUBSET Nat /\ IsFiniteSet(G) /\ d \in G
        /\ Place(G, e) = r /\ Place(G, d) = r
    BY <2>1, LocalRanks, ExpertGroups
  <2>3. e \in a .. a + ETp - 1
    <3>1. k \in 0 .. ETp - 1 /\ a \in Nat /\ ETp \in Nat
      BY <1>1, <1>2
    <3> HIDE DEF k, a
    <3> QED
      BY <3>1
  <2> HIDE DEF G, r, e, a
  <2>4. e = d
    <3>1. e \in Nat /\ d \in Nat
      BY <2>1, <2>2
    <3>2. ~ (e < d) /\ ~ (d < e)
      BY <1>1, <2>1, <2>2, PlaceIncreases
    <3> QED
      BY <3>1, <3>2
  <2> QED
    BY <1>2, <2>3, <2>4
<1>4. ASSUME NEW e \in ExpertTpGroup(d) PROVE ExpertTpGroup(e) = ExpertTpGroup(d)
  <2> DEFINE k == e - a
  <2>1. k \in 0 .. ETp - 1 /\ e = a + k
    <3> HIDE DEF a
    <3>1. e \in a .. a + ETp - 1
      BY <1>2
    <3> QED
      BY <1>1, <1>2, <3>1
  <2>2. LocalRank(e) = q * ETp + k /\ e \in G
    BY <1>2, <2>1
  <2>3. LocalRank(e) \div ETp = q
    <3> HIDE DEF q, k
    <3> QED
      BY <1>1, <2>1, <2>2, DivisionUnique
  <2>4. ExpertGroup(e) = ExpertGroup(d)
    BY <2>2, ExpertGroups
  <2> QED
    BY <2>3, <2>4 DEF ExpertTpGroup
<1> QED
  BY <1>2, <1>3, <1>4

\* A number in the n-th of rows of m.
LEMMA InRow ==
  ASSUME NEW m \in Nat \ {0}, NEW n \in Nat, NEW a \in Nat, NEW b \in 0 .. m - 1
  PROVE  a * m + b < n * m <=> a < n
<1>1. a * m \in Nat /\ n * m \in Nat
  OBVIOUS
<1>2. CASE a < n
  <2>1. (a + 1) * m <= n * m
    BY <1>2
  <2>2. (a + 1) * m = a * m + m
    OBVIOUS
  <2> QED
    BY <1>1, <1>2, <2>1, <2>2
<1>3. CASE ~ (a < n)
  <2>1. n * m <= a * m
    BY <1>3
  <2> QED
    BY <1>1, <1>3, <2>1
<1> QED
  BY <1>2, <1>3

\* A number is a device when its tensor-parallel group is one of the cluster.
LEMMA DeviceIs ==
  ASSUME NEW q \in Nat, NEW b \in 0 .. NeTp - 1
  PROVE  /\ q * NeTp + b \in Devices <=> q < PpDegree * DpDegree
         /\ (q * NeTp + b) \div NeTp = q /\ PpRank(q * NeTp + b) = q % PpDegree
<1>1. /\ NeTp \in Nat \ {0} /\ PpDegree \in Nat \ {0} /\ DpDegree \in Nat \ {0}
      /\ NumDevices \in Nat
  BY Degrees
<1> DEFINE n == PpDegree * DpDegree
           x == q * NeTp + b
<1>2. n \in Nat /\ x \in Nat
  BY <1>1
<1>3. NumDevices = n * NeTp
  BY <1>1 DEF NumDevices
<1>4. x \in Devices <=> x < NumDevices
  <2> HIDE DEF x
  <2> QED
    BY <1>1, <1>2 DEF Devices
<1>5. x < n * NeTp <=> q < n
  <2> HIDE DEF n
  <2> QED
    BY <1>1, <1>2, InRow
<1>6. x \div NeTp = q
  BY <1>1, DivisionUnique
<1> QED
  BY <1>3, <1>4, <1>5, <1>6 DEF PpRank

\* The previous stage has the peer that sends to d.
LEMMA Senders ==
  ASSUME NEW d \in Devices, PpRank(d) > 0
  PROVE  /\ PpPeer(d, -1) \in Devices /\ PpRank(PpPeer(d, -1)) = PpRank(d) - 1
<1> DEFINE q == d \div NeTp
           b == d % NeTp
           u == q \div PpDegree
           p == q % PpDegree
<1>1. /\ q \in Nat /\ b \in 0 .. NeTp - 1 /\ d = q * NeTp + b /\ PpRank(d) = p
      /\ NeTp \in Nat \ {0} /\ PpDegree \in Nat \ {0} /\ DpDegree \in Nat \ {0}
  BY Ranks, Degrees DEF PpRank
<1>2. u \in Nat /\ p \in 0 .. PpDegree - 1 /\ q = u * PpDegree + p
  <2> HIDE DEF q
  <2> QED
    BY <1>1, Division
<1> HIDE DEF q, b, u, p
<1>3. p \in Nat /\ p > 0 /\ u * PpDegree \in Nat
  BY <1>1, <1>2
<1>4. q - 1 \in Nat /\ q - 1 = u * PpDegree + (p - 1) /\ p - 1 \in 0 .. PpDegree - 1
  BY <1>1, <1>2, <1>3
<1>5. (q - 1) % PpDegree = p - 1
  <2>1. (u * PpDegree + (p - 1)) % PpDegree = p - 1
    BY <1>1, <1>2, <1>4, DivisionUnique
  <2> QED
    BY <1>4, <2>1
<1>6. PpPeer(d, -1) = (q - 1) * NeTp + b
  <2>1. (q - 1) * NeTp = q * NeTp - NeTp
    BY <1>1
  <2>2. PpPeer(d, -1) = d - NeTp
    BY <1>1, DevicesFinite DEF PpPeer
  <2>3. q * NeTp \in Nat
    BY <1>1
  <2> QED
    BY <1>1, <2>1, <2>2, <2>3
<1>7. q < PpDegree * DpDegree
  BY <1>1, DeviceIs
<1>8. PpDegree * DpDegree \in Nat
  BY <1>1
<1>9. q - 1 < PpDegree * DpDegree
  BY <1>1, <1>4, <1>7, <1>8
<1> QED
  BY <1>1, <1>4, <1>5, <1>6, <1>9, DeviceIs

\* Every device but those of the last stage sends to one of the next.
LEMMA Receivers ==
  ASSUME NEW d \in Devices, PpRank(d) < PpDegree - 1
  PROVE  \E e \in Devices : PpRank(e) = PpRank(d) + 1 /\ PpPeer(e, -1) = d
<1> DEFINE q == d \div NeTp
           b == d % NeTp
           u == q \div PpDegree
           p == q % PpDegree
           e == (q + 1) * NeTp + b
<1>1. /\ q \in Nat /\ b \in 0 .. NeTp - 1 /\ d = q * NeTp + b /\ PpRank(d) = p
      /\ NeTp \in Nat \ {0} /\ PpDegree \in Nat \ {0} /\ DpDegree \in Nat \ {0}
  BY Ranks, Degrees DEF PpRank
<1>2. u \in Nat /\ p \in 0 .. PpDegree - 1 /\ q = u * PpDegree + p
  <2> HIDE DEF q
  <2> QED
    BY <1>1, Division
<1> HIDE DEF q, b, u, p
<1>3. q + 1 \in Nat /\ q + 1 = u * PpDegree + (p + 1) /\ p + 1 \in 0 .. PpDegree - 1
  <2>1. u * PpDegree \in Nat
    BY <1>1, <1>2
  <2> QED
    BY <1>1, <1>2, <2>1
<1>4. (q + 1) % PpDegree = p + 1
  <2>1. (u * PpDegree + (p + 1)) % PpDegree = p + 1
    BY <1>1, <1>2, <1>3, DivisionUnique
  <2> QED
    BY <1>3, <2>1
<1>5. q < PpDegree * DpDegree /\ PpDegree * DpDegree = DpDegree * PpDegree
  <2>1. q < PpDegree * DpDegree
    BY <1>1, DeviceIs
  <2> QED
    BY <1>1, <2>1
<1>6. u < DpDegree
  BY <1>1, <1>2, <1>5, InRow
<1>7. q + 1 < PpDegree * DpDegree
  BY <1>1, <1>2, <1>3, <1>5, <1>6, InRow
<1>8. e \in Devices /\ PpRank(e) = p + 1
  BY <1>1, <1>3, <1>4, <1>7, DeviceIs
<1>9. PpPeer(e, -1) = d
  <2>1. (q + 1) * NeTp = q * NeTp + NeTp /\ q * NeTp \in Nat
    BY <1>1
  <2>2. PpPeer(e, -1) = e - NeTp
    BY <1>1, <1>8, DevicesFinite DEF PpPeer
  <2> QED
    BY <1>1, <2>1, <2>2
<1> QED
  BY <1>1, <1>8, <1>9

-----------------------------------------------------------------------------
(* Lists put together *)

\* Where each of n pieces of these lengths ends.
AreEnds(off, n, len) ==
  /\ off \in [0 .. n -> Nat]
  /\ off[0] = 0
  /\ \A l \in 1 .. n : off[l] = off[l - 1] + len[l]

\* There are such numbers.
LEMMA EndsExist ==
  ASSUME NEW n \in Nat, NEW len \in [1 .. n -> Nat]
  PROVE  \E off : AreEnds(off, n, len)
<1> DEFINE E == {m \in Nat : m <= n => \E off : AreEnds(off, m, len)}
<1>1. 0 \in E
  <2>1. AreEnds([l \in 0 .. 0 |-> 0], 0, len)
    BY DEF AreEnds
  <2> QED
    BY <2>1
<1>2. ASSUME NEW m \in Nat, m \in E PROVE m + 1 \in E
  <2> SUFFICES ASSUME m + 1 <= n PROVE \E off : AreEnds(off, m + 1, len)
    OBVIOUS
  <2>1. PICK off : AreEnds(off, m, len)
    BY <1>2
  <2> DEFINE new == [l \in 0 .. m + 1 |-> IF l <= m THEN off[l] ELSE off[m] + len[m + 1]]
  <2>2. /\ off \in [0 .. m -> Nat] /\ off[0] = 0
        /\ \A l \in 1 .. m : off[l] = off[l - 1] + len[l]
        /\ len[m + 1] \in Nat
    BY <2>1 DEF AreEnds
  <2>3. new \in [0 .. m + 1 -> Nat] /\ new[0] = 0
    BY <2>2
  <2>4. ASSUME NEW l \in 1 .. m + 1 PROVE new[l] = new[l - 1] + len[l]
    <3>1. CASE l <= m
      BY <2>2, <3>1
    <3>2. CASE l = m + 1
      BY <2>2, <3>2
    <3> QED
      BY <3>1, <3>2
  <2> HIDE DEF new
  <2> QED
    BY <2>3, <2>4 DEF AreEnds
<1> HIDE DEF E
<1>3. n \in E
  BY <1>1, <1>2, SetInduction
<1> QED
  BY <1>3 DEF E

\* They increase.
LEMMA EndsIncrease ==
  ASSUME NEW n \in Nat, NEW len \in [1 .. n -> Nat], NEW off, AreEnds(off, n, len)
  PROVE  \A m \in 0 .. n : \A l \in 0 .. m : off[l] <= off[m]
<1> DEFINE E == {m \in Nat : m <= n => \A l \in 0 .. m : off[l] <= off[m]}
<1>1. /\ off \in [0 .. n -> Nat] /\ off[0] = 0
      /\ \A l \in 1 .. n : off[l] = off[l - 1] + len[l] /\ len[l] \in Nat
  BY DEF AreEnds
<1>2. 0 \in E
  BY <1>1
<1>3. ASSUME NEW m \in Nat, m \in E PROVE m + 1 \in E
  <2> SUFFICES ASSUME m + 1 <= n, NEW l \in 0 .. m + 1 PROVE off[l] <= off[m + 1]
    OBVIOUS
  <2>1. /\ m + 1 \in 1 .. n /\ (m + 1) - 1 = m /\ m \in 0 .. n /\ m + 1 \in 0 .. n
        /\ l \in 0 .. n
    OBVIOUS
  <2>2. off[m + 1] = off[m] + len[m + 1] /\ len[m + 1] \in Nat
    BY <1>1, <2>1
  <2>3. off[m] \in Nat /\ off[l] \in Nat /\ off[m + 1] \in Nat
    BY <1>1, <2>1
  <2>4. CASE l = m + 1
    BY <2>3, <2>4
  <2>5. CASE l # m + 1
    <3>1. off[l] <= off[m]
      BY <1>3, <2>1, <2>5
    <3> QED
      BY <2>2, <2>3, <3>1
  <2> QED
    BY <2>4, <2>5
<1> HIDE DEF E
<1>4. \A m \in Nat : m \in E
  BY <1>2, <1>3, SetInduction
<1> QED
  BY <1>4 DEF E

\* Every position is in some piece.
LEMMA PieceOf ==
  ASSUME NEW n \in Nat, NEW len \in [1 .. n -> Nat], NEW off, AreEnds(off, n, len),
         NEW i \in 1 .. off[n]
  PROVE  \E l \in 1 .. n : \E k \in 1 .. len[l] : i = off[l - 1] + k
<1> DEFINE S == {l \in 0 .. n : i <= off[l]}
<1>1. /\ off \in [0 .. n -> Nat] /\ off[0] = 0
      /\ \A l \in 1 .. n : off[l] = off[l - 1] + len[l] /\ len[l] \in Nat
  BY DEF AreEnds
<1>2. i \in Nat /\ i >= 1
  BY <1>1
<1>3. S \in SUBSET Nat /\ n \in S
  BY <1>1
<1>4. PICK l \in S : \A m \in S : l <= m
  <2> HIDE DEF S
  <2> QED
    BY <1>3, LeastElement
<1>5. l \in 0 .. n /\ i <= off[l] /\ l # 0
  BY <1>1, <1>2, <1>4
<1>6. l - 1 \in 0 .. n /\ l - 1 \notin S /\ l \in 1 .. n
  BY <1>4, <1>5
<1>7. off[l - 1] < i /\ off[l - 1] \in Nat /\ off[l] = off[l - 1] + len[l] /\ len[l] \in Nat
  BY <1>1, <1>2, <1>6
<1>8. i - off[l - 1] \in 1 .. len[l] /\ i = off[l - 1] + (i - off[l - 1])
  BY <1>2, <1>5, <1>7
<1> QED
  BY <1>6, <1>8

\* u has the elements of s, then those of t.
FirstThen(u, s, t) ==
  /\ Len(u) = Len(s) + Len(t)
  /\ \A k \in 1 .. Len(s) : u[k] = s[k]
  /\ \A k \in 1 .. Len(t) : u[Len(s) + k] = t[k]

\* What stands where when two lists are put together.
LEMMA Concatenated ==
  ASSUME NEW S, NEW s \in Seq(S), NEW t \in Seq(S)
  PROVE  s \o t \in Seq(S) /\ FirstThen(s \o t, s, t)
<1>1. /\ s \o t \in Seq(S) /\ Len(s \o t) = Len(s) + Len(t)
      /\ \A i \in 1 .. Len(s) + Len(t) :
           (s \o t)[i] = IF i <= Len(s) THEN s[i] ELSE t[i - Len(s)]
  BY ConcatProperties
<1>2. Len(s) \in Nat /\ Len(t) \in Nat
  OBVIOUS
<1>3. ASSUME NEW k \in 1 .. Len(s) PROVE (s \o t)[k] = s[k]
  <2>1. k \in 1 .. Len(s) + Len(t) /\ k <= Len(s)
    BY <1>2
  <2> QED
    BY <1>1, <2>1
<1>4. ASSUME NEW k \in 1 .. Len(t) PROVE (s \o t)[Len(s) + k] = t[k]
  <2>1. /\ Len(s) + k \in 1 .. Len(s) + Len(t) /\ ~ (Len(s) + k <= Len(s))
        /\ (Len(s) + k) - Len(s) = k
    BY <1>2
  <2> QED
    BY <1>1, <2>1
<1> QED
  BY <1>1, <1>3, <1>4 DEF FirstThen

\* What FlattenSeq computes, as a function of how many pieces it has taken.
Flattens(f, s, n) ==
  f = [i \in 1 .. n |-> IF i = 1 THEN s[i] ELSE f[i - 1] \o s[i]]

\* The function exists.
LEMMA FlattensExists ==
  ASSUME NEW s, NEW n \in Nat
  PROVE  \E f : Flattens(f, s, n)
<1> DEFINE E == {m \in Nat : \E f : Flattens(f, s, m)}
<1>1. 0 \in E
  <2> DEFINE f == [i \in 1 .. 0 |-> s[i]]
  <2>1. Flattens(f, s, 0)
    BY DEF Flattens
  <2> QED
    BY <2>1
<1>2. ASSUME NEW m \in Nat, m \in E PROVE m + 1 \in E
  <2>1. PICK f : Flattens(f, s, m)
    BY <1>2
  <2>0. \A i \in 1 .. m : f[i] = IF i = 1 THEN s[i] ELSE f[i - 1] \o s[i]
    BY <2>1 DEF Flattens
  <2> DEFINE Next1(i, g) == IF i = 1 THEN s[i] ELSE g[i - 1] \o s[i]
             g == [i \in 1 .. m + 1 |-> IF i <= m THEN f[i] ELSE Next1(i, f)]
             h == [i \in 1 .. m + 1 |-> Next1(i, g)]
  <2>2. ASSUME NEW i \in 1 .. m + 1 PROVE g[i] = Next1(i, g)
    <3>1. CASE i = 1
      BY <2>1, <3>1 DEF Flattens
    <3>2. CASE i # 1
      <4>1. i - 1 \in 1 .. m /\ g[i - 1] = f[i - 1]
        BY <3>2
      <4>2. g[i] = f[i - 1] \o s[i]
        <5>1. CASE i <= m
          <6>1. i \in 1 .. m
            BY <5>1
          <6>2. f[i] = f[i - 1] \o s[i]
            BY <2>0, <3>2, <6>1
          <6> QED
            BY <5>1, <6>2
        <5>2. CASE ~ (i <= m)
          BY <3>2, <5>2
        <5> QED
          BY <5>1, <5>2
      <4> QED
        BY <3>2, <4>1, <4>2
    <3> QED
      BY <3>1, <3>2
  <2>3. g = h
    <3>1. \A i \in 1 .. m + 1 : g[i] = h[i]
      BY <2>2
    <3> QED
      BY <3>1
  <2>4. Flattens(g, s, m + 1)
    <3> HIDE DEF g
    <3> QED
      BY <2>3 DEF Flattens
  <2> QED
    BY <2>4
<1> HIDE DEF E
<1>3. n \in E
  BY <1>1, <1>2, SetInduction
<1> QED
  BY <1>3 DEF E

\* Where each of the lists in s ends when they are put together.
PieceEnds(off, s) == AreEnds(off, Len(s), [l \in 1 .. Len(s) |-> Len(s[l])])

\* u is the lists in s one after the other.
InPieces(u, s, off) ==
  /\ Len(u) = off[Len(s)]
  /\ \A l \in 1 .. Len(s) : \A k \in 1 .. Len(s[l]) : u[off[l - 1] + k] = s[l][k]

\* FlattenSeq puts its pieces one after the other.
LEMMA Flattened ==
  ASSUME NEW S, NEW s \in Seq(Seq(S)), Len(s) > 0, NEW off, PieceEnds(off, s)
  PROVE  FlattenSeq(s) \in Seq(S) /\ InPieces(FlattenSeq(s), s, off)
<1> USE DEF PieceEnds, InPieces
<1> DEFINE n == Len(s)
           f == CHOOSE g : Flattens(g, s, n)
           Good(g, m) ==
             /\ g \in Seq(S) /\ Len(g) = off[m]
             /\ \A l \in 1 .. m : \A k \in 1 .. Len(s[l]) : g[off[l - 1] + k] = s[l][k]
<1>1. n \in Nat /\ n > 0 /\ \A l \in 1 .. n : s[l] \in Seq(S) /\ Len(s[l]) \in Nat
  OBVIOUS
<1>2. Flattens(f, s, n)
  <2>1. n \in Nat
    BY <1>1
  <2> HIDE DEF n
  <2> QED
    BY <2>1, FlattensExists
<1>3. FlattenSeq(s) = f[n]
  BY <1>1 DEF FlattenSeq, Flattens
<1>4. \A i \in 1 .. n : f[i] = IF i = 1 THEN s[i] ELSE f[i - 1] \o s[i]
  <2> HIDE DEF f
  <2> QED
    BY <1>2 DEF Flattens
<1>5. /\ off \in [0 .. n -> Nat] /\ off[0] = 0
      /\ \A l \in 1 .. n : off[l] = off[l - 1] + Len(s[l])
  BY DEF AreEnds
<1>10. \A m \in 0 .. n : \A l \in 0 .. m : off[l] <= off[m]
  <2> DEFINE len == [l \in 1 .. n |-> Len(s[l])]
  <2>1. AreEnds(off, n, len) /\ len \in [1 .. n -> Nat] /\ n \in Nat
    BY <1>1
  <2> HIDE DEF len, n
  <2> QED
    BY <2>1, EndsIncrease
<1> HIDE DEF f, n
<1> DEFINE E == {i \in Nat : i + 1 <= n => Good(f[i + 1], i + 1)}
<1>6. 0 \in E
  <2>1. f[1] = s[1] /\ off[1] = Len(s[1])
    BY <1>1, <1>4, <1>5
  <2>2. \A l \in 1 .. 1 : l = 1
    OBVIOUS
  <2>3. \A k \in 1 .. Len(s[1]) : s[1][off[0] + k] = s[1][k]
    BY <1>1, <1>5
  <2>4. Good(f[1], 1)
    BY <1>1, <2>1, <2>2, <2>3
  <2> QED
    BY <2>4
<1>7. ASSUME NEW i \in Nat, i \in E PROVE i + 1 \in E
  <2> DEFINE a == f[i + 1]
             b == s[i + 2]
             t == f[i + 2]
  <2> SUFFICES ASSUME i + 2 <= n PROVE Good(t, i + 2)
    OBVIOUS
  <2>1. Good(a, i + 1)
    <3>1. i + 1 <= n
      BY <1>1
    <3> QED
      BY <1>7, <3>1
  <2>2. i + 2 \in 1 .. n /\ i + 2 # 1 /\ (i + 2) - 1 = i + 1 /\ i + 1 \in 1 .. n
    BY <1>1
  <2>3. t = a \o b /\ b \in Seq(S) /\ Len(b) \in Nat /\ off[i + 2] = off[i + 1] + Len(b)
    BY <1>1, <1>4, <1>5, <2>2
  <2> HIDE DEF a, b, t
  <2>4. /\ t \in Seq(S) /\ Len(t) = off[i + 2]
        /\ \A k \in 1 .. off[i + 1] : t[k] = a[k]
        /\ \A k \in 1 .. Len(b) : t[off[i + 1] + k] = b[k]
    <3>1. a \in Seq(S) /\ Len(a) = off[i + 1]
      BY <2>1
    <3>2. a \o b \in Seq(S) /\ FirstThen(a \o b, a, b)
      <4>1. b \in Seq(S)
        BY <2>3
      <4> QED
        BY <3>1, <4>1, Concatenated
    <3>3. t \in Seq(S) /\ FirstThen(t, a, b)
      BY <2>3, <3>2
    <3> QED
      BY <2>3, <3>1, <3>3 DEF FirstThen
  <2>5. ASSUME NEW l \in 1 .. i + 2, NEW k \in 1 .. Len(s[l]) PROVE t[off[l - 1] + k] = s[l][k]
    <3>1. CASE l = i + 2
      BY <2>2, <2>4, <3>1 DEF b
    <3>2. CASE l # i + 2
      <4>1. l \in 1 .. i + 1 /\ l \in 1 .. n /\ i + 1 \in 0 .. n /\ l \in 0 .. i + 1
        BY <1>1, <2>2, <3>2
      <4>2. a[off[l - 1] + k] = s[l][k]
        BY <2>1, <4>1
      <4>3. off[l] = off[l - 1] + Len(s[l]) /\ off[l - 1] \in Nat /\ Len(s[l]) \in Nat
        BY <1>1, <1>5, <4>1
      <4>4. off[l] <= off[i + 1] /\ off[i + 1] \in Nat
        BY <1>5, <1>10, <4>1
      <4>5. off[l - 1] + k \in 1 .. off[i + 1]
        <5>1. k \in Nat /\ 1 <= k /\ k <= Len(s[l])
          BY <4>3
        <5>2. off[l - 1] + k <= off[l]
          BY <4>3, <5>1
        <5> QED
          BY <4>3, <4>4, <5>1, <5>2
      <4> QED
        BY <2>4, <4>2, <4>5
    <3> QED
      BY <3>1, <3>2
  <2> QED
    BY <2>4, <2>5
<1> HIDE DEF E
<1>8. \A i \in Nat : i \in E
  BY <1>6, <1>7, SetInduction
<1>9. Good(f[n], n)
  <2>1. n - 1 \in E /\ (n - 1) + 1 = n
    BY <1>1, <1>8
  <2> QED
    BY <2>1 DEF E
<1> QED
  BY <1>3, <1>9 DEF n

-----------------------------------------------------------------------------
(* What a layer consists of *)

\* The l-th layer of the stage of d.
LayerOf(d, l) ==
  IF IsMoE(d, l) THEN MoEDecoderModules(d, l, <<"result", l - 1>>)
                 ELSE DecoderModules(d, l, <<"result", l - 1>>)

\* The two modules of a barrier.
Publish(op, l, in) == Module(op, l, "set", in, {})
Await(op, l, group) == Module(op, l, "barrier", <<op, l>>, group)

\* Whether the experts' results are reduced once more after the gather.
Extra == IF ETp # NeTp THEN 1 ELSE 0

\* s is the list of a layer with experts; x is Extra.
IsMoEList(s, x, d, l, in) ==
  LET t == <<"post_attn_layer_norm", l>>
      all == ExpertGroup(d)
  IN  /\ Len(s) = 23 + x
      /\ s[1] = Work("attention", l, in)
      /\ s[2] = Collective("attention_all_reduce", l, <<"attention", l>>, TpGroup(d))
      /\ s[3] = Work("post_attn_layer_norm", l, <<"attention_all_reduce", l>>)
      /\ s[4] = Publish("sync_0", l, t)
      /\ s[5] = Await("sync_0", l, all)
      /\ s[6] = Work("gate_update", l, t)
      /\ s[7] = Collective("moe_scatter", l, <<"gate_update", l>>, all)
      /\ s[8] = Publish("sync_for_moe_scatter", l, t)
      /\ s[9] = Await("sync_for_moe_scatter", l, all)
      /\ s[10] = WorkVec("moe_route", l)
      /\ s[11] = Publish("sync_2", l, t)
      /\ s[12] = Await("sync_2", l, all)
      /\ s[13] = Collective("moe_all_reduce_for_e_tp", l, t, ExpertTpGroup(d))
      /\ s[14] = Publish("sync_3", l, t)
      /\ s[15] = Await("sync_3", l, all)
      /\ s[16] = WorkVec("moe_gather", l)
      /\ s[17] = Publish("sync_for_moe_gather", l, t)
      /\ s[18] = Await("sync_for_moe_gather", l, all)
      /\ x = 1 => s[19] = Collective("moe_all_reduce_for_gather", l, t, TpGroup(d))
      /\ s[19 + x] = Publish("sync_5", l, t)
      /\ s[20 + x] = Await("sync_5", l, all)
      /\ s[21 + x] = Work("result", l, t)
      /\ s[22 + x] = Publish("sync_6", l, t)
      /\ s[23 + x] = Await("sync_6", l, all)

\* MoEDecoder and ExpertFFN trace this list.
LEMMA MoEList ==
  ASSUME NEW d, NEW l, NEW in
  PROVE  IsMoEList(MoEDecoderModules(d, l, in), Extra, d, l, in)
<1> DEFINE s == MoEDecoderModules(d, l, in)
<1>1. CASE ETp # NeTp
  <2>1. IsMoEList(s, 1, d, l, in)
    BY <1>1 DEF MoEDecoderModules, Attention, ExpertFFN, Barrier, IsMoEList, Publish, Await
  <2> QED
    BY <1>1, <2>1 DEF Extra
<1>2. CASE ETp = NeTp
  <2>1. IsMoEList(s, 0, d, l, in)
    BY <1>2 DEF MoEDecoderModules, Attention, ExpertFFN, Barrier, IsMoEList, Publish, Await
  <2> QED
    BY <1>2, <2>1 DEF Extra
<1> QED
  BY <1>1, <1>2


\* s is the list of a layer without experts.
IsDenseList(s, d, l, in) ==
  /\ Len(s) = 4
  /\ s[1] = Work("attention", l, in)
  /\ s[2] = Collective("attention_all_reduce", l, <<"attention", l>>, TpGroup(d))
  /\ s[3] = Work("feedforward", l, <<"attention_all_reduce", l>>)
  /\ s[4] = Collective("result", l, <<"feedforward", l>>, TpGroup(d))

\* Decoder traces this list.
LEMMA DenseList ==
  ASSUME NEW d, NEW l, NEW in
  PROVE  IsDenseList(DecoderModules(d, l, in), d, l, in)
BY DEF DecoderModules, Attention, IsDenseList

\* The names and the kinds of its modules, in order.
MoENames(x) ==
  << "attention", "attention_all_reduce", "post_attn_layer_norm",
     "sync_0", "sync_0", "gate_update", "moe_scatter",
     "sync_for_moe_scatter", "sync_for_moe_scatter", "moe_route",
     "sync_2", "sync_2", "moe_all_reduce_for_e_tp", "sync_3", "sync_3", "moe_gather",
     "sync_for_moe_gather", "sync_for_moe_gather",
     IF x = 1 THEN "moe_all_reduce_for_gather" ELSE "sync_5", "sync_5",
     IF x = 1 THEN "sync_5" ELSE "result", IF x = 1 THEN "result" ELSE "sync_6",
     "sync_6", "sync_6" >>
MoEKinds(x) ==
  << "work", "sync", "work", "set", "barrier", "work", "sync", "set", "barrier", "vec",
     "set", "barrier", "sync", "set", "barrier", "vec", "set", "barrier",
     IF x = 1 THEN "sync" ELSE "set", IF x = 1 THEN "set" ELSE "barrier",
     IF x = 1 THEN "barrier" ELSE "work", IF x = 1 THEN "work" ELSE "set",
     IF x = 1 THEN "set" ELSE "barrier", "barrier" >>

\* Where everybody who exchanges tokens waits.
MoEBarriers(x) == {5, 9, 12, 15, 18, 20 + x, 23 + x}

\* The same list, column by column.
MoEOutsAre(s, x, l) ==
  Len(s) = 23 + x /\ \A k \in 1 .. 23 + x : s[k].out = <<MoENames(x)[k], l>>
MoEKindsAre(s, x) ==
  Len(s) = 23 + x /\ \A k \in 1 .. 23 + x : s[k].kind = MoEKinds(x)[k]
MoEGroupsAre(s, x, d) ==
  /\ s[2].group = TpGroup(d) /\ s[13].group = ExpertTpGroup(d)
  /\ \A k \in MoEBarriers(x) \cup {7} : s[k].group = ExpertGroup(d)
  /\ x = 1 => s[19].group = TpGroup(d)
  /\ \A k \in 1 .. 23 + x : s[k].kind \notin {"sync", "barrier"} => s[k].group = {}
MoEInputsAre(s, x, l) ==
  /\ s[2].in = <<"attention", l>> /\ s[7].in = <<"gate_update", l>>
  /\ s[13].in = <<"post_attn_layer_norm", l>>
  /\ x = 1 => s[19].in = <<"post_attn_layer_norm", l>>
  /\ \A k \in MoEBarriers(x) : s[k].in = s[k].out

LEMMA MoEColumns ==
  ASSUME NEW s, NEW x \in {0, 1}, NEW d, NEW l, NEW in, IsMoEList(s, x, d, l, in)
  PROVE  /\ MoEOutsAre(s, x, l) /\ MoEKindsAre(s, x)
         /\ MoEGroupsAre(s, x, d) /\ MoEInputsAre(s, x, l)
<1>0. \A op, group : LET m == Await(op, l, group) IN m.in = m.out
  BY DEF Await, Module
<1> USE DEF Work, WorkVec, Collective, Publish, Module
<1>1. CASE x = 0
  <2>1. MoEOutsAre(s, 0, l)
    BY <1>1 DEF IsMoEList, Await, MoEOutsAre, MoENames
  <2>2. MoEKindsAre(s, 0)
    BY <1>1 DEF IsMoEList, Await, MoEKindsAre, MoEKinds
  <2>3. MoEGroupsAre(s, 0, d)
    BY <1>1 DEF IsMoEList, Await, MoEGroupsAre, MoEBarriers
  <2>4. MoEInputsAre(s, 0, l)
    <3>1. /\ s[5].in = s[5].out /\ s[9].in = s[9].out /\ s[12].in = s[12].out /\ s[15].in = s[15].out
          /\ s[18].in = s[18].out /\ s[20].in = s[20].out /\ s[23].in = s[23].out
      BY <1>0, <1>1 DEF IsMoEList
    <3>2. \A k \in MoEBarriers(0) : s[k].in = s[k].out
      BY <3>1 DEF MoEBarriers
    <3>3. /\ s[2].in = <<"attention", l>> /\ s[7].in = <<"gate_update", l>>
          /\ s[13].in = <<"post_attn_layer_norm", l>>
          /\ 0 = 1 => s[19].in = <<"post_attn_layer_norm", l>>
      BY <1>1 DEF IsMoEList
    <3> QED
      BY <3>2, <3>3 DEF MoEInputsAre
  <2> QED
    BY <1>1, <2>1, <2>2, <2>3, <2>4
<1>2. CASE x = 1
  <2>1. MoEOutsAre(s, 1, l)
    BY <1>2 DEF IsMoEList, Await, MoEOutsAre, MoENames
  <2>2. MoEKindsAre(s, 1)
    BY <1>2 DEF IsMoEList, Await, MoEKindsAre, MoEKinds
  <2>3. MoEGroupsAre(s, 1, d)
    BY <1>2 DEF IsMoEList, Await, MoEGroupsAre, MoEBarriers
  <2>4. MoEInputsAre(s, 1, l)
    <3>1. /\ s[5].in = s[5].out /\ s[9].in = s[9].out /\ s[12].in = s[12].out /\ s[15].in = s[15].out
          /\ s[18].in = s[18].out /\ s[21].in = s[21].out /\ s[24].in = s[24].out
      BY <1>0, <1>2 DEF IsMoEList
    <3>2. \A k \in MoEBarriers(1) : s[k].in = s[k].out
      BY <3>1 DEF MoEBarriers
    <3>3. /\ s[2].in = <<"attention", l>> /\ s[7].in = <<"gate_update", l>>
          /\ s[13].in = <<"post_attn_layer_norm", l>>
          /\ 1 = 1 => s[19].in = <<"post_attn_layer_norm", l>>
      BY <1>2 DEF IsMoEList
    <3> QED
      BY <3>2, <3>3 DEF MoEInputsAre
  <2> QED
    BY <1>2, <2>1, <2>2, <2>3, <2>4
<1> QED
  BY <1>1, <1>2
\* m needs the token counts of the layer.
IsReader(m) == m.out[1] \in {"moe_scatter", "moe_route", "moe_gather"}

\* m is where all devices that exchange tokens with d wait for each other.
Meets(m, d) == m.kind = "barrier" /\ m.group = ExpertGroup(d)

\* j is the first place of s with a module that returns x.
FirstAt(s, j, x) ==
  /\ j \in 1 .. Len(s) /\ s[j].out = x
  /\ \A i \in 1 .. j - 1 : s[i].out # x

\* The k-th module waits for what the one before it has returned.
Prompt(s, k) == FirstAt(s, k - 1, s[k].in)

\* The k-th module comes right after a barrier that includes its group.
AfterBarrier(s, k) ==
  /\ k >= 3
  /\ s[k - 1].kind = "barrier" /\ Prompt(s, k - 1)
  /\ s[k].group \subseteq s[k - 1].group
  /\ s[k].in # s[k - 1].in /\ s[k - 1].out # s[k].in

Collects(m) == m.kind \in {"sync", "barrier"}

\* What is true of every list of modules of d that returns tensors of layer l.
OutsOk(s, l) == \A k \in 1 .. Len(s) : s[k].out = <<s[k].out[1], l>>
CollectivesOk(s, l) ==
  \A k \in 1 .. Len(s) :
    Collects(s[k]) =>
      /\ Prompt(s, k) \/ AfterBarrier(s, k)
      /\ s[k].kind = "barrier" => Prompt(s, k)
      /\ s[k].in = <<s[k].in[1], l>> /\ s[k].in[1] \notin {"input", "pipeline_send"}
GatesOk(s, d) ==
  \A k \in 1 .. Len(s) :
    s[k].out[1] = "gate_update" => \E b \in 1 .. k - 1 : Meets(s[b], d)
ReadersOk(s, d, l) ==
  \A k \in 1 .. Len(s) :
    IsReader(s[k]) =>
      /\ \E b \in k + 1 .. Len(s) : Meets(s[b], d)
      /\ \/ /\ s[k].kind = "sync" /\ s[k].group = ExpertGroup(d)
            /\ s[k].in = <<"gate_update", l>>
         \/ \E g, b \in 1 .. k - 1 :
              g < b /\ s[g].out = <<"gate_update", l>> /\ Meets(s[b], d)

\* What holds of a layer's list besides.
LayerNames(s) ==
  \A k \in 1 .. Len(s) :
    s[k].out[1] \notin {"input", "lm_head", "all_gather", "pipeline_send"}

\* The names in the list of a layer with experts.
LEMMA MoEOuts ==
  ASSUME NEW s, NEW x \in {0, 1}, NEW l, MoEOutsAre(s, x, l)
  PROVE  OutsOk(s, l) /\ LayerNames(s)
<1>1. Len(s) = 23 + x
  BY DEF MoEOutsAre
<1>2. ASSUME NEW k \in 1 .. 23 + x
      PROVE  /\ s[k].out = <<s[k].out[1], l>>
             /\ s[k].out[1] \notin {"input", "lm_head", "all_gather", "pipeline_send"}
  <2>1. CASE x = 0
    BY <2>1 DEF MoEOutsAre, MoENames
  <2>2. CASE x = 1
    BY <2>2 DEF MoEOutsAre, MoENames
  <2> QED
    BY <2>1, <2>2
<1> QED
  BY <1>1, <1>2 DEF OutsOk, LayerNames

\* Its collectives.
LEMMA MoECollectives ==
  ASSUME NEW s, NEW x \in {0, 1}, NEW l, MoEKindsAre(s, x),
         NEW k \in 1 .. Len(s), Collects(s[k])
  PROVE  /\ k \in {2, 7, 13} \cup MoEBarriers(x) \/ (x = 1 /\ k = 19)
         /\ s[k].kind = "barrier" => k \in MoEBarriers(x)
<1>1. k \in 1 .. 23 + x
  BY DEF MoEKindsAre
<1>2. CASE x = 0
  BY <1>1, <1>2 DEF MoEKindsAre, MoEKinds, MoEBarriers, Collects
<1>3. CASE x = 1
  BY <1>1, <1>3 DEF MoEKindsAre, MoEKinds, MoEBarriers, Collects
<1> QED
  BY <1>2, <1>3

\* Its barriers.
LEMMA MoEBarriersOk ==
  ASSUME NEW s, NEW x \in {0, 1}, NEW d, NEW l, MoEOutsAre(s, x, l), MoEKindsAre(s, x),
         MoEGroupsAre(s, x, d), MoEInputsAre(s, x, l), NEW k \in MoEBarriers(x)
  PROVE  /\ k \in 2 .. Len(s) /\ Meets(s[k], d) /\ Prompt(s, k)
         /\ s[k].in = <<MoENames(x)[k], l>>
         /\ MoENames(x)[k] \notin {"input", "pipeline_send", "post_attn_layer_norm"}
<1>1. s[k].in = s[k].out /\ s[k].group = ExpertGroup(d) /\ Len(s) = 23 + x
  BY DEF MoEInputsAre, MoEGroupsAre, MoEOutsAre
<1>2. k \in 2 .. 23 + x
  BY DEF MoEBarriers
<1>3. s[k].out = <<MoENames(x)[k], l>>
  BY <1>2 DEF MoEOutsAre
<1>4. /\ MoENames(x)[k - 1] = MoENames(x)[k]
      /\ MoENames(x)[k] \notin {"input", "pipeline_send", "post_attn_layer_norm"}
  <2>1. CASE x = 0
    BY <2>1 DEF MoEBarriers, MoENames
  <2>2. CASE x = 1
    BY <2>2 DEF MoEBarriers, MoENames
  <2> QED
    BY <2>1, <2>2
<1>5. ASSUME NEW i \in 1 .. k - 2 PROVE MoENames(x)[i] # MoENames(x)[k]
  <2>1. i \in Nat /\ 1 <= i /\ i + 2 <= k
    BY <1>2
  <2>2. CASE x = 0
    BY <2>1, <2>2 DEF MoEBarriers, MoENames
  <2>3. CASE x = 1
    BY <2>1, <2>3 DEF MoEBarriers, MoENames
  <2> QED
    BY <2>2, <2>3
<1>6. s[k].kind = "barrier"
  <2>1. CASE x = 0
    BY <2>1 DEF MoEBarriers, MoEKindsAre, MoEKinds
  <2>2. CASE x = 1
    BY <2>2 DEF MoEBarriers, MoEKindsAre, MoEKinds
  <2> QED
    BY <2>1, <2>2
<1>7. FirstAt(s, k - 1, s[k].out)
  BY <1>1, <1>2, <1>3, <1>4, <1>5 DEF FirstAt, MoEOutsAre
<1> QED
  BY <1>1, <1>2, <1>3, <1>4, <1>6, <1>7 DEF Meets, Prompt

\* A collective of a layer with experts waits for what stands before it, or
\* stands after a barrier.
LEMMA MoECollectivesOk ==
  ASSUME NEW s, NEW x \in {0, 1}, NEW d \in Devices, NEW l,
         MoEOutsAre(s, x, l), MoEKindsAre(s, x), MoEGroupsAre(s, x, d), MoEInputsAre(s, x, l),
         ExpertTpGroup(d) \subseteq ExpertGroup(d)
  PROVE  CollectivesOk(s, l)
<1>1. TpGroup(d) \subseteq ExpertGroup(d) /\ Len(s) = 23 + x
  BY ExpertGroups DEF MoEOutsAre
<1>2. /\ 12 \in MoEBarriers(x) /\ 18 \in MoEBarriers(x)
      /\ \A k \in MoEBarriers(x) : k \in 2 .. Len(s) /\ Meets(s[k], d) /\ Prompt(s, k)
  BY MoEBarriersOk DEF MoEBarriers
<1>3. ASSUME NEW k \in 1 .. Len(s), Collects(s[k])
      PROVE  /\ Prompt(s, k) \/ AfterBarrier(s, k)
             /\ s[k].kind = "barrier" => Prompt(s, k)
             /\ s[k].in = <<s[k].in[1], l>> /\ s[k].in[1] \notin {"input", "pipeline_send"}
  <2>1. CASE k \in MoEBarriers(x)
    <3>1. /\ s[k].in = <<MoENames(x)[k], l>> /\ Prompt(s, k)
          /\ MoENames(x)[k] \notin {"input", "pipeline_send"}
      BY <2>1, MoEBarriersOk
    <3> QED
      BY <3>1
  <2>2. CASE k \in {2, 7}
    <3>1. /\ s[2].in = <<"attention", l>> /\ s[7].in = <<"gate_update", l>>
          /\ k \notin MoEBarriers(x) /\ Len(s) >= 7
      BY <1>1, <2>2 DEF MoEInputsAre, MoEBarriers
    <3>2. \A i \in 1 .. 7 : s[i].out = <<MoENames(x)[i], l>>
      BY <1>1 DEF MoEOutsAre
    <3>3. /\ MoENames(x)[1] = "attention" /\ MoENames(x)[6] = "gate_update"
          /\ \A i \in 1 .. 5 : MoENames(x)[i] # "gate_update"
      BY DEF MoENames
    <3>4. FirstAt(s, 1, <<"attention", l>>) /\ FirstAt(s, 6, <<"gate_update", l>>)
      BY <3>1, <3>2, <3>3 DEF FirstAt
    <3>5. Prompt(s, k)
      BY <2>2, <3>1, <3>4 DEF Prompt
    <3> QED
      BY <2>2, <3>1, <3>5
  <2>3. CASE k = 13 \/ (x = 1 /\ k = 19)
    <3>1. s[k].in = <<"post_attn_layer_norm", l>> /\ s[k].group \subseteq ExpertGroup(d)
      BY <1>1, <2>3 DEF MoEInputsAre, MoEGroupsAre
    <3>2. k - 1 \in MoEBarriers(x) /\ k \notin MoEBarriers(x) /\ k >= 3
      BY <2>3 DEF MoEBarriers
    <3>3. /\ s[k - 1].in = <<MoENames(x)[k - 1], l>>
          /\ MoENames(x)[k - 1] # "post_attn_layer_norm"
          /\ s[k - 1].kind = "barrier" /\ Prompt(s, k - 1) /\ s[k - 1].group = ExpertGroup(d)
          /\ s[k - 1].out = s[k - 1].in
      BY <3>2, MoEBarriersOk DEF Meets, MoEInputsAre
    <3>4. s[k].in # s[k - 1].in
      BY <3>1, <3>3
    <3>5. AfterBarrier(s, k)
      BY <3>1, <3>2, <3>3, <3>4 DEF AfterBarrier
    <3> QED
      BY <1>3, <3>1, <3>2, <3>5, MoECollectives
  <2> QED
    BY <1>3, <2>1, <2>2, <2>3, MoECollectives
<1> QED
  BY <1>3 DEF CollectivesOk

\* Its gate stands after a barrier, and between barriers stand those who read
\* what the gate has stored.
LEMMA MoEReadersOk ==
  ASSUME NEW s, NEW x \in {0, 1}, NEW d \in Devices, NEW l,
         MoEOutsAre(s, x, l), MoEKindsAre(s, x), MoEGroupsAre(s, x, d), MoEInputsAre(s, x, l)
  PROVE  GatesOk(s, d) /\ ReadersOk(s, d, l)
<1>1. Len(s) = 23 + x /\ \A k \in 1 .. Len(s) : s[k].out[1] = MoENames(x)[k]
  BY DEF MoEOutsAre
<1>2. \A b \in {5, 9, 12, 15, 18} : b \in 1 .. Len(s) /\ Meets(s[b], d)
  <2>1. {5, 9, 12, 15, 18} \subseteq MoEBarriers(x)
    BY DEF MoEBarriers
  <2> QED
    BY <2>1, MoEBarriersOk
<1>3. ASSUME NEW k \in 1 .. 23 + x
      PROVE  /\ MoENames(x)[k] = "gate_update" => k = 6
             /\ MoENames(x)[k] \in {"moe_scatter", "moe_route", "moe_gather"} => k \in {7, 10, 16}
  <2>1. CASE x = 0
    <3>1. MoENames(0)[k] = "gate_update" => k = 6
      BY <2>1 DEF MoENames
    <3>2. MoENames(0)[k] \in {"moe_scatter", "moe_route", "moe_gather"} => k \in {7, 10, 16}
      BY <2>1 DEF MoENames
    <3> QED
      BY <2>1, <3>1, <3>2
  <2>2. CASE x = 1
    <3>1. MoENames(1)[k] = "gate_update" => k = 6
      BY <2>2 DEF MoENames
    <3>2. MoENames(1)[k] \in {"moe_scatter", "moe_route", "moe_gather"} => k \in {7, 10, 16}
      BY <2>2 DEF MoENames
    <3> QED
      BY <2>2, <3>1, <3>2
  <2> QED
    BY <2>1, <2>2
<1>4. ASSUME NEW k \in 1 .. Len(s), s[k].out[1] = "gate_update"
      PROVE  \E b \in 1 .. k - 1 : Meets(s[b], d)
  <2>1. k = 6 /\ 5 \in 1 .. k - 1
    BY <1>1, <1>3, <1>4
  <2> QED
    BY <1>2, <2>1
<1>5. s[6].out = <<"gate_update", l>>
  BY <1>1 DEF MoEOutsAre, MoENames
<1>6. ASSUME NEW k \in 1 .. Len(s), IsReader(s[k])
      PROVE  /\ \E b \in k + 1 .. Len(s) : Meets(s[b], d)
             /\ \/ /\ s[k].kind = "sync" /\ s[k].group = ExpertGroup(d)
                   /\ s[k].in = <<"gate_update", l>>
                \/ \E g, b \in 1 .. k - 1 :
                     g < b /\ s[g].out = <<"gate_update", l>> /\ Meets(s[b], d)
  <2>1. k \in {7, 10, 16}
    BY <1>1, <1>3, <1>6 DEF IsReader
  <2>2. CASE k = 7
    <3>1. /\ s[7].kind = "sync" /\ s[7].group = ExpertGroup(d)
          /\ s[7].in = <<"gate_update", l>>
      <4>1. s[7].kind = MoEKinds(x)[7] /\ MoEKinds(x)[7] = "sync"
        <5>1. 7 \in 1 .. 23 + x
          OBVIOUS
        <5> QED
          BY <5>1 DEF MoEKindsAre, MoEKinds
      <4>2. s[7].group = ExpertGroup(d)
        BY DEF MoEGroupsAre
      <4> QED
        BY <4>1, <4>2 DEF MoEInputsAre
    <3>2. 9 \in k + 1 .. Len(s) /\ Meets(s[9], d)
      BY <1>2, <2>2
    <3> QED
      BY <2>2, <3>1, <3>2
  <2>3. CASE k = 10
    <3>1. 12 \in k + 1 .. Len(s) /\ Meets(s[12], d) /\ Meets(s[9], d)
      BY <1>2, <2>3
    <3>2. 6 \in 1 .. k - 1 /\ 9 \in 1 .. k - 1 /\ 6 < 9
      BY <2>3
    <3> QED
      BY <1>5, <3>1, <3>2
  <2>4. CASE k = 16
    <3>1. 18 \in k + 1 .. Len(s) /\ Meets(s[18], d) /\ Meets(s[9], d)
      BY <1>2, <2>4
    <3>2. 6 \in 1 .. k - 1 /\ 9 \in 1 .. k - 1 /\ 6 < 9
      BY <2>4
    <3> QED
      BY <1>5, <3>1, <3>2
  <2> QED
    BY <2>1, <2>2, <2>3, <2>4
<1> QED
  BY <1>4, <1>6 DEF GatesOk, ReadersOk

\* The lists of two devices of a stage: the same names in the same places, and
\* whoever one of them waits for waits for the same devices.
Alike(s, t, e) ==
  /\ Len(s) = Len(t)
  /\ \A k \in 1 .. Len(s) :
       /\ t[k].out = s[k].out /\ t[k].kind = s[k].kind
       /\ Collects(s[k]) => t[k].in = s[k].in
       /\ e \in s[k].group => t[k].group = s[k].group

\* Collectives are over devices of the stage, this one included; nobody else
\* names a group.
GroupsOk(s, d) ==
  \A k \in 1 .. Len(s) :
    /\ Collects(s[k]) => d \in s[k].group /\ s[k].group \subseteq StageGroup(d)
    /\ ~Collects(s[k]) => s[k].group = {}

LEMMA ExpertStage ==
  ASSUME NEW d \in Devices
  PROVE  /\ ExpertGroup(d) \subseteq StageGroup(d) /\ d \in ExpertGroup(d)
         /\ TpGroup(d) \subseteq StageGroup(d) /\ d \in TpGroup(d)
BY ExpertGroups, TpGroups DEF StageGroup

LEMMA MoEGroupsOk ==
  ASSUME NEW s, NEW x \in {0, 1}, NEW d \in Devices,
         MoEKindsAre(s, x), MoEGroupsAre(s, x, d),
         d \in ExpertTpGroup(d), ExpertTpGroup(d) \subseteq ExpertGroup(d)
  PROVE  GroupsOk(s, d)
<1>1. Len(s) = 23 + x
  BY DEF MoEKindsAre
<1>2. ASSUME NEW k \in 1 .. Len(s), Collects(s[k])
      PROVE  s[k].group \in {TpGroup(d), ExpertGroup(d), ExpertTpGroup(d)}
  BY <1>2, MoECollectives DEF MoEGroupsAre
<1>3. ASSUME NEW k \in 1 .. Len(s), ~Collects(s[k]) PROVE s[k].group = {}
  BY <1>1, <1>3 DEF MoEGroupsAre, Collects
<1> QED
  BY <1>2, <1>3, ExpertStage DEF GroupsOk

LEMMA MoEAlike ==
  ASSUME NEW s, NEW t, NEW x \in {0, 1}, NEW l, NEW d \in Devices, NEW e \in Devices,
         MoEOutsAre(s, x, l), MoEKindsAre(s, x), MoEGroupsAre(s, x, d), MoEInputsAre(s, x, l),
         MoEOutsAre(t, x, l), MoEKindsAre(t, x), MoEGroupsAre(t, x, e), MoEInputsAre(t, x, l),
         e \in ExpertTpGroup(d) => ExpertTpGroup(e) = ExpertTpGroup(d)
  PROVE  Alike(s, t, e)
<1>1. /\ Len(s) = 23 + x /\ Len(t) = 23 + x
      /\ \A k \in 1 .. 23 + x : t[k].out = s[k].out /\ t[k].kind = s[k].kind
  BY DEF MoEOutsAre, MoEKindsAre
<1>2. /\ e \in TpGroup(d) => TpGroup(e) = TpGroup(d)
      /\ e \in ExpertGroup(d) => ExpertGroup(e) = ExpertGroup(d)
  BY TpGroups, ExpertGroups
<1>3. ASSUME NEW k \in 1 .. 23 + x, Collects(s[k])
      PROVE  /\ t[k].in = s[k].in
             /\ e \in s[k].group => t[k].group = s[k].group
  <2>1. k \in {2, 7, 13} \cup MoEBarriers(x) \/ (x = 1 /\ k = 19)
    BY <1>1, <1>3, MoECollectives
  <2>2. CASE k \in MoEBarriers(x)
    BY <1>1, <1>2, <2>2 DEF MoEInputsAre, MoEGroupsAre
  <2>3. CASE k \in {2, 7, 13} \/ (x = 1 /\ k = 19)
    <3>1. t[k].in = s[k].in
      BY <2>3 DEF MoEInputsAre
    <3>2. e \in s[k].group => t[k].group = s[k].group
      BY <1>2, <2>3 DEF MoEGroupsAre
    <3> QED
      BY <3>1, <3>2
  <2> QED
    BY <2>1, <2>2, <2>3
<1>4. ASSUME NEW k \in 1 .. 23 + x, ~Collects(s[k])
      PROVE  e \notin s[k].group
  BY <1>4 DEF MoEGroupsAre, Collects
<1> QED
  BY <1>1, <1>3, <1>4 DEF Alike

\* A part of the list of d that returns tensors of layer n.
PartOk(s, d, n) ==
  /\ OutsOk(s, n) /\ CollectivesOk(s, n) /\ GroupsOk(s, d)
  /\ GatesOk(s, d) /\ ReadersOk(s, d, n)

\* Nothing in it receives or sends.
NoTransfer(s) ==
  \A k \in 1 .. Len(s) : s[k].kind # "recv" /\ s[k].out[1] # "pipeline_send"

\* A layer without experts.
LEMMA DenseOk ==
  ASSUME NEW s, NEW d \in Devices, NEW l, NEW in, IsDenseList(s, d, l, in)
  PROVE  PartOk(s, d, l) /\ LayerNames(s) /\ NoTransfer(s)
<1>1. /\ Len(s) = 4
      /\ s[1].out = <<"attention", l>> /\ s[1].kind = "work" /\ s[1].group = {}
      /\ s[2].out = <<"attention_all_reduce", l>> /\ s[2].kind = "sync"
      /\ s[2].in = <<"attention", l>> /\ s[2].group = TpGroup(d)
      /\ s[3].out = <<"feedforward", l>> /\ s[3].kind = "work" /\ s[3].group = {}
      /\ s[4].out = <<"result", l>> /\ s[4].kind = "sync"
      /\ s[4].in = <<"feedforward", l>> /\ s[4].group = TpGroup(d)
  BY DEF IsDenseList, Work, Collective, Module
<1>2. FirstAt(s, 1, <<"attention", l>>) /\ FirstAt(s, 3, <<"feedforward", l>>)
  BY <1>1 DEF FirstAt
<1>3. Prompt(s, 2) /\ Prompt(s, 4)
  BY <1>1, <1>2 DEF Prompt
<1>4. CollectivesOk(s, l)
  BY <1>1, <1>3 DEF CollectivesOk, Collects
<1>5. OutsOk(s, l) /\ LayerNames(s) /\ NoTransfer(s)
  BY <1>1 DEF OutsOk, LayerNames, NoTransfer
<1>6. GroupsOk(s, d)
  BY <1>1, ExpertStage DEF GroupsOk, Collects
<1>7. GatesOk(s, d) /\ ReadersOk(s, d, l)
  BY <1>1 DEF GatesOk, ReadersOk, IsReader
<1> QED
  BY <1>4, <1>5, <1>6, <1>7 DEF PartOk

LEMMA DenseAlike ==
  ASSUME NEW s, NEW t, NEW d \in Devices, NEW e \in Devices, NEW l, NEW in,
         IsDenseList(s, d, l, in), IsDenseList(t, e, l, in)
  PROVE  Alike(s, t, e)
<1>1. e \in TpGroup(d) => TpGroup(e) = TpGroup(d)
  BY TpGroups
<1>2. Len(s) = 4 /\ Len(t) = 4
  BY DEF IsDenseList
<1>3. ASSUME NEW k \in 1 .. 4
      PROVE  /\ t[k].out = s[k].out /\ t[k].kind = s[k].kind /\ t[k].in = s[k].in
             /\ e \in s[k].group => t[k].group = s[k].group
  <2>1. CASE k \in {1, 3}
    BY <2>1 DEF IsDenseList, Work, Module
  <2>2. CASE k \in {2, 4}
    BY <1>1, <2>2 DEF IsDenseList, Collective, Module
  <2> QED
    BY <2>1, <2>2
<1> QED
  BY <1>2, <1>3 DEF Alike

\* The modules before the layers.
LEMMA FirstOk ==
  ASSUME NEW d \in Devices
  PROVE  /\ PartOk(FirstModules(d), d, 0)
         /\ LayerNames(FirstModules(d)) /\ Len(FirstModules(d)) \in 1 .. 2
         /\ \A k \in 1 .. Len(FirstModules(d)) :
              FirstModules(d)[k].out[1] \in {"embedding", "result"}
         /\ PpRank(d) = 0 => NoTransfer(FirstModules(d)) /\ Len(FirstModules(d)) = 2
         /\ PpRank(d) > 0 =>
              /\ Len(FirstModules(d)) = 1
              /\ FirstModules(d)[1].kind = "recv"
              /\ FirstModules(d)[1].in = <<"input", 0>>
              /\ FirstModules(d)[1].out = <<"result", 0>>
<1> DEFINE s == FirstModules(d)
<1>1. CASE PpRank(d) = 0
  <2>1. /\ Len(s) = 2
        /\ s[1].out = <<"embedding", 0>> /\ s[1].kind = "work" /\ s[1].group = {}
        /\ s[2].out = <<"result", 0>> /\ s[2].kind = "sync"
        /\ s[2].in = <<"embedding", 0>> /\ s[2].group = TpGroup(d)
    BY <1>1 DEF FirstModules, Work, Collective, Module
  <2> HIDE DEF s
  <2>2. FirstAt(s, 1, <<"embedding", 0>>)
    BY <2>1 DEF FirstAt
  <2>3. Prompt(s, 2)
    BY <2>1, <2>2 DEF Prompt
  <2>4. CollectivesOk(s, 0)
    BY <2>1, <2>3 DEF CollectivesOk, Collects
  <2>5. /\ OutsOk(s, 0) /\ LayerNames(s) /\ NoTransfer(s)
        /\ \A k \in 1 .. Len(s) : s[k].out[1] \in {"embedding", "result"}
    BY <2>1 DEF OutsOk, LayerNames, NoTransfer
  <2>6. GroupsOk(s, d)
    BY <2>1, ExpertStage DEF GroupsOk, Collects
  <2>7. GatesOk(s, d) /\ ReadersOk(s, d, 0)
    BY <2>1 DEF GatesOk, ReadersOk, IsReader
  <2> QED
    BY <1>1, <2>1, <2>4, <2>5, <2>6, <2>7 DEF PartOk, s
<1>2. CASE PpRank(d) # 0
  <2>1. /\ Len(s) = 1
        /\ s[1].out = <<"result", 0>> /\ s[1].kind = "recv" /\ s[1].group = {}
        /\ s[1].in = <<"input", 0>>
    BY <1>2 DEF FirstModules, Module
  <2> HIDE DEF s
  <2>4. CollectivesOk(s, 0)
    BY <2>1 DEF CollectivesOk, Collects
  <2>5. /\ OutsOk(s, 0) /\ LayerNames(s)
        /\ \A k \in 1 .. Len(s) : s[k].out[1] \in {"embedding", "result"}
    BY <2>1 DEF OutsOk, LayerNames
  <2>6. GroupsOk(s, d)
    BY <2>1 DEF GroupsOk, Collects
  <2>7. GatesOk(s, d) /\ ReadersOk(s, d, 0)
    BY <2>1 DEF GatesOk, ReadersOk, IsReader
  <2> QED
    BY <1>2, <2>1, <2>4, <2>5, <2>6, <2>7 DEF PartOk, s
<1> QED
  BY <1>1, <1>2

\* The modules after them.
LEMMA LastOk ==
  ASSUME NEW d \in Devices
  PROVE  /\ PartOk(LastModules(d), d, Layers) /\ Len(LastModules(d)) \in 1 .. 2
         /\ \A k \in 1 .. Len(LastModules(d)) : LastModules(d)[k].kind # "recv"
         /\ PpRank(d) < PpDegree - 1 =>
              Len(LastModules(d)) = 1 /\ LastModules(d)[1].out = SendTensor
         /\ ~(PpRank(d) < PpDegree - 1) =>
              NoTransfer(LastModules(d)) /\ Len(LastModules(d)) = 2
         /\ \A k \in 1 .. Len(LastModules(d)) :
              Collects(LastModules(d)[k]) => LastModules(d)[k].in = <<"lm_head", Layers>>
<1> DEFINE s == LastModules(d)
<1>1. CASE ~(PpRank(d) < PpDegree - 1)
  <2>1. /\ Len(s) = 2
        /\ s[1].out = <<"lm_head", Layers>> /\ s[1].kind = "work" /\ s[1].group = {}
        /\ s[2].out = <<"all_gather", Layers>> /\ s[2].kind = "sync"
        /\ s[2].in = <<"lm_head", Layers>> /\ s[2].group = TpGroup(d)
    BY <1>1 DEF LastModules, Work, Collective, Module
  <2> HIDE DEF s
  <2>2. FirstAt(s, 1, <<"lm_head", Layers>>)
    BY <2>1 DEF FirstAt
  <2>3. Prompt(s, 2)
    BY <2>1, <2>2 DEF Prompt
  <2>4. CollectivesOk(s, Layers)
    BY <2>1, <2>3 DEF CollectivesOk, Collects
  <2>5. OutsOk(s, Layers) /\ NoTransfer(s)
    BY <2>1 DEF OutsOk, NoTransfer
  <2>6. GroupsOk(s, d)
    BY <2>1, ExpertStage DEF GroupsOk, Collects
  <2>7. GatesOk(s, d) /\ ReadersOk(s, d, Layers)
    BY <2>1 DEF GatesOk, ReadersOk, IsReader
  <2>8. \A k \in 1 .. Len(s) : s[k].kind # "recv" /\ (Collects(s[k]) => s[k].in = <<"lm_head", Layers>>)
    BY <2>1 DEF Collects
  <2> QED
    BY <1>1, <2>1, <2>4, <2>5, <2>6, <2>7, <2>8 DEF PartOk, s
<1>2. CASE PpRank(d) < PpDegree - 1
  <2>1. /\ Len(s) = 1
        /\ s[1].out = SendTensor /\ s[1].kind = "send" /\ s[1].group = {}
    BY <1>2 DEF LastModules, Module, SendTensor
  <2> HIDE DEF s
  <2>4. CollectivesOk(s, Layers)
    BY <2>1 DEF CollectivesOk, Collects
  <2>5. OutsOk(s, Layers)
    BY <2>1 DEF OutsOk, SendTensor
  <2>6. GroupsOk(s, d)
    BY <2>1 DEF GroupsOk, Collects
  <2>7. GatesOk(s, d) /\ ReadersOk(s, d, Layers)
    BY <2>1 DEF GatesOk, ReadersOk, IsReader, SendTensor
  <2>8. \A k \in 1 .. Len(s) : s[k].kind # "recv" /\ ~Collects(s[k])
    BY <2>1 DEF Collects
  <2> QED
    BY <1>2, <2>1, <2>4, <2>5, <2>6, <2>7, <2>8 DEF PartOk, s
<1> QED
  BY <1>1, <1>2

\* They are the same on the devices of a stage.
LEMMA EndsAlike ==
  ASSUME NEW d \in Devices, NEW e \in Devices, PpRank(d) = PpRank(e)
  PROVE  /\ Alike(FirstModules(d), FirstModules(e), e)
         /\ Alike(LastModules(d), LastModules(e), e)
<1>1. e \in TpGroup(d) => TpGroup(e) = TpGroup(d)
  BY TpGroups
<1>2. Alike(FirstModules(d), FirstModules(e), e)
  BY <1>1 DEF Alike, FirstModules, Work, Collective, Module, Collects
<1>3. Alike(LastModules(d), LastModules(e), e)
  BY <1>1 DEF Alike, LastModules, Work, Collective, Module, Collects
<1> QED
  BY <1>2, <1>3

\* The length of a layer depends on whether it has experts.
LayerLength(d, l) == IF IsMoE(d, l) THEN 23 + Extra ELSE 4

\* A layer.
LEMMA LayerOk ==
  ASSUME NEW d \in Devices, NEW l \in 1 .. Layers
  PROVE  /\ PartOk(LayerOf(d, l), d, l) /\ LayerNames(LayerOf(d, l)) /\ NoTransfer(LayerOf(d, l))
         /\ Len(LayerOf(d, l)) = LayerLength(d, l) /\ LayerLength(d, l) \in Nat \ {0}
<1> DEFINE s == LayerOf(d, l)
           in == <<"result", l - 1>>
<1>1. Extra \in {0, 1}
  BY DEF Extra
<1>2. CASE IsMoE(d, l)
  <2>1. IsMoEList(s, Extra, d, l, in)
    BY <1>2, MoEList DEF LayerOf
  <2> HIDE DEF s, in
  <2>2. /\ MoEOutsAre(s, Extra, l) /\ MoEKindsAre(s, Extra)
        /\ MoEGroupsAre(s, Extra, d) /\ MoEInputsAre(s, Extra, l)
    BY <1>1, <2>1, MoEColumns
  <2>3. d \in ExpertTpGroup(d) /\ ExpertTpGroup(d) \subseteq ExpertGroup(d)
    BY <1>2, ExpertTpGroups
  <2>4. OutsOk(s, l) /\ LayerNames(s)
    BY <1>1, <2>2, MoEOuts
  <2>5. CollectivesOk(s, l)
    BY <1>1, <2>2, <2>3, MoECollectivesOk
  <2>6. GroupsOk(s, d)
    BY <1>1, <2>2, <2>3, MoEGroupsOk
  <2>7. GatesOk(s, d) /\ ReadersOk(s, d, l)
    BY <1>1, <2>2, MoEReadersOk
  <2>8. Len(s) = 23 + Extra
    BY <2>2 DEF MoEOutsAre
  <2>9. NoTransfer(s)
    <3>1. \A k \in 1 .. Len(s) : s[k].out[1] # "pipeline_send"
      BY <2>4 DEF LayerNames
    <3>2. ASSUME NEW k \in 1 .. 23 + Extra PROVE s[k].kind # "recv"
      <4>1. s[k].kind = MoEKinds(Extra)[k]
        BY <2>2 DEF MoEKindsAre
      <4>2. CASE Extra = 0
        BY <4>1, <4>2 DEF MoEKinds
      <4>3. CASE Extra = 1
        BY <4>1, <4>3 DEF MoEKinds
      <4> QED
        BY <1>1, <4>2, <4>3
    <3> QED
      BY <2>8, <3>1, <3>2 DEF NoTransfer
  <2> QED
    BY <1>1, <1>2, <2>4, <2>5, <2>6, <2>7, <2>8, <2>9 DEF PartOk, LayerLength, s
<1>3. CASE ~IsMoE(d, l)
  <2>1. IsDenseList(s, d, l, in)
    BY <1>3, DenseList DEF LayerOf
  <2> HIDE DEF s, in
  <2>2. PartOk(s, d, l) /\ LayerNames(s) /\ NoTransfer(s) /\ Len(s) = 4
    BY <2>1, DenseOk DEF IsDenseList
  <2> QED
    BY <1>3, <2>2 DEF LayerLength, s
<1> QED
  BY <1>2, <1>3

LEMMA LayersAlike ==
  ASSUME NEW d \in Devices, NEW e \in Devices, PpRank(d) = PpRank(e), NEW l \in 1 .. Layers
  PROVE  Alike(LayerOf(d, l), LayerOf(e, l), e) /\ LayerLength(d, l) = LayerLength(e, l)
<1> DEFINE s == LayerOf(d, l)
           t == LayerOf(e, l)
           in == <<"result", l - 1>>
<1>1. Extra \in {0, 1} /\ (IsMoE(d, l) <=> IsMoE(e, l))
  BY SameLayers DEF Extra
<1>2. CASE IsMoE(d, l)
  <2>1. IsMoEList(s, Extra, d, l, in) /\ IsMoEList(t, Extra, e, l, in)
    BY <1>1, <1>2, MoEList DEF LayerOf
  <2>3. e \in ExpertTpGroup(d) => ExpertTpGroup(e) = ExpertTpGroup(d)
    BY <1>2, ExpertTpGroups
  <2> HIDE DEF s, t, in
  <2>2. /\ MoEOutsAre(s, Extra, l) /\ MoEKindsAre(s, Extra)
        /\ MoEGroupsAre(s, Extra, d) /\ MoEInputsAre(s, Extra, l)
        /\ MoEOutsAre(t, Extra, l) /\ MoEKindsAre(t, Extra)
        /\ MoEGroupsAre(t, Extra, e) /\ MoEInputsAre(t, Extra, l)
    BY <1>1, <2>1, MoEColumns
  <2>4. Alike(s, t, e)
    BY <1>1, <2>2, <2>3, MoEAlike
  <2> QED
    BY <1>1, <2>4 DEF LayerLength, s, t
<1>3. CASE ~IsMoE(d, l)
  <2>1. IsDenseList(s, d, l, in) /\ IsDenseList(t, e, l, in)
    BY <1>1, <1>3, DenseList DEF LayerOf
  <2> HIDE DEF s, t, in
  <2>2. Alike(s, t, e)
    BY <2>1, DenseAlike
  <2> QED
    BY <1>1, <2>2 DEF LayerLength, s, t
<1> QED
  BY <1>2, <1>3

-----------------------------------------------------------------------------
(* The whole list of a device *)

\* s is a sequence, of whatever.
IsList(s) == \E S : s \in Seq(S)

\* The elements of a list.
Elements(s) == {s[k] : k \in 1 .. Len(s)}

LEMMA ShortLists ==
  ASSUME NEW a, NEW b
  PROVE  IsList(<< >>) /\ IsList(<<a>>) /\ IsList(<<a, b>>)
<1>1. << >> \in Seq({a}) /\ <<a>> \in Seq({a}) /\ <<a, b>> \in Seq({a, b})
  OBVIOUS
<1> QED
  BY <1>1 DEF IsList

LEMMA ListElements ==
  ASSUME NEW s, IsList(s), NEW S, Elements(s) \subseteq S
  PROVE  s \in Seq(S)
<1>1. PICK T : s \in Seq(T)
  BY DEF IsList
<1>2. Len(s) \in Nat /\ s = [k \in 1 .. Len(s) |-> s[k]]
  BY <1>1
<1>3. \A k \in 1 .. Len(s) : s[k] \in S
  BY DEF Elements
<1> QED
  BY <1>2, <1>3

LEMMA LongerLists ==
  ASSUME NEW s, IsList(s), NEW t, IsList(t)
  PROVE  IsList(s \o t)
<1> DEFINE S == Elements(s) \cup Elements(t)
<1>1. s \in Seq(S) /\ t \in Seq(S)
  BY ListElements
<1>2. s \o t \in Seq(S)
  BY <1>1
<1> QED
  BY <1>2 DEF IsList

\* The layers are lists.
LEMMA ExpertFFNList ==
  ASSUME NEW d, NEW l, NEW in
  PROVE  IsList(ExpertFFN(d, l, in))
<1> DEFINE all == ExpertGroup(d)
           s1 == Barrier("sync_0", l, in, all)
           s2 == << Work("gate_update", l, in),
                    Collective("moe_scatter", l, <<"gate_update", l>>, all) >>
           s3 == Barrier("sync_for_moe_scatter", l, in, all)
           s4 == << WorkVec("moe_route", l) >>
           s5 == Barrier("sync_2", l, in, all)
           s6 == << Collective("moe_all_reduce_for_e_tp", l, in, ExpertTpGroup(d)) >>
           s7 == Barrier("sync_3", l, in, all)
           s8 == << WorkVec("moe_gather", l) >>
           s9 == Barrier("sync_for_moe_gather", l, in, all)
           sa == IF ETp # NeTp
                 THEN << Collective("moe_all_reduce_for_gather", l, in, TpGroup(d)) >>
                 ELSE << >>
           sb == Barrier("sync_5", l, in, all)
           sc == << Work("result", l, in) >>
           sd == Barrier("sync_6", l, in, all)
<1>1. /\ IsList(s1) /\ IsList(s3) /\ IsList(s5) /\ IsList(s7)
      /\ IsList(s9) /\ IsList(sb) /\ IsList(sd)
  BY ShortLists DEF Barrier
<1>2. IsList(s2) /\ IsList(s4) /\ IsList(s6) /\ IsList(s8) /\ IsList(sa) /\ IsList(sc)
  BY ShortLists
<1>3. ExpertFFN(d, l, in) = s1 \o s2 \o s3 \o s4 \o s5 \o s6 \o s7 \o s8 \o s9 \o sa \o sb \o sc \o sd
  BY DEF ExpertFFN
<1> HIDE DEF s1, s2, s3, s4, s5, s6, s7, s8, s9, sa, sb, sc, sd
<1>4. \A u, v : IsList(u) /\ IsList(v) => IsList(u \o v)
  BY LongerLists
<1>5. IsList(s1 \o s2 \o s3 \o s4 \o s5 \o s6)
  BY <1>1, <1>2, <1>4
<1>6. IsList(s1 \o s2 \o s3 \o s4 \o s5 \o s6 \o s7 \o s8 \o s9)
  BY <1>1, <1>2, <1>4, <1>5
<1> QED
  BY <1>1, <1>2, <1>3, <1>4, <1>6

LEMMA PartLists ==
  ASSUME NEW d
  PROVE  /\ IsList(FirstModules(d)) /\ IsList(LastModules(d))
         /\ \A l : IsList(LayerOf(d, l))
<1>1. IsList(FirstModules(d))
  BY ShortLists DEF FirstModules
<1>2. IsList(LastModules(d))
  BY ShortLists DEF LastModules
<1>3. ASSUME NEW l PROVE IsList(LayerOf(d, l))
  <2> DEFINE in == <<"result", l - 1>>
             t == <<"post_attn_layer_norm", l>>
  <2>1. IsList(Attention(d, l, in))
    BY ShortLists DEF Attention
  <2>2. CASE IsMoE(d, l)
    <3> DEFINE s == << Work("post_attn_layer_norm", l, <<"attention_all_reduce", l>>) >>
               u == ExpertFFN(d, l, t)
    <3>1. IsList(s) /\ IsList(u)
      BY ShortLists, ExpertFFNList
    <3>2. LayerOf(d, l) = Attention(d, l, in) \o s \o u
      BY <2>2 DEF LayerOf, MoEDecoderModules
    <3>3. IsList(Attention(d, l, in) \o s)
      BY <2>1, <3>1, LongerLists
    <3> HIDE DEF s, u
    <3> QED
      BY <3>1, <3>2, <3>3, LongerLists
  <2>3. CASE ~IsMoE(d, l)
    <3> DEFINE s == << Work("feedforward", l, <<"attention_all_reduce", l>>),
                       Collective("result", l, <<"feedforward", l>>, TpGroup(d)) >>
    <3>1. IsList(s)
      BY ShortLists
    <3>2. LayerOf(d, l) = Attention(d, l, in) \o s
      BY <2>3 DEF LayerOf, DecoderModules
    <3> HIDE DEF s
    <3> QED
      BY <2>1, <3>1, <3>2, LongerLists
  <2> QED
    BY <2>2, <2>3
<1> QED
  BY <1>1, <1>2, <1>3

\* The parts of the list of d: what comes before the layers, the layers, what
\* comes after them; and where each of them starts.
Parts == 0 .. Layers + 1
PartOf(d, l) ==
  IF l = 0 THEN FirstModules(d) ELSE IF l = Layers + 1 THEN LastModules(d) ELSE LayerOf(d, l)
Ends(d) == CHOOSE off : AreEnds(off, Layers, [l \in 1 .. Layers |-> LayerLength(d, l)])
Start(d, l) == IF l = 0 THEN 0 ELSE Len(FirstModules(d)) + Ends(d)[l - 1]

At(d, i) == ModuleGraph[d][i]
Length(d) == Len(ModuleGraph[d])

LEMMA EndsOk ==
  ASSUME NEW d \in Devices
  PROVE  /\ AreEnds(Ends(d), Layers, [l \in 1 .. Layers |-> LayerLength(d, l)])
         /\ [l \in 1 .. Layers |-> LayerLength(d, l)] \in [1 .. Layers -> Nat]
<1> DEFINE len == [l \in 1 .. Layers |-> LayerLength(d, l)]
<1>1. len \in [1 .. Layers -> Nat] /\ Layers \in Nat
  BY LayerOk, Degrees
<1> HIDE DEF len
<1>2. \E off : AreEnds(off, Layers, len)
  BY <1>1, EndsExist
<1>3. AreEnds(CHOOSE off : AreEnds(off, Layers, len), Layers, len)
  BY <1>2
<1> QED
  BY <1>1, <1>3 DEF Ends, len

\* The lists of the parts are laid out one after the other.
LEMMA Layout ==
  ASSUME NEW d \in Devices
  PROVE  /\ Length(d) = Start(d, Layers + 1) + Len(LastModules(d))
         /\ \A l \in Parts : \A k \in 1 .. Len(PartOf(d, l)) :
              At(d, Start(d, l) + k) = PartOf(d, l)[k]
<1> DEFINE s == [l \in 1 .. Layers |-> LayerOf(d, l)]
           first == FirstModules(d)
           last == LastModules(d)
           mid == FlattenSeq(s)
           ends == Ends(d)
           len == [l \in 1 .. Layers |-> LayerLength(d, l)]
           S == (Elements(first) \cup Elements(last))
                  \cup UNION {Elements(LayerOf(d, l)) : l \in 1 .. Layers}
<1>1. ModuleGraph[d] = first \o mid \o last
  <2>1. s = [l \in 1 .. Layers |->
               IF IsMoE(d, l) THEN MoEDecoderModules(d, l, <<"result", l - 1>>)
                              ELSE DecoderModules(d, l, <<"result", l - 1>>)]
    BY DEF LayerOf
  <2> HIDE DEF s
  <2> QED
    BY <2>1 DEF ModuleGraph, LLMForward
<1>2. Layers \in Nat \ {0}
  BY Degrees
<1>3. first \in Seq(S) /\ last \in Seq(S) /\ \A l \in 1 .. Layers : LayerOf(d, l) \in Seq(S)
  <2>1. \A l \in 1 .. Layers : Elements(LayerOf(d, l)) \subseteq S
    OBVIOUS
  <2>2. Elements(first) \subseteq S /\ Elements(last) \subseteq S
    OBVIOUS
  <2> HIDE DEF S
  <2> QED
    BY <2>1, <2>2, PartLists, ListElements
<1> HIDE DEF S
<1>4. s \in Seq(Seq(S)) /\ Len(s) = Layers
  BY <1>2, <1>3
<1>5. /\ \A l \in 1 .. Layers : s[l] = LayerOf(d, l) /\ Len(s[l]) = LayerLength(d, l)
      /\ [l \in 1 .. Len(s) |-> Len(s[l])] = len
  BY <1>4, LayerOk
<1>6. PieceEnds(ends, s)
  BY <1>4, <1>5, EndsOk DEF PieceEnds
<1> HIDE DEF s, ends
<1>7. /\ mid \in Seq(S) /\ Len(mid) = ends[Layers]
      /\ \A l \in 1 .. Layers : \A k \in 1 .. Len(s[l]) : mid[ends[l - 1] + k] = s[l][k]
  <2>1. Len(s) > 0
    BY <1>2, <1>4
  <2>2. FlattenSeq(s) \in Seq(S) /\ InPieces(FlattenSeq(s), s, ends)
    BY <1>4, <1>6, <2>1, Flattened
  <2> QED
    BY <1>4, <2>2 DEF InPieces
<1> HIDE DEF mid, first, last
<1>8. first \o mid \in Seq(S) /\ FirstThen(first \o mid, first, mid)
  BY <1>3, <1>7, Concatenated
<1> DEFINE u == first \o mid
<1>9. FirstThen(u \o last, u, last)
  BY <1>3, <1>8, Concatenated
<1>10. FirstThen(ModuleGraph[d], u, last)
  BY <1>1, <1>9
<1>11. /\ ends \in [0 .. Layers -> Nat] /\ ends[0] = 0
       /\ \A l \in 1 .. Layers : ends[l] = ends[l - 1] + Len(s[l]) /\ Len(s[l]) \in Nat
       /\ \A m \in 0 .. Layers : \A l \in 0 .. m : ends[l] <= ends[m]
  <2>1. AreEnds(ends, Layers, len) /\ len \in [1 .. Layers -> Nat]
    BY EndsOk DEF ends
  <2>2. \A l \in 1 .. Layers : len[l] = Len(s[l]) /\ len[l] \in Nat
    BY <1>5, <2>1
  <2> HIDE DEF len
  <2>3. \A m \in 0 .. Layers : \A l \in 0 .. m : ends[l] <= ends[m]
    BY <1>2, <2>1, EndsIncrease
  <2> QED
    BY <2>1, <2>2, <2>3 DEF AreEnds
<1>12. /\ Len(first) \in Nat /\ Len(mid) \in Nat /\ Len(last) \in Nat
       /\ Len(u) = Len(first) + Len(mid)
       /\ Len(ModuleGraph[d]) = Len(u) + Len(last)
       /\ \A k \in 1 .. Len(first) : u[k] = first[k]
       /\ \A k \in 1 .. Len(mid) : u[Len(first) + k] = mid[k]
       /\ \A k \in 1 .. Len(u) : ModuleGraph[d][k] = u[k]
       /\ \A k \in 1 .. Len(last) : ModuleGraph[d][Len(u) + k] = last[k]
  BY <1>3, <1>7, <1>8, <1>10 DEF FirstThen
<1> HIDE DEF u
<1>13. /\ Start(d, 0) = 0 /\ Start(d, Layers + 1) = Len(u)
       /\ \A l \in 1 .. Layers : Start(d, l) = Len(first) + ends[l - 1]
  BY <1>2, <1>7, <1>12 DEF Start, first, ends
<1>14. ASSUME NEW k \in 1 .. Len(PartOf(d, 0)) PROVE At(d, Start(d, 0) + k) = PartOf(d, 0)[k]
  <2>1. PartOf(d, 0) = first
    BY DEF PartOf, first
  <2>2. k \in 1 .. Len(first) /\ k \in 1 .. Len(u) /\ Start(d, 0) + k = k
    BY <1>12, <1>13, <1>14, <2>1
  <2> QED
    BY <1>12, <2>1, <2>2 DEF At
<1>15. ASSUME NEW k \in 1 .. Len(PartOf(d, Layers + 1))
       PROVE  At(d, Start(d, Layers + 1) + k) = PartOf(d, Layers + 1)[k]
  <2>1. PartOf(d, Layers + 1) = last
    BY <1>2 DEF PartOf, last
  <2> QED
    BY <1>12, <1>13, <2>1 DEF At
<1>16. ASSUME NEW l \in 1 .. Layers, NEW k \in 1 .. Len(PartOf(d, l))
       PROVE  At(d, Start(d, l) + k) = PartOf(d, l)[k]
  <2>1. PartOf(d, l) = s[l]
    BY <1>2, <1>5 DEF PartOf
  <2>2. /\ k \in Nat /\ k >= 1 /\ k <= Len(s[l]) /\ l \in Nat
        /\ l - 1 \in 0 .. Layers /\ Layers \in 0 .. Layers /\ l \in 0 .. Layers
    BY <1>2, <1>11, <2>1
  <2>3. /\ ends[l - 1] \in Nat /\ ends[l] = ends[l - 1] + Len(s[l])
        /\ ends[l] <= ends[Layers] /\ ends[Layers] \in Nat /\ Len(s[l]) \in Nat
    BY <1>11, <2>2
  <2> DEFINE j == ends[l - 1] + k
             i == Len(first) + j
  <2>4. j \in 1 .. Len(mid)
    BY <1>7, <2>2, <2>3
  <2>5. mid[j] = s[l][k]
    BY <1>7, <2>1
  <2>6. Start(d, l) + k = i
    BY <1>12, <1>13, <2>2, <2>3
  <2> HIDE DEF j
  <2>7. u[i] = mid[j] /\ i \in 1 .. Len(u)
    BY <1>12, <2>4
  <2>8. ModuleGraph[d][i] = u[i]
    BY <1>12, <2>7
  <2> QED
    BY <2>1, <2>5, <2>6, <2>7, <2>8 DEF At
<1>17. Length(d) = Start(d, Layers + 1) + Len(last)
  BY <1>12, <1>13 DEF Length
<1>18. \A l \in Parts : l = 0 \/ l = Layers + 1 \/ l \in 1 .. Layers
  BY <1>2 DEF Parts
<1> QED
  BY <1>14, <1>15, <1>16, <1>17, <1>18 DEF last

\* Where the parts start.
LEMMA Starts ==
  ASSUME NEW d \in Devices
  PROVE  /\ Start(d, 0) = 0
         /\ \A l \in Parts : Start(d, l) \in Nat /\ Len(PartOf(d, l)) \in Nat \ {0}
         /\ \A l \in 0 .. Layers : Start(d, l + 1) = Start(d, l) + Len(PartOf(d, l))
         /\ Length(d) = Start(d, Layers + 1) + Len(PartOf(d, Layers + 1))
<1>1. Layers \in Nat \ {0}
  BY Degrees
<1>2. /\ PartOf(d, 0) = FirstModules(d) /\ PartOf(d, Layers + 1) = LastModules(d)
      /\ \A l \in 1 .. Layers : PartOf(d, l) = LayerOf(d, l)
  BY <1>1 DEF PartOf
<1>3. \A l \in Parts : l = 0 \/ l = Layers + 1 \/ l \in 1 .. Layers
  BY <1>1 DEF Parts
<1>4. \A l \in Parts : Len(PartOf(d, l)) \in Nat \ {0}
  BY <1>2, <1>3, FirstOk, LastOk, LayerOk
<1> DEFINE ends == Ends(d)
           len == [l \in 1 .. Layers |-> LayerLength(d, l)]
<1>5. /\ ends \in [0 .. Layers -> Nat] /\ ends[0] = 0
      /\ \A l \in 1 .. Layers : ends[l] = ends[l - 1] + Len(PartOf(d, l))
  <2>1. AreEnds(ends, Layers, len)
    BY EndsOk
  <2>2. \A l \in 1 .. Layers : len[l] = Len(PartOf(d, l))
    BY <1>2, LayerOk
  <2> HIDE DEF ends, len
  <2> QED
    BY <2>1, <2>2 DEF AreEnds
<1>6. /\ Start(d, 0) = 0
      /\ \A l \in 1 .. Layers + 1 : Start(d, l) = Len(PartOf(d, 0)) + ends[l - 1]
  BY <1>1, <1>2 DEF Start
<1> HIDE DEF ends
<1>7. \A l \in Parts : Start(d, l) \in Nat
  <2>1. Len(PartOf(d, 0)) \in Nat
    BY <1>1, <1>4 DEF Parts
  <2>2. \A l \in 1 .. Layers + 1 : ends[l - 1] \in Nat
    BY <1>1, <1>5
  <2>3. \A l \in Parts : l = 0 \/ l \in 1 .. Layers + 1
    BY <1>1 DEF Parts
  <2> QED
    BY <1>6, <2>1, <2>2, <2>3
<1>8. ASSUME NEW l \in 0 .. Layers PROVE Start(d, l + 1) = Start(d, l) + Len(PartOf(d, l))
  <2>1. Len(PartOf(d, 0)) \in Nat /\ l + 1 \in 1 .. Layers + 1 /\ (l + 1) - 1 = l
    BY <1>1, <1>4 DEF Parts
  <2>2. CASE l = 0
    BY <1>5, <1>6, <2>1, <2>2
  <2>3. CASE l # 0
    <3>1. l \in 1 .. Layers /\ l \in 1 .. Layers + 1
      BY <1>1, <2>3
    <3>2. /\ ends[l] = ends[l - 1] + Len(PartOf(d, l)) /\ ends[l - 1] \in Nat
          /\ Len(PartOf(d, l)) \in Nat
      BY <1>1, <1>4, <1>5, <3>1 DEF Parts
    <3> QED
      BY <1>6, <2>1, <3>1, <3>2
  <2> QED
    BY <2>2, <2>3
<1> QED
  BY <1>2, <1>4, <1>6, <1>7, <1>8, Layout

\* Every place is in one of them, and a later part starts after an earlier one.
LEMMA Places ==
  ASSUME NEW d \in Devices
  PROVE  /\ \A i \in Range1(d) : \E l \in Parts : \E k \in 1 .. Len(PartOf(d, l)) : i = Start(d, l) + k
         /\ \A m \in Parts : \A l \in 0 .. m - 1 : Start(d, l) + Len(PartOf(d, l)) <= Start(d, m)
         /\ \A l \in Parts : Start(d, l) + Len(PartOf(d, l)) <= Length(d)
         /\ Length(d) \in Nat \ {0}
<1> DEFINE n == Layers + 2
           off == [l \in 0 .. n |-> IF l = n THEN Length(d) ELSE Start(d, l)]
           len == [l \in 1 .. n |-> Len(PartOf(d, l - 1))]
<1>1. Layers \in Nat \ {0} /\ n \in Nat /\ n > 0
  BY Degrees
<1>2. Length(d) \in Nat \ {0}
  BY <1>1, Starts DEF Parts
<1>3. len \in [1 .. n -> Nat] /\ \A l \in 1 .. n : l - 1 \in Parts
  <2>1. \A l \in 1 .. n : l - 1 \in Parts
    BY <1>1 DEF Parts
  <2> QED
    BY <2>1, Starts
<1>4. AreEnds(off, n, len)
  <2>1. off \in [0 .. n -> Nat] /\ off[0] = 0
    <3>1. \A l \in 0 .. n : l = n \/ l \in Parts
      BY <1>1 DEF Parts
    <3>2. Start(d, 0) = 0 /\ 0 # n /\ 0 \in 0 .. n
      BY <1>1, Starts
    <3> QED
      BY <1>2, <3>1, <3>2, Starts
  <2>2. ASSUME NEW l \in 1 .. n PROVE off[l] = off[l - 1] + len[l]
    <3>1. CASE l = n
      <4>1. l - 1 = Layers + 1 /\ l - 1 # n /\ l - 1 \in 0 .. n
        BY <1>1, <3>1
      <4>2. off[l] = Length(d) /\ off[l - 1] = Start(d, Layers + 1) /\ len[l] = Len(PartOf(d, Layers + 1))
        BY <1>1, <3>1, <4>1
      <4> QED
        BY <4>2, Starts
    <3>2. CASE l # n
      <4>1. l - 1 \in 0 .. Layers /\ (l - 1) + 1 = l /\ l - 1 # n /\ l - 1 \in 0 .. n /\ l \in 0 .. n
        BY <1>1, <3>2
      <4>2. off[l] = Start(d, l) /\ off[l - 1] = Start(d, l - 1) /\ len[l] = Len(PartOf(d, l - 1))
        BY <1>1, <3>2, <4>1
      <4>3. Start(d, (l - 1) + 1) = Start(d, l - 1) + Len(PartOf(d, l - 1))
        BY <4>1, Starts
      <4> QED
        BY <4>1, <4>2, <4>3
    <3> QED
      BY <3>1, <3>2
  <2> HIDE DEF off, len, n
  <2> QED
    BY <2>1, <2>2 DEF AreEnds
<1>5. /\ off[n] = Length(d)
      /\ \A l \in Parts : off[l] = Start(d, l) /\ l \in 0 .. n /\ l + 1 \in 1 .. n
      /\ \A l \in Parts : len[l + 1] = Len(PartOf(d, l))
  <2>1. \A l \in Parts : l \in Nat /\ l \in 0 .. n /\ l # n /\ l + 1 \in 1 .. n /\ (l + 1) - 1 = l
    BY <1>1 DEF Parts
  <2> QED
    BY <1>1, <2>1
<1> HIDE DEF off, len, n
<1>6. /\ \A m \in 0 .. n : \A l \in 0 .. m : off[l] <= off[m]
      /\ off \in [0 .. n -> Nat] /\ \A l \in 1 .. n : off[l] = off[l - 1] + len[l]
  BY <1>1, <1>3, <1>4, EndsIncrease DEF AreEnds
<1>7. ASSUME NEW i \in Range1(d)
      PROVE  \E l \in Parts : \E k \in 1 .. Len(PartOf(d, l)) : i = Start(d, l) + k
  <2>1. i \in 1 .. off[n]
    BY <1>5 DEF Range1, Length
  <2>2. PICK l \in 1 .. n : \E k \in 1 .. len[l] : i = off[l - 1] + k
    BY <1>1, <1>3, <1>4, <2>1, PieceOf
  <2>3. l - 1 \in Parts /\ (l - 1) + 1 = l
    BY <1>1, <1>3
  <2>4. len[l] = Len(PartOf(d, l - 1)) /\ off[l - 1] = Start(d, l - 1)
    BY <1>5, <2>3
  <2> QED
    BY <2>2, <2>3, <2>4
<1>8. ASSUME NEW l \in Parts PROVE off[l + 1] = Start(d, l) + Len(PartOf(d, l))
  <2>1. l \in Nat /\ l + 1 \in 1 .. n /\ (l + 1) - 1 = l
    BY <1>5 DEF Parts
  <2> QED
    BY <1>5, <1>6, <2>1
<1>9. ASSUME NEW m \in Parts, NEW l \in 0 .. m - 1
      PROVE  Start(d, l) + Len(PartOf(d, l)) <= Start(d, m)
  <2>1. l \in Parts /\ m \in 0 .. n /\ l + 1 \in 0 .. m
    BY <1>1, <1>5 DEF Parts
  <2>2. off[l + 1] <= off[m]
    BY <1>6, <2>1
  <2> QED
    BY <1>5, <1>8, <2>1, <2>2
<1>10. ASSUME NEW l \in Parts PROVE Start(d, l) + Len(PartOf(d, l)) <= Length(d)
  <2>1. n \in 0 .. n /\ l + 1 \in 0 .. n
    BY <1>1, <1>5
  <2>2. off[l + 1] <= off[n]
    BY <1>6, <2>1
  <2> QED
    BY <1>5, <1>8, <2>2
<1> QED
  BY <1>2, <1>7, <1>9, <1>10

\* Every part is in order.
LEMMA PartsOk ==
  ASSUME NEW d \in Devices, NEW l \in Parts
  PROVE  /\ PartOk(PartOf(d, l), d, IF l = Layers + 1 THEN Layers ELSE l)
         /\ l # Layers + 1 => LayerNames(PartOf(d, l))
         /\ l = Layers + 1 => \A k \in 1 .. Len(PartOf(d, l)) :
              Collects(PartOf(d, l)[k]) => PartOf(d, l)[k].in = <<"lm_head", Layers>>
<1>1. Layers \in Nat \ {0} /\ (l = 0 \/ l = Layers + 1 \/ l \in 1 .. Layers)
  BY Degrees DEF Parts
<1>2. CASE l = 0
  BY <1>1, <1>2, FirstOk DEF PartOf
<1>3. CASE l = Layers + 1
  BY <1>1, <1>3, LastOk DEF PartOf
<1>4. CASE l \in 1 .. Layers
  BY <1>1, <1>4, LayerOk DEF PartOf
<1> QED
  BY <1>1, <1>2, <1>3, <1>4

\* The lists of a stage have their parts in the same places.
LEMMA PartsAlike ==
  ASSUME NEW d \in Devices, NEW e \in Devices, PpRank(d) = PpRank(e)
  PROVE  /\ Length(d) = Length(e)
         /\ \A l \in Parts : Start(d, l) = Start(e, l) /\ Alike(PartOf(d, l), PartOf(e, l), e)
<1>1. Layers \in Nat \ {0} /\ \A l \in Parts : l = 0 \/ l = Layers + 1 \/ l \in 1 .. Layers
  BY Degrees DEF Parts
<1>2. \A l \in Parts : Alike(PartOf(d, l), PartOf(e, l), e)
  BY <1>1, EndsAlike, LayersAlike DEF PartOf
<1>3. [l \in 1 .. Layers |-> LayerLength(d, l)] = [l \in 1 .. Layers |-> LayerLength(e, l)]
  BY LayersAlike
<1>4. Ends(d) = Ends(e)
  BY <1>3 DEF Ends
<1>5. Len(FirstModules(d)) = Len(FirstModules(e))
  BY EndsAlike DEF Alike
<1>6. \A l \in Parts : Start(d, l) = Start(e, l)
  BY <1>4, <1>5 DEF Start
<1>7. Len(PartOf(d, Layers + 1)) = Len(PartOf(e, Layers + 1)) /\ Layers + 1 \in Parts
  BY <1>1, <1>2 DEF Alike, Parts
<1>8. Length(d) = Length(e)
  BY <1>6, <1>7, Starts
<1> QED
  BY <1>2, <1>6, <1>8

-----------------------------------------------------------------------------
(* What stands where in the list of a device *)

\* The i-th module of d is the k-th of its part l, which is of layer n.
StandsAt(d, i, l, k) ==
  /\ l \in Parts /\ k \in 1 .. Len(PartOf(d, l))
  /\ i = Start(d, l) + k
LayerOfPart(l) == IF l = Layers + 1 THEN Layers ELSE l

LEMMA Standing ==
  ASSUME NEW d \in Devices
  PROVE  /\ \A i \in Range1(d) : \E l, k : StandsAt(d, i, l, k)
         /\ \A i, l, k : StandsAt(d, i, l, k) =>
              /\ i \in Range1(d) /\ At(d, i) = PartOf(d, l)[k]
              /\ Start(d, l) \in Nat /\ k \in Nat /\ k >= 1
<1>1. ASSUME NEW i, NEW l, NEW k, StandsAt(d, i, l, k)
      PROVE  /\ i \in Range1(d) /\ At(d, i) = PartOf(d, l)[k]
             /\ Start(d, l) \in Nat /\ k \in Nat /\ k >= 1
  <2>1. /\ Start(d, l) \in Nat /\ Len(PartOf(d, l)) \in Nat
        /\ Start(d, l) + Len(PartOf(d, l)) <= Length(d) /\ Length(d) \in Nat
    BY <1>1, Starts, Places DEF StandsAt
  <2>2. i \in 1 .. Length(d) /\ k \in Nat /\ k >= 1
    BY <1>1, <2>1 DEF StandsAt
  <2> QED
    BY <1>1, <2>1, <2>2, Layout DEF StandsAt, Range1, Length
<1> QED
  BY <1>1, Places DEF StandsAt

LEMMA PlaceIs ==
  ASSUME NEW d \in Devices, NEW i, NEW l, NEW k, StandsAt(d, i, l, k)
  PROVE  /\ l \in Parts /\ k \in 1 .. Len(PartOf(d, l)) /\ k \in Nat /\ k >= 1
         /\ Start(d, l) \in Nat /\ Len(PartOf(d, l)) \in Nat
         /\ i = Start(d, l) + k /\ i \in Range1(d) /\ At(d, i) = PartOf(d, l)[k]
<1>1. l \in Parts /\ k \in 1 .. Len(PartOf(d, l)) /\ i = Start(d, l) + k
  BY DEF StandsAt
<1>2. i \in Range1(d) /\ At(d, i) = PartOf(d, l)[k] /\ k \in Nat /\ k >= 1
  BY Standing
<1> QED
  BY <1>1, <1>2, Starts

\* Tensors are named by the layer, and layers come in order.
LEMMA NamesOk ==
  ASSUME NEW d \in Devices, NEW i \in Range1(d)
  PROVE  /\ At(d, i).out = <<At(d, i).out[1], At(d, i).out[2]>>
         /\ At(d, i).out[2] \in 0 .. Layers
         /\ \A l, k : StandsAt(d, i, l, k) => At(d, i).out[2] = LayerOfPart(l)
<1>1. ASSUME NEW l, NEW k, StandsAt(d, i, l, k)
      PROVE  At(d, i).out = <<At(d, i).out[1], LayerOfPart(l)>> /\ LayerOfPart(l) \in 0 .. Layers
  <2>1. OutsOk(PartOf(d, l), LayerOfPart(l))
    BY <1>1, PartsOk DEF StandsAt, PartOk, LayerOfPart
  <2>2. At(d, i).out = <<At(d, i).out[1], LayerOfPart(l)>>
    BY <1>1, <2>1, PlaceIs DEF OutsOk
  <2>3. LayerOfPart(l) \in 0 .. Layers
    BY <1>1, Degrees DEF StandsAt, Parts, LayerOfPart
  <2> QED
    BY <2>2, <2>3
<1> QED
  BY <1>1, Standing

LEMMA LayersInOrder ==
  ASSUME NEW d \in Devices, NEW i \in Range1(d), NEW j \in Range1(d),
         NEW l, NEW k, StandsAt(d, i, l, k), NEW m, NEW h, StandsAt(d, j, m, h)
  PROVE  /\ i < j => l <= m
         /\ l < m => i < j
<1>1. l \in Nat /\ m \in Nat
  BY Degrees DEF StandsAt, Parts
<1>2. ASSUME NEW a \in Range1(d), NEW b \in Range1(d), NEW p, NEW q, NEW r, NEW s,
             StandsAt(d, a, p, q), StandsAt(d, b, r, s), p < r, p \in Nat, r \in Nat
      PROVE  a < b
  <2>1. /\ Start(d, p) \in Nat /\ Start(d, r) \in Nat /\ Len(PartOf(d, p)) \in Nat
        /\ Start(d, p) + Len(PartOf(d, p)) <= Start(d, r)
    <3>1. p \in 0 .. r - 1
      BY <1>2
    <3> QED
      BY <1>2, <3>1, Starts, Places DEF StandsAt
  <2>2. /\ q \in 1 .. Len(PartOf(d, p)) /\ s >= 1 /\ s \in Nat
        /\ a = Start(d, p) + q /\ b = Start(d, r) + s
    BY <1>2, PlaceIs
  <2>3. q <= Len(PartOf(d, p)) /\ q \in Nat
    BY <2>1, <2>2
  <2> QED
    BY <2>1, <2>2, <2>3
<1>3. l < m => i < j
  BY <1>1, <1>2
<1>4. m < l => j < i
  BY <1>1, <1>2
<1>5. i \in Nat /\ j \in Nat
  BY DEF Range1
<1> QED
  BY <1>1, <1>3, <1>4, <1>5

\* The first module of d that returns x.
FirstPlace(d, j, x) ==
  /\ j \in Range1(d) /\ At(d, j).out = x
  /\ \A i \in 1 .. j - 1 : At(d, i).out # x

\* A module waits for what the one before it returns first; or stands right
\* after a barrier over all the devices it waits for.
PromptAt(d, i) == i - 1 \in Range1(d) /\ FirstPlace(d, i - 1, At(d, i).in)
AfterBarrierAt(d, i) ==
  /\ i - 1 \in Range1(d) /\ At(d, i - 1).kind = "barrier"
  /\ At(d, i).group \subseteq At(d, i - 1).group
  /\ At(d, i).in # At(d, i - 1).in /\ At(d, i - 1).out # At(d, i).in

LEMMA CollectivePlaces ==
  ASSUME NEW d \in Devices, NEW i \in Range1(d), Collects(At(d, i))
  PROVE  /\ PromptAt(d, i) \/ AfterBarrierAt(d, i)
         /\ At(d, i).kind = "barrier" => PromptAt(d, i)
         /\ At(d, i).in # <<"input", 0>> /\ At(d, i).in # SendTensor
         /\ d \in At(d, i).group /\ At(d, i).group \subseteq StageGroup(d)
<1>1. PICK l, k : StandsAt(d, i, l, k)
  BY Standing
<1> DEFINE s == PartOf(d, l)
           n == LayerOfPart(l)
<1>2. /\ i = Start(d, l) + k /\ k \in 1 .. Len(s) /\ l \in Parts
      /\ Start(d, l) \in Nat /\ Len(s) \in Nat /\ At(d, i) = s[k]
  BY <1>1, PlaceIs
<1>3. PartOk(s, d, n)
  BY <1>2, PartsOk DEF LayerOfPart
<1>4. /\ Prompt(s, k) \/ AfterBarrier(s, k)
      /\ s[k].kind = "barrier" => Prompt(s, k)
      /\ s[k].in = <<s[k].in[1], n>> /\ s[k].in[1] \notin {"input", "pipeline_send"}
      /\ d \in s[k].group /\ s[k].group \subseteq StageGroup(d)
  BY <1>2, <1>3 DEF PartOk, CollectivesOk, GroupsOk
<1>5. At(d, i).in # <<"input", 0>> /\ At(d, i).in # SendTensor
  BY <1>2, <1>4 DEF SendTensor
\* What is first in the part is first in the list.
<1>6. ASSUME NEW j \in Range1(d), NEW m, NEW h, StandsAt(d, j, m, h), m # l, j < i
      PROVE  At(d, j).out # At(d, i).in
  <2>1. m \in Parts /\ h \in 1 .. Len(PartOf(d, m)) /\ At(d, j) = PartOf(d, m)[h]
    BY <1>6, Standing DEF StandsAt
  <2>2. m < l /\ m \in Nat /\ l \in Nat /\ m # Layers + 1 /\ Layers \in Nat /\ l <= Layers + 1
    BY <1>1, <1>2, <1>6, <2>1, LayersInOrder, Degrees DEF Parts
  <2>3. At(d, j).out[2] = m
    BY <1>6, <2>2, NamesOk DEF LayerOfPart
  <2>4. CASE l = Layers + 1
    <3>1. At(d, i).in = <<"lm_head", Layers>>
      BY <1>2, <2>4, PartsOk
    <3>2. At(d, j).out[1] # "lm_head"
      BY <2>1, <2>2, PartsOk DEF LayerNames
    <3> QED
      BY <3>1, <3>2
  <2>5. CASE l # Layers + 1
    <3>1. At(d, i).in[2] = l
      BY <1>2, <1>4, <2>5 DEF LayerOfPart
    <3> QED
      BY <2>2, <2>3, <3>1
  <2> QED
    BY <2>4, <2>5
<1> HIDE DEF s, n
<1>7. ASSUME Prompt(s, k) PROVE PromptAt(d, i)
  <2>1. k - 1 \in 1 .. Len(s) /\ s[k - 1].out = s[k].in /\ \A h \in 1 .. k - 2 : s[h].out # s[k].in
    <3>1. (k - 1) - 1 = k - 2
      BY <1>2
    <3> QED
      BY <1>7, <3>1 DEF Prompt, FirstAt
  <2>2. StandsAt(d, i - 1, l, k - 1)
    BY <1>2, <2>1 DEF StandsAt, s
  <2>3. i - 1 \in Range1(d) /\ At(d, i - 1) = s[k - 1]
    BY <2>2, Standing DEF s
  <2>4. ASSUME NEW j \in 1 .. i - 2 PROVE At(d, j).out # At(d, i).in
    <3>1. j \in Range1(d) /\ j < i
      BY <1>2 DEF Range1
    <3>2. PICK m, h : StandsAt(d, j, m, h)
      BY <3>1, Standing
    <3>3. CASE m # l
      BY <1>6, <3>1, <3>2, <3>3
    <3>4. CASE m = l
      <4>1. j = Start(d, l) + h /\ h \in 1 .. Len(s) /\ At(d, j) = s[h]
        BY <3>2, <3>4, Standing DEF StandsAt, s
      <4>2. h \in 1 .. k - 2
        BY <1>2, <4>1
      <4> QED
        BY <1>2, <2>1, <4>1, <4>2
    <3> QED
      BY <3>3, <3>4
  <2>5. (i - 1) - 1 = i - 2
    BY DEF Range1
  <2> QED
    BY <1>2, <2>1, <2>3, <2>4, <2>5 DEF PromptAt, FirstPlace
<1>8. ASSUME AfterBarrier(s, k) PROVE AfterBarrierAt(d, i)
  <2>1. k - 1 \in 1 .. Len(s)
    BY <1>2, <1>8 DEF AfterBarrier
  <2>2. StandsAt(d, i - 1, l, k - 1)
    BY <1>2, <2>1 DEF StandsAt, s
  <2>3. i - 1 \in Range1(d) /\ At(d, i - 1) = s[k - 1]
    BY <2>2, Standing DEF s
  <2> QED
    BY <1>2, <1>8, <2>3 DEF AfterBarrier, AfterBarrierAt
<1> QED
  BY <1>2, <1>4, <1>5, <1>7, <1>8

\* Nobody else names a group.
LEMMA OtherGroups ==
  ASSUME NEW d \in Devices, NEW i \in Range1(d), ~Collects(At(d, i))
  PROVE  At(d, i).group = {}
<1>1. PICK l, k : StandsAt(d, i, l, k)
  BY Standing
<1>2. l \in Parts /\ k \in 1 .. Len(PartOf(d, l)) /\ At(d, i) = PartOf(d, l)[k]
  BY <1>1, PlaceIs
<1>3. GroupsOk(PartOf(d, l), d)
  BY <1>2, PartsOk DEF PartOk
<1> QED
  BY <1>2, <1>3 DEF GroupsOk

\* The lists of the devices of a stage.
LEMMA StageAlike ==
  ASSUME NEW d \in Devices, NEW e \in Devices, PpRank(d) = PpRank(e)
  PROVE  /\ Length(d) = Length(e) /\ Range1(d) = Range1(e)
         /\ \A i \in Range1(d) :
              /\ At(e, i).out = At(d, i).out /\ At(e, i).kind = At(d, i).kind
              /\ Collects(At(d, i)) => At(e, i).in = At(d, i).in
              /\ e \in At(d, i).group => At(e, i).group = At(d, i).group
<1>1. Length(d) = Length(e) /\ Range1(d) = Range1(e)
  BY PartsAlike DEF Range1, Length
<1>2. ASSUME NEW i \in Range1(d)
      PROVE  /\ At(e, i).out = At(d, i).out /\ At(e, i).kind = At(d, i).kind
             /\ Collects(At(d, i)) => At(e, i).in = At(d, i).in
             /\ e \in At(d, i).group => At(e, i).group = At(d, i).group
  <2>1. PICK l, k : StandsAt(d, i, l, k)
    BY Standing
  <2>2. Start(d, l) = Start(e, l) /\ Alike(PartOf(d, l), PartOf(e, l), e)
    BY <2>1, PartsAlike DEF StandsAt
  <2>3. StandsAt(e, i, l, k)
    BY <2>1, <2>2 DEF StandsAt, Alike
  <2>4. At(d, i) = PartOf(d, l)[k] /\ At(e, i) = PartOf(e, l)[k]
    BY <2>1, <2>3, Standing
  <2> QED
    BY <2>1, <2>2, <2>4 DEF Alike, StandsAt
<1> QED
  BY <1>1, <1>2

\* A stage but the first starts by receiving, and nobody receives later.
LEMMA ReceivingPlaces ==
  ASSUME NEW d \in Devices
  PROVE  /\ 1 \in Range1(d)
         /\ \A i \in Range1(d) : At(d, i).kind = "recv" <=> i = 1 /\ PpRank(d) > 0
         /\ PpRank(d) > 0 => At(d, 1).in = <<"input", 0>>
<1>1. PpRank(d) \in Nat /\ Layers \in Nat \ {0}
  BY Ranks, Degrees
<1>2. StandsAt(d, 1, 0, 1)
  <2>1. PartOf(d, 0) = FirstModules(d) /\ 0 \in Parts
    BY <1>1 DEF PartOf, Parts
  <2>2. 1 \in 1 .. Len(FirstModules(d)) /\ Start(d, 0) = 0
    BY FirstOk, Starts
  <2> QED
    BY <2>1, <2>2 DEF StandsAt
<1>3. 1 \in Range1(d) /\ At(d, 1) = FirstModules(d)[1]
  BY <1>2, PlaceIs DEF PartOf
<1>4. ASSUME NEW i \in Range1(d), At(d, i).kind = "recv" PROVE i = 1 /\ PpRank(d) > 0
  <2>1. PICK l, k : StandsAt(d, i, l, k)
    BY Standing
  <2>2. l \in Parts /\ k \in 1 .. Len(PartOf(d, l)) /\ At(d, i) = PartOf(d, l)[k]
    BY <2>1, PlaceIs
  <2>3. l # Layers + 1
    BY <1>1, <1>4, <2>2, LastOk DEF PartOf
  <2>4. l \notin 1 .. Layers
    <3>1. ASSUME l \in 1 .. Layers PROVE FALSE
      <4>1. PartOf(d, l) = LayerOf(d, l)
        BY <1>1, <3>1 DEF PartOf
      <4> QED
        BY <1>4, <2>2, <3>1, <4>1, LayerOk DEF NoTransfer
    <3> QED
      BY <3>1
  <2>5. l = 0 /\ PartOf(d, l) = FirstModules(d)
    BY <1>1, <2>2, <2>3, <2>4 DEF Parts, PartOf
  <2>6. PpRank(d) # 0
    BY <1>4, <2>2, <2>5, FirstOk DEF NoTransfer
  <2>7. k = 1 /\ i = Start(d, 0) + 1 /\ Start(d, 0) = 0
    <3>1. PpRank(d) > 0 /\ Len(FirstModules(d)) = 1
      BY <1>1, <2>6, FirstOk
    <3>2. k = 1
      BY <2>2, <2>5, <3>1
    <3>3. i = Start(d, l) + k
      BY <2>1, PlaceIs
    <3> QED
      BY <2>5, <3>2, <3>3, Starts
  <2> QED
    BY <1>1, <2>6, <2>7
<1>5. PpRank(d) > 0 => At(d, 1).kind = "recv" /\ At(d, 1).in = <<"input", 0>>
  BY <1>3, FirstOk
<1> QED
  BY <1>3, <1>4, <1>5

\* A stage but the last ends by sending, and sends once.
LEMMA SendingPlaces ==
  ASSUME NEW d \in Devices
  PROVE  /\ \A i \in Range1(d) : At(d, i).out = SendTensor => i = Length(d)
         /\ PpRank(d) < PpDegree - 1 =>
              At(d, Length(d)).out = SendTensor /\ Length(d) \in Range1(d)
<1>1. PpRank(d) \in Nat /\ Layers \in Nat \ {0} /\ PpDegree \in Nat
  BY Ranks, Degrees
<1>2. PartOf(d, Layers + 1) = LastModules(d) /\ Layers + 1 \in Parts
  BY <1>1 DEF PartOf, Parts
<1>3. Length(d) = Start(d, Layers + 1) + Len(LastModules(d)) /\ Start(d, Layers + 1) \in Nat
  BY <1>2, Starts
<1>4. ASSUME PpRank(d) < PpDegree - 1
      PROVE  At(d, Length(d)).out = SendTensor /\ Length(d) \in Range1(d)
  <2>1. Len(LastModules(d)) = 1 /\ LastModules(d)[1].out = SendTensor
    BY <1>4, LastOk
  <2>2. StandsAt(d, Length(d), Layers + 1, 1)
    <3> DEFINE s == PartOf(d, Layers + 1)
               start == Start(d, Layers + 1)
    <3>1. Length(d) = start + Len(s) /\ Len(s) = 1
      BY <1>2, <1>3, <2>1, Zenon
    <3> HIDE DEF s, start
    <3>2. Length(d) = start + 1 /\ 1 \in 1 .. Len(s)
      BY <3>1
    <3> QED
      BY <1>2, <3>2 DEF StandsAt, s, start
  <2> QED
    BY <1>2, <2>1, <2>2, PlaceIs
<1>5. ASSUME NEW i \in Range1(d), At(d, i).out = SendTensor PROVE i = Length(d)
  <2>1. PICK l, k : StandsAt(d, i, l, k)
    BY Standing
  <2>2. /\ l \in Parts /\ k \in 1 .. Len(PartOf(d, l)) /\ At(d, i) = PartOf(d, l)[k]
        /\ i = Start(d, l) + k
    BY <2>1, PlaceIs
  <2>3. At(d, i).out[1] = "pipeline_send"
    BY <1>5 DEF SendTensor
  <2>4. l = Layers + 1
    BY <2>2, <2>3, PartsOk DEF LayerNames
  <2>5. PpRank(d) < PpDegree - 1 /\ Len(LastModules(d)) = 1
    BY <1>2, <2>2, <2>3, <2>4, LastOk DEF NoTransfer
  <2>6. k = 1
    BY <1>2, <2>2, <2>4, <2>5
  <2> QED
    BY <1>3, <2>2, <2>4, <2>5, <2>6
<1> QED
  BY <1>4, <1>5

\* Devices that exchange tokens meet at the j-th module of d.
MeetsAt(d, j) == j \in Range1(d) /\ Meets(At(d, j), d)

\* A gate stands after a meeting.
LEMMA GatePlaces ==
  ASSUME NEW d \in Devices, NEW g \in Range1(d), At(d, g).out[1] = "gate_update"
  PROVE  /\ \E b \in 1 .. g - 1 : MeetsAt(d, b) /\ b > 1
         /\ At(d, g).out[2] \in 1 .. Layers
<1>1. PICK l, k : StandsAt(d, g, l, k)
  BY Standing
<1>2. /\ l \in Parts /\ k \in 1 .. Len(PartOf(d, l)) /\ At(d, g) = PartOf(d, l)[k]
      /\ g = Start(d, l) + k /\ Start(d, l) \in Nat /\ Len(PartOf(d, l)) \in Nat /\ k \in Nat
  BY <1>1, PlaceIs
<1>3. GatesOk(PartOf(d, l), d)
  BY <1>2, PartsOk DEF PartOk
<1>4. PICK b \in 1 .. k - 1 : Meets(PartOf(d, l)[b], d)
  BY <1>2, <1>3 DEF GatesOk
<1>5. StandsAt(d, Start(d, l) + b, l, b)
  BY <1>2, <1>4 DEF StandsAt
<1>6. MeetsAt(d, Start(d, l) + b) /\ Start(d, l) + b \in 1 .. g - 1
  <2>1. Start(d, l) + b \in Range1(d) /\ At(d, Start(d, l) + b) = PartOf(d, l)[b]
    BY <1>5, PlaceIs
  <2> QED
    BY <1>2, <1>4, <2>1 DEF MeetsAt
<1>7. l # 0 /\ Layers \in Nat \ {0}
  <2>1. ASSUME l = 0 PROVE FALSE
    <3>1. PartOf(d, l) = FirstModules(d)
      BY <2>1 DEF PartOf
    <3> QED
      BY <1>2, <3>1, FirstOk
  <2> QED
    BY <2>1, Degrees
<1>8. At(d, g).out[2] \in 1 .. Layers
  <2>1. At(d, g).out[2] = LayerOfPart(l)
    BY <1>1, NamesOk
  <2> QED
    BY <1>2, <1>7, <2>1 DEF LayerOfPart, Parts
<1>9. Start(d, l) + b > 1
  <2>1. l \in 0 .. Layers + 1 /\ l \in Nat
    BY <1>2, <1>7 DEF Parts
  <2>2. 0 \in 0 .. l - 1 /\ 0 \in Parts
    BY <1>7, <2>1 DEF Parts
  <2>3. Start(d, 0) + Len(PartOf(d, 0)) <= Start(d, l)
    BY <1>2, <2>2, Places
  <2>4. Start(d, 0) = 0 /\ Len(PartOf(d, 0)) \in Nat \ {0}
    BY <2>2, Starts
  <2> QED
    BY <1>2, <1>4, <2>3, <2>4
<1> QED
  BY <1>6, <1>8, <1>9

\* The device at i has met the others since it passed its gate of layer n, or
\* meets them there.
SinceGate(d, i, n) ==
  \/ /\ At(d, i).kind = "sync" /\ At(d, i).group = ExpertGroup(d)
     /\ At(d, i).in = <<"gate_update", n>>
  \/ \E g, b \in 1 .. i - 1 : g < b /\ At(d, g).out = <<"gate_update", n>> /\ MeetsAt(d, b)

\* So it has whenever it reads the counts, and it meets them again before any
\* later gate.
LEMMA ReaderPlaces ==
  ASSUME NEW d \in Devices, NEW i \in Range1(d), IsReader(At(d, i))
  PROVE  /\ SinceGate(d, i, At(d, i).out[2])
         /\ \A g \in Range1(d) :
              At(d, g).out[1] = "gate_update" /\ At(d, g).out[2] > At(d, i).out[2] =>
                \E b \in i + 1 .. g - 1 : MeetsAt(d, b)
<1>1. PICK l, k : StandsAt(d, i, l, k)
  BY Standing
<1> DEFINE s == PartOf(d, l)
           n == LayerOfPart(l)
<1>2. /\ l \in Parts /\ k \in 1 .. Len(s) /\ At(d, i) = s[k]
      /\ i = Start(d, l) + k /\ Start(d, l) \in Nat /\ Len(s) \in Nat /\ k \in Nat
  BY <1>1, PlaceIs
<1>3. ReadersOk(s, d, n)
  BY <1>2, PartsOk DEF PartOk, LayerOfPart
<1>4. At(d, i).out[2] = n
  BY <1>1, NamesOk
<1>5. Layers \in Nat \ {0} /\ l \in Nat
  BY <1>2, Degrees DEF Parts
<1>6. /\ \E b \in k + 1 .. Len(s) : Meets(s[b], d)
      /\ \/ s[k].kind = "sync" /\ s[k].group = ExpertGroup(d) /\ s[k].in = <<"gate_update", n>>
         \/ \E g, b \in 1 .. k - 1 :
              g < b /\ s[g].out = <<"gate_update", n>> /\ Meets(s[b], d)
  BY <1>2, <1>3 DEF ReadersOk
<1>7. ASSUME NEW h \in 1 .. Len(s)
      PROVE  /\ StandsAt(d, Start(d, l) + h, l, h)
             /\ Start(d, l) + h \in Range1(d) /\ At(d, Start(d, l) + h) = s[h]
  <2>1. StandsAt(d, Start(d, l) + h, l, h)
    BY <1>2 DEF StandsAt
  <2> QED
    BY <2>1, PlaceIs
<1> HIDE DEF s
<1>8. SinceGate(d, i, n)
  <2>1. CASE s[k].kind = "sync" /\ s[k].group = ExpertGroup(d) /\ s[k].in = <<"gate_update", n>>
    BY <1>2, <2>1 DEF SinceGate
  <2>2. ASSUME NEW g \in 1 .. k - 1, NEW b \in 1 .. k - 1,
               g < b, s[g].out = <<"gate_update", n>>, Meets(s[b], d)
        PROVE  SinceGate(d, i, n)
    <3> DEFINE gg == Start(d, l) + g
               bb == Start(d, l) + b
    <3>1. g \in 1 .. Len(s) /\ b \in 1 .. Len(s)
      BY <1>2
    <3>2. At(d, gg) = s[g] /\ At(d, bb) = s[b] /\ bb \in Range1(d)
      BY <1>7, <3>1
    <3>3. gg \in 1 .. i - 1 /\ bb \in 1 .. i - 1 /\ gg < bb
      BY <1>2, <2>2
    <3>4. At(d, gg).out = <<"gate_update", n>> /\ MeetsAt(d, bb)
      BY <2>2, <3>2 DEF MeetsAt
    <3> HIDE DEF gg, bb
    <3> QED
      BY <3>3, <3>4 DEF SinceGate
  <2> QED
    BY <1>6, <2>1, <2>2
<1>9. ASSUME NEW g \in Range1(d), At(d, g).out[1] = "gate_update", At(d, g).out[2] > n
      PROVE  \E b \in i + 1 .. g - 1 : MeetsAt(d, b)
  <2>1. PICK m, h : StandsAt(d, g, m, h)
    BY Standing
  <2>2. PICK b \in k + 1 .. Len(s) : Meets(s[b], d)
    BY <1>6
  <2>3. b \in 1 .. Len(s)
    BY <1>2
  <2> DEFINE bb == Start(d, l) + b
  <2>4. /\ StandsAt(d, bb, l, b) /\ bb \in Range1(d) /\ MeetsAt(d, bb)
    BY <1>7, <2>2, <2>3 DEF MeetsAt
  <2>5. m \in Parts /\ LayerOfPart(m) > LayerOfPart(l)
    BY <1>9, <2>1, PlaceIs, NamesOk
  <2>6. l < m
    BY <1>2, <1>5, <2>5 DEF LayerOfPart, Parts
  <2>7. bb < g
    BY <2>1, <2>4, <2>6, LayersInOrder
  <2>8. bb \in i + 1 .. g - 1
    <3>1. g \in Nat
      BY DEF Range1
    <3> QED
      BY <1>2, <2>2, <2>7, <3>1
  <2> QED
    BY <2>4, <2>8
<1> QED
  BY <1>4, <1>8, <1>9

-----------------------------------------------------------------------------
(* How far the devices are *)

Collectives(d) == {i \in Range1(d) : Collects(At(d, i))}

\* Some device has passed the i-th module of d, a collective.
PassedBy(cm, d, i) == \E e \in At(d, i).group : cm[e] > i

\* The devices that meet in a collective see the same one.
LEMMA Together ==
  ASSUME NEW d \in Devices, NEW i \in Collectives(d), NEW e \in At(d, i).group
  PROVE  /\ e \in Devices /\ PpRank(e) = PpRank(d) /\ i \in Collectives(e)
         /\ Length(e) = Length(d)
         /\ At(e, i).group = At(d, i).group /\ d \in At(e, i).group
         /\ At(e, i).in = At(d, i).in /\ At(e, i).kind = At(d, i).kind
         /\ At(e, i).out = At(d, i).out
         /\ PromptAt(e, i) <=> PromptAt(d, i)
<1>1. i \in Range1(d) /\ Collects(At(d, i))
  BY DEF Collectives
<1>2. d \in At(d, i).group /\ e \in Devices /\ PpRank(e) = PpRank(d)
  BY <1>1, CollectivePlaces DEF StageGroup
<1>3. /\ Length(d) = Length(e) /\ Range1(d) = Range1(e)
      /\ \A j \in Range1(d) : At(e, j).out = At(d, j).out /\ At(e, j).kind = At(d, j).kind
      /\ At(e, i).in = At(d, i).in /\ At(e, i).group = At(d, i).group
  BY <1>1, <1>2, StageAlike
<1>4. i \in Collectives(e)
  BY <1>1, <1>3 DEF Collectives, Collects
<1>5. \A j \in 1 .. (i - 1) - 1 : i - 1 \in Range1(d) => j \in Range1(d)
  BY DEF Range1
<1>6. PromptAt(e, i) <=> PromptAt(d, i)
  BY <1>3, <1>5 DEF PromptAt, FirstPlace
<1> QED
  BY <1>1, <1>2, <1>3, <1>4, <1>6

\* So they do just before it when they have just met.
LEMMA MetBefore ==
  ASSUME NEW d \in Devices, NEW i \in Collectives(d), ~PromptAt(d, i)
  PROVE  /\ AfterBarrierAt(d, i) /\ i - 1 \in Collectives(d) /\ PromptAt(d, i - 1)
         /\ At(d, i).in # At(d, i - 1).in
         /\ At(d, i).group \subseteq At(d, i - 1).group
<1>1. i \in Range1(d) /\ Collects(At(d, i))
  BY DEF Collectives
<1>2. AfterBarrierAt(d, i)
  BY <1>1, CollectivePlaces
<1>3. i - 1 \in Collectives(d)
  BY <1>2 DEF AfterBarrierAt, Collectives, Collects
<1>4. PromptAt(d, i - 1)
  BY <1>2, <1>3, CollectivePlaces DEF Collectives, AfterBarrierAt
<1> QED
  BY <1>2, <1>3, <1>4 DEF AfterBarrierAt

\* The modules the devices have come to, or the end.
PlacesOk(cm) ==
  /\ cm \in [Devices -> Nat]
  /\ \A d \in Devices : cm[d] \in 1 .. Length(d) + 1

\* What is ready has been returned.
ReadyOk(cm, tensors) ==
  \A t \in tensors :
    /\ t[1] \in Devices /\ t = <<t[1], t[2]>>
    /\ \/ t[2] = <<"input", 0>>
       \/ \E k \in Range1(t[1]) : k < cm[t[1]] /\ At(t[1], k).out = t[2]

\* Nobody passes a collective before all its members are at it, or at the
\* barrier before it.
BehindOk(cm) ==
  \A d \in Devices : \A i \in Collectives(d) :
    PassedBy(cm, d, i) =>
      /\ cm[d] >= i - 1
      /\ PromptAt(d, i) => cm[d] >= i

\* A stage has started only if the one before it has ended.
SentOk(cm) ==
  \A d \in Devices :
    PpRank(d) > 0 /\ cm[d] > 1 => cm[PpPeer(d, -1)] = Length(PpPeer(d, -1)) + 1

\* A flag is raised exactly for a collective that its device has still to pass
\* and somebody has passed.
FlagsAre(cm, flags) ==
  \A f \in flags :
    \/ f[2] = SendTensor
    \/ \E i \in Collectives(f[1]) :
         At(f[1], i).in = f[2] /\ cm[f[1]] <= i /\ PassedBy(cm, f[1], i)
FlagsSet(cm, flags) ==
  \A d \in Devices : \A i \in Collectives(d) :
    cm[d] <= i /\ PassedBy(cm, d, i) => <<d, At(d, i).in>> \in flags

\* One flag at a time is raised for the same tensor.
LEMMA OneFlag ==
  ASSUME NEW cm, PlacesOk(cm), BehindOk(cm), NEW d \in Devices,
         NEW i \in Collectives(d), NEW j \in Collectives(d),
         cm[d] <= i, i <= j, PassedBy(cm, d, j), At(d, i).in = At(d, j).in
  PROVE  i = j
<1>1. i \in Nat /\ j \in Nat /\ cm[d] \in Nat
  BY DEF Collectives, Range1, PlacesOk
<1>2. cm[d] >= j - 1 /\ (PromptAt(d, j) => cm[d] >= j)
  BY DEF BehindOk
<1>3. CASE PromptAt(d, j)
  BY <1>1, <1>2, <1>3
<1>4. CASE ~PromptAt(d, j)
  <2>1. At(d, j).in # At(d, j - 1).in
    BY <1>4, MetBefore
  <2>2. i = j \/ i = j - 1
    BY <1>1, <1>2
  <2> QED
    BY <2>1, <2>2
<1> QED
  BY <1>3, <1>4

\* Whoever finds what it waits for ready finds everybody there.
LEMMA AllThere ==
  ASSUME NEW cm, PlacesOk(cm), BehindOk(cm), NEW tensors, ReadyOk(cm, tensors),
         NEW d \in Devices, NEW i \in Collectives(d), i = cm[d],
         At(d, i).group \X {At(d, i).in} \subseteq tensors,
         NEW e \in At(d, i).group
  PROVE  cm[e] >= i - 1 /\ (PromptAt(d, i) => cm[e] >= i)
<1>1. /\ e \in Devices /\ Length(e) = Length(d) /\ At(e, i).in = At(d, i).in
      /\ PromptAt(e, i) <=> PromptAt(d, i)
  BY Together
<1>2. i \in Nat /\ cm[e] \in Nat
  BY <1>1 DEF Collectives, Range1, PlacesOk
<1>3. CASE PromptAt(d, i)
  <2>1. <<e, At(d, i).in>> \in tensors
    OBVIOUS
  <2>2. At(d, i).in # <<"input", 0>>
    BY CollectivePlaces DEF Collectives
  <2>3. PICK k \in Range1(e) : k < cm[e] /\ At(e, k).out = At(d, i).in
    BY <2>1, <2>2 DEF ReadyOk
  <2>4. \A j \in 1 .. (i - 1) - 1 : At(e, j).out # At(d, i).in
    BY <1>1, <1>3 DEF PromptAt, FirstPlace
  <2>5. k >= i - 1
    BY <1>2, <2>3, <2>4 DEF Range1
  <2> QED
    BY <1>2, <2>3, <2>5 DEF Range1
<1>4. CASE ~PromptAt(d, i)
  <2>1. i - 1 \in Collectives(d) /\ PromptAt(d, i - 1) /\ e \in At(d, i - 1).group
    BY <1>4, MetBefore
  <2>2. /\ i - 1 \in Collectives(e) /\ PromptAt(e, i - 1) /\ d \in At(e, i - 1).group
    BY <2>1, Together
  <2>3. PassedBy(cm, e, i - 1)
    BY <1>2, <2>2 DEF PassedBy
  <2>4. cm[e] >= i - 1
    BY <1>1, <2>2, <2>3 DEF BehindOk
  <2> QED
    BY <1>4, <2>4
<1> QED
  BY <1>3, <1>4

\* d goes on to its next module.
Advances(cm, new, d) ==
  /\ d \in Devices /\ PlacesOk(cm) /\ cm[d] \in Range1(d)
  /\ new = [cm EXCEPT ![d] = cm[d] + 1]

LEMMA Advancing ==
  ASSUME NEW cm, NEW new, NEW d, Advances(cm, new, d)
  PROVE  /\ d \in Devices /\ cm[d] \in Range1(d) /\ PlacesOk(cm)
         /\ PlacesOk(new) /\ new[d] = cm[d] + 1 /\ cm[d] \in Nat
         /\ \A e \in Devices : e # d => new[e] = cm[e]
         /\ \A e \in Devices : new[e] >= cm[e] /\ new[e] \in Nat /\ cm[e] \in Nat
<1> USE DEF Advances
<1>1. /\ d \in Devices /\ cm \in [Devices -> Nat] /\ cm[d] \in Range1(d)
      /\ \A e \in Devices : cm[e] \in 1 .. Length(e) + 1
  BY DEF PlacesOk
<1>2. new \in [Devices -> Nat] /\ new[d] = cm[d] + 1 /\ cm[d] + 1 \in 1 .. Length(d) + 1
  <2>1. Length(d) \in Nat
    BY <1>1, Places
  <2> QED
    BY <1>1, <2>1 DEF Range1, Length
<1>3. \A e \in Devices : e # d => new[e] = cm[e]
  BY <1>1
<1>4. PlacesOk(new)
  BY <1>1, <1>2, <1>3 DEF PlacesOk
<1> QED
  BY <1>1, <1>2, <1>3, <1>4 DEF PlacesOk

\* What somebody has passed had been passed, or d has just passed it.
LEMMA NewlyPassed ==
  ASSUME NEW cm, NEW new, NEW d, Advances(cm, new, d),
         NEW e \in Devices, NEW j \in Collectives(e), PassedBy(new, e, j), ~PassedBy(cm, e, j)
  PROVE  j = cm[d] /\ j \in Collectives(d) /\ d \in At(e, j).group /\ e \in At(d, j).group
<1>1. PICK x \in At(e, j).group : new[x] > j
  BY DEF PassedBy
<1>2. x \in Devices /\ j \in Collectives(x) /\ e \in At(x, j).group
  BY Together
<1>3. ~(cm[x] > j)
  BY DEF PassedBy
<1>4. x = d /\ j \in Nat
  BY <1>1, <1>2, <1>3, Advancing DEF Collectives, Range1
<1>5. j = cm[d]
  BY <1>1, <1>3, <1>4, Advancing
<1> QED
  BY <1>1, <1>2, <1>4, <1>5

LEMMA StillPassed ==
  ASSUME NEW cm, NEW new, NEW d, Advances(cm, new, d),
         NEW e \in Devices, NEW j \in Collectives(e), PassedBy(cm, e, j)
  PROVE  PassedBy(new, e, j)
<1>1. PICK x \in At(e, j).group : cm[x] > j
  BY DEF PassedBy
<1>2. x \in Devices /\ j \in Nat
  BY Together DEF Collectives, Range1
<1> QED
  BY <1>1, <1>2, Advancing DEF PassedBy

\* What a step of d keeps.
LEMMA ReadyKept ==
  ASSUME NEW cm, NEW new, NEW d, Advances(cm, new, d),
         NEW tensors, ReadyOk(cm, tensors)
  PROVE  ReadyOk(new, tensors \cup {<<d, At(d, cm[d]).out>>})
<1>1. d \in Devices /\ cm[d] \in Range1(d)
  BY DEF Advances
<1>2. ASSUME NEW t \in tensors
      PROVE  /\ t[1] \in Devices /\ t = <<t[1], t[2]>>
             /\ \/ t[2] = <<"input", 0>>
                \/ \E k \in Range1(t[1]) : k < new[t[1]] /\ At(t[1], k).out = t[2]
  <2>1. t[1] \in Devices /\ t = <<t[1], t[2]>>
    BY DEF ReadyOk
  <2>2. CASE t[2] = <<"input", 0>>
    BY <2>1, <2>2
  <2>3. ASSUME NEW k \in Range1(t[1]), k < cm[t[1]], At(t[1], k).out = t[2]
        PROVE  k < new[t[1]]
    BY <2>1, <2>3, Advancing DEF Range1
  <2> QED
    BY <2>1, <2>2, <2>3 DEF ReadyOk
<1>3. cm[d] < new[d]
  BY Advancing
<1> DEFINE t == <<d, At(d, cm[d]).out>>
<1>4. t[1] = d /\ t[2] = At(d, cm[d]).out
  OBVIOUS
<1>5. /\ t[1] \in Devices /\ t = <<t[1], t[2]>>
      /\ \E k \in Range1(t[1]) : k < new[t[1]] /\ At(t[1], k).out = t[2]
  BY <1>1, <1>3
<1> HIDE DEF t
<1> QED
  BY <1>2, <1>5 DEF ReadyOk, t

LEMMA BehindKept ==
  ASSUME NEW cm, NEW new, NEW d, Advances(cm, new, d), BehindOk(cm),
         NEW tensors, ReadyOk(cm, tensors),
         Collects(At(d, cm[d])) =>
           At(d, cm[d]).group \X {At(d, cm[d]).in} \subseteq tensors
  PROVE  BehindOk(new)
<1> SUFFICES ASSUME NEW e \in Devices, NEW j \in Collectives(e), PassedBy(new, e, j)
             PROVE  new[e] >= j - 1 /\ (PromptAt(e, j) => new[e] >= j)
  BY DEF BehindOk
<1>1. j \in Nat /\ new[e] \in Nat /\ cm[e] \in Nat /\ new[e] >= cm[e] /\ PlacesOk(cm)
  BY Advancing DEF Collectives, Range1
<1>2. cm[e] >= j - 1 /\ (PromptAt(e, j) => cm[e] >= j)
  <2>1. CASE PassedBy(cm, e, j)
    BY <2>1 DEF BehindOk
  <2>2. CASE ~PassedBy(cm, e, j)
    <3>1. j = cm[d] /\ j \in Collectives(d) /\ d \in Devices /\ e \in At(d, j).group
      BY <2>2, NewlyPassed, Advancing
    <3>2. At(d, j).group \X {At(d, j).in} \subseteq tensors
      BY <3>1 DEF Collectives
    <3>3. cm[e] >= j - 1 /\ (PromptAt(d, j) => cm[e] >= j)
      BY <1>1, <3>1, <3>2, AllThere
    <3>4. PromptAt(e, j) <=> PromptAt(d, j)
      BY <3>1, Together
    <3> QED
      BY <3>3, <3>4
  <2> QED
    BY <2>1, <2>2
<1> QED
  BY <1>1, <1>2

LEMMA SentKept ==
  ASSUME NEW cm, NEW new, NEW d, Advances(cm, new, d), SentOk(cm),
         NEW tensors, ReadyOk(cm, tensors),
         At(d, cm[d]).kind = "recv" => <<PpPeer(d, -1), SendTensor>> \in tensors
  PROVE  SentOk(new)
<1> SUFFICES ASSUME NEW e \in Devices, PpRank(e) > 0, new[e] > 1
             PROVE  new[PpPeer(e, -1)] = Length(PpPeer(e, -1)) + 1
  BY DEF SentOk
<1> DEFINE p == PpPeer(e, -1)
<1>1. p \in Devices
  BY Senders
<1>2. /\ cm[d] \in Range1(d) /\ d \in Devices /\ PlacesOk(new) /\ PlacesOk(cm)
  BY Advancing
<1>3. cm[p] = Length(p) + 1
  <2>1. CASE cm[e] > 1
    BY <2>1 DEF SentOk
  <2>2. CASE ~(cm[e] > 1)
    <3>1. e = d /\ cm[d] = 1
      BY <1>2, <2>2, Advancing DEF PlacesOk
    <3>2. At(d, 1).kind = "recv"
      BY <1>2, <3>1, ReceivingPlaces
    <3>3. <<p, SendTensor>> \in tensors
      BY <3>1, <3>2
    <3>4. SendTensor # <<"input", 0>>
      BY DEF SendTensor
    <3> HIDE DEF p
    <3>5. PICK k \in Range1(p) : k < cm[p] /\ At(p, k).out = SendTensor
      BY <3>3, <3>4 DEF ReadyOk
    <3>6. k = Length(p) /\ Length(p) \in Nat
      BY <1>1, <3>5, SendingPlaces, Places
    <3> QED
      BY <1>1, <1>2, <3>5, <3>6 DEF PlacesOk
  <2> QED
    BY <2>1, <2>2
<1>4. p # d
  <2>1. ASSUME p = d PROVE FALSE
    BY <1>2, <1>3, <2>1, Places DEF Range1, Length
  <2> QED
    BY <2>1
<1> QED
  BY <1>1, <1>3, <1>4, Advancing

\* A device that comes to a collective is flagged for it just when somebody
\* has passed it.
LEMMA FlaggedHere ==
  ASSUME NEW cm, PlacesOk(cm), BehindOk(cm), NEW flags, FlagsAre(cm, flags), FlagsSet(cm, flags),
         NEW d \in Devices, NEW i \in Collectives(d), i = cm[d]
  PROVE  <<d, At(d, i).in>> \in flags <=> PassedBy(cm, d, i)
<1>1. i \in Nat /\ i \in Range1(d) /\ Collects(At(d, i))
  BY DEF Collectives, Range1
<1>2. ASSUME PassedBy(cm, d, i) PROVE <<d, At(d, i).in>> \in flags
  BY <1>1, <1>2 DEF FlagsSet
<1>3. ASSUME <<d, At(d, i).in>> \in flags PROVE PassedBy(cm, d, i)
  <2>1. At(d, i).in # SendTensor
    BY <1>1, CollectivePlaces
  <2>2. PICK j \in Collectives(d) : At(d, j).in = At(d, i).in /\ cm[d] <= j /\ PassedBy(cm, d, j)
    BY <1>3, <2>1 DEF FlagsAre
  <2>3. i = j
    BY <1>1, <2>2, OneFlag
  <2> QED
    BY <2>2, <2>3
<1> QED
  BY <1>2, <1>3

\* The flags after a step of d.
AfterSync(flags, d, m) ==
  IF ~Syncs(m) THEN flags
  ELSE (IF <<d, m.in>> \in flags THEN flags ELSE flags \cup Dependencies(d, m)) \ {<<d, m.in>>}

LEMMA SyncKinds ==
  ASSUME NEW d \in Devices, NEW i \in Range1(d)
  PROVE  /\ Syncs(At(d, i)) <=> (At(d, i).kind = "recv" \/ Collects(At(d, i)))
         /\ Collects(At(d, i)) =>
              /\ At(d, i).kind # "recv" /\ i \in Collectives(d)
              /\ Dependencies(d, At(d, i)) = At(d, i).group \X {At(d, i).in}
         /\ At(d, i).kind = "recv" =>
              /\ i \notin Collectives(d) /\ i = 1 /\ PpRank(d) > 0
              /\ At(d, i).in = <<"input", 0>> /\ ~Collects(At(d, i))
              /\ Dependencies(d, At(d, i)) = {<<PpPeer(d, -1), SendTensor>>}
<1>1. /\ Syncs(At(d, i)) <=> (At(d, i).kind = "recv" \/ Collects(At(d, i)))
      /\ Collects(At(d, i)) => At(d, i).kind # "recv"
  BY DEF Syncs, Collects
<1>2. At(d, i).kind = "recv" => i = 1 /\ PpRank(d) > 0 /\ At(d, i).in = <<"input", 0>>
  BY ReceivingPlaces
<1> QED
  BY <1>1, <1>2 DEF Collectives, Dependencies

\* A flag of d that is raised for a later collective is for another tensor.
LEMMA OtherFlags ==
  ASSUME NEW cm, PlacesOk(cm), BehindOk(cm), NEW d \in Devices, cm[d] \in Range1(d),
         NEW j \in Collectives(d), cm[d] < j, PassedBy(cm, d, j), Syncs(At(d, cm[d]))
  PROVE  At(d, j).in # At(d, cm[d]).in
<1>1. CASE At(d, cm[d]).kind = "recv"
  BY <1>1, SyncKinds, CollectivePlaces DEF Collectives
<1>2. CASE Collects(At(d, cm[d]))
  <2>1. cm[d] \in Collectives(d) /\ cm[d] \in Nat /\ j \in Nat
    BY <1>2 DEF Collectives, Range1
  <2>2. cm[d] <= cm[d] /\ cm[d] <= j /\ cm[d] # j
    BY <2>1
  <2> DEFINE i == cm[d]
  <2>3. i \in Collectives(d) /\ cm[d] <= i /\ i <= j /\ i # j
    BY <2>1, <2>2
  <2> HIDE DEF i
  <2>4. At(d, i).in # At(d, j).in
    BY <2>3, OneFlag
  <2> QED
    BY <2>4 DEF i
<1> QED
  BY <1>1, <1>2, SyncKinds

LEMMA FlagsSetKept ==
  ASSUME NEW cm, NEW new, NEW d, Advances(cm, new, d), BehindOk(cm),
         NEW flags, FlagsAre(cm, flags), FlagsSet(cm, flags)
  PROVE  FlagsSet(new, AfterSync(flags, d, At(d, cm[d])))
<1> DEFINE i == cm[d]
           m == At(d, i)
           after == AfterSync(flags, d, m)
<1>1. /\ d \in Devices /\ PlacesOk(cm) /\ i \in Range1(d) /\ i \in Nat /\ new[d] = i + 1
      /\ \A e \in Devices : new[e] \in Nat /\ cm[e] \in Nat /\ cm[e] <= new[e]
  BY Advancing
<1> SUFFICES ASSUME NEW e \in Devices, NEW j \in Collectives(e), new[e] <= j, PassedBy(new, e, j)
             PROVE  <<e, At(e, j).in>> \in after
  BY DEF FlagsSet
<1>2. j \in Nat /\ cm[e] <= j
  BY <1>1 DEF Collectives, Range1
\* It is not the flag that d clears.
<1>3. ASSUME Syncs(m), e = d, PassedBy(cm, e, j) PROVE At(e, j).in # m.in
  <2>1. cm[d] < j
    BY <1>1, <1>2, <1>3
  <2> QED
    BY <1>1, <1>3, <2>1, OtherFlags
<1>4. CASE PassedBy(cm, e, j)
  <2>1. <<e, At(e, j).in>> \in flags
    BY <1>2, <1>4 DEF FlagsSet
  <2>2. Syncs(m) => <<e, At(e, j).in>> # <<d, m.in>>
    BY <1>3, <1>4
  <2> QED
    BY <2>1, <2>2 DEF AfterSync
<1>5. CASE ~PassedBy(cm, e, j)
  <2>1. j = i /\ j \in Collectives(d) /\ d \in At(e, j).group /\ e \in At(d, j).group
    BY <1>5, NewlyPassed
  <2>2. e # d
    BY <1>1, <2>1
  <2>3. At(e, j).in = m.in /\ At(e, j).group = m.group /\ At(e, j).kind = m.kind
    BY <1>1, <2>1, Together
  <2>4. ~PassedBy(cm, d, i)
    BY <1>5, <2>1, <2>3 DEF PassedBy
  <2>5. <<d, m.in>> \notin flags
    BY <1>1, <2>1, <2>4, FlaggedHere
  <2>6. Syncs(m) /\ Dependencies(d, m) = m.group \X {m.in}
    BY <1>1, <2>1, SyncKinds DEF Collectives
  <2>7. <<e, m.in>> \in Dependencies(d, m) /\ <<e, m.in>> # <<d, m.in>>
    BY <2>1, <2>2, <2>6
  <2> QED
    BY <2>3, <2>5, <2>6, <2>7 DEF AfterSync
<1> QED
  BY <1>4, <1>5

LEMMA FlagsAreKept ==
  ASSUME NEW cm, NEW new, NEW d, Advances(cm, new, d), BehindOk(cm),
         NEW flags, FlagsAre(cm, flags), FlagsSet(cm, flags),
         \A f \in flags : f[1] \in Devices /\ f = <<f[1], f[2]>>
  PROVE  FlagsAre(new, AfterSync(flags, d, At(d, cm[d])))
<1> DEFINE i == cm[d]
           m == At(d, i)
           after == AfterSync(flags, d, m)
<1>1. /\ d \in Devices /\ PlacesOk(cm) /\ i \in Range1(d) /\ i \in Nat /\ new[d] = i + 1
      /\ \A e \in Devices : new[e] \in Nat /\ cm[e] \in Nat /\ cm[e] <= new[e]
      /\ \A e \in Devices : e # d => new[e] = cm[e]
  BY Advancing
<1> SUFFICES ASSUME NEW f \in after, f[2] # SendTensor
             PROVE  \E j \in Collectives(f[1]) :
                      At(f[1], j).in = f[2] /\ new[f[1]] <= j /\ PassedBy(new, f[1], j)
  BY DEF FlagsAre
<1>2. Syncs(m) => f # <<d, m.in>>
  BY DEF AfterSync
<1>3. CASE f \in flags
  <2>1. f[1] \in Devices /\ f = <<f[1], f[2]>>
    BY <1>3
  <2>2. PICK j \in Collectives(f[1]) :
               At(f[1], j).in = f[2] /\ cm[f[1]] <= j /\ PassedBy(cm, f[1], j)
    BY <1>3 DEF FlagsAre
  <2>3. PassedBy(new, f[1], j) /\ j \in Nat
    BY <2>1, <2>2, StillPassed DEF Collectives, Range1
  <2>4. new[f[1]] <= j
    <3>1. CASE f[1] # d
      BY <1>1, <2>1, <2>2, <3>1
    <3>2. CASE f[1] = d
      <4>1. j # i
        <5>1. ASSUME j = i PROVE FALSE
          <6>1. Syncs(m)
            BY <1>1, <2>2, <3>2, <5>1, SyncKinds DEF Collectives
          <6> QED
            BY <1>2, <2>1, <2>2, <3>2, <5>1, <6>1
        <5> QED
          BY <5>1
      <4> QED
        BY <1>1, <2>2, <2>3, <3>2, <4>1
    <3> QED
      BY <3>1, <3>2
  <2> QED
    BY <2>2, <2>3, <2>4
<1>4. CASE f \notin flags
  <2>1. Syncs(m) /\ <<d, m.in>> \notin flags /\ f \in Dependencies(d, m)
    BY <1>4 DEF AfterSync
  <2>2. Collects(m)
    <3>1. m.kind # "recv"
      BY <1>1, <2>1, SyncKinds
    <3> QED
      BY <1>1, <2>1, <3>1, SyncKinds
  <2>3. i \in Collectives(d) /\ f \in m.group \X {m.in}
    BY <1>1, <2>1, <2>2, SyncKinds
  <2>4. f[1] \in m.group /\ f[2] = m.in /\ f = <<f[1], f[2]>>
    BY <2>3
  <2>5. f[1] # d
    BY <1>2, <2>1, <2>4
  <2>6. /\ f[1] \in Devices /\ i \in Collectives(f[1]) /\ At(f[1], i).in = m.in
        /\ d \in At(f[1], i).group
    BY <1>1, <2>3, <2>4, Together
  <2>7. ~PassedBy(cm, d, i)
    BY <1>1, <2>1, <2>3, FlaggedHere
  <2>8. cm[f[1]] <= i
    BY <1>1, <2>4, <2>6, <2>7 DEF PassedBy
  <2>9. new[f[1]] <= i
    BY <1>1, <2>5, <2>6, <2>8
  <2>10. PassedBy(new, f[1], i)
    BY <1>1, <2>6 DEF PassedBy
  <2> QED
    BY <2>4, <2>6, <2>9, <2>10
<1> QED
  BY <1>3, <1>4

-----------------------------------------------------------------------------
(* What a step of a device does to the clocks *)

LEMMA MaxOf ==
  ASSUME NEW S \in SUBSET Nat, IsFiniteSet(S), S # {}
  PROVE  Max(S) \in S /\ \A x \in S : x <= Max(S)
<1>1. \E x \in S : \A y \in S : x >= y
  BY LargestElement
<1> QED
  BY <1>1 DEF Max

LEMMA CostsOk ==
  ASSUME NEW m
  PROVE  /\ Costs(m) \subseteq Nat
         /\ m.kind = "barrier" => Costs(m) = {0}
<1>1. WorkTimes \in SUBSET Nat /\ WorkTimes # {} /\ LinkTimes \subseteq Nat
  BY GraphAssumption
<1>2. \E x \in WorkTimes : \A y \in WorkTimes : x <= y
  BY <1>1, LeastElement
<1>3. Min(WorkTimes) \in Nat
  BY <1>1, <1>2 DEF Min
<1> DEFINE least == Min(WorkTimes)
<1> HIDE DEF least
<1>4. least \in Nat /\ 0 \in Nat
  BY <1>3 DEF least
<1>5. m.kind = "barrier" => Costs(m) = {0}
  BY DEF Costs
<1>6. Costs(m) \in {{0}, LinkTimes, WorkTimes, {least}}
  BY DEF Costs, least
<1> QED
  BY <1>1, <1>4, <1>5, <1>6

\* Whose clocks a device looks at.
LEMMA GroupsFinite ==
  ASSUME NEW d \in Devices, NEW i \in Collectives(d)
  PROVE  /\ IsFiniteSet(At(d, i).group) /\ d \in At(d, i).group
         /\ At(d, i).group \subseteq Devices
<1>1. d \in At(d, i).group /\ At(d, i).group \in SUBSET Devices
  BY CollectivePlaces DEF Collectives, StageGroup
<1> QED
  BY <1>1, DevicesFinite

\* The first to pass moves all members to the latest of their clocks.
LEMMA FirstSyncs ==
  ASSUME device_time \in [Devices -> Nat], NEW d \in Devices, NEW i \in Collectives(d),
         <<d, At(d, i).in>> \notin timeboard_synced
  PROVE  \E t \in Nat :
           /\ SyncedTimes(d, At(d, i)) =
                [e \in Devices |-> IF e \in At(d, i).group THEN t ELSE device_time[e]]
           /\ \A e \in At(d, i).group : device_time[e] <= t
           /\ \E e \in At(d, i).group : device_time[e] = t
<1> DEFINE m == At(d, i)
           G == m.group
           T == {device_time[e] : e \in G}
<1>1. Syncs(m) /\ Dependencies(d, m) = G \X {m.in}
  BY SyncKinds DEF Collectives
<1>2. {t[1] : t \in Dependencies(d, m)} = G
  <2>1. \A t \in G \X {m.in} : t[1] \in G
    OBVIOUS
  <2>2. \A e \in G : <<e, m.in>> \in G \X {m.in} /\ <<e, m.in>>[1] = e
    OBVIOUS
  <2>3. \A e \in G : \E t \in G \X {m.in} : e = t[1]
    BY <2>2
  <2> HIDE DEF G, m
  <2>4. {t[1] : t \in G \X {m.in}} = G
    BY <2>1, <2>3
  <2> QED
    BY <1>1, <2>4
<1>3. G \subseteq Devices /\ IsFiniteSet(G) /\ d \in G
  BY GroupsFinite
<1>4. T \in SUBSET Nat /\ T # {} /\ IsFiniteSet(T)
  <2>1. \A e \in G : device_time[e] \in Nat
    BY <1>3
  <2>2. T \in SUBSET Nat /\ device_time[d] \in T
    BY <1>3, <2>1
  <2> DEFINE f == [e \in G |-> device_time[e]]
  <2>3. f \in [G -> Nat] /\ \A e \in G : f[e] = device_time[e]
    BY <2>1
  <2> HIDE DEF f
  <2>4. T = {f[e] : e \in G}
    BY <2>3
  <2> HIDE DEF T
  <2>5. f \in Surjection(G, T)
    <3>1. f \in [G -> T] /\ \A t \in T : \E e \in G : f[e] = t
      BY <2>3, <2>4
    <3> QED
      BY <3>1 DEF Surjection
  <2>6. IsFiniteSet(T)
    BY <1>3, <2>5, FS_Surjection
  <2> QED
    BY <2>2, <2>6
<1>5. Max(T) \in T /\ \A x \in T : x <= Max(T)
  <2> HIDE DEF T
  <2> QED
    BY <1>4, MaxOf
<1>6. SyncedTimes(d, m) = [e \in Devices |-> IF e \in G THEN Max(T) ELSE device_time[e]]
  BY <1>1, <1>2 DEF SyncedTimes
<1> DEFINE u == Max(T)
<1>7. u \in Nat
  BY <1>4, <1>5
<1>8. \A e \in G : device_time[e] \in T
  OBVIOUS
<1>9. \E e \in G : device_time[e] = u
  BY <1>5
<1>10. SyncedTimes(d, m) = [e \in Devices |-> IF e \in G THEN u ELSE device_time[e]]
  BY <1>6
<1> HIDE DEF T, G, m
<1>11. \A e \in G : device_time[e] <= u
  BY <1>5, <1>8
<1> HIDE DEF u
<1> QED
  BY <1>7, <1>9, <1>10, <1>11 DEF G, m

\* Nobody else moves another's clock.
LEMMA NobodySyncs ==
  ASSUME device_time \in [Devices -> Nat], NEW d \in Devices, NEW i \in Range1(d),
         ~Collects(At(d, i)) \/ <<d, At(d, i).in>> \in timeboard_synced
  PROVE  SyncedTimes(d, At(d, i)) = device_time
<1> DEFINE m == At(d, i)
           p == PpPeer(d, -1)
<1>1. CASE Syncs(m) /\ <<d, m.in>> \notin timeboard_synced
  <2>1. PpRank(d) > 0 /\ Dependencies(d, m) = {<<p, SendTensor>>}
    BY <1>1, SyncKinds
  <2>2. p \in Devices
    BY <2>1, Senders
  <2> HIDE DEF p, m
  <2>3. {t[1] : t \in Dependencies(d, m)} = {p}
    BY <2>1
  <2> DEFINE T == {device_time[e] : e \in {p}}
  <2>4. T = {device_time[p]} /\ device_time[p] \in Nat
    BY <2>2
  <2>5. Max(T) = device_time[p]
    <3>1. IsFiniteSet({device_time[p]}) /\ {device_time[p]} \in SUBSET Nat /\ {device_time[p]} # {}
      BY <2>4, FS_Singleton
    <3>2. Max({device_time[p]}) \in {device_time[p]}
      BY <3>1, MaxOf
    <3> QED
      BY <2>4, <3>2
  <2>6. SyncedTimes(d, m) = [e \in Devices |-> IF e \in {p} THEN Max(T) ELSE device_time[e]]
    BY <1>1, <2>3 DEF SyncedTimes
  <2>7. \A e \in Devices : SyncedTimes(d, m)[e] = device_time[e]
    BY <2>5, <2>6
  <2> QED
    BY <2>6, <2>7 DEF m
<1>2. CASE ~(Syncs(m) /\ <<d, m.in>> \notin timeboard_synced)
  BY <1>2 DEF SyncedTimes
<1> QED
  BY <1>1, <1>2

\* The clocks stay natural numbers.
LEMMA ClocksOk ==
  ASSUME device_time \in [Devices -> Nat], NEW d \in Devices, NEW i \in Range1(d)
  PROVE  /\ SyncedTimes(d, At(d, i)) \in [Devices -> Nat]
         /\ StartTime(d, At(d, i)) \in Nat
         /\ At(d, i).kind # "recv" => StartTime(d, At(d, i)) = SyncedTimes(d, At(d, i))[d]
         /\ At(d, i).kind = "recv" =>
              LET p == PpPeer(d, -1)
                  t == StartTime(d, At(d, i))
              IN  /\ device_time[d] <= t /\ device_time[p] <= t
                  /\ t \in {device_time[d], device_time[p]}
<1> DEFINE m == At(d, i)
           p == PpPeer(d, -1)
           time == SyncedTimes(d, m)
<1>1. time \in [Devices -> Nat]
  <2>1. CASE i \in Collectives(d) /\ <<d, m.in>> \notin timeboard_synced
    <3>1. PICK t \in Nat : time = [e \in Devices |-> IF e \in m.group THEN t ELSE device_time[e]]
      BY <2>1, FirstSyncs
    <3> QED
      BY <3>1
  <2>2. CASE ~(i \in Collectives(d) /\ <<d, m.in>> \notin timeboard_synced)
    <3>1. time = device_time
      BY <2>2, NobodySyncs DEF Collectives
    <3> QED
      BY <3>1
  <2> QED
    BY <2>1, <2>2
<1> HIDE DEF p, time
<1>2. CASE m.kind = "recv"
  <2>1. PpRank(d) > 0 /\ ~Collects(m)
    BY <1>2, SyncKinds
  <2>2. p \in Devices /\ time = device_time
    BY <2>1, Senders, NobodySyncs DEF p, time
  <2> DEFINE T == {time[d], time[p]}
             x == device_time[d]
             y == device_time[p]
  <2>3. StartTime(d, m) = Max(T)
    BY <1>2 DEF StartTime, p, time
  <2>4. T = {x, y} /\ x \in Nat /\ y \in Nat
    BY <2>2
  <2> HIDE DEF T, x, y
  <2>5. IsFiniteSet(T) /\ T \in SUBSET Nat /\ T # {}
    <3>1. IsFiniteSet({x}) /\ IsFiniteSet({x} \cup {y})
      BY FS_Singleton, FS_AddElement
    <3>2. T = {x} \cup {y}
      BY <2>4
    <3>3. T \in SUBSET Nat /\ x \in T
      BY <2>4
    <3> QED
      BY <3>1, <3>2, <3>3
  <2>6. Max(T) \in T /\ \A z \in T : z <= Max(T)
    BY <2>5, MaxOf
  <2> DEFINE u == Max(T)
  <2> HIDE DEF u
  <2>7. u \in {x, y} /\ x <= u /\ y <= u /\ u \in Nat
    BY <2>4, <2>6 DEF u
  <2> QED
    BY <1>1, <1>2, <2>3, <2>7 DEF x, y, u, p, time
<1>3. CASE m.kind # "recv"
  BY <1>1, <1>3 DEF StartTime, time
<1> QED
  BY <1>2, <1>3

-----------------------------------------------------------------------------
(* The type invariant and the flags *)

LEMMA TensorIs ==
  ASSUME NEW t \in Tensors
  PROVE  t[1] \in Devices /\ t[2] \in Names(t[1]) /\ t = <<t[1], t[2]>>
<1>1. PICK d \in Devices : t \in {d} \X Names(d)
  BY DEF Tensors
<1> QED
  BY <1>1

LEMMA TensorOf ==
  ASSUME NEW d \in Devices
  PROVE  /\ \A i \in Range1(d) : <<d, At(d, i).out>> \in Tensors
         /\ <<d, <<"input", 0>>>> \in Tensors
<1>1. /\ \A i \in Range1(d) : At(d, i).out \in Names(d)
      /\ <<"input", 0>> \in Names(d)
  BY DEF Names, At
<1>2. \A n \in Names(d) : <<d, n>> \in {d} \X Names(d)
  OBVIOUS
<1>3. \A n \in Names(d) : <<d, n>> \in Tensors
  BY <1>2 DEF Tensors
<1> QED
  BY <1>1, <1>3

LEMMA InputTensors == Inputs \subseteq Tensors
<1>1. ASSUME NEW t \in Inputs PROVE t \in Tensors
  <2>1. t[1] \in Devices /\ t = <<t[1], <<"input", 0>>>>
    BY DEF Inputs
  <2> QED
    BY <2>1, TensorOf
<1> QED
  BY <1>1

\* What holds in every state.  The flags of GraphInv need the whole of it: that
\* members of a collective stay together, which needs what is ready to have
\* been returned, and that flags are raised neither too seldom nor too often.
IInv ==
  /\ GraphTypeOK
  /\ ReadyOk(current_module, ready)
  /\ BehindOk(current_module)
  /\ SentOk(current_module)
  /\ FlagsAre(current_module, timeboard_synced)
  /\ FlagsSet(current_module, timeboard_synced)

LEMMA PlacesAreOk == GraphTypeOK => PlacesOk(current_module)
BY DEF GraphTypeOK, PlacesOk, Length

LEMMA FlagsArePending ==
  ASSUME PlacesOk(current_module), BehindOk(current_module),
         FlagsAre(current_module, timeboard_synced), timeboard_synced \subseteq Tensors
  PROVE  FlagsPending
<1> SUFFICES ASSUME NEW f \in timeboard_synced, f[2] # SendTensor
             PROVE  LET d == f[1]
                        waits == {i \in Range1(d) : i >= current_module[d] /\ Syncs(At(d, i))
                                                    /\ At(d, i).in = f[2]}
                    IN  /\ waits # {}
                        /\ \E e \in At(d, Min(waits)).group : current_module[e] > Min(waits)
  BY DEF FlagsPending, At
<1> DEFINE d == f[1]
           waits == {i \in Range1(d) : i >= current_module[d] /\ Syncs(At(d, i))
                                       /\ At(d, i).in = f[2]}
<1>1. d \in Devices
  BY TensorIs
<1>2. PICK i \in Collectives(d) : /\ At(d, i).in = f[2] /\ current_module[d] <= i
                                  /\ PassedBy(current_module, d, i)
  BY DEF FlagsAre
<1>3. i \in Range1(d) /\ i \in Nat /\ current_module[d] \in Nat /\ Collects(At(d, i))
  BY <1>1 DEF Collectives, Range1, PlacesOk
<1>4. i \in waits
  BY <1>1, <1>2, <1>3, SyncKinds
<1>5. waits \in SUBSET Nat
  BY DEF Range1
<1>6. ASSUME NEW j \in waits, j <= i PROVE j = i
  <2>1. /\ j \in Range1(d) /\ current_module[d] <= j /\ j \in Nat
        /\ Syncs(At(d, j)) /\ At(d, j).in = At(d, i).in
    BY <1>2, <1>3, <1>6 DEF Range1
  <2>2. At(d, j).kind # "recv"
    BY <1>1, <1>3, <2>1, SyncKinds, CollectivePlaces
  <2>3. j \in Collectives(d)
    BY <1>1, <2>1, <2>2, SyncKinds
  <2> HIDE DEF d, waits
  <2> QED
    BY <1>1, <1>2, <1>6, <2>1, <2>3, OneFlag
<1>7. Min(waits) = i
  <2> HIDE DEF waits
  <2>1. \E x \in waits : \A y \in waits : x <= y
    BY <1>4, <1>5, LeastElement
  <2>2. Min(waits) \in waits /\ \A y \in waits : Min(waits) <= y
    BY <2>1 DEF Min
  <2> QED
    BY <1>4, <1>6, <2>2
<1> QED
  BY <1>2, <1>4, <1>7 DEF PassedBy

LEMMA InitInv == Init => IInv
<1> SUFFICES ASSUME Init PROVE IInv
  OBVIOUS
<1>1. /\ current_module = [d \in Devices |-> 1] /\ ready = Inputs /\ timeboard_synced = {}
      /\ device_time = [d \in Devices |-> 0] /\ turn = 0 /\ routing = <<>> /\ pass = 1
  BY DEF Init
<1>2. NumDevices \in Nat /\ MaxPasses \in Nat \ {0}
  BY Degrees
<1>3. PlacesOk(current_module)
  BY <1>1, Places DEF PlacesOk
<1>4. GraphTypeOK
  BY <1>1, <1>2, <1>3, InputTensors DEF GraphTypeOK, PlacesOk, Length
<1>5. ReadyOk(current_module, ready)
  BY <1>1 DEF ReadyOk, Inputs
<1>6. /\ BehindOk(current_module) /\ SentOk(current_module)
      /\ FlagsSet(current_module, timeboard_synced)
  <2>1. \A d \in Devices : \A i \in Collectives(d) : ~PassedBy(current_module, d, i)
    <3>1. ASSUME NEW d \in Devices, NEW i \in Collectives(d), NEW e \in At(d, i).group
          PROVE  ~(current_module[e] > i)
      <4>1. e \in Devices /\ i \in Nat /\ i >= 1
        BY Together DEF Collectives, Range1
      <4> QED
        BY <1>1, <4>1
    <3> QED
      BY <3>1 DEF PassedBy
  <2>2. \A d \in Devices : ~(current_module[d] > 1)
    BY <1>1
  <2> QED
    BY <2>1, <2>2 DEF BehindOk, SentOk, FlagsSet
<1>7. FlagsAre(current_module, timeboard_synced)
  BY <1>1 DEF FlagsAre
<1> QED
  BY <1>4, <1>5, <1>6, <1>7 DEF IInv

\* A step of a device: what it finds ready, and where it gets to.
LEMMA Running ==
  ASSUME IInv, NEW d \in Devices, RunModule(d)
  PROVE  LET i == current_module[d]
             m == At(d, i)
         IN  /\ i \in Range1(d) /\ i \in Nat
             /\ Advances(current_module, current_module', d)
             /\ ready' = ready \cup {<<d, m.out>>}
             /\ timeboard_synced' = AfterSync(timeboard_synced, d, m)
             /\ routing' = Routing(d, m)
             /\ Syncs(m) => Dependencies(d, m) \subseteq ready
             /\ Collects(m) => m.group \X {m.in} \subseteq ready
             /\ m.kind = "recv" => <<PpPeer(d, -1), SendTensor>> \in ready
             /\ turn' = turn /\ pass' = pass
<1> DEFINE i == current_module[d]
           m == At(d, i)
<1>1. PlacesOk(current_module)
  BY PlacesAreOk DEF IInv
<1>2. m = Current(d) /\ ~Done(d) /\ CheckReady(d, m)
  BY DEF RunModule, CanRun, Current, At
<1>3. i \in Range1(d) /\ i \in Nat
  BY <1>1, <1>2, Places DEF PlacesOk, Done, Range1, Length
<1>4. /\ current_module' = [current_module EXCEPT ![d] = i + 1]
      /\ ready' = ready \cup {<<d, m.out>>}
      /\ timeboard_synced' = SyncedFlags(d, m)
      /\ routing' = Routing(d, m)
      /\ turn' = turn /\ pass' = pass
  BY <1>2 DEF RunModule
<1>5. Syncs(m) => Dependencies(d, m) \subseteq ready
  BY <1>2 DEF CheckReady, Syncs
<1>6. /\ Collects(m) => m.group \X {m.in} \subseteq ready
      /\ m.kind = "recv" => <<PpPeer(d, -1), SendTensor>> \in ready
  BY <1>3, <1>5, SyncKinds
<1>7. Advances(current_module, current_module', d)
  BY <1>1, <1>3, <1>4 DEF Advances
<1>8. timeboard_synced' = AfterSync(timeboard_synced, d, m)
  BY <1>4 DEF SyncedFlags, AfterSync
<1> HIDE DEF m
<1> QED
  BY <1>3, <1>4, <1>5, <1>6, <1>7, <1>8 DEF m

\* The clocks a step leaves.
LEMMA RunClocks ==
  ASSUME IInv, NEW d \in Devices, RunModule(d)
  PROVE  LET m == At(d, current_module[d])
         IN  /\ \E cost \in Costs(m) : cost \in Nat /\
                  device_time' = [SyncedTimes(d, m) EXCEPT ![d] = StartTime(d, m) + cost]
             /\ device_time' \in [Devices -> Nat]
<1> DEFINE i == current_module[d]
           m == At(d, i)
           time == SyncedTimes(d, m)
           start == StartTime(d, m)
<1>1. i \in Range1(d) /\ device_time \in [Devices -> Nat]
  BY Running DEF IInv, GraphTypeOK
<1>2. PICK cost \in Costs(m) : device_time' = [time EXCEPT ![d] = start + cost]
  BY DEF RunModule, Current, At
<1>3. cost \in Nat
  BY CostsOk
<1>4. time \in [Devices -> Nat] /\ start \in Nat
  BY <1>1, ClocksOk
<1> HIDE DEF time, start, m
<1>5. device_time' \in [Devices -> Nat]
  BY <1>2, <1>3, <1>4
<1> QED
  BY <1>2, <1>3, <1>5 DEF time, start, m

LEMMA RunTypes ==
  ASSUME IInv, NEW d \in Devices, RunModule(d)
  PROVE  GraphTypeOK'
<1> DEFINE i == current_module[d]
           m == At(d, i)
<1>1. /\ i \in Range1(d) /\ Advances(current_module, current_module', d)
      /\ ready' = ready \cup {<<d, m.out>>}
      /\ timeboard_synced' = AfterSync(timeboard_synced, d, m)
      /\ Syncs(m) => Dependencies(d, m) \subseteq ready
      /\ routing' = Routing(d, m) /\ turn' = turn /\ pass' = pass
  BY Running
<1>2. /\ Inputs \subseteq ready /\ ready \subseteq Tensors /\ timeboard_synced \subseteq Tensors
      /\ turn \in 0 .. NumDevices /\ pass \in 1 .. MaxPasses
      /\ \/ routing = <<>>
         \/ routing \in {Min(ExpertGroup(e)) : e \in Devices} \X (1 .. Layers) \X (1 .. MaxPasses)
  BY DEF IInv, GraphTypeOK
<1>3. PlacesOk(current_module')
  BY <1>1, Advancing
<1>4. Inputs \subseteq ready' /\ ready' \subseteq Tensors
  BY <1>1, <1>2, TensorOf
<1>5. timeboard_synced' \subseteq Tensors
  BY <1>1, <1>2 DEF AfterSync
<1>6. \/ routing' = <<>>
      \/ routing' \in {Min(ExpertGroup(e)) : e \in Devices} \X (1 .. Layers) \X (1 .. MaxPasses)
  <2>1. CASE m.out[1] = "gate_update" /\ d = Leader(d)
    <3>1. routing' = <<d, m.out[2], pass>>
      BY <1>1, <2>1 DEF Routing
    <3>2. m.out[2] \in 1 .. Layers
      BY <1>1, <2>1, GatePlaces
    <3>3. d \in {Min(ExpertGroup(e)) : e \in Devices}
      BY <2>1 DEF Leader
    <3> HIDE DEF m
    <3> QED
      BY <1>2, <3>1, <3>2, <3>3
  <2>2. CASE ~(m.out[1] = "gate_update" /\ d = Leader(d))
    BY <1>1, <1>2, <2>2 DEF Routing
  <2> QED
    BY <2>1, <2>2
<1>7. device_time' \in [Devices -> Nat]
  BY RunClocks
<1> QED
  BY <1>1, <1>2, <1>3, <1>4, <1>5, <1>6, <1>7 DEF GraphTypeOK, PlacesOk, Length

LEMMA RunInv ==
  ASSUME IInv, NEW d \in Devices, RunModule(d)
  PROVE  IInv'
<1> DEFINE i == current_module[d]
           m == At(d, i)
<1>1. /\ i \in Range1(d) /\ Advances(current_module, current_module', d)
      /\ ready' = ready \cup {<<d, m.out>>}
      /\ timeboard_synced' = AfterSync(timeboard_synced, d, m)
      /\ Collects(m) => m.group \X {m.in} \subseteq ready
      /\ m.kind = "recv" => <<PpPeer(d, -1), SendTensor>> \in ready
  BY Running
<1>2. /\ ReadyOk(current_module, ready) /\ BehindOk(current_module) /\ SentOk(current_module)
      /\ FlagsAre(current_module, timeboard_synced) /\ FlagsSet(current_module, timeboard_synced)
      /\ \A f \in timeboard_synced : f[1] \in Devices /\ f = <<f[1], f[2]>>
  BY TensorIs DEF IInv, GraphTypeOK
<1>3. GraphTypeOK'
  BY RunTypes
<1>4. ReadyOk(current_module', ready')
  BY <1>1, <1>2, ReadyKept
<1>5. BehindOk(current_module')
  BY <1>1, <1>2, BehindKept
<1>6. SentOk(current_module')
  BY <1>1, <1>2, SentKept
<1>7. FlagsAre(current_module', timeboard_synced')
  BY <1>1, <1>2, FlagsAreKept
<1>8. FlagsSet(current_module', timeboard_synced')
  BY <1>1, <1>2, FlagsSetKept
<1> QED
  BY <1>3, <1>4, <1>5, <1>6, <1>7, <1>8 DEF IInv

\* A new pass finds only the flags of what is sent.
LEMMA RestartInv ==
  ASSUME IInv, NEW times \in [Devices -> Nat], Restart(times)
  PROVE  IInv'
<1>1. /\ AllDone /\ turn' = 0 /\ pass' = (pass % MaxPasses) + 1
      /\ current_module' = [d \in Devices |-> 1] /\ ready' = Inputs /\ device_time' = times
      /\ timeboard_synced' = timeboard_synced /\ routing' = routing
  BY DEF Restart
<1>2. /\ timeboard_synced \subseteq Tensors /\ pass \in 1 .. MaxPasses
      /\ \/ routing = <<>>
         \/ routing \in {Min(ExpertGroup(e)) : e \in Devices} \X (1 .. Layers) \X (1 .. MaxPasses)
  BY DEF IInv, GraphTypeOK
<1>3. pass' \in 1 .. MaxPasses /\ turn' \in 0 .. NumDevices
  BY <1>1, <1>2, Degrees
<1>4. PlacesOk(current_module')
  BY <1>1, Places DEF PlacesOk
<1>5. GraphTypeOK'
  BY <1>1, <1>2, <1>3, <1>4, InputTensors DEF GraphTypeOK, PlacesOk, Length
<1>6. ReadyOk(current_module', ready')
  BY <1>1 DEF ReadyOk, Inputs
<1>7. /\ BehindOk(current_module') /\ SentOk(current_module')
      /\ FlagsSet(current_module', timeboard_synced')
  <2>1. \A d \in Devices : \A i \in Collectives(d) : ~PassedBy(current_module', d, i)
    <3>1. ASSUME NEW d \in Devices, NEW i \in Collectives(d), NEW e \in At(d, i).group
          PROVE  ~(current_module'[e] > i)
      <4>1. e \in Devices /\ i \in Nat /\ i >= 1
        BY Together DEF Collectives, Range1
      <4> QED
        BY <1>1, <4>1
    <3> QED
      BY <3>1 DEF PassedBy
  <2>2. \A d \in Devices : ~(current_module'[d] > 1)
    BY <1>1
  <2> QED
    BY <2>1, <2>2 DEF BehindOk, SentOk, FlagsSet
<1>8. FlagsAre(current_module', timeboard_synced')
  <2>1. ASSUME NEW f \in timeboard_synced PROVE f[2] = SendTensor
    <3>1. f[1] \in Devices
      BY <1>2, TensorIs
    <3>2. current_module[f[1]] > Length(f[1]) /\ Length(f[1]) \in Nat
      BY <1>1, <3>1, Places DEF AllDone, Done, Length
    <3>3. current_module[f[1]] \in Nat
      BY <3>1 DEF IInv, GraphTypeOK
    <3>4. \A i \in Collectives(f[1]) : ~(current_module[f[1]] <= i)
      BY <3>2, <3>3 DEF Collectives, Range1, Length
    <3> QED
      BY <3>4 DEF IInv, FlagsAre
  <2> QED
    BY <1>1, <2>1 DEF FlagsAre
<1> QED
  BY <1>5, <1>6, <1>7, <1>8 DEF IInv

LEMMA NextInv == IInv /\ [Next]_vars => IInv'
<1> SUFFICES ASSUME IInv, [Next]_vars PROVE IInv'
  OBVIOUS
<1>1. ASSUME NEW d \in Devices, RunModule(d) PROVE IInv'
  BY <1>1, RunInv
<1>2. ASSUME NextDevice \/ SweepAgain PROVE IInv'
  <2>1. UNCHANGED graphVars /\ UNCHANGED pass /\ turn' \in 0 .. NumDevices
    <3>1. NumDevices \in Nat
      BY Degrees
    <3>2. CASE NextDevice
      BY <3>1, <3>2 DEF NextDevice, Devices
    <3>3. CASE SweepAgain
      BY <3>1, <3>3 DEF SweepAgain
    <3> QED
      BY <1>2, <3>2, <3>3
  <2> QED
    BY <2>1 DEF graphVars, IInv, GraphTypeOK
<1>3. ASSUME RestartModuleGraph PROVE IInv'
  <2>1. [d \in Devices |-> 0] \in [Devices -> Nat]
    OBVIOUS
  <2> QED
    BY <1>3, <2>1, RestartInv DEF RestartModuleGraph
<1>4. ASSUME RestartGraphOnly PROVE IInv'
  <2>1. device_time \in [Devices -> Nat]
    BY DEF IInv, GraphTypeOK
  <2> QED
    BY <1>4, <2>1, RestartInv DEF RestartGraphOnly
<1>5. CASE UNCHANGED vars
  BY <1>5 DEF vars, graphVars, IInv, GraphTypeOK
<1> QED
  BY <1>1, <1>2, <1>3, <1>4, <1>5 DEF Next

\* The invariant holds in every state of Cluster::run, for every layout, network
\* and cost of modules.
THEOREM GraphInductive == Spec => []IInv
<1> QED
  BY InitInv, NextInv, PTL DEF Spec

\* The types hold, and a raised flag always stands for an agreement that its
\* device has still to pass and somebody has passed, for any layout of the
\* devices and any network (ModuleGraph::sync_devices, Cluster::run).
THEOREM GraphCorrect == Spec => []GraphInv
<1>1. IInv => GraphInv
  BY PlacesAreOk, FlagsArePending DEF IInv, GraphInv, GraphTypeOK
<1> QED
  BY <1>1, GraphInductive, PTL

-----------------------------------------------------------------------------
(* The times of reaching and of leaving a collective *)

CameOk ==
  /\ \A h \in came : /\ h[1] \in Devices /\ h[2] \in 1 .. current_module[h[1]]
                     /\ h[3] \in Nat /\ h = <<h[1], h[2], h[3]>>
  /\ \A g, h \in came : g[1] = h[1] /\ g[2] = h[2] => g = h
WentOk ==
  \A h \in went : /\ h[1] \in Devices /\ h[2] \in 1 .. current_module[h[1]] - 1
                  /\ h[3] \in Nat /\ h = <<h[1], h[2], h[3]>>

\* The clock of a device that waits still is what it was on arrival.
Waits(d) ==
  LET i == current_module[d]
  IN  \/ i > Length(d)
      \/ Syncs(At(d, i)) /\ ~PassedBy(current_module, d, i)
WaitingOk ==
  \A d \in Devices : Waits(d) => <<d, current_module[d], device_time[d]>> \in came

\* The devices that meet in a collective of d have agreed on t: those still to
\* pass have that clock, and after a barrier they keep it until the next.
Agreed(d, i, t) ==
  /\ \A e \in At(d, i).group : current_module[e] <= i => device_time[e] = t
  /\ At(d, i).kind = "barrier" =>
       \A e \in At(d, i).group :
         current_module[e] = i + 1 /\ i + 1 \in Collectives(e)
           /\ ~PassedBy(current_module, e, i + 1)
         => device_time[e] = t
  /\ \A h \in went : h[1] \in At(d, i).group /\ h[2] = i => h[3] = t
  /\ \A h \in came : h[1] \in At(d, i).group /\ h[2] = i => h[3] <= t
  /\ \E e \in At(d, i).group : current_module[e] < i \/ <<e, i, t>> \in came

\* All have passed it, and the history no longer tells.
Settled(d, i) ==
  /\ \A e \in At(d, i).group : current_module[e] > i
  /\ \A h \in came \cup went : ~(h[1] \in At(d, i).group /\ h[2] = i)

AgreedOk ==
  \A d \in Devices : \A i \in Collectives(d) :
    PassedBy(current_module, d, i) => (\E t \in Nat : Agreed(d, i, t)) \/ Settled(d, i)

\* A stage started when it was free and the activation had been sent.
Arrivals(w) == {a \in came : <<a[1], a[2]>> \in Meeting(w[1], w[2])}
ReceivedOk ==
  \A w \in went :
    At(w[1], w[2]).kind = "recv" =>
      /\ \A a \in Arrivals(w) : a[3] <= w[3]
      /\ \E a \in Arrivals(w) : a[3] = w[3]

HInv == CameOk /\ WentOk /\ WaitingOk /\ AgreedOk /\ ReceivedOk

\* What is kept of a history.
LEMMA KeptOrNot ==
  ASSUME NEW history, NEW h \in history, h[1] \in Devices, PlacesOk(current_module)
  PROVE  /\ h[2] > Length(h[1]) => h \in Unsettled(history)
         /\ h[2] \in Range1(h[1]) /\ At(h[1], h[2]).kind = "recv" => h \in Unsettled(history)
         /\ h[2] \in Collectives(h[1]) =>
              (h \in Unsettled(history) <=>
                 \E e \in At(h[1], h[2]).group : current_module[e] <= h[2])
<1> DEFINE d == h[1]
           i == h[2]
           some == \E e \in Meeting(d, i) : current_module[e[1]] <= e[2]
<1>1. h \in Unsettled(history) <=> (i > Length(d) \/ (Syncs(At(d, i)) /\ some))
  BY DEF Unsettled, At, Length
<1>2. ASSUME i \in Range1(d), At(d, i).kind = "recv" PROVE Syncs(At(d, i)) /\ some
  <2> DEFINE p == PpPeer(d, -1)
  <2>1. p \in Devices /\ Syncs(At(d, i))
    BY <1>2, SyncKinds, Senders
  <2>2. <<p, Length(p) + 1>> \in Meeting(d, i)
    BY <1>2 DEF Meeting, At, Length
  <2>3. current_module[p] <= Length(p) + 1
    BY <2>1, Places DEF PlacesOk
  <2> DEFINE z == <<p, Length(p) + 1>>
  <2>4. z[1] = p /\ z[2] = Length(p) + 1
    OBVIOUS
  <2> HIDE DEF z
  <2>5. z \in Meeting(d, i) /\ current_module[z[1]] <= z[2]
    BY <2>2, <2>3, <2>4 DEF z
  <2> QED
    BY <2>1, <2>5
<1>3. ASSUME i \in Collectives(d)
      PROVE  /\ Syncs(At(d, i)) /\ ~(i > Length(d))
             /\ some <=> \E e \in At(d, i).group : current_module[e] <= i
  <2>1. i \in Range1(d) /\ Collects(At(d, i)) /\ i \in Nat
    BY <1>3 DEF Collectives, Range1
  <2>2. Syncs(At(d, i)) /\ At(d, i).kind # "recv"
    BY <2>1, SyncKinds
  <2>3. ~(i > Length(d))
    BY <2>1, Places DEF Range1, Length
  <2>4. Meeting(d, i) = At(d, i).group \X {i}
    BY <2>2 DEF Meeting, At
  <2> DEFINE G == At(d, i).group
  <2>5. ASSUME NEW e \in G, current_module[e] <= i PROVE some
    <3> DEFINE z == <<e, i>>
    <3>1. z \in G \X {i} /\ z[1] = e /\ z[2] = i
      OBVIOUS
    <3> HIDE DEF z, G
    <3> QED
      BY <2>4, <2>5, <3>1 DEF G
  <2>6. ASSUME NEW z \in G \X {i}, current_module[z[1]] <= z[2]
        PROVE  \E e \in G : current_module[e] <= i
    <3>1. z[1] \in G /\ z[2] = i
      OBVIOUS
    <3> QED
      BY <2>6, <3>1
  <2> QED
    BY <2>2, <2>3, <2>4, <2>5, <2>6
<1> HIDE DEF some, d, i
<1>4. h \in Unsettled(history) <=> (i > Length(d) \/ (Syncs(At(d, i)) /\ some))
  BY <1>1
<1> QED
  BY <1>2, <1>3, <1>4 DEF d, i

LEMMA KeptOnly ==
  ASSUME NEW history
  PROVE  Unsettled(history) \subseteq history
BY DEF Unsettled

\* What a step of d adds to the history.
LEMMA RunHistory ==
  ASSUME NEW d \in Devices, RunModule(d)
  PROVE  LET i == current_module[d]
         IN  /\ came' = Unsettled(came) \cup {<<d, i + 1, device_time'[d]>>}
             /\ went' = Unsettled(went) \cup {<<d, i, StartTime(d, At(d, i))>>}
BY DEF RunModule, Current, At

\* d passes a collective that nobody has passed.
FirstToPass(d) ==
  LET i == current_module[d]
  IN  i \in Collectives(d) /\ ~PassedBy(current_module, d, i)

\* What a step of d does to the clocks: of all members of a collective that it
\* is the first to pass, else only to its own.
LEMMA ClockSteps ==
  ASSUME IInv, NEW d \in Devices, RunModule(d)
  PROVE  LET i == current_module[d]
             start == StartTime(d, At(d, i))
         IN  /\ start \in Nat /\ device_time'[d] \in Nat
             /\ At(d, i).kind = "barrier" => device_time'[d] = start
             /\ FirstToPass(d) =>
                  /\ \A e \in At(d, i).group : device_time[e] <= start
                  /\ \E e \in At(d, i).group : device_time[e] = start
                  /\ \A e \in Devices : e # d =>
                       device_time'[e] = IF e \in At(d, i).group THEN start ELSE device_time[e]
             /\ ~FirstToPass(d) =>
                  /\ \A e \in Devices : e # d => device_time'[e] = device_time[e]
                  /\ At(d, i).kind # "recv" => start = device_time[d]
<1> DEFINE i == current_module[d]
           m == At(d, i)
           time == SyncedTimes(d, m)
           start == StartTime(d, m)
<1>1. /\ i \in Range1(d) /\ device_time \in [Devices -> Nat] /\ PlacesOk(current_module)
      /\ BehindOk(current_module)
      /\ FlagsAre(current_module, timeboard_synced) /\ FlagsSet(current_module, timeboard_synced)
  BY Running, PlacesAreOk DEF IInv, GraphTypeOK
<1>2. PICK cost \in Costs(m) : cost \in Nat /\ device_time' = [time EXCEPT ![d] = start + cost]
  BY RunClocks
<1>3. /\ time \in [Devices -> Nat] /\ start \in Nat
      /\ m.kind # "recv" => start = time[d]
  BY <1>1, ClocksOk
<1>4. m.kind = "barrier" => cost = 0
  BY <1>2, CostsOk
<1>5. i \in Collectives(d) => (<<d, m.in>> \in timeboard_synced <=> PassedBy(current_module, d, i))
  BY <1>1, FlaggedHere
<1>6. Collects(m) => i \in Collectives(d)
  BY <1>1 DEF Collectives
<1>7. ASSUME FirstToPass(d)
      PROVE  /\ \A e \in m.group : device_time[e] <= start
             /\ \E e \in m.group : device_time[e] = start
             /\ time = [e \in Devices |-> IF e \in m.group THEN start ELSE device_time[e]]
  <2>1. i \in Collectives(d) /\ <<d, m.in>> \notin timeboard_synced
    BY <1>5, <1>7 DEF FirstToPass
  <2>2. PICK t \in Nat :
           /\ time = [e \in Devices |-> IF e \in m.group THEN t ELSE device_time[e]]
           /\ \A e \in m.group : device_time[e] <= t
           /\ \E e \in m.group : device_time[e] = t
    BY <1>1, <2>1, FirstSyncs
  <2>3. m.kind # "recv" /\ d \in m.group
    BY <1>1, <2>1, SyncKinds, GroupsFinite
  <2>4. start = t
    BY <1>3, <2>2, <2>3
  <2> HIDE DEF start, time, m
  <2> QED
    BY <2>2, <2>4
<1>8. ASSUME ~FirstToPass(d) PROVE time = device_time
  <2>1. ~Collects(m) \/ <<d, m.in>> \in timeboard_synced
    BY <1>5, <1>6, <1>8 DEF FirstToPass
  <2> QED
    BY <1>1, <2>1, NobodySyncs
<1> HIDE DEF time, start, m
<1>9. /\ \A e \in Devices : e # d => device_time'[e] = time[e]
      /\ device_time'[d] = start + cost
  BY <1>2, <1>3
<1>10. device_time'[d] \in Nat /\ (m.kind = "barrier" => device_time'[d] = start)
  BY <1>2, <1>3, <1>4, <1>9
<1> QED
  BY <1>3, <1>7, <1>8, <1>9, <1>10 DEF start, m

\* How far a step of d gets.
LEMMA Moving ==
  ASSUME IInv, NEW d \in Devices, RunModule(d)
  PROVE  LET i == current_module[d]
         IN  /\ i \in Range1(d) /\ i \in Nat /\ i >= 1
             /\ current_module'[d] = i + 1
             /\ Advances(current_module, current_module', d)
             /\ PlacesOk(current_module) /\ PlacesOk(current_module')
             /\ \A e \in Devices : e # d => current_module'[e] = current_module[e]
             /\ \A e \in Devices : current_module'[e] >= current_module[e]
                                     /\ current_module'[e] \in Nat /\ current_module[e] \in Nat
<1>1. current_module[d] \in Range1(d) /\ Advances(current_module, current_module', d)
  BY Running
<1>2. current_module[d] \in Nat /\ current_module[d] >= 1
  BY <1>1 DEF Range1
<1> QED
  BY <1>1, <1>2, Advancing

\* Somebody who has passed a collective has passed the barrier before it.
LEMMA BarrierBefore ==
  ASSUME PlacesOk(current_module), BehindOk(current_module),
         NEW d \in Devices, NEW i \in Collectives(d), NEW e \in At(d, i).group,
         current_module[e] < i, PassedBy(current_module, d, i) \/ current_module[d] >= i,
         current_module[e] >= i - 1, ~PromptAt(d, i)
  PROVE  /\ i - 1 \in Collectives(d) /\ At(d, i - 1).kind = "barrier"
         /\ At(d, i).group \subseteq At(d, i - 1).group
         /\ current_module[e] = i - 1 /\ PassedBy(current_module, d, i - 1)
         /\ i - 1 + 1 = i
<1>1. /\ AfterBarrierAt(d, i) /\ i - 1 \in Collectives(d)
      /\ At(d, i).group \subseteq At(d, i - 1).group
  BY MetBefore
<1>2. At(d, i - 1).kind = "barrier"
  BY <1>1 DEF AfterBarrierAt
<1>3. /\ i \in Nat /\ d \in At(d, i).group /\ e \in Devices
      /\ \A x \in At(d, i).group : current_module[x] \in Nat
  BY Together, CollectivePlaces DEF PlacesOk, Collectives, Range1
<1>4. current_module[e] = i - 1 /\ i - 1 + 1 = i
  BY <1>3
<1>5. PassedBy(current_module, d, i - 1)
  <2>1. PICK x \in At(d, i).group : current_module[x] >= i
    BY <1>3 DEF PassedBy
  <2>2. x \in At(d, i - 1).group /\ current_module[x] > i - 1
    BY <1>1, <1>3, <2>1
  <2> QED
    BY <2>2 DEF PassedBy
<1> QED
  BY <1>1, <1>2, <1>4, <1>5

\* Everybody is there, and those who are only at the barrier before it have
\* the clock they agreed on there.
LEMMA FirstFinds ==
  ASSUME IInv, HInv, NEW d \in Devices, RunModule(d), FirstToPass(d),
         NEW e \in At(d, current_module[d]).group, current_module[e] # current_module[d]
  PROVE  /\ current_module[e] = current_module[d] - 1
         /\ device_time[e] = StartTime(d, At(d, current_module[d]))
<1> DEFINE i == current_module[d]
           G == At(d, i).group
           start == StartTime(d, At(d, i))
<1>1. /\ PlacesOk(current_module) /\ BehindOk(current_module) /\ ReadyOk(current_module, ready)
      /\ i \in Collectives(d) /\ ~PassedBy(current_module, d, i)
      /\ G \X {At(d, i).in} \subseteq ready
  BY Running, PlacesAreOk DEF IInv, FirstToPass, Collectives
<1>2. \A x \in G : /\ x \in Devices /\ current_module[x] \in Nat /\ i \in Nat
                   /\ current_module[x] >= i - 1 /\ current_module[x] <= i
                   /\ PromptAt(d, i) => current_module[x] >= i
  <2>1. ASSUME NEW x \in G PROVE current_module[x] >= i - 1 /\ (PromptAt(d, i) => current_module[x] >= i)
    BY <1>1, AllThere
  <2>2. \A x \in G : x \in Devices /\ current_module[x] \in Nat /\ i \in Nat
    BY <1>1, Together DEF PlacesOk, Collectives, Range1
  <2> QED
    BY <1>1, <2>1, <2>2 DEF PassedBy
<1>3. current_module[e] < i /\ ~PromptAt(d, i) /\ current_module[e] >= i - 1 /\ current_module[d] >= i
  BY <1>2
<1>4. /\ i - 1 \in Collectives(d) /\ At(d, i - 1).kind = "barrier" /\ G \subseteq At(d, i - 1).group
      /\ current_module[e] = i - 1 /\ PassedBy(current_module, d, i - 1) /\ i - 1 + 1 = i
  <2> HIDE DEF i
  <2> QED
    BY <1>1, <1>3, BarrierBefore DEF i
<1>5. PICK t \in Nat : Agreed(d, i - 1, t)
  <2>1. ~Settled(d, i - 1)
    BY <1>2, <1>4 DEF Settled
  <2> QED
    BY <1>4, <2>1 DEF HInv, AgreedOk
<1>6. ASSUME NEW x \in G PROVE device_time[x] = t
  <2>1. CASE current_module[x] = i
    <3>1. i \in Collectives(x) /\ At(x, i).group = G
      BY <1>1, Together
    <3>2. ~PassedBy(current_module, x, i)
      BY <1>1, <3>1 DEF PassedBy
    <3> QED
      BY <1>4, <1>5, <2>1, <3>1, <3>2 DEF Agreed
  <2>2. CASE current_module[x] <= i - 1
    BY <1>4, <1>5, <2>2 DEF Agreed
  <2> QED
    BY <1>2, <2>1, <2>2
<1>7. \E x \in G : device_time[x] = start
  BY ClockSteps
<1> QED
  BY <1>4, <1>6, <1>7

\* Another device's clock moves only when it has come to the collective too.
LEMMA ClockMoves ==
  ASSUME IInv, HInv, NEW d \in Devices, RunModule(d), NEW e \in Devices, e # d,
         device_time'[e] # device_time[e]
  PROVE  /\ FirstToPass(d) /\ e \in At(d, current_module[d]).group
         /\ current_module[e] = current_module[d]
         /\ current_module[e] \in Collectives(e)
         /\ ~PassedBy(current_module, e, current_module[e])
         /\ PassedBy(current_module', e, current_module[e])
<1> DEFINE i == current_module[d]
<1>1. FirstToPass(d) /\ e \in At(d, i).group /\ device_time'[e] = StartTime(d, At(d, i))
  BY ClockSteps
<1>2. current_module[e] = i
  BY <1>1, FirstFinds
<1>3. /\ i \in Collectives(e) /\ At(e, i).group = At(d, i).group /\ d \in At(e, i).group
  BY <1>1, Together DEF FirstToPass
<1>4. ~PassedBy(current_module, e, i)
  BY <1>1, <1>3 DEF FirstToPass, PassedBy
<1>5. PassedBy(current_module', e, i)
  <2>1. current_module'[d] > i
    BY Moving
  <2> QED
    BY <1>3, <2>1 DEF PassedBy
<1> QED
  BY <1>1, <1>2, <1>3, <1>4, <1>5

LEMMA RunCame ==
  ASSUME IInv, HInv, NEW d \in Devices, RunModule(d)
  PROVE  CameOk' /\ WentOk'
<1> DEFINE i == current_module[d]
           new == <<d, i + 1, device_time'[d]>>
           left == <<d, i, StartTime(d, At(d, i))>>
<1>1. came' = Unsettled(came) \cup {new} /\ went' = Unsettled(went) \cup {left}
  BY RunHistory
<1>2. /\ current_module'[d] = i + 1 /\ i \in Nat /\ i >= 1
      /\ \A e \in Devices : current_module'[e] >= current_module[e]
                              /\ current_module'[e] \in Nat /\ current_module[e] \in Nat
  BY Moving
<1>3. device_time'[d] \in Nat /\ StartTime(d, At(d, i)) \in Nat
  BY ClockSteps
<1>4. /\ new[1] = d /\ new[2] = i + 1 /\ new[3] = device_time'[d] /\ new = <<new[1], new[2], new[3]>>
      /\ left[1] = d /\ left[2] = i /\ left[3] = StartTime(d, At(d, i))
      /\ left = <<left[1], left[2], left[3]>>
  OBVIOUS
<1> HIDE DEF new, left
<1>5. ASSUME NEW h \in came'
      PROVE  /\ h[1] \in Devices /\ h[2] \in 1 .. current_module'[h[1]]
             /\ h[3] \in Nat /\ h = <<h[1], h[2], h[3]>>
  <2>1. CASE h \in came
    BY <1>2, <2>1 DEF HInv, CameOk
  <2>2. CASE h = new
    BY <1>2, <1>3, <1>4, <2>2
  <2> QED
    BY <1>1, <2>1, <2>2, KeptOnly
<1>6. ASSUME NEW g \in came', NEW h \in came', g[1] = h[1], g[2] = h[2] PROVE g = h
  <2>1. ASSUME NEW x \in came, x[1] = new[1] PROVE x[2] # new[2]
    BY <1>2, <1>4, <2>1 DEF HInv, CameOk
  <2> QED
    BY <1>1, <1>6, <2>1, KeptOnly DEF HInv, CameOk
<1>7. ASSUME NEW h \in went'
      PROVE  /\ h[1] \in Devices /\ h[2] \in 1 .. current_module'[h[1]] - 1
             /\ h[3] \in Nat /\ h = <<h[1], h[2], h[3]>>
  <2>1. CASE h \in went
    <3>1. /\ h[1] \in Devices /\ h[2] \in 1 .. current_module[h[1]] - 1
          /\ h[3] \in Nat /\ h = <<h[1], h[2], h[3]>>
      BY <2>1 DEF HInv, WentOk
    <3> QED
      BY <1>2, <3>1
  <2>2. CASE h = left
    BY <1>2, <1>3, <1>4, <2>2
  <2> QED
    BY <1>1, <2>1, <2>2, KeptOnly
<1> QED
  BY <1>5, <1>6, <1>7 DEF CameOk, WentOk

LEMMA RunWaiting ==
  ASSUME IInv, HInv, NEW d \in Devices, RunModule(d)
  PROVE  WaitingOk'
<1> DEFINE i == current_module[d]
           new == <<d, i + 1, device_time'[d]>>
<1>1. came' = Unsettled(came) \cup {new}
  BY RunHistory
<1>2. /\ current_module'[d] = i + 1 /\ Advances(current_module, current_module', d)
      /\ \A e \in Devices : e # d => current_module'[e] = current_module[e]
      /\ PlacesOk(current_module)
  BY Moving
<1> SUFFICES ASSUME NEW e \in Devices, Waits(e)'
             PROVE  <<e, current_module'[e], device_time'[e]>> \in came'
  BY DEF WaitingOk
<1>3. CASE e = d
  BY <1>1, <1>2, <1>3
<1>4. CASE e # d
  <2> DEFINE k == current_module[e]
             h == <<e, k, device_time[e]>>
  <2>1. k > Length(e) \/ (Syncs(At(e, k)) /\ ~PassedBy(current_module', e, k))
    BY <1>2, <1>4 DEF Waits
  <2>2. k \in Nat /\ (k > Length(e) \/ k \in Range1(e))
    BY <1>2, Places DEF PlacesOk, Range1, Length
  <2>3. /\ k \in Collectives(e) => ~(k > Length(e))
        /\ Syncs(At(e, k)) /\ k \in Range1(e) => At(e, k).kind = "recv" \/ k \in Collectives(e)
    BY <2>2, SyncKinds, Places DEF Collectives, Range1, Length
  <2>4. Waits(e)
    <3>1. ASSUME Syncs(At(e, k)), ~PassedBy(current_module', e, k), PassedBy(current_module, e, k),
                 k \in Range1(e)
          PROVE  FALSE
      <4>1. CASE k \in Collectives(e)
        BY <1>2, <3>1, <4>1, StillPassed
      <4>2. CASE k \notin Collectives(e)
        <5>1. At(e, k).group = {}
          BY <3>1, <4>2, OtherGroups DEF Collectives
        <5> QED
          BY <3>1, <5>1 DEF PassedBy
      <4> QED
        BY <4>1, <4>2
    <3> QED
      BY <2>1, <2>2, <3>1 DEF Waits
  <2>5. h \in came /\ h[1] = e /\ h[2] = k
    BY <2>4 DEF HInv, WaitingOk
  <2>6. device_time'[e] = device_time[e]
    <3>1. ASSUME device_time'[e] # device_time[e] PROVE FALSE
      <4>1. k \in Collectives(e) /\ PassedBy(current_module', e, k)
        BY <1>4, <3>1, ClockMoves
      <4> QED
        BY <2>1, <2>3, <4>1
    <3> QED
      BY <3>1
  <2> HIDE DEF h, k
  <2>7. h \in Unsettled(came)
    <3>1. CASE h[2] > Length(h[1])
      BY <1>2, <2>5, <3>1, KeptOrNot
    <3>2. CASE h[2] \in Range1(h[1]) /\ At(h[1], h[2]).kind = "recv"
      BY <1>2, <2>5, <3>2, KeptOrNot
    <3>3. CASE h[2] \in Collectives(h[1])
      <4>1. e \in At(e, k).group /\ current_module[e] <= k
        BY <2>2, <2>5, <3>3, CollectivePlaces DEF k, Collectives
      <4> QED
        BY <1>2, <2>5, <3>3, <4>1, KeptOrNot
    <3> QED
      BY <2>1, <2>2, <2>3, <2>5, <3>1, <3>2, <3>3
  <2> QED
    BY <1>1, <1>2, <1>4, <2>6, <2>7 DEF h, k
<1> QED
  BY <1>3, <1>4

\* Members see the same.
LEMMA PassedTogether ==
  ASSUME NEW cm, NEW d \in Devices, NEW i \in Collectives(d), NEW e \in At(d, i).group
  PROVE  PassedBy(cm, e, i) <=> PassedBy(cm, d, i)
BY Together DEF PassedBy

\* A device behind those who have passed a collective is at it, or at the
\* barrier before it, and the first to pass has been there.
LEMMA BehindAt ==
  ASSUME PlacesOk(current_module), BehindOk(current_module),
         NEW d \in Devices, NEW i \in Collectives(d), PassedBy(current_module, d, i),
         NEW x \in At(d, i).group, current_module[x] <= i
  PROVE  /\ current_module[x] \in Collectives(x)
         /\ PassedBy(current_module, x, current_module[x])
         /\ \/ current_module[x] = i
            \/ current_module[x] = i - 1 /\ At(x, i - 1).kind = "barrier"
<1>1. /\ x \in Devices /\ i \in Collectives(x) /\ x \in At(x, i).group
      /\ PassedBy(current_module, x, i) /\ i \in Nat /\ current_module[x] \in Nat
  BY Together, PassedTogether, CollectivePlaces DEF PlacesOk, Collectives, Range1
<1>2. current_module[x] >= i - 1 /\ (PromptAt(x, i) => current_module[x] >= i)
  BY <1>1 DEF BehindOk
<1>3. CASE current_module[x] = i
  BY <1>1, <1>3
<1>4. CASE current_module[x] # i
  <2>1. current_module[x] < i /\ ~PromptAt(x, i)
    BY <1>1, <1>2, <1>4
  <2>2. /\ i - 1 \in Collectives(x) /\ At(x, i - 1).kind = "barrier"
        /\ current_module[x] = i - 1 /\ PassedBy(current_module, x, i - 1)
    BY <1>1, <1>2, <2>1, BarrierBefore
  <2> QED
    BY <2>2
<1> QED
  BY <1>3, <1>4

\* One who is behind passes at the time agreed on.
LEMMA BehindPasses ==
  ASSUME IInv, HInv, NEW d \in Devices, RunModule(d),
         NEW e \in Devices, NEW i \in Collectives(e), PassedBy(current_module, e, i),
         NEW t, Agreed(e, i, t), d \in At(e, i).group, current_module[d] <= i
  PROVE  /\ StartTime(d, At(d, current_module[d])) = t
         /\ current_module[d] # i => current_module[d] = i - 1 /\ device_time'[d] = t
<1> DEFINE k == current_module[d]
<1>1. PlacesOk(current_module) /\ BehindOk(current_module)
  BY PlacesAreOk DEF IInv
<1>2. /\ k \in Collectives(d) /\ PassedBy(current_module, d, k)
      /\ k = i \/ (k = i - 1 /\ At(d, k).kind = "barrier")
  BY <1>1, BehindAt
<1>3. ~FirstToPass(d) /\ At(d, k).kind # "recv"
  BY <1>2, SyncKinds DEF FirstToPass, Collectives
<1>4. StartTime(d, At(d, k)) = device_time[d]
  BY <1>3, ClockSteps
<1>5. device_time[d] = t
  BY DEF Agreed
<1>6. At(d, k).kind = "barrier" => device_time'[d] = t
  BY <1>4, <1>5, ClockSteps
<1> QED
  BY <1>2, <1>4, <1>5, <1>6

LEMMA StaysSettled ==
  ASSUME IInv, HInv, NEW d \in Devices, RunModule(d),
         NEW e \in Devices, NEW i \in Collectives(e),
         \A x \in At(e, i).group : current_module[x] > i
  PROVE  Settled(e, i)'
<1> DEFINE G == At(e, i).group
           k == current_module[d]
           new == <<d, k + 1, device_time'[d]>>
           left == <<d, k, StartTime(d, At(d, k))>>
<1>1. came' = Unsettled(came) \cup {new} /\ went' = Unsettled(went) \cup {left}
  BY RunHistory
<1>2. /\ \A x \in G : x \in Devices /\ i \in Collectives(x) /\ At(x, i).group = G
      /\ i \in Nat
  BY Together DEF Collectives, Range1
<1>3. /\ \A x \in Devices : current_module'[x] >= current_module[x]
                            /\ current_module'[x] \in Nat /\ current_module[x] \in Nat
      /\ PlacesOk(current_module) /\ k \in Nat
  BY Moving
<1>4. \A x \in G : current_module'[x] > i
  BY <1>2, <1>3
<1>5. ASSUME NEW S, NEW h \in Unsettled(S), h[1] \in G, h[2] = i PROVE FALSE
  <2>1. h \in S /\ h[1] \in Devices /\ h[2] \in Collectives(h[1]) /\ At(h[1], h[2]).group = G
    BY <1>2, <1>5, KeptOnly
  <2>2. \E x \in At(h[1], h[2]).group : current_module[x] <= h[2]
    BY <1>3, <1>5, <2>1, KeptOrNot
  <2> QED
    BY <1>2, <1>3, <1>5, <2>1, <2>2
<1>6. ASSUME d \in G PROVE k + 1 # i /\ k # i
  BY <1>2, <1>3, <1>6
<1>7. new[1] = d /\ new[2] = k + 1 /\ left[1] = d /\ left[2] = k
  OBVIOUS
<1> HIDE DEF new, left
<1>8. ASSUME NEW h \in came' \cup went' PROVE ~(h[1] \in G /\ h[2] = i)
  BY <1>1, <1>5, <1>6, <1>7
<1> QED
  BY <1>4, <1>8 DEF Settled

LEMMA StaysAgreed ==
  ASSUME IInv, HInv, NEW d \in Devices, RunModule(d),
         NEW e \in Devices, NEW i \in Collectives(e), PassedBy(current_module, e, i),
         NEW y \in At(e, i).group, current_module[y] <= i,
         NEW t \in Nat, Agreed(e, i, t)
  PROVE  Agreed(e, i, t)'
<1> DEFINE G == At(e, i).group
           k == current_module[d]
           new == <<d, k + 1, device_time'[d]>>
           left == <<d, k, StartTime(d, At(d, k))>>
<1>1. came' = Unsettled(came) \cup {new} /\ went' = Unsettled(went) \cup {left}
  BY RunHistory
<1>2. /\ PlacesOk(current_module) /\ BehindOk(current_module)
      /\ k \in Nat /\ current_module'[d] = k + 1
      /\ \A x \in Devices : x # d => current_module'[x] = current_module[x]
      /\ \A x \in Devices : current_module[x] \in Nat /\ current_module'[x] \in Nat
      /\ Advances(current_module, current_module', d)
  BY Moving, PlacesAreOk DEF IInv
<1>3. /\ \A x \in G : /\ x \in Devices /\ i \in Collectives(x) /\ At(x, i).group = G
                      /\ At(x, i).kind = At(e, i).kind
      /\ i \in Nat
  BY Together DEF Collectives, Range1
\* d, when it is behind.
<1>4. ASSUME d \in G, k <= i
      PROVE  /\ StartTime(d, At(d, k)) = t
             /\ k # i => k = i - 1 /\ device_time'[d] = t
  BY <1>4, BehindPasses
\* The others.
<1>5. ASSUME NEW x \in Devices, x # d, device_time'[x] # device_time[x]
      PROVE  /\ current_module[x] \in Collectives(x)
             /\ ~PassedBy(current_module, x, current_module[x])
             /\ PassedBy(current_module', x, current_module[x])
  BY <1>5, ClockMoves
<1>6. ASSUME NEW x \in G, current_module'[x] <= i PROVE device_time'[x] = t
  <2>1. CASE x = d
    BY <1>2, <1>3, <1>4, <1>6, <2>1
  <2>2. CASE x # d
    <3>1. current_module[x] <= i
      BY <1>2, <1>3, <1>6, <2>2
    <3>2. PassedBy(current_module, x, current_module[x])
      BY <1>2, <3>1, BehindAt
    <3>3. device_time[x] = t
      BY <3>1 DEF Agreed
    <3> QED
      BY <1>3, <1>5, <2>2, <3>2, <3>3
  <2> QED
    BY <2>1, <2>2
<1>7. ASSUME At(e, i).kind = "barrier", NEW x \in G, current_module'[x] = i + 1,
             i + 1 \in Collectives(x), ~PassedBy(current_module', x, i + 1)
      PROVE  device_time'[x] = t
  <2>1. CASE x = d
    <3>1. k = i
      BY <1>2, <1>3, <1>7, <2>1
    <3>2. At(d, k).kind = "barrier" /\ StartTime(d, At(d, k)) = t
      BY <1>3, <1>4, <1>7, <2>1, <3>1
    <3> QED
      BY <2>1, <3>2, ClockSteps
  <2>2. CASE x # d
    <3>1. x \in Devices /\ current_module[x] = i + 1
      BY <1>2, <1>3, <1>7, <2>2
    <3>2. ~PassedBy(current_module, x, i + 1)
      BY <1>2, <1>7, <3>1, StillPassed
    <3>3. device_time[x] = t
      BY <1>7, <3>1, <3>2 DEF Agreed
    <3> QED
      BY <1>5, <1>7, <2>2, <3>1, <3>3
  <2> QED
    BY <2>1, <2>2
<1>8. /\ new[1] = d /\ new[2] = k + 1 /\ new[3] = device_time'[d]
      /\ left[1] = d /\ left[2] = k /\ left[3] = StartTime(d, At(d, k))
  OBVIOUS
<1>9. new = <<d, k + 1, device_time'[d]>>
  OBVIOUS
<1> HIDE DEF new, left
<1>10. ASSUME NEW h \in went', h[1] \in G, h[2] = i PROVE h[3] = t
  <2>1. CASE h \in went
    BY <1>10, <2>1 DEF Agreed
  <2>2. CASE h = left
    BY <1>2, <1>4, <1>8, <1>10, <2>2
  <2> QED
    BY <1>1, <2>1, <2>2, KeptOnly
<1>11. ASSUME NEW h \in came', h[1] \in G, h[2] = i PROVE h[3] <= t
  <2>1. CASE h \in came
    BY <1>11, <2>1 DEF Agreed
  <2>2. CASE h = new
    <3>1. d \in G /\ k + 1 = i
      BY <1>8, <1>11, <2>2
    <3>2. k <= i /\ k # i
      BY <1>2, <1>3, <3>1
    <3> QED
      BY <1>4, <1>8, <2>2, <3>1, <3>2
  <2> QED
    BY <1>1, <2>1, <2>2, KeptOnly
<1>12. \E x \in G : current_module'[x] < i \/ <<x, i, t>> \in came'
  <2>1. PICK x \in G : current_module[x] < i \/ <<x, i, t>> \in came
    BY DEF Agreed
  <2>2. CASE <<x, i, t>> \in came
    <3> DEFINE h == <<x, i, t>>
    <3>1. h \in came /\ h[1] = x /\ h[2] = i
      BY <2>2
    <3> HIDE DEF h
    <3>2. h[1] \in Devices /\ h[2] \in Collectives(h[1]) /\ At(h[1], h[2]).group = G
      BY <1>3, <3>1
    <3>3. \E z \in At(h[1], h[2]).group : current_module[z] <= h[2]
      BY <3>1, <3>2
    <3>4. h \in Unsettled(came)
      BY <1>2, <3>1, <3>2, <3>3, KeptOrNot
    <3> QED
      BY <1>1, <3>4 DEF h
  <2>3. CASE current_module[x] < i /\ x # d
    BY <1>2, <1>3, <2>3
  <2>4. CASE current_module[x] < i /\ x = d
    <3>1. k + 1 = i /\ device_time'[d] = t
      BY <1>2, <1>3, <1>4, <2>4
    <3>2. new = <<x, i, t>>
      BY <1>9, <2>4, <3>1
    <3> QED
      BY <1>1, <3>2
  <2> QED
    BY <2>1, <2>2, <2>3, <2>4
<1> QED
  BY <1>6, <1>7, <1>10, <1>11, <1>12 DEF Agreed

\* The first to pass sets the time.
LEMMA BecomesAgreed ==
  ASSUME IInv, HInv, NEW d \in Devices, RunModule(d),
         NEW e \in Devices, NEW i \in Collectives(e),
         ~PassedBy(current_module, e, i), PassedBy(current_module', e, i)
  PROVE  \E t \in Nat : Agreed(e, i, t)'
<1> DEFINE G == At(e, i).group
           t == StartTime(d, At(d, i))
           new == <<d, i + 1, device_time'[d]>>
           left == <<d, i, t>>
<1>1. /\ PlacesOk(current_module)
      /\ current_module'[d] = current_module[d] + 1
      /\ \A x \in Devices : x # d => current_module'[x] = current_module[x]
      /\ \A x \in Devices : current_module[x] \in Nat /\ current_module'[x] \in Nat
      /\ Advances(current_module, current_module', d)
  BY Moving
<1>2. i = current_module[d] /\ i \in Collectives(d) /\ d \in G /\ e \in At(d, i).group
  BY <1>1, NewlyPassed
<1>3. /\ \A x \in G : /\ x \in Devices /\ i \in Collectives(x) /\ At(x, i).group = G
                      /\ At(x, i).kind = At(e, i).kind /\ x \in At(x, i).group
      /\ i \in Nat
  BY Together, CollectivePlaces DEF Collectives, Range1
<1>4. \A x \in G : ~PassedBy(current_module, x, i) /\ ~(current_module[x] > i)
  BY PassedTogether DEF PassedBy
<1>5. FirstToPass(d) /\ At(d, i).group = G
  BY <1>2, <1>3, <1>4 DEF FirstToPass
<1>6. came' = Unsettled(came) \cup {new} /\ went' = Unsettled(went) \cup {left}
  BY <1>2, RunHistory
<1>7. /\ t \in Nat /\ (At(e, i).kind = "barrier" => device_time'[d] = t)
      /\ \A x \in G : device_time[x] <= t
      /\ \E x \in G : device_time[x] = t
      /\ \A x \in G : x # d => device_time'[x] = t
  BY <1>2, <1>3, <1>5, ClockSteps
<1>8. /\ new[1] = d /\ new[2] = i + 1 /\ left[1] = d /\ left[2] = i /\ left[3] = t
  OBVIOUS
\* Those who are there have been so since they came.
<1>9. ASSUME NEW x \in G, current_module[x] = i
      PROVE  <<x, i, device_time[x]>> \in came
  <2>1. Syncs(At(x, i))
    BY <1>3, SyncKinds DEF Collectives
  <2>2. Waits(x)
    BY <1>3, <1>4, <1>9, <2>1 DEF Waits
  <2> QED
    BY <1>3, <1>9, <2>2 DEF HInv, WaitingOk
<1> HIDE DEF new, left, t, G
<1>10. ASSUME NEW x \in G, current_module'[x] <= i PROVE device_time'[x] = t
  BY <1>1, <1>2, <1>3, <1>7, <1>10
<1>11. ASSUME At(e, i).kind = "barrier", NEW x \in G, current_module'[x] = i + 1
       PROVE  device_time'[x] = t
  BY <1>1, <1>3, <1>4, <1>7, <1>11
<1>12. ASSUME NEW h \in went', h[1] \in G, h[2] = i PROVE h[3] = t
  <2>1. CASE h \in went
    <3>1. h[2] \in 1 .. current_module[h[1]] - 1
      BY <2>1 DEF HInv, WentOk
    <3> QED
      BY <1>1, <1>3, <1>4, <1>12, <3>1
  <2>2. CASE h = left
    BY <1>8, <2>2
  <2> QED
    BY <1>6, <2>1, <2>2, KeptOnly
<1>13. ASSUME NEW h \in came', h[1] \in G, h[2] = i PROVE h[3] <= t
  <2>1. CASE h \in came
    <3>1. current_module[h[1]] = i
      <4>1. h[2] \in 1 .. current_module[h[1]]
        BY <2>1 DEF HInv, CameOk
      <4> QED
        BY <1>1, <1>3, <1>4, <1>13, <4>1
    <3> DEFINE g == <<h[1], i, device_time[h[1]]>>
    <3>2. g \in came /\ g[1] = h[1] /\ g[2] = i /\ g[3] = device_time[h[1]]
      BY <1>9, <1>13, <3>1
    <3> HIDE DEF g
    <3>3. g = h
      BY <1>13, <2>1, <3>2 DEF HInv, CameOk
    <3> QED
      BY <1>7, <1>13, <3>2, <3>3
  <2>2. CASE h = new
    BY <1>3, <1>8, <1>13, <2>2
  <2> QED
    BY <1>6, <2>1, <2>2, KeptOnly
<1>14. \E x \in G : current_module'[x] < i \/ <<x, i, t>> \in came'
  <2>1. PICK x \in G : device_time[x] = t
    BY <1>7
  <2>2. CASE current_module[x] = i
    <3> DEFINE h == <<x, i, t>>
    <3>1. h \in came /\ h[1] = x /\ h[2] = i
      BY <1>9, <2>1, <2>2
    <3> HIDE DEF h
    <3>2. h[1] \in Devices /\ h[2] \in Collectives(h[1]) /\ At(h[1], h[2]).group = G
      BY <1>3, <3>1
    <3>3. \E z \in At(h[1], h[2]).group : current_module[z] <= h[2]
      BY <1>3, <2>2, <3>1, <3>2
    <3>4. h \in Unsettled(came)
      BY <1>1, <3>1, <3>2, <3>3, KeptOrNot
    <3> QED
      BY <1>6, <3>4 DEF h
  <2>3. CASE current_module[x] # i
    BY <1>1, <1>2, <1>3, <1>4, <2>3
  <2> QED
    BY <2>2, <2>3
<1>15. PICK u \in Nat : u = t
  BY <1>7
<1>16. Agreed(e, i, u)'
  BY <1>10, <1>11, <1>12, <1>13, <1>14, <1>15 DEF Agreed, G
<1> QED
  BY <1>16

LEMMA RunAgreed ==
  ASSUME IInv, HInv, NEW d \in Devices, RunModule(d)
  PROVE  AgreedOk'
<1> SUFFICES ASSUME NEW e \in Devices, NEW i \in Collectives(e), PassedBy(current_module', e, i)
             PROVE  (\E t \in Nat : Agreed(e, i, t)') \/ Settled(e, i)'
  BY DEF AgreedOk
<1>1. CASE ~PassedBy(current_module, e, i)
  BY <1>1, BecomesAgreed
<1>2. CASE \A x \in At(e, i).group : current_module[x] > i
  BY <1>2, StaysSettled
<1>3. CASE PassedBy(current_module, e, i) /\ ~(\A x \in At(e, i).group : current_module[x] > i)
  <2>1. PICK y \in At(e, i).group : ~(current_module[y] > i)
    BY <1>3
  <2>2. current_module[y] <= i
    <3>1. y \in Devices /\ i \in Nat
      BY Together DEF Collectives, Range1
    <3>2. current_module[y] \in Nat
      BY <3>1, Moving
    <3> QED
      BY <2>1, <3>1, <3>2
  <2>3. PICK t \in Nat : Agreed(e, i, t)
    BY <1>3 DEF HInv, AgreedOk, Settled
  <2> QED
    BY <1>3, <2>2, <2>3, StaysAgreed
<1> QED
  BY <1>1, <1>2, <1>3

\* Who meets when a stage receives.
LEMMA MeetToReceive ==
  ASSUME NEW d \in Devices, NEW i \in Range1(d), At(d, i).kind = "recv"
  PROVE  LET p == PpPeer(d, -1)
         IN  /\ i = 1 /\ PpRank(d) > 0 /\ p \in Devices /\ p # d
             /\ \A a : <<a[1], a[2]>> \in Meeting(d, i) <=>
                         \/ a[1] = d /\ a[2] = 1
                         \/ a[1] = p /\ a[2] = Length(p) + 1
<1> DEFINE p == PpPeer(d, -1)
<1>1. i = 1 /\ PpRank(d) > 0 /\ p \in Devices
  BY ReceivingPlaces, Senders
<1>2. p # d
  BY DevicesFinite, Degrees DEF PpPeer
<1>3. Meeting(d, i) = {<<d, 1>>, <<p, Length(p) + 1>>}
  BY <1>1 DEF Meeting, At, Length
<1> HIDE DEF p
<1>4. ASSUME NEW a
      PROVE  <<a[1], a[2]>> \in Meeting(d, i) <=>
               \/ a[1] = d /\ a[2] = 1
               \/ a[1] = p /\ a[2] = Length(p) + 1
  BY <1>3
<1> QED
  BY <1>1, <1>2, <1>4 DEF p

LEMMA RunReceived ==
  ASSUME IInv, HInv, NEW d \in Devices, RunModule(d)
  PROVE  ReceivedOk'
<1> DEFINE k == current_module[d]
           new == <<d, k + 1, device_time'[d]>>
           left == <<d, k, StartTime(d, At(d, k))>>
<1>1. came' = Unsettled(came) \cup {new} /\ went' = Unsettled(went) \cup {left}
  BY RunHistory
<1>2. /\ k \in Range1(d) /\ k \in Nat /\ k >= 1 /\ current_module'[d] = k + 1
      /\ \A x \in Devices : x # d => current_module'[x] = current_module[x]
      /\ \A x \in Devices : current_module[x] \in Nat
      /\ PlacesOk(current_module)
  BY Moving
<1>3. SentOk(current_module) /\ SentOk(current_module')
  <2>1. IInv'
    BY RunInv
  <2> QED
    BY <2>1 DEF IInv
<1>4. /\ new[1] = d /\ new[2] = k + 1
      /\ left[1] = d /\ left[2] = k /\ left[3] = StartTime(d, At(d, k))
  OBVIOUS
<1> HIDE DEF new, left
<1> SUFFICES ASSUME NEW w \in went', At(w[1], w[2]).kind = "recv"
             PROVE  /\ \A a \in Arrivals(w)' : a[3] <= w[3]
                    /\ \E a \in Arrivals(w)' : a[3] = w[3]
  BY DEF ReceivedOk
<1> DEFINE r == w[1]
           p == PpPeer(r, -1)
<1>5. r \in Devices /\ w[2] \in Range1(r) /\ current_module'[r] > 1
  <2>1. CASE w \in went
    <3>1. r \in Devices /\ w[2] \in 1 .. current_module[r] - 1
      BY <2>1 DEF HInv, WentOk
    <3>2. w[2] \in 1 .. Length(r) /\ current_module[r] > 1
      BY <1>2, <3>1, Places DEF PlacesOk
    <3> QED
      BY <1>2, <3>1, <3>2 DEF Range1, Length
  <2>2. CASE w = left
    BY <1>2, <1>4, <2>2
  <2> QED
    BY <1>1, <2>1, <2>2, KeptOnly
<1>6. /\ w[2] = 1 /\ PpRank(r) > 0 /\ p \in Devices /\ p # r
      /\ \A a : <<a[1], a[2]>> \in Meeting(r, w[2]) <=>
                  \/ a[1] = r /\ a[2] = 1
                  \/ a[1] = p /\ a[2] = Length(p) + 1
  BY <1>5, MeetToReceive
<1>7. current_module'[p] = Length(p) + 1 /\ Length(p) \in Nat
  BY <1>3, <1>5, <1>6, Places DEF SentOk
\* Whatever is compared stays in the history.
<1>8. ASSUME NEW a \in came, a \in Arrivals(w) PROVE a \in Unsettled(came)
  <2>1. \/ a[1] = r /\ a[2] = 1
        \/ a[1] = p /\ a[2] = Length(p) + 1
    BY <1>6, <1>8 DEF Arrivals
  <2>2. CASE a[1] = r /\ a[2] = 1
    BY <1>2, <1>5, <1>6, <2>2, KeptOrNot
  <2>3. CASE a[1] = p /\ a[2] = Length(p) + 1
    BY <1>2, <1>6, <1>7, <2>3, KeptOrNot
  <2> QED
    BY <2>1, <2>2, <2>3
\* What d has come to is not, when its peer is there already.
<1>9. p # d => new \notin Arrivals(w)'
  <2>1. new[2] # 1
    BY <1>2, <1>4
  <2> QED
    BY <1>4, <1>6, <2>1 DEF Arrivals
<1>10. Arrivals(w)' = {a \in came' : <<a[1], a[2]>> \in Meeting(r, w[2])}
  BY DEF Arrivals
<1>11. CASE w \in went
  <2>1. current_module[r] > 1
    <3>1. w[2] \in 1 .. current_module[r] - 1
      BY <1>11 DEF HInv, WentOk
    <3> QED
      BY <1>2, <1>5, <3>1
  <2>2. p # d
    <3>1. current_module[p] = Length(p) + 1
      BY <1>3, <1>5, <1>6, <2>1 DEF SentOk
    <3> QED
      BY <1>2, <1>7, <3>1
  <2>3. Arrivals(w)' = Arrivals(w)
    <3>1. \A a \in Arrivals(w)' : a \in Arrivals(w)
      BY <1>1, <1>9, <1>10, <2>2, KeptOnly DEF Arrivals
    <3>2. \A a \in Arrivals(w) : a \in Arrivals(w)'
      BY <1>1, <1>8, <1>10 DEF Arrivals
    <3> QED
      BY <3>1, <3>2
  <2> QED
    BY <1>11, <2>3 DEF HInv, ReceivedOk
<1>12. CASE w = left
  <2>1. r = d /\ k = 1 /\ w[3] = StartTime(d, At(d, 1)) /\ At(d, 1).kind = "recv"
    BY <1>4, <1>6, <1>12
  <2>2. current_module[p] = Length(p) + 1
    BY <1>2, <1>6, <1>7, <2>1
  <2>3. /\ device_time[d] <= w[3] /\ device_time[p] <= w[3]
        /\ w[3] \in {device_time[d], device_time[p]}
    <3>1. device_time \in [Devices -> Nat]
      BY DEF IInv, GraphTypeOK
    <3> QED
      BY <1>2, <2>1, <3>1, ClocksOk
  <2>4. <<d, 1, device_time[d]>> \in came
    <3>1. Syncs(At(d, 1)) /\ At(d, 1).group = {}
      BY <1>2, <2>1, SyncKinds, OtherGroups
    <3>2. Waits(d)
      BY <2>1, <3>1 DEF Waits, PassedBy
    <3> QED
      BY <2>1, <3>2 DEF HInv, WaitingOk
  <2>5. <<p, Length(p) + 1, device_time[p]>> \in came
    <3>1. Waits(p)
      BY <1>7, <2>2 DEF Waits
    <3> QED
      BY <1>6, <2>2, <3>1 DEF HInv, WaitingOk
  <2> DEFINE x == <<d, 1, device_time[d]>>
             y == <<p, Length(p) + 1, device_time[p]>>
  <2>6. /\ x \in came /\ x[1] = d /\ x[2] = 1 /\ x[3] = device_time[d]
        /\ y \in came /\ y[1] = p /\ y[2] = Length(p) + 1 /\ y[3] = device_time[p]
    BY <2>4, <2>5
  <2> HIDE DEF x, y, p, r
  <2>7. x \in Arrivals(w) /\ y \in Arrivals(w)
    BY <1>6, <2>1, <2>6 DEF Arrivals, r
  <2>8. x \in Arrivals(w)' /\ y \in Arrivals(w)'
    BY <1>1, <1>8, <1>10, <2>7 DEF Arrivals, r
  <2>9. ASSUME NEW a \in Arrivals(w)' PROVE a \in {x, y}
    <3>1. a \in came
      BY <1>1, <1>6, <1>9, <1>10, <2>1, <2>9, KeptOnly
    <3>2. (a[1] = x[1] /\ a[2] = x[2]) \/ (a[1] = y[1] /\ a[2] = y[2])
      BY <1>6, <1>10, <2>1, <2>6, <2>9
    <3> QED
      BY <2>6, <3>1, <3>2 DEF HInv, CameOk
  <2> QED
    BY <2>3, <2>6, <2>8, <2>9
<1> QED
  BY <1>1, <1>11, <1>12, KeptOnly

\* Where every device has just come to its first module, nothing is to compare.
LEMMA FreshHistory ==
  ASSUME NEW times \in [Devices -> Nat], device_time = times,
         current_module = [d \in Devices |-> 1],
         came = {<<d, 1, times[d]>> : d \in Devices}, went = {}
  PROVE  HInv
<1>1. ASSUME NEW h \in came
      PROVE  h[1] \in Devices /\ h[2] = 1 /\ h = <<h[1], 1, times[h[1]]>> /\ h[3] = times[h[1]]
  OBVIOUS
<1>2. CameOk
  BY <1>1 DEF CameOk
<1>3. WentOk /\ ReceivedOk
  BY DEF WentOk, ReceivedOk
<1>4. WaitingOk
  BY DEF WaitingOk
<1>5. AgreedOk
  <2>1. ASSUME NEW d \in Devices, NEW i \in Collectives(d), PassedBy(current_module, d, i) PROVE FALSE
    <3>1. PICK e \in At(d, i).group : current_module[e] > i
      BY <2>1 DEF PassedBy
    <3>2. e \in Devices /\ i \in Nat /\ i >= 1
      BY Together DEF Collectives, Range1
    <3> QED
      BY <3>1, <3>2
  <2> QED
    BY <2>1 DEF AgreedOk
<1> QED
  BY <1>2, <1>3, <1>4, <1>5 DEF HInv

LEMMA RestartHistory ==
  ASSUME NEW times \in [Devices -> Nat], Restart(times)
  PROVE  HInv'
<1>1. /\ current_module' = [d \in Devices |-> 1] /\ device_time' = times
      /\ came' = {<<d, 1, times[d]>> : d \in Devices} /\ went' = {}
  BY DEF Restart
<1>2. ASSUME NEW h \in came'
      PROVE  h[1] \in Devices /\ h[2] = 1 /\ h = <<h[1], 1, times[h[1]]>> /\ h[3] = times[h[1]]
  BY <1>1
<1>3. CameOk'
  BY <1>1, <1>2 DEF CameOk
<1>4. WentOk' /\ ReceivedOk'
  BY <1>1 DEF WentOk, ReceivedOk
<1>5. WaitingOk'
  BY <1>1 DEF WaitingOk
<1>6. AgreedOk'
  <2>1. ASSUME NEW d \in Devices, NEW i \in Collectives(d), PassedBy(current_module', d, i) PROVE FALSE
    <3>1. PICK e \in At(d, i).group : current_module'[e] > i
      BY <2>1 DEF PassedBy
    <3>2. e \in Devices /\ i \in Nat /\ i >= 1
      BY Together DEF Collectives, Range1
    <3> QED
      BY <1>1, <3>1, <3>2
  <2> QED
    BY <2>1 DEF AgreedOk
<1> QED
  BY <1>3, <1>4, <1>5, <1>6 DEF HInv

LEMMA SameHistory ==
  ASSUME HInv, UNCHANGED <<current_module, device_time, came, went>>
  PROVE  HInv'
<1>1. CameOk' /\ WentOk'
  BY DEF HInv, CameOk, WentOk
<1>2. WaitingOk'
  BY DEF HInv, WaitingOk, Waits
<1>3. AgreedOk'
  <2>1. ASSUME NEW d \in Devices, NEW i \in Collectives(d), NEW t, Agreed(d, i, t)
        PROVE  Agreed(d, i, t)'
    BY <2>1 DEF Agreed
  <2>2. ASSUME NEW d \in Devices, NEW i \in Collectives(d), Settled(d, i)
        PROVE  Settled(d, i)'
    BY <2>2 DEF Settled
  <2> QED
    BY <2>1, <2>2 DEF HInv, AgreedOk
<1>4. ReceivedOk'
  BY DEF HInv, ReceivedOk, Arrivals
<1> QED
  BY <1>1, <1>2, <1>3, <1>4 DEF HInv

LEMMA InitHistory == Init => HInv
<1> SUFFICES ASSUME Init PROVE HInv
  OBVIOUS
<1> DEFINE times == [d \in Devices |-> 0]
<1>1. /\ times \in [Devices -> Nat] /\ device_time = times
      /\ current_module = [d \in Devices |-> 1]
      /\ came = {<<d, 1, times[d]>> : d \in Devices} /\ went = {}
  BY DEF Init
<1> HIDE DEF times
<1> QED
  BY <1>1, FreshHistory

LEMMA NextHistory == IInv /\ HInv /\ [Next]_vars => HInv'
<1> SUFFICES ASSUME IInv, HInv, [Next]_vars PROVE HInv'
  OBVIOUS
<1>1. ASSUME NEW d \in Devices, RunModule(d) PROVE HInv'
  BY <1>1, RunCame, RunWaiting, RunAgreed, RunReceived DEF HInv
<1>2. ASSUME NextDevice \/ SweepAgain PROVE HInv'
  <2>1. UNCHANGED <<current_module, device_time, came, went>>
    BY <1>2 DEF NextDevice, SweepAgain, graphVars
  <2> QED
    BY <2>1, SameHistory
<1>3. ASSUME RestartModuleGraph PROVE HInv'
  <2>1. [d \in Devices |-> 0] \in [Devices -> Nat]
    OBVIOUS
  <2> QED
    BY <1>3, <2>1, RestartHistory DEF RestartModuleGraph
<1>4. ASSUME RestartGraphOnly PROVE HInv'
  <2>1. device_time \in [Devices -> Nat]
    BY DEF IInv, GraphTypeOK
  <2> QED
    BY <1>4, <2>1, RestartHistory DEF RestartGraphOnly
<1>5. CASE UNCHANGED vars
  <2>1. UNCHANGED <<current_module, device_time, came, went>>
    BY <1>5 DEF vars, graphVars
  <2> QED
    BY <2>1, SameHistory
<1> QED
  BY <1>1, <1>2, <1>3, <1>4, <1>5 DEF Next

\* If all members have come, so has the one that was last.
LEMMA LastArrival ==
  ASSUME CameOk, PlacesOk(current_module), NEW w, w[1] \in Devices, w[2] \in Collectives(w[1]),
         NEW e \in At(w[1], w[2]).group, current_module[e] < w[2]
  PROVE  Cardinality(Arrivals(w)) # Cardinality(Meeting(w[1], w[2]))
<1> DEFINE d == w[1]
           i == w[2]
           G == At(d, i).group
           M == Meeting(d, i)
           A == Arrivals(w)
           f == [a \in A |-> <<a[1], a[2]>>]
<1>1. i \in Range1(d) /\ i \in Nat /\ G \subseteq Devices /\ IsFiniteSet(G) /\ Collects(At(d, i))
  BY GroupsFinite DEF Collectives, Range1
<1>2. M = G \X {i}
  <2>1. At(d, i).kind # "recv"
    BY <1>1, SyncKinds
  <2> QED
    BY <2>1 DEF Meeting, At
<1>3. IsFiniteSet(M)
  <2>1. IsFiniteSet({i})
    BY FS_Singleton
  <2>2. IsFiniteSet(G \X {i})
    <3> HIDE DEF G, i
    <3> QED
      BY <1>1, <2>1, FS_Product
  <2> QED
    BY <1>2, <2>2
<1>4. \A a \in A : a \in came /\ f[a] = <<a[1], a[2]>> /\ f[a] \in M
  BY DEF Arrivals
<1>5. f \in [A -> M]
  BY <1>4
<1>6. \A a, b \in A : f[a] = f[b] => a = b
  <2>1. ASSUME NEW a \in A, NEW b \in A, f[a] = f[b] PROVE a = b
    <3>1. <<a[1], a[2]>> = <<b[1], b[2]>>
      BY <1>4, <2>1
    <3>2. a[1] = b[1] /\ a[2] = b[2]
      BY <3>1
    <3> QED
      BY <1>4, <3>2 DEF CameOk
  <2> QED
    BY <2>1
<1>7. f \notin Surjection(A, M)
  <2>1. ASSUME NEW a \in A, f[a] = <<e, i>> PROVE FALSE
    <3>1. a[1] = e /\ a[2] = i
      BY <1>4, <2>1
    <3>2. a[2] \in 1 .. current_module[a[1]] /\ a[1] \in Devices
      BY <1>4 DEF CameOk
    <3>3. current_module[e] \in Nat
      BY <3>1, <3>2 DEF PlacesOk
    <3> QED
      BY <1>1, <3>1, <3>2, <3>3
  <2>2. <<e, i>> \in M
    BY <1>2
  <2> QED
    BY <2>1, <2>2 DEF Surjection
<1> HIDE DEF f, A, M
<1>8. f \in Injection(A, M)
  BY <1>5, <1>6 DEF Injection, IsInjective
<1>9. Cardinality(A) # Cardinality(M)
  BY <1>3, <1>7, <1>8, FS_Injection
<1> QED
  BY <1>9 DEF A, M

LEMMA TimesFollow == IInv /\ HInv => CollectiveTimes
<1> SUFFICES ASSUME IInv, HInv, NEW w \in went, Syncs(At(w[1], w[2]))
             PROVE  /\ \A a \in Arrivals(w) : a[3] <= w[3]
                    /\ Cardinality(Arrivals(w)) = Cardinality(Meeting(w[1], w[2])) =>
                         \E a \in Arrivals(w) : a[3] = w[3]
  BY DEF CollectiveTimes, Arrivals, At
<1> DEFINE d == w[1]
           i == w[2]
           G == At(d, i).group
<1>1. PlacesOk(current_module)
  BY PlacesAreOk DEF IInv
<1>2. /\ d \in Devices /\ i \in 1 .. current_module[d] - 1 /\ i \in Nat
      /\ i \in Range1(d) /\ current_module[d] > i
  <2>1. d \in Devices /\ i \in 1 .. current_module[d] - 1
    BY DEF HInv, WentOk
  <2> QED
    BY <1>1, <2>1, Places DEF PlacesOk, Range1, Length
<1>3. CASE At(d, i).kind = "recv"
  BY <1>3 DEF HInv, ReceivedOk
<1>4. CASE At(d, i).kind # "recv"
  <2>1. Collects(At(d, i)) /\ i \in Collectives(d)
    BY <1>2, <1>4, SyncKinds DEF Collectives
  <2>2. d \in G /\ PassedBy(current_module, d, i)
    BY <1>2, <2>1, CollectivePlaces DEF PassedBy
  <2>3. PICK t \in Nat : Agreed(d, i, t)
    BY <1>2, <2>1, <2>2 DEF HInv, AgreedOk, Settled
  <2>4. Meeting(d, i) = G \X {i}
    BY <1>4 DEF Meeting, At
  <2>5. \A a \in Arrivals(w) : a \in came /\ a[1] \in G /\ a[2] = i
    BY <2>4 DEF Arrivals
  <2>6. w[3] = t /\ \A a \in Arrivals(w) : a[3] <= t
    BY <2>2, <2>3, <2>5 DEF Agreed
  <2>7. ASSUME Cardinality(Arrivals(w)) = Cardinality(Meeting(d, i))
        PROVE  \E a \in Arrivals(w) : a[3] = w[3]
    <3>1. PICK e \in G : current_module[e] < i \/ <<e, i, t>> \in came
      BY <2>3 DEF Agreed
    <3>2. ~(current_module[e] < i)
      BY <1>1, <1>2, <2>1, <2>7, LastArrival DEF HInv
    <3> DEFINE a == <<e, i, t>>
    <3>3. a \in came /\ a[1] = e /\ a[2] = i /\ a[3] = t
      BY <3>1, <3>2
    <3> HIDE DEF a
    <3>4. a \in Arrivals(w)
      BY <2>4, <3>3 DEF Arrivals
    <3> QED
      BY <2>6, <3>3, <3>4
  <2> QED
    BY <2>6, <2>7
<1> QED
  BY <1>3, <1>4

\* Every member of a collective leaves it at the time the last one reached it,
\* and a stage starts when it is free and the activation has been sent, for any
\* layout of the devices, any network and any costs (ModuleGraph::sync_devices,
\* PipelineRecv::forward, the syncs of ExpertFFN::forward).
THEOREM CollectiveTimesCorrect == Spec => []CollectiveTimes
<1>1. Init => IInv /\ HInv
  BY InitInv, InitHistory
<1>2. (IInv /\ HInv) /\ [Next]_vars => (IInv /\ HInv)'
  BY NextInv, NextHistory
<1> QED
  BY <1>1, <1>2, TimesFollow, PTL DEF Spec

-----------------------------------------------------------------------------
(* Whose token counts are read *)

\* The devices of a stage have one leader: the counts are in one place, and with
\* deepseekV3 every replica would have a leader of its own.
OneLeader == DeepSeek => DpDegree = 1

LEMMA StageIsGroup ==
  ASSUME OneLeader, NEW d \in Devices
  PROVE  ExpertGroup(d) = StageGroup(d)
<1>1. CASE ~DeepSeek
  BY <1>1 DEF ExpertGroup
<1>2. CASE DeepSeek
  <2>1. ASSUME NEW e \in Devices PROVE PpRank(e) = e \div NeTp
    <3> DEFINE q == e \div NeTp
               b == e % NeTp
    <3>1. /\ q \in Nat /\ b \in 0 .. NeTp - 1 /\ e = q * NeTp + b
          /\ NeTp \in Nat \ {0} /\ PpDegree \in Nat \ {0} /\ DpDegree = 1
      BY <1>2, Ranks, Degrees DEF OneLeader
    <3> HIDE DEF q, b
    <3>2. q < PpDegree * DpDegree
      BY <3>1, DeviceIs
    <3>3. q < PpDegree /\ q = 0 * PpDegree + q
      BY <3>1, <3>2
    <3>4. (0 * PpDegree + q) % PpDegree = q
      BY <3>1, <3>3, DivisionUnique
    <3> QED
      BY <3>3, <3>4 DEF PpRank, q
  <2>2. TpGroup(d) = StageGroup(d)
    BY <2>1 DEF TpGroup, StageGroup
  <2> QED
    BY <1>2, <2>2 DEF ExpertGroup
<1> QED
  BY <1>1, <1>2

LEMMA LeaderIs ==
  ASSUME NEW d \in Devices
  PROVE  /\ Leader(d) \in ExpertGroup(d) /\ Leader(d) \in Devices
         /\ PpRank(Leader(d)) = PpRank(d) /\ Leader(Leader(d)) = Leader(d)
         /\ ExpertGroup(Leader(d)) = ExpertGroup(d)
<1> DEFINE G == ExpertGroup(d)
<1>1. G \in SUBSET Nat /\ G # {}
  BY LocalRanks, ExpertGroups
<1>2. Min(G) \in G
  <2> HIDE DEF G
  <2>1. \E x \in G : \A y \in G : x <= y
    BY <1>1, LeastElement
  <2> QED
    BY <2>1 DEF Min
<1> QED
  BY <1>2, ExpertGroups DEF Leader

\* Nobody passes a meeting before everybody has come to it.
LEMMA HaveMet ==
  ASSUME IInv, NEW d \in Devices, NEW b, MeetsAt(d, b),
         NEW e \in ExpertGroup(d), current_module[e] > b
  PROVE  current_module[d] >= b
<1>1. b \in Range1(d) /\ At(d, b).kind = "barrier" /\ At(d, b).group = ExpertGroup(d)
  BY DEF MeetsAt, Meets
<1>2. b \in Collectives(d) /\ PromptAt(d, b)
  BY <1>1, CollectivePlaces DEF Collectives, Collects
<1>3. PassedBy(current_module, d, b)
  BY <1>1 DEF PassedBy
<1> QED
  BY <1>2, <1>3 DEF IInv, BehindOk

\* The devices that exchange tokens meet at the same place.
LEMMA MeetAlike ==
  ASSUME NEW d \in Devices, NEW b, MeetsAt(d, b), NEW e \in ExpertGroup(d)
  PROVE  e \in Devices /\ MeetsAt(e, b) /\ d \in ExpertGroup(e) /\ b \in Nat
<1>1. /\ e \in Devices /\ PpRank(e) = PpRank(d) /\ ExpertGroup(e) = ExpertGroup(d)
      /\ d \in ExpertGroup(d)
  BY ExpertGroups
<1>2. b \in Range1(d) /\ At(d, b).kind = "barrier" /\ At(d, b).group = ExpertGroup(d)
  BY DEF MeetsAt, Meets
<1>3. /\ Range1(e) = Range1(d) /\ At(e, b).kind = At(d, b).kind
      /\ At(e, b).group = At(d, b).group
  BY <1>1, <1>2, StageAlike
<1> QED
  BY <1>1, <1>2, <1>3 DEF MeetsAt, Meets, Range1

\* Where all devices of a stage have started, the stages before it have ended.
LEMMA EarlierEnded ==
  ASSUME IInv, NEW p \in 0 .. PpDegree - 1,
         \A x \in Devices : PpRank(x) = p => current_module[x] > 1
  PROVE  \A y \in Devices : PpRank(y) < p => current_module[y] = Length(y) + 1
<1> DEFINE S == {n \in Nat : \A y \in Devices :
                               PpRank(y) + n + 1 = p => current_module[y] = Length(y) + 1}
<1>1. p \in Nat /\ p <= PpDegree - 1 /\ PpDegree \in Nat
  BY Degrees
<1>2. \A y \in Devices : PpRank(y) \in Nat
  BY Ranks, Degrees
<1>3. ASSUME NEW y \in Devices, PpRank(y) < p,
             \A e \in Devices : PpRank(e) = PpRank(y) + 1 => current_module[e] > 1
      PROVE  current_module[y] = Length(y) + 1
  <2>1. PICK e \in Devices : PpRank(e) = PpRank(y) + 1 /\ PpPeer(e, -1) = y
    BY <1>1, <1>2, <1>3, Receivers
  <2>2. PpRank(e) > 0 /\ current_module[e] > 1
    BY <1>2, <1>3, <2>1
  <2> QED
    BY <2>1, <2>2 DEF IInv, SentOk
<1>4. 0 \in S
  BY <1>1, <1>2, <1>3
<1>5. ASSUME NEW n \in Nat, n \in S PROVE n + 1 \in S
  <2> SUFFICES ASSUME NEW y \in Devices, PpRank(y) + (n + 1) + 1 = p
               PROVE  current_module[y] = Length(y) + 1
    OBVIOUS
  <2>1. PpRank(y) < p
    BY <1>1, <1>2
  <2>2. ASSUME NEW e \in Devices, PpRank(e) = PpRank(y) + 1 PROVE current_module[e] > 1
    <3>1. PpRank(e) + n + 1 = p
      BY <1>2, <2>2
    <3>2. current_module[e] = Length(e) + 1
      BY <1>5, <3>1
    <3> QED
      BY <3>2, Places
  <2> QED
    BY <1>3, <2>1, <2>2
<1> HIDE DEF S
<1>6. Nat \subseteq S
  BY <1>4, <1>5, SetInduction
<1>7. ASSUME NEW y \in Devices, PpRank(y) < p PROVE current_module[y] = Length(y) + 1
  <2> DEFINE n == p - PpRank(y) - 1
  <2>1. n \in Nat /\ PpRank(y) + n + 1 = p
    BY <1>1, <1>2, <1>7
  <2> HIDE DEF n
  <2> QED
    BY <1>6, <2>1 DEF S
<1> QED
  BY <1>7

\* So they have when a device has passed a meeting of its stage.
LEMMA MetMeansEnded ==
  ASSUME IInv, OneLeader, NEW d \in Devices, NEW b, MeetsAt(d, b), b > 1, current_module[d] > b,
         NEW y \in Devices, PpRank(y) < PpRank(d)
  PROVE  current_module[y] = Length(y) + 1
<1>1. ASSUME NEW x \in Devices, PpRank(x) = PpRank(d) PROVE current_module[x] > 1
  <2>1. x \in ExpertGroup(d)
    BY <1>1, StageIsGroup DEF StageGroup
  <2>2. MeetsAt(x, b) /\ d \in ExpertGroup(x) /\ b \in Nat
    BY <2>1, MeetAlike
  <2>3. current_module[x] >= b
    BY <2>2, HaveMet
  <2>4. current_module[x] \in Nat
    BY DEF IInv, GraphTypeOK
  <2> QED
    BY <2>2, <2>3, <2>4
<1>2. PpRank(d) \in 0 .. PpDegree - 1
  BY Ranks
<1> QED
  BY <1>1, <1>2, EarlierEnded

GatePassed(d, n) ==
  \E g \in Range1(d) : At(d, g).out = <<"gate_update", n>> /\ current_module[d] > g

\* Until the last reader of a group has read the counts of a layer, they stay.
RoutingOk ==
  \A d \in Devices : \A i \in Range1(d) :
    /\ IsReader(At(d, i)) /\ current_module[d] <= i
    /\ GatePassed(Leader(d), At(d, i).out[2])
    => routing = <<Leader(d), At(d, i).out[2], pass>>

RInv == OneLeader /\ IInv /\ RoutingOk

\* While somebody has the counts of a gate still to read, no leader is at
\* another gate.
LEMMA NoOtherGate ==
  ASSUME IInv, OneLeader, NEW d \in Devices, NEW i \in Range1(d), IsReader(At(d, i)),
         current_module[d] <= i, GatePassed(Leader(d), At(d, i).out[2]),
         NEW e \in Devices, current_module[e] \in Range1(e), e = Leader(e),
         At(e, current_module[e]).out[1] = "gate_update"
  PROVE  e = Leader(d) /\ At(e, current_module[e]).out[2] = At(d, i).out[2]
<1> DEFINE n == At(d, i).out[2]
           h == current_module[e]
           f == Leader(d)
<1>1. PICK g \in Range1(f) : At(f, g).out = <<"gate_update", n>> /\ current_module[f] > g
  BY DEF GatePassed
<1>2. /\ f \in ExpertGroup(d) /\ f \in Devices /\ PpRank(f) = PpRank(d)
      /\ ExpertGroup(f) = ExpertGroup(d) /\ d \in ExpertGroup(f)
  BY LeaderIs, ExpertGroups
<1>3. /\ current_module[d] \in Nat /\ current_module[f] \in Nat /\ h \in Nat
      /\ i \in Nat /\ g \in Nat /\ g >= 1
  BY <1>2 DEF IInv, GraphTypeOK, Range1
<1>4. PICK b \in 1 .. h - 1 : MeetsAt(e, b) /\ b > 1
  BY GatePlaces
<1>5. PICK c \in 1 .. g - 1 : MeetsAt(f, c) /\ c > 1
  BY <1>1, <1>2, GatePlaces
<1>6. e = f
  <2>1. ASSUME e # f, PpRank(e) = PpRank(d) PROVE FALSE
    <3>1. ExpertGroup(e) = ExpertGroup(d)
      BY <2>1, StageIsGroup DEF StageGroup
    <3> QED
      BY <2>1, <3>1 DEF Leader
  <2>2. ASSUME PpRank(d) < PpRank(e) PROVE FALSE
    <3>1. current_module[e] > b
      BY <1>3, <1>4
    <3>2. current_module[d] = Length(d) + 1
      BY <1>4, <2>2, <3>1, MetMeansEnded
    <3> QED
      BY <1>3, <3>2, Places DEF Range1, Length
  <2>3. ASSUME PpRank(e) < PpRank(d) PROVE FALSE
    <3>1. current_module[f] > c
      BY <1>1, <1>3, <1>5
    <3>2. current_module[e] = Length(e) + 1
      BY <1>2, <1>5, <2>3, <3>1, MetMeansEnded
    <3> QED
      BY <3>2, Places DEF Range1, Length
  <2>4. PpRank(e) \in Nat /\ PpRank(d) \in Nat
    BY Ranks, Degrees
  <2> QED
    BY <2>1, <2>2, <2>3, <2>4
<1>7. At(e, h).out[2] = n
  <2> DEFINE l == At(e, h).out[2]
  <2>1. /\ Range1(d) = Range1(e) /\ At(d, h).out = At(e, h).out
    BY <1>2, <1>6, StageAlike
  <2>2. ~(l > n)
    <3>1. ASSUME l > n PROVE FALSE
      <4>1. PICK a \in i + 1 .. h - 1 : MeetsAt(d, a)
        BY <2>1, <3>1, ReaderPlaces
      <4>2. current_module[f] > a /\ a > i /\ a \in Nat
        BY <1>3, <1>6, <4>1
      <4>3. current_module[d] >= a
        BY <1>2, <4>1, <4>2, HaveMet
      <4> QED
        BY <1>3, <4>2, <4>3
    <3> QED
      BY <3>1
  <2>3. l >= n /\ l \in Nat /\ n \in Nat
    <3>1. g < h /\ g \in Range1(e) /\ h \in Range1(e)
      BY <1>1, <1>3, <1>6
    <3>2. PICK p, q : StandsAt(e, g, p, q)
      BY <3>1, Standing
    <3>3. PICK r, s : StandsAt(e, h, r, s)
      BY <3>1, Standing
    <3>4. p <= r /\ p \in Parts /\ r \in Parts
      BY <3>1, <3>2, <3>3, LayersInOrder, PlaceIs
    <3>5. n = LayerOfPart(p) /\ l = LayerOfPart(r)
      <4>1. At(e, g).out[2] = n
        BY <1>1, <1>6
      <4> QED
        BY <3>1, <3>2, <3>3, <4>1, NamesOk
    <3> QED
      BY <3>4, <3>5, Degrees DEF LayerOfPart, Parts
  <2> QED
    BY <2>2, <2>3
<1> QED
  BY <1>6, <1>7

LEMMA RunRouting ==
  ASSUME RInv, NEW e \in Devices, RunModule(e)
  PROVE  RoutingOk'
<1> DEFINE h == current_module[e]
           m == At(e, h)
<1>1. IInv /\ OneLeader /\ RoutingOk
  BY DEF RInv
<1>2. /\ h \in Range1(e) /\ current_module'[e] = h + 1 /\ h \in Nat
      /\ \A x \in Devices : x # e => current_module'[x] = current_module[x]
      /\ \A x \in Devices : current_module'[x] >= current_module[x]
                              /\ current_module'[x] \in Nat /\ current_module[x] \in Nat
  BY <1>1, Moving
<1>3. routing' = Routing(e, m) /\ pass' = pass
  BY <1>1, Running
<1> SUFFICES ASSUME NEW d \in Devices, NEW i \in Range1(d), IsReader(At(d, i)),
                    current_module'[d] <= i, GatePassed(Leader(d), At(d, i).out[2])'
             PROVE  routing' = <<Leader(d), At(d, i).out[2], pass'>>
  BY DEF RoutingOk
<1> DEFINE n == At(d, i).out[2]
           f == Leader(d)
<1>4. f \in Devices /\ Leader(f) = f
  BY LeaderIs
<1>5. current_module[d] <= i
  BY <1>2 DEF Range1
<1>6. PICK g \in Range1(f) : At(f, g).out = <<"gate_update", n>> /\ current_module'[f] > g
  BY DEF GatePassed
<1>7. CASE GatePassed(f, n)
  <2>1. routing = <<f, n, pass>>
    BY <1>1, <1>5, <1>7 DEF RoutingOk
  <2>2. CASE m.out[1] = "gate_update" /\ e = Leader(e)
    <3>1. e = f /\ m.out[2] = n
      BY <1>1, <1>2, <1>5, <1>7, <2>2, NoOtherGate
    <3> QED
      BY <1>3, <2>2, <3>1 DEF Routing
  <2>3. CASE ~(m.out[1] = "gate_update" /\ e = Leader(e))
    BY <1>3, <2>1, <2>3 DEF Routing
  <2> QED
    BY <2>2, <2>3
<1>8. CASE ~GatePassed(f, n)
  <2>1. ~(current_module[f] > g)
    BY <1>6, <1>8 DEF GatePassed
  <2>2. e = f /\ g = h
    <3>1. g \in Nat
      BY DEF Range1
    <3> QED
      BY <1>2, <1>4, <1>6, <2>1, <3>1
  <2>3. m.out[1] = "gate_update" /\ m.out[2] = n
    BY <1>6, <2>2
  <2> QED
    BY <1>3, <1>4, <2>2, <2>3 DEF Routing
<1> QED
  BY <1>7, <1>8

LEMMA NoGateYet ==
  ASSUME current_module = [d \in Devices |-> 1]
  PROVE  RoutingOk
<1>1. ASSUME NEW d \in Devices, NEW n PROVE ~GatePassed(d, n)
  BY DEF GatePassed, Range1
<1> QED
  BY <1>1, LeaderIs DEF RoutingOk

LEMMA InitRouting == Init /\ OneLeader => RInv
BY InitInv, NoGateYet DEF Init, RInv

LEMMA NextRouting == RInv /\ [Next]_vars => RInv'
<1> SUFFICES ASSUME RInv, [Next]_vars PROVE RInv'
  OBVIOUS
<1>1. IInv' /\ OneLeader'
  BY NextInv DEF RInv, OneLeader
<1>2. ASSUME NEW d \in Devices, RunModule(d) PROVE RoutingOk'
  BY <1>2, RunRouting
<1>3. ASSUME UNCHANGED <<current_module, routing, pass>> PROVE RoutingOk'
  <2>1. ASSUME NEW d, NEW n, GatePassed(d, n)' PROVE GatePassed(d, n)
    BY <1>3, <2>1 DEF GatePassed
  <2> QED
    BY <1>3, <2>1 DEF RInv, RoutingOk
<1>4. ASSUME NEW times, Restart(times) PROVE RoutingOk'
  <2>1. current_module' = [d \in Devices |-> 1]
    BY <1>4 DEF Restart
  <2>2. ASSUME NEW d \in Devices, NEW n PROVE ~GatePassed(d, n)'
    BY <2>1 DEF GatePassed, Range1
  <2> QED
    BY <2>2, LeaderIs DEF RoutingOk
<1>5. ASSUME NextDevice \/ SweepAgain PROVE RoutingOk'
  BY <1>3, <1>5 DEF NextDevice, SweepAgain, graphVars
<1>6. ASSUME RestartModuleGraph \/ RestartGraphOnly PROVE RoutingOk'
  BY <1>4, <1>6 DEF RestartModuleGraph, RestartGraphOnly
<1>7. ASSUME UNCHANGED vars PROVE RoutingOk'
  BY <1>3, <1>7 DEF vars, graphVars
<1> QED
  BY <1>1, <1>2, <1>5, <1>6, <1>7 DEF Next, RInv

\* A device that reads finds that its leader has passed the gate of the layer.
LEMMA GateFirst ==
  ASSUME IInv, NEW d \in Devices, RunModule(d), IsReader(At(d, current_module[d]))
  PROVE  GatePassed(Leader(d), At(d, current_module[d]).out[2])
<1> DEFINE i == current_module[d]
           m == At(d, i)
           n == m.out[2]
           f == Leader(d)
<1>1. i \in Range1(d) /\ i \in Nat
  BY Moving
<1>2. /\ f \in ExpertGroup(d) /\ f \in Devices /\ PpRank(f) = PpRank(d)
  BY LeaderIs
<1>3. SinceGate(d, i, n)
  BY <1>1, ReaderPlaces
<1>4. CASE m.kind = "sync" /\ m.group = ExpertGroup(d) /\ m.in = <<"gate_update", n>>
  <2>1. m.group \X {m.in} \subseteq ready
    BY <1>4, Running DEF Collects
  <2> DEFINE t == <<f, m.in>>
  <2>2. t \in ready /\ t[1] = f /\ t[2] = <<"gate_update", n>>
    BY <1>2, <1>4, <2>1
  <2> HIDE DEF t
  <2>3. PICK g \in Range1(f) : g < current_module[f] /\ At(f, g).out = <<"gate_update", n>>
    <3>1. <<"gate_update", n>> # <<"input", 0>>
      OBVIOUS
    <3> QED
      BY <2>2, <3>1 DEF IInv, ReadyOk
  <2>4. current_module[f] \in Nat /\ g \in Nat
    BY <1>2 DEF IInv, GraphTypeOK, Range1
  <2> QED
    BY <2>3, <2>4 DEF GatePassed
<1>5. ASSUME NEW g \in 1 .. i - 1, NEW b \in 1 .. i - 1, g < b,
             At(d, g).out = <<"gate_update", n>>, MeetsAt(d, b)
      PROVE  GatePassed(f, n)
  <2>1. current_module[d] > b /\ g \in Range1(d) /\ g \in Nat /\ b \in Nat
    BY <1>1, <1>5 DEF Range1
  <2>2. d \in ExpertGroup(f) /\ MeetsAt(f, b)
    BY <1>2, <1>5, MeetAlike
  <2>3. current_module[f] >= b
    BY <1>2, <2>1, <2>2, HaveMet
  <2>4. g \in Range1(f) /\ At(f, g).out = <<"gate_update", n>>
    BY <1>2, <1>5, <2>1, StageAlike
  <2>5. current_module[f] \in Nat
    BY <1>2 DEF IInv, GraphTypeOK
  <2> QED
    BY <1>5, <2>1, <2>3, <2>4, <2>5 DEF GatePassed
<1> QED
  BY <1>3, <1>4, <1>5 DEF SinceGate

LEMMA ReadsOwnCounts ==
  ASSUME RInv, [Next]_vars
  PROVE  [\A d \in Devices :
            /\ ~Done(d)
            /\ current_module'[d] > current_module[d]
            /\ Current(d).out[1] \in {"moe_scatter", "moe_route", "moe_gather"}
            => routing = <<Min(ExpertGroup(d)), Current(d).out[2], pass>>]_vars
<1> SUFFICES ASSUME NEW d \in Devices, ~Done(d), current_module'[d] > current_module[d],
                    Current(d).out[1] \in {"moe_scatter", "moe_route", "moe_gather"}
             PROVE  routing = <<Min(ExpertGroup(d)), Current(d).out[2], pass>>
  OBVIOUS
<1>1. IInv /\ RoutingOk /\ current_module[d] \in Nat
  BY DEF RInv, IInv, GraphTypeOK
<1>2. RunModule(d)
  <2>1. current_module'[d] # current_module[d]
    BY <1>1
  <2>2. ASSUME NEW e \in Devices, RunModule(e) PROVE e = d
    BY <1>1, <2>1, <2>2, Moving
  <2>3. \A times : ~Restart(times)
    BY DEF Restart, AllDone
  <2> QED
    BY <2>1, <2>2, <2>3
    DEF Next, NextDevice, SweepAgain, RestartModuleGraph, RestartGraphOnly, vars, graphVars
<1>3. current_module[d] \in Range1(d) /\ current_module[d] <= current_module[d]
  BY <1>1, <1>2, Moving
<1>4. Current(d) = At(d, current_module[d])
  BY DEF Current, At
<1>5. IsReader(At(d, current_module[d]))
  BY <1>4 DEF IsReader
<1>6. GatePassed(Leader(d), At(d, current_module[d]).out[2])
  BY <1>1, <1>2, <1>5, GateFirst
<1> QED
  BY <1>1, <1>3, <1>4, <1>5, <1>6 DEF RoutingOk, Leader

\* Whoever scatters, routes or gathers tokens reads the counts that the gate of
\* this layer and this pass stored, if the devices of a stage have one leader:
\* with deepseekV3 and several replicas each replica's leader stores its own
\* counts in the same place (GateUpdate::aggregate_expert, Route::forward).
THEOREM CountsCorrect == OneLeader /\ Spec => CountsOfOwnLayer
<1>1. RInv /\ [Next]_vars =>
        [\A d \in Devices :
           /\ ~Done(d)
           /\ current_module'[d] > current_module[d]
           /\ Current(d).out[1] \in {"moe_scatter", "moe_route", "moe_gather"}
           => routing = <<Min(ExpertGroup(d)), Current(d).out[2], pass>>]_vars
  BY ReadsOwnCounts
<1> QED
  BY <1>1, InitRouting, NextRouting, PTL DEF Spec, CountsOfOwnLayer

=============================================================================

----------------------- MODULE DeviceLifecycle_proofs -----------------------
(***************************************************************************)
(* Proofs of the invariants of DeviceLifecycle, for any number of threads, *)
(* descriptors and faults.                                                 *)
(***************************************************************************)
EXTENDS DeviceLifecycle, FiniteSetTheorems, WellFoundedInduction, TLAPS

(* The descriptor open returns is one of those that are free. *)
LEMMA LowestIsFree ==
  ASSUME NEW free, free \subseteq Fds, free # {}
  PROVE  Lowest(free) \in free
<1>1. free \subseteq Nat /\ IsFiniteSet(free)
  BY FdAssumption, FS_Subset
<1> DEFINE below(f) == {g \in free : g < f}
           belows == {below(f) : f \in free}
<1>2. belows \subseteq FiniteSubsetsOf(free) /\ belows # {}
  <2>1. ASSUME NEW f \in free PROVE below(f) \in SUBSET free /\ IsFiniteSet(below(f))
    <3>1. below(f) \in SUBSET free
      OBVIOUS
    <3> QED
      BY <1>1, <3>1, FS_Subset
  <2>2. belows # {}
    OBVIOUS
  <2> HIDE DEF below
  <2> QED
    BY <2>1, <2>2 DEF FiniteSubsetsOf
<1>3. PICK least \in belows : \A s \in belows : ~ (<<s, least>> \in StrictSubsetOrdering(free))
  BY <1>2, FS_StrictSubsetOrderingWellFounded, WFMin
<1>4. PICK f \in free : least = below(f)
  OBVIOUS
<1>5. ASSUME NEW g \in free PROVE f <= g
  <2>1. f \in Nat /\ g \in Nat
    BY <1>1
  <2>2. SUFFICES ASSUME g < f PROVE FALSE
    BY <2>1
  <2>3. below(g) \subseteq below(f) /\ g \in below(f) /\ g \notin below(g)
    <3>1. ASSUME NEW h \in free, h < g PROVE h < f
      BY <1>1, <2>1, <2>2, <3>1
    <3>2. ~(g < g)
      BY <2>1
    <3> QED
      BY <2>2, <3>1, <3>2
  <2>4. below(g) \in SUBSET free /\ below(f) \in SUBSET free /\ below(g) # below(f)
    BY <2>3
  <2>5. <<below(g), below(f)>> \in StrictSubsetOrdering(free)
    BY <2>3, <2>4 DEF StrictSubsetOrdering
  <2> QED
    BY <1>3, <1>4, <2>5
<1> QED
  BY <1>5 DEF Lowest

(* FirstFree adds one descriptor at most, and only one of the process. *)
LEMMA FirstFreeSmall ==
  ASSUME NEW free, free \subseteq Fds
  PROVE  /\ FirstFree(free) \subseteq Fds
         /\ IsFiniteSet(FirstFree(free))
         /\ Cardinality(FirstFree(free)) <= 1
<1>1. CASE free = {}
  BY <1>1, FS_EmptySet DEF FirstFree
<1>2. CASE free # {}
  <2>1. Lowest(free) \in Fds
    BY <1>2, LowestIsFree
  <2>2. FirstFree(free) = {Lowest(free)}
    BY <1>2 DEF FirstFree
  <2> QED
    BY <2>1, <2>2, FS_Singleton
<1> QED
  BY <1>1, <1>2

(* tryConnect opens two descriptors that were free. *)
LEMMA OpenTtysTakesTwo ==
  ASSUME TypeOK, OpenTtys
  PROVE  /\ dataFd' \in Fds \ open /\ audioFd' \in Fds \ open
         /\ dataFd' # audioFd'
         /\ running' = TRUE
         /\ open' = open \cup {dataFd', audioFd'}
<1> DEFINE free == Fds \ open
<1>1. free \subseteq Fds /\ IsFiniteSet(free)
  BY FdAssumption, FS_Difference
<1>2. Cardinality(free) >= 2 /\ dataFd' = Lowest(free) /\ audioFd' = Lowest(free \ {dataFd'})
  BY DEF OpenTtys
<1>3. free # {}
  BY <1>2, FS_EmptySet
<1>4. dataFd' \in free
  BY <1>1, <1>2, <1>3, LowestIsFree
<1> DEFINE rest == free \ {dataFd'}
<1>5. Cardinality(rest) = Cardinality(free) - 1
  BY <1>1, <1>4, FS_RemoveElement
<1>6. rest # {}
  <2>1. Cardinality(free) \in Nat
    BY <1>1, FS_CardinalityType
  <2> QED
    <3>1. Cardinality(rest) # 0
      BY <1>2, <1>5, <2>1
    <3>2. Cardinality({}) = 0
      BY FS_EmptySet
    <3> QED
      BY <3>1, <3>2
<1>7. audioFd' \in rest
  BY <1>1, <1>2, <1>6, LowestIsFree
<1> QED
  BY <1>4, <1>7 DEF OpenTtys

(* The descriptors of the process are finitely many. *)
LEMMA OpenFinite ==
  ASSUME TypeOK
  PROVE  IsFiniteSet(open) /\ Cardinality(open) \in Nat
BY FdAssumption, FS_Subset, FS_CardinalityType DEF TypeOK

-----------------------------------------------------------------------------

(* The types of the fields of the card. *)
CardTyped ==
  /\ connected \in BOOLEAN /\ running \in BOOLEAN
  /\ dataFd \in Fds \cup {NoFd} /\ audioFd \in Fds \cup {NoFd}
  /\ open \subseteq Fds

(* disconnect leaves the types as they are, and the card not connected. *)
LEMMA DisconnectEffect ==
  ASSUME TypeOK, Disconnect
  PROVE  CardTyped' /\ ~connected'
BY DEF Disconnect, TypeOK, CardTyped, card

(* Every step keeps the types. *)
LEMMA TypeStep ==
  ASSUME TypeOK, [Next]_vars
  PROVE  TypeOK'
<1> USE DEF MonitorPlaces, MediaPlaces
<1>1. CASE OpenFails
  <2>1. dataFd' \in Fds \cup {NoFd} /\ audioFd' \in Fds \cup {NoFd} /\ open' \subseteq Fds
    <3> PICK replies \in BOOLEAN :
          \/ /\ dataFd' = NoFd
             /\ open' = open \cup IF replies THEN {} ELSE FirstFree(Fds \ open)
             /\ UNCHANGED audioFd
          \/ /\ Fds \ open # {}
             /\ dataFd' = Lowest(Fds \ open) /\ audioFd' = NoFd
             /\ open' = open \cup {dataFd'} \cup
                        IF replies THEN {} ELSE FirstFree((Fds \ open) \ {dataFd'})
      BY <1>1 DEF OpenFails
    <3>1. FirstFree(Fds \ open) \subseteq Fds /\ FirstFree((Fds \ open) \ {dataFd'}) \subseteq Fds
      BY FirstFreeSmall
    <3>2. Fds \ open # {} => Lowest(Fds \ open) \in Fds
      BY LowestIsFree
    <3> QED
      BY <3>1, <3>2 DEF TypeOK
  <2> QED
    BY <1>1, <2>1, BoundAssumption DEF OpenFails, Fails, TypeOK
<1>2. ASSUME NEW t \in Monitors, StartFails(t) PROVE TypeOK'
  <2>1. OpenTtys
    BY <1>2 DEF StartFails
  <2> QED
    <3>1. /\ dataFd' \in Fds /\ audioFd' \in Fds /\ running' \in BOOLEAN
          /\ open' = open \cup {dataFd', audioFd'}
      BY <2>1, OpenTtysTakesTwo
    <3>2. monitor' \in [Monitors -> MonitorPlaces]
      BY <1>2 DEF StartFails, StartMonitor, TypeOK
    <3>3. failures' \in 0 .. MaxFailures
      BY <1>2, BoundAssumption DEF StartFails, Fails, TypeOK
    <3> QED
      BY <1>2, <3>1, <3>2, <3>3 DEF StartFails, TypeOK
<1>3. ASSUME NEW t \in Monitors, NEW u \in Medias, Connects(t, u) PROVE TypeOK'
  <2>1. OpenTtys
    BY <1>3 DEF Connects
  <2> QED
    BY <1>3, <2>1, OpenTtysTakesTwo DEF Connects, StartMonitor, StartMedia, TypeOK
<1>4. ASSUME NEW t \in Monitors, MonitorStep(t) PROVE TypeOK'
  <2>1. CASE MonitorBegin(t)
    BY <2>1 DEF MonitorBegin, MonitorAt, TypeOK, card
  <2>2. CASE MonitorTest(t)
    BY <2>2 DEF MonitorTest, MonitorAt, TypeOK, card
  <2>3. CASE MonitorCheck(t)
    <3>1. monitor' \in [Monitors -> MonitorPlaces]
      BY <2>3 DEF MonitorCheck, MonitorAt, TypeOK
    <3>2. losses' \in 0 .. MaxLosses
      BY <2>3, BoundAssumption DEF MonitorCheck, FoundGone, Loses, TypeOK
    <3>3. UNCHANGED card \/ Disconnect
      BY <2>3 DEF MonitorCheck
    <3>4. CardTyped'
      BY <3>3, DisconnectEffect DEF CardTyped, TypeOK, card
    <3> QED
      BY <2>3, <3>1, <3>2, <3>4 DEF MonitorCheck, TypeOK, CardTyped
  <2>4. CASE MonitorPoll(t)
    BY <2>4, BoundAssumption DEF MonitorPoll, MonitorAt, FoundGone, Loses, TypeOK, card
  <2>5. CASE MonitorLeave(t)
    <3>1. CardTyped'
      BY <2>5, DisconnectEffect DEF MonitorLeave
    <3>2. monitor' \in [Monitors -> MonitorPlaces]
      BY <2>5 DEF MonitorLeave, MonitorAt, TypeOK
    <3> QED
      BY <2>5, <3>1, <3>2 DEF MonitorLeave, TypeOK, CardTyped
  <2>6. CASE MonitorCopy(t)
    BY <2>6 DEF MonitorCopy, MonitorAt, TypeOK, card
  <2> QED
    BY <1>4, <2>1, <2>2, <2>3, <2>4, <2>5, <2>6 DEF MonitorStep
<1>5. ASSUME NEW t \in Medias, MediaStep(t) PROVE TypeOK'
  <2>1. CASE MediaBegin(t)
    BY <2>1 DEF MediaBegin, MediaAt, TypeOK, card
  <2>2. CASE MediaTest(t)
    BY <2>2 DEF MediaTest, MediaAt, TypeOK, card
  <2>3. CASE MediaCopy(t)
    BY <2>3 DEF MediaCopy, MediaAt, TypeOK, card
  <2>4. CASE MediaPoll(t)
    BY <2>4, BoundAssumption DEF MediaPoll, MediaAt, FoundGone, Loses, TypeOK, card
  <2>5. CASE MediaLeave(t)
    <3>1. CardTyped'
      BY <2>5, DisconnectEffect DEF MediaLeave
    <3>2. media' \in [Medias -> MediaPlaces]
      BY <2>5 DEF MediaLeave, MediaAt, TypeOK
    <3> QED
      BY <2>5, <3>1, <3>2 DEF MediaLeave, TypeOK, CardTyped
  <2> QED
    BY <1>5, <2>1, <2>2, <2>3, <2>4, <2>5 DEF MediaStep
<1>6. CASE UNCHANGED vars
  BY <1>6 DEF vars, card, TypeOK
<1> QED
  BY <1>1, <1>2, <1>3, <1>4, <1>5, <1>6 DEF Next, Discovery

(* Every reachable state is well typed, for any number of threads. *)
THEOREM TypeCorrect == Spec => []TypeOK
<1>1. Init => TypeOK
  <2> SUFFICES ASSUME Init PROVE TypeOK
    OBVIOUS
  <2>1. failures \in 0 .. MaxFailures /\ losses \in 0 .. MaxLosses
    BY BoundAssumption DEF Init
  <2>2. /\ monitor \in [Monitors -> MonitorPlaces] /\ media \in [Medias -> MediaPlaces]
        /\ fds \in [Monitors -> Fds \cup {NoFd}] /\ pfd \in [Medias -> Fds \cup {NoFd}]
    BY DEF Init, MonitorPlaces, MediaPlaces
  <2> QED
    BY <2>1, <2>2 DEF Init, TypeOK
<1>2. TypeOK /\ [Next]_vars => TypeOK'
  BY TypeStep
<1> QED
  BY <1>1, <1>2, PTL DEF Spec

-----------------------------------------------------------------------------

(* What a step can do to the session: a monitor thread leaves a connected  *)
(* card only by way of disconnect.                                         *)
LEMMA SessionStep ==
  ASSUME TypeOK, [Next]_vars
  PROVE  \/ /\ UNCHANGED card /\ failures' = failures
            /\ \A t \in Monitors : monitor[t] # "none" /\ running => monitor'[t] # "none"
         \/ /\ Disconnect /\ failures' = failures
         \/ /\ OpenFails
         \/ /\ OpenTtys /\ ~connected /\ UNCHANGED connected /\ failures' = failures + 1
         \/ /\ OpenTtys /\ ~connected /\ failures' = failures
            /\ connected' /\ \E t \in Monitors : monitor'[t] # "none"
<1>1. CASE OpenFails
  BY <1>1
<1>2. ASSUME NEW t \in Monitors, StartFails(t)
      PROVE  OpenTtys /\ ~connected /\ UNCHANGED connected /\ failures' = failures + 1
  BY <1>2 DEF StartFails, Fails
<1>3. ASSUME NEW t \in Monitors, NEW u \in Medias, Connects(t, u)
      PROVE  /\ OpenTtys /\ ~connected /\ failures' = failures
             /\ connected' /\ \E v \in Monitors : monitor'[v] # "none"
  BY <1>3 DEF Connects, StartMonitor, TypeOK
<1>4. ASSUME NEW t \in Monitors, MonitorStep(t)
      PROVE  \/ /\ UNCHANGED card /\ failures' = failures
                /\ \A v \in Monitors : monitor[v] # "none" /\ running => monitor'[v] # "none"
             \/ Disconnect /\ failures' = failures
  BY <1>4 DEF MonitorStep, MonitorBegin, MonitorTest, MonitorCheck, MonitorCopy, MonitorPoll,
              MonitorLeave, MonitorAt, TypeOK
<1>5. ASSUME NEW t \in Medias, MediaStep(t)
      PROVE  \/ UNCHANGED <<card, monitor, failures>>
             \/ Disconnect /\ failures' = failures
  BY <1>5 DEF MediaStep, MediaBegin, MediaTest, MediaCopy, MediaPoll, MediaLeave
<1>6. CASE UNCHANGED vars
  BY <1>6 DEF vars
<1> QED
  BY <1>1, <1>2, <1>3, <1>4, <1>5, <1>6 DEF Next, Discovery

(* A connected card always has a monitor thread that will notice its loss. *)
THEOREM AttendedHolds == Spec => []Attended
<1>1. Init => Attended
  BY DEF Init, Attended
<1>2. TypeOK /\ Attended /\ [Next]_vars => Attended'
  <2> SUFFICES ASSUME TypeOK, Attended, [Next]_vars PROVE Attended'
    OBVIOUS
  <2>1. CASE /\ UNCHANGED card
             /\ \A t \in Monitors : monitor[t] # "none" /\ running => monitor'[t] # "none"
    BY <2>1 DEF Attended, card
  <2>2. CASE Disconnect
    BY <2>2, DisconnectEffect DEF Attended
  <2>3. CASE OpenFails
    BY <2>3 DEF OpenFails, Attended
  <2>4. CASE ~connected /\ UNCHANGED connected
    BY <2>4 DEF Attended
  <2>5. CASE OpenTtys /\ \E t \in Monitors : monitor'[t] # "none"
    BY <2>5 DEF OpenTtys, Attended
  <2> QED
    BY <2>1, <2>2, <2>3, <2>4, <2>5, SessionStep
<1> QED
  BY <1>1, <1>2, TypeCorrect, PTL DEF Spec

(* A connected card holds two open descriptors of its own. *)
THEOREM HoldsTtysHolds == Spec => []HoldsTtys
<1>1. Init => HoldsTtys
  BY DEF Init, HoldsTtys
<1>2. TypeOK /\ HoldsTtys /\ [Next]_vars => HoldsTtys'
  <2> SUFFICES ASSUME TypeOK, HoldsTtys, [Next]_vars PROVE HoldsTtys'
    OBVIOUS
  <2>1. CASE UNCHANGED card
    BY <2>1 DEF HoldsTtys, card
  <2>2. CASE Disconnect
    BY <2>2, DisconnectEffect DEF HoldsTtys
  <2>3. CASE OpenFails
    BY <2>3 DEF OpenFails, HoldsTtys
  <2>4. CASE OpenTtys
    BY <2>4, OpenTtysTakesTwo DEF HoldsTtys
  <2> QED
    BY <2>1, <2>2, <2>3, <2>4, SessionStep
<1> QED
  BY <1>1, <1>2, TypeCorrect, PTL DEF Spec

(* Two more descriptors are open after tryConnect. *)
LEMMA OpenTtysCount ==
  ASSUME TypeOK, OpenTtys
  PROVE  Cardinality(open') = Cardinality(open) + 2
<1>1. /\ dataFd' \notin open /\ audioFd' \notin open /\ dataFd' # audioFd'
      /\ open' = (open \cup {dataFd'}) \cup {audioFd'}
  BY OpenTtysTakesTwo
<1>2. IsFiniteSet(open) /\ Cardinality(open) \in Nat
  BY OpenFinite
<1>3. /\ IsFiniteSet(open \cup {dataFd'})
      /\ Cardinality(open \cup {dataFd'}) = Cardinality(open) + 1
  BY <1>1, <1>2, FS_AddElement
<1>4. Cardinality(open') = Cardinality(open \cup {dataFd'}) + 1
  BY <1>1, <1>3, FS_AddElement
<1> QED
  BY <1>2, <1>3, <1>4

(* Two at most are open after an attempt that fails to open them. *)
LEMMA OpenFailsCount ==
  ASSUME TypeOK, OpenFails
  PROVE  Cardinality(open') <= Cardinality(open) + 2
<1>1. IsFiniteSet(open) /\ Cardinality(open) \in Nat
  BY OpenFinite
<1> DEFINE small(S) == IsFiniteSet(S) /\ Cardinality(S) <= 1
<1>2. ASSUME NEW S, small(S), NEW T, small(T), open' = (open \cup S) \cup T
      PROVE  Cardinality(open') <= Cardinality(open) + 2
  <2>1. /\ IsFiniteSet(open \cup S)
        /\ Cardinality(open \cup S) = Cardinality(open) + Cardinality(S) - Cardinality(open \cap S)
    BY <1>1, <1>2, FS_Union
  <2>2. Cardinality(open') = Cardinality(open \cup S) + Cardinality(T)
                               - Cardinality((open \cup S) \cap T)
    BY <1>2, <2>1, FS_Union
  <2>3. /\ Cardinality(S) \in Nat /\ Cardinality(T) \in Nat
        /\ Cardinality(open \cap S) \in Nat /\ Cardinality((open \cup S) \cap T) \in Nat
    BY <1>1, <1>2, <2>1, FS_Intersection, FS_CardinalityType
  <2> QED
    BY <1>1, <1>2, <2>1, <2>2, <2>3
<1>3. small({}) /\ \A x : small({x})
  <2>1. IsFiniteSet({}) /\ Cardinality({}) = 0
    BY FS_EmptySet
  <2>2. ASSUME NEW x PROVE IsFiniteSet({x}) /\ Cardinality({x}) = 1
    BY FS_Singleton
  <2> QED
    BY <2>1, <2>2
<1>4. small(FirstFree(Fds \ open)) /\ small(FirstFree((Fds \ open) \ {dataFd'}))
  BY FirstFreeSmall
<1>5. \E S, T : small(S) /\ small(T) /\ open' = (open \cup S) \cup T
  <2> PICK replies \in BOOLEAN :
        \/ open' = open \cup IF replies THEN {} ELSE FirstFree(Fds \ open)
        \/ open' = open \cup {dataFd'} \cup
                     IF replies THEN {} ELSE FirstFree((Fds \ open) \ {dataFd'})
    BY DEF OpenFails
  <2>1. CASE open' = open \cup IF replies THEN {} ELSE FirstFree(Fds \ open)
    <3> DEFINE S == IF replies THEN {} ELSE FirstFree(Fds \ open)
    <3>1. small(S) /\ small({}) /\ open' = (open \cup S) \cup {}
      BY <1>3, <1>4, <2>1
    <3> HIDE DEF S, small
    <3> QED
      BY <3>1
  <2>2. CASE open' = open \cup {dataFd'} \cup
                     IF replies THEN {} ELSE FirstFree((Fds \ open) \ {dataFd'})
    <3> DEFINE T == IF replies THEN {} ELSE FirstFree((Fds \ open) \ {dataFd'})
    <3>1. small({dataFd'}) /\ small(T) /\ open' = (open \cup {dataFd'}) \cup T
      BY <1>3, <1>4, <2>2
    <3> HIDE DEF T, small
    <3> QED
      BY <3>1
  <2> QED
    BY <2>1, <2>2
<1> QED
  BY <1>2, <1>5

(* A disconnect of a connected card closes two. *)
LEMMA DisconnectCount ==
  ASSUME TypeOK, HoldsTtys, connected, Disconnect
  PROVE  Cardinality(open') = Cardinality(open) - 2
<1>1. /\ dataFd \in open /\ audioFd \in open \ {dataFd}
      /\ open' = (open \ {dataFd}) \ {audioFd}
  BY DEF Disconnect, HoldsTtys
<1>2. IsFiniteSet(open) /\ Cardinality(open) \in Nat
  BY OpenFinite
<1>3. /\ IsFiniteSet(open \ {dataFd})
      /\ Cardinality(open \ {dataFd}) = Cardinality(open) - 1
  BY <1>1, <1>2, FS_RemoveElement
<1>4. Cardinality(open') = Cardinality(open \ {dataFd}) - 1
  BY <1>1, <1>3, FS_RemoveElement
<1> QED
  BY <1>2, <1>3, <1>4

(* Only failed attempts to connect leak descriptors, two at most each.     *)
THEOREM DescriptorBoundHolds == Spec => []DescriptorBound
<1>1. Init => DescriptorBound
  BY FS_EmptySet DEF Init, DescriptorBound
<1>2. TypeOK /\ HoldsTtys /\ DescriptorBound /\ [Next]_vars => DescriptorBound'
  <2> SUFFICES ASSUME TypeOK, HoldsTtys, DescriptorBound, [Next]_vars PROVE DescriptorBound'
    OBVIOUS
  <2>0. Cardinality(open) \in Nat /\ failures \in Nat
    BY OpenFinite, BoundAssumption DEF TypeOK
  <2>1. CASE UNCHANGED card /\ failures' = failures
    BY <2>1 DEF DescriptorBound, card
  <2>2. CASE Disconnect /\ failures' = failures
    <3>1. CASE connected
      BY <2>0, <2>2, <3>1, DisconnectCount, DisconnectEffect DEF DescriptorBound
    <3>2. CASE ~connected
      BY <2>2, <3>2 DEF Disconnect, DescriptorBound, card
    <3> QED
      BY <3>1, <3>2
  <2>3. CASE OpenFails
    <3>1. ~connected /\ ~connected' /\ failures' = failures + 1
      BY <2>3 DEF OpenFails, Fails
    <3>2. Cardinality(open') <= Cardinality(open) + 2 /\ open' \subseteq Fds
      BY <2>3, OpenFailsCount, TypeStep DEF TypeOK
    <3>3. Cardinality(open') \in Nat
      BY <3>2, FdAssumption, FS_Subset, FS_CardinalityType
    <3> QED
      BY <2>0, <3>1, <3>2, <3>3 DEF DescriptorBound
  <2>4. CASE OpenTtys /\ ~connected /\ UNCHANGED connected /\ failures' = failures + 1
    BY <2>0, <2>4, OpenTtysCount DEF DescriptorBound
  <2>5. CASE OpenTtys /\ ~connected /\ failures' = failures /\ connected'
    BY <2>0, <2>5, OpenTtysCount DEF DescriptorBound
  <2> QED
    BY <2>1, <2>2, <2>3, <2>4, <2>5, SessionStep
<1> QED
  BY <1>1, <1>2, TypeCorrect, HoldsTtysHolds, PTL DEF Spec
=============================================================================

--------------------------- MODULE MonitorProofs ---------------------------
(***************************************************************************)
(* Proofs about Monitor, for any number of channels, handlers, events and  *)
(* interrupts.  First the handlers, which module Dispatch keeps: how often *)
(* a value is in a sequence, that the list holds each live registration    *)
(* once and that each event reaches each of them once.  Then the commands: *)
(* the link is given back whatever ends them, and handlers hear every      *)
(* event.                                                                  *)
(***************************************************************************)
EXTENDS Monitor, FiniteSetTheorems, SequenceTheorems, TLAPS

\* A set of numbers that is not empty has a least one.
LEMMA LeastExists ==
  ASSUME NEW I \in SUBSET Nat, I # {}
  PROVE  /\ Min(I) \in I
         /\ \A j \in I : Min(I) <= j
  <1>1. \E x \in I : \A y \in I : <<y, x>> \notin OpToRel(<, Nat)
    BY NatLessThanWellFounded, WFMin
  <1>2. PICK x \in I : \A y \in I : ~(y < x)
    BY <1>1 DEF OpToRel
  <1>3. \A y \in I : x <= y
    BY <1>2
  <1> QED
    BY <1>3 DEF Min

\* The first place of e in s.
Place(s, e) == SelectInSeq(s, LAMBDA v : v = e)

\* Where e is in s, its first place holds it.
LEMMA FirstPlace ==
  ASSUME NEW S, NEW s \in Seq(S), NEW e, Contains(s, e)
  PROVE  /\ Place(s, e) \in 1..Len(s)
         /\ s[Place(s, e)] = e
  <1> DEFINE I == {i \in 1..Len(s) : s[i] = e}
  <1>1. I \in SUBSET Nat /\ I # {}
    BY LenProperties DEF Contains
  <1>2. Min(I) \in I
    BY <1>1, LeastExists
  <1>3. Place(s, e) = Min(I)
    BY <1>1 DEF Place, SelectInSeq
  <1> QED
    BY <1>2, <1>3

\* t is s without its n-th element.
Without(t, s, n) ==
  /\ Len(t) = Len(s) - 1
  /\ \A i \in 1..Len(s) - 1 : t[i] = IF i < n THEN s[i] ELSE s[i + 1]

\* RemoveFirst(), list.remove() of the code, takes out one element, equal to e.
LEMMA RemoveFirstProperties ==
  ASSUME NEW S, NEW s \in Seq(S), NEW e, Contains(s, e)
  PROVE  \E n \in 1..Len(s) :
           /\ s[n] = e
           /\ RemoveFirst(s, e) \in Seq(S)
           /\ Without(RemoveFirst(s, e), s, n)
  <1>1. PICK n \in 1..Len(s) : n = Place(s, e) /\ s[n] = e
    BY FirstPlace
  <1>2. RemoveFirst(s, e) = SubSeq(s, 1, n - 1) \o SubSeq(s, n + 1, Len(s))
    BY <1>1 DEF RemoveFirst, RemoveAt, Place, Contains
  <1>3. Len(s) \in Nat /\ \A i \in 1..Len(s) : s[i] \in S
    BY LenProperties
  <1>4. PICK a \in Seq(S) : /\ a = SubSeq(s, 1, n - 1) /\ Len(a) = n - 1
                            /\ \A i \in 1..n - 1 : a[i] = s[i]
    <2>1. /\ SubSeq(s, 1, n - 1) \in Seq(S) /\ Len(SubSeq(s, 1, n - 1)) = n - 1
          /\ \A i \in 1..n - 1 : SubSeq(s, 1, n - 1)[i] = s[i]
      BY <1>3, SubSeqProperties
    <2> QED
      BY <2>1
  <1>5. PICK b \in Seq(S) : /\ b = SubSeq(s, n + 1, Len(s)) /\ Len(b) = Len(s) - n
                            /\ \A i \in 1..Len(s) - n : b[i] = s[n + i]
    <2>1. /\ SubSeq(s, n + 1, Len(s)) \in Seq(S) /\ Len(SubSeq(s, n + 1, Len(s))) = Len(s) - n
          /\ \A i \in 1..Len(s) - n : SubSeq(s, n + 1, Len(s))[i] = s[n + i]
      BY <1>3, SubSeqProperties
    <2> QED
      BY <2>1
  <1> DEFINE m == Len(s)
  <1>6. /\ m \in Nat /\ n \in 1..m
        /\ Len(a) = n - 1 /\ \A i \in 1..n - 1 : a[i] = s[i]
        /\ Len(b) = m - n /\ \A i \in 1..m - n : b[i] = s[n + i]
    BY <1>3, <1>4, <1>5
  <1>7. RemoveFirst(s, e) = a \o b
    BY <1>2, <1>4, <1>5
  <1> HIDE DEF m
  <1>8. /\ a \o b \in Seq(S) /\ Len(a \o b) = m - 1
        /\ \A i \in 1..m - 1 : (a \o b)[i] = IF i < n THEN s[i] ELSE s[i + 1]
    <2>1. /\ a \o b \in Seq(S) /\ Len(a \o b) = Len(a) + Len(b)
          /\ \A i \in 1..Len(a) + Len(b) :
               (a \o b)[i] = IF i <= Len(a) THEN a[i] ELSE b[i - Len(a)]
      BY ConcatProperties
    <2>2. Len(a) + Len(b) = m - 1
      BY <1>6
    <2>3. /\ a \o b \in Seq(S) /\ Len(a \o b) = m - 1
          /\ \A i \in 1..m - 1 :
               (a \o b)[i] = IF i <= n - 1 THEN a[i] ELSE b[i - (n - 1)]
      BY ONLY <2>1, <2>2, <1>6
    <2>4. \A i \in 1..m - 1 : i >= n => b[i - (n - 1)] = s[i + 1]
      <3>1. \A i \in 1..m - 1 : i >= n => i - (n - 1) \in 1..m - n /\ n + (i - (n - 1)) = i + 1
        BY <1>6
      <3> QED
        BY <1>6, <3>1
    <2>5. \A i \in 1..m - 1 : i < n => a[i] = s[i]
      BY <1>6
    <2> QED
      BY <1>6, <2>3, <2>4, <2>5
  <1> QED
    BY <1>1, <1>7, <1>8 DEF m, Without
-----------------------------------------------------------------------------
\* How often h is in s.
Places(s, h) == {i \in 1..Len(s) : s[i] = h}
Count(s, h) == Cardinality(Places(s, h))

\* How often is a number.
LEMMA CountType ==
  ASSUME NEW S, NEW s \in Seq(S), NEW h
  PROVE  IsFiniteSet(Places(s, h)) /\ Count(s, h) \in Nat
  <1>1. IsFiniteSet(1..Len(s))
    BY LenProperties, FS_Interval
  <1>2. IsFiniteSet(Places(s, h))
    BY <1>1, FS_Subset DEF Places
  <1> QED
    BY <1>2, FS_CardinalityType DEF Count

\* Appending adds one occurrence.
LEMMA CountAppend ==
  ASSUME NEW S, NEW s \in Seq(S), NEW e \in S, NEW h
  PROVE  Count(Append(s, e), h) = Count(s, h) + (IF e = h THEN 1 ELSE 0)
  <1>1. /\ Len(Append(s, e)) = Len(s) + 1 /\ Len(s) \in Nat
        /\ \A i \in 1..Len(s) : Append(s, e)[i] = s[i]
        /\ Append(s, e)[Len(s) + 1] = e
    BY AppendProperties, LenProperties
  <1>2. IsFiniteSet(Places(s, h))
    BY CountType
  <1>3. CASE e = h
    <2>1. Places(Append(s, e), h) = Places(s, h) \cup {Len(s) + 1}
      BY <1>1, <1>3 DEF Places
    <2>2. Len(s) + 1 \notin Places(s, h)
      BY <1>1 DEF Places
    <2> QED
      BY <1>2, <1>3, <2>1, <2>2, FS_AddElement DEF Count
  <1>4. CASE e # h
    <2>1. Places(Append(s, e), h) = Places(s, h)
      BY <1>1, <1>4 DEF Places
    <2> QED
      BY <1>4, <2>1, CountType DEF Count
  <1> QED
    BY <1>3, <1>4

\* Taking an element out takes one of its occurrences away.
LEMMA CountWithout ==
  ASSUME NEW S, NEW s \in Seq(S), NEW t \in Seq(S), NEW n \in 1..Len(s), NEW h,
         Without(t, s, n)
  PROVE  Count(t, h) = Count(s, h) - (IF s[n] = h THEN 1 ELSE 0)
  <1> DEFINE m == Len(s)
             P == Places(t, h)
             Q == Places(s, h) \ {n}
             f == [i \in P |-> IF i < n THEN i ELSE i + 1]
  <1>0. m \in Nat /\ Len(t) = m - 1
        /\ \A i \in 1..m - 1 : t[i] = IF i < n THEN s[i] ELSE s[i + 1]
    BY LenProperties DEF Without
  <1>1. P = {i \in 1..m - 1 : t[i] = h}
    BY <1>0 DEF Places
  <1>2. Q = {i \in 1..m : s[i] = h /\ i # n}
    BY DEF Places
  <1>3. \A i \in P : f[i] \in Q
    <2> SUFFICES ASSUME NEW i \in P PROVE f[i] \in Q
      OBVIOUS
    <2>1. i \in 1..m - 1 /\ t[i] = h
      BY <1>1
    <2>2. CASE i < n
      BY <1>0, <1>2, <2>1, <2>2
    <2>3. CASE i >= n
      <3>1. s[i + 1] = h /\ i + 1 \in 1..m /\ i + 1 # n
        BY <1>0, <2>1, <2>3
      <3>2. f[i] = i + 1
        BY <1>0, <2>1, <2>3
      <3> QED
        BY <1>2, <3>1, <3>2
    <2> QED
      BY <1>0, <2>1, <2>2, <2>3
  <1>4. \A i, j \in P : f[i] = f[j] => i = j
    BY <1>0, <1>1
  <1>5. \A j \in Q : \E i \in P : f[i] = j
    <2> SUFFICES ASSUME NEW j \in Q PROVE \E i \in P : f[i] = j
      OBVIOUS
    <2>1. CASE j < n
      BY <1>0, <1>1, <1>2, <2>1
    <2>2. CASE j > n
      <3>1. j - 1 \in P /\ f[j - 1] = j
        BY <1>0, <1>1, <1>2, <2>2
      <3> QED
        BY <3>1
    <2> QED
      BY <1>0, <1>2, <2>1, <2>2
  <1>6. f \in Bijection(P, Q)
    BY <1>3, <1>4, <1>5 DEF Bijection, Injection, Surjection, IsInjective
  <1>7. IsFiniteSet(P) /\ IsFiniteSet(Places(s, h))
    BY CountType
  <1>8. Cardinality(Q) = Cardinality(P)
    <2>1. ExistsBijection(P, Q)
      BY <1>6 DEF ExistsBijection
    <2> HIDE DEF P, Q
    <2> QED
      BY <1>7, <2>1, FS_Bijection
  <1>9. Cardinality(Q) = Count(s, h) - (IF s[n] = h THEN 1 ELSE 0)
    <2>1. n \in Places(s, h) <=> s[n] = h
      BY <1>0 DEF Places
    <2>2. Cardinality(Q) = IF n \in Places(s, h) THEN Cardinality(Places(s, h)) - 1
                           ELSE Cardinality(Places(s, h))
      BY <1>7, FS_RemoveElement
    <2>3. Count(s, h) \in Nat
      BY CountType
    <2> QED
      BY <2>1, <2>2, <2>3 DEF Count
  <1> QED
    BY <1>8, <1>9 DEF Count

\* Taking the head off a sequence takes one of its occurrences away.
LEMMA CountTail ==
  ASSUME NEW S, NEW s \in Seq(S), s # <<>>, NEW h
  PROVE  Count(Tail(s), h) = Count(s, h) - (IF Head(s) = h THEN 1 ELSE 0)
  <1>1. Tail(s) \in Seq(S) /\ Without(Tail(s), s, 1)
    BY HeadTailProperties, LenProperties DEF Without
  <1>2. 1 \in 1..Len(s) /\ Head(s) = s[1]
    BY EmptySeq, LenProperties
  <1> QED
    BY <1>1, <1>2, CountWithout

\* list.remove() takes one occurrence of e away, where there is one.
LEMMA CountRemoveFirst ==
  ASSUME NEW S, NEW s \in Seq(S), NEW e, NEW h
  PROVE  /\ RemoveFirst(s, e) \in Seq(S) /\ Len(RemoveFirst(s, e)) <= Len(s)
         /\ Count(RemoveFirst(s, e), h) =
              Count(s, h) - (IF e = h /\ Contains(s, e) THEN 1 ELSE 0)
  <1>1. CASE Contains(s, e)
    <2> DEFINE t == RemoveFirst(s, e)
    <2>1. PICK n \in 1..Len(s) :
            /\ s[n] = e
            /\ t \in Seq(S) /\ Without(t, s, n)
      BY <1>1, RemoveFirstProperties
    <2> HIDE DEF t
    <2>2. Count(t, h) = Count(s, h) - (IF s[n] = h THEN 1 ELSE 0)
      BY <2>1, CountWithout
    <2> QED
      BY <1>1, <2>1, <2>2, LenProperties DEF t, Without
  <1>2. CASE ~Contains(s, e)
    <2>1. RemoveFirst(s, e) = s
      BY <1>2 DEF RemoveFirst, Contains
    <2> QED
      BY <1>2, <2>1, CountType, LenProperties
  <1> QED
    BY <1>1, <1>2
-----------------------------------------------------------------------------
\* Every registration not detached has one entry in the list, as long as no
\* detach() has taken an entry that was not its own.
Listeners(h) == {r \in Listening : attached[r] = h}

RegistrationsAreEntered ==
  ~robbed => \A h \in Functions : Count(handlers, h) = Cardinality(Listeners(h))

\* A function has been called as often as is due, but for the rest of the snapshot.
CallsAreDue ==
  ~robbed => \A h \in Functions : calls[h] + Count(pending, h) = due[h]

ListTypes == /\ handlers \in Seq(Functions) /\ attached \in Seq(Functions)
             /\ Len(handlers) <= Len(attached) /\ Len(attached) <= MaxAttached
             /\ detached \subseteq 1..Len(attached) /\ robbed \in BOOLEAN

CallTypes == /\ pending \in Seq(Functions) /\ events \in 0..MaxEvents
             /\ calls \in [Functions -> Nat] /\ due \in [Functions -> Nat]

HInv == ListTypes /\ CallTypes /\ RegistrationsAreEntered /\ CallsAreDue

\* The invariant has the types.
LEMMA HInvTypes == HInv => DispatchTypeOK
  BY LenProperties DEF HInv, ListTypes, CallTypes, DispatchTypeOK

\* The registrations of a function are counted by a number.
LEMMA ListenersAreFinite ==
  ASSUME ListTypes, NEW h
  PROVE  IsFiniteSet(Listeners(h)) /\ Cardinality(Listeners(h)) \in Nat
  <1>1. IsFiniteSet(1..Len(attached))
    BY LenProperties, FS_Interval DEF ListTypes
  <1>2. Listeners(h) \in SUBSET (1..Len(attached))
    BY LenProperties DEF Listeners, Listening, ListTypes
  <1> QED
    BY <1>1, <1>2, FS_Subset, FS_CardinalityType

\* No handlers, no calls, nothing due.
LEMMA HInvInit == DispatchInit => HInv
  <1> SUFFICES ASSUME DispatchInit PROVE HInv
    OBVIOUS
  <1>1. \A h : Places(<<>>, h) = {}
    BY EmptySeq DEF Places
  <1>2. \A h : Count(<<>>, h) = 0
    BY <1>1, FS_EmptySet DEF Count
  <1>3. \A h : Listeners(h) = {}
    BY DEF DispatchInit, Listeners, Listening
  <1>4. <<>> \in Seq(Functions) /\ Len(<<>>) = 0
    BY EmptySeq
  <1>5. ListTypes
    <2>1. handlers \in Seq(Functions) /\ attached \in Seq(Functions)
      BY <1>4 DEF DispatchInit
    <2>2. Len(handlers) <= Len(attached) /\ Len(attached) <= MaxAttached
      <3>1. handlers = <<>> /\ attached = <<>> /\ MaxAttached \in Nat
        BY DispatchAssumption DEF DispatchInit
      <3>2. Len(handlers) = 0 /\ Len(attached) = 0
        BY <1>4, <3>1
      <3> QED
        BY <3>1, <3>2
    <2>3. detached \subseteq 1..Len(attached) /\ robbed \in BOOLEAN
      BY DEF DispatchInit
    <2> QED
      BY <2>1, <2>2, <2>3 DEF ListTypes
  <1>6. CallTypes
    BY <1>4, DispatchAssumption DEF DispatchInit, CallTypes
  <1>7. RegistrationsAreEntered
    BY <1>2, <1>3, FS_EmptySet DEF DispatchInit, RegistrationsAreEntered
  <1>8. CallsAreDue
    BY <1>2 DEF DispatchInit, CallsAreDue
  <1> QED
    BY <1>5, <1>6, <1>7, <1>8 DEF HInv

\* on_notification() adds a registration and its entry.
LEMMA AttachEnters ==
  ASSUME ListTypes, RegistrationsAreEntered, NEW h \in Functions, Attach(h)
  PROVE  ListTypes' /\ RegistrationsAreEntered'
  <1>1. /\ handlers' = Append(handlers, h) /\ attached' = Append(attached, h)
        /\ detached' = detached /\ robbed' = robbed /\ Len(attached) < MaxAttached
    BY DEF Attach
  <1>2. /\ handlers' \in Seq(Functions) /\ attached' \in Seq(Functions)
        /\ Len(handlers') = Len(handlers) + 1 /\ Len(attached') = Len(attached) + 1
        /\ \A i \in 1..Len(attached) : attached'[i] = attached[i]
        /\ attached'[Len(attached) + 1] = h
        /\ Len(handlers) \in Nat /\ Len(attached) \in Nat
        /\ DOMAIN attached = 1..Len(attached) /\ DOMAIN attached' = 1..Len(attached')
    BY <1>1, AppendProperties, LenProperties DEF ListTypes
  <1>3. ListTypes'
    BY <1>1, <1>2, DispatchAssumption DEF ListTypes
  <1>4. RegistrationsAreEntered'
    <2> SUFFICES ASSUME ~robbed, NEW e \in Functions
                 PROVE  Count(handlers', e) = Cardinality(Listeners(e)')
      BY <1>1 DEF RegistrationsAreEntered
    <2>1. Count(handlers', e) = Count(handlers, e) + (IF h = e THEN 1 ELSE 0)
      BY <1>1, CountAppend DEF ListTypes
    <2>2. CASE h = e
      <3>1. Listeners(e)' = Listeners(e) \cup {Len(attached) + 1}
        BY <1>1, <1>2, <2>2 DEF Listeners, Listening, ListTypes
      <3>2. Len(attached) + 1 \notin Listeners(e)
        BY <1>2 DEF Listeners, Listening
      <3> QED
        BY <2>1, <2>2, <3>1, <3>2, ListenersAreFinite, FS_AddElement
           DEF RegistrationsAreEntered
    <2>3. CASE h # e
      <3>1. Listeners(e)' = Listeners(e)
        BY <1>1, <1>2, <2>3 DEF Listeners, Listening, ListTypes
      <3> QED
        BY <2>1, <2>3, <3>1, ListenersAreFinite DEF RegistrationsAreEntered
    <2> QED
      BY <2>2, <2>3
  <1> QED
    BY <1>3, <1>4

\* A first detach() of a registration finds its entry; a second one finds none,
\* or robs another.
LEMMA DetachRemoves ==
  ASSUME ListTypes, RegistrationsAreEntered, NEW r \in DOMAIN attached, Detach(r)
  PROVE  ListTypes' /\ RegistrationsAreEntered' /\ (robbed => robbed')
  <1> DEFINE e == attached[r]
  <1>1. /\ handlers' = RemoveFirst(handlers, e) /\ attached' = attached
        /\ detached' = detached \cup {r}
        /\ robbed' = (robbed \/ (r \in detached /\ Contains(handlers, e)))
    BY DEF Detach
  <1>2. e \in Functions /\ DOMAIN attached = 1..Len(attached)
    BY LenProperties, ElementOfSeq DEF ListTypes
  <1>3. handlers' \in Seq(Functions) /\ Len(handlers') <= Len(handlers)
    BY <1>1, CountRemoveFirst DEF ListTypes
  <1>4. ListTypes'
    <2>1. /\ Len(handlers) \in Nat /\ Len(handlers') \in Nat /\ Len(attached) \in Nat
          /\ Len(handlers) <= Len(attached) /\ Len(attached) <= MaxAttached
          /\ detached \subseteq 1..Len(attached) /\ attached \in Seq(Functions)
          /\ robbed \in BOOLEAN
      BY <1>3, LenProperties DEF ListTypes
    <2>2. Len(handlers') <= Len(attached')
      BY <1>1, <1>3, <2>1
    <2>3. detached' \subseteq 1..Len(attached')
      BY <1>1, <1>2, <2>1
    <2>4. robbed' \in BOOLEAN
      BY <1>1, <2>1
    <2> QED
      BY <1>1, <1>3, <2>1, <2>2, <2>3, <2>4 DEF ListTypes
  <1>5. RegistrationsAreEntered'
    <2> SUFFICES ASSUME ~robbed, ~(r \in detached /\ Contains(handlers, e)),
                        NEW h \in Functions
                 PROVE  Count(handlers', h) = Cardinality(Listeners(h)')
      BY <1>1 DEF RegistrationsAreEntered
    <2>1. Count(handlers', h) =
            Count(handlers, h) - (IF e = h /\ Contains(handlers, e) THEN 1 ELSE 0)
      BY <1>1, CountRemoveFirst DEF ListTypes
    <2>2. Count(handlers, h) = Cardinality(Listeners(h)) /\ Count(handlers, h) \in Nat
      BY CountType DEF RegistrationsAreEntered, ListTypes
    <2>3. Listeners(h)' = Listeners(h) \ {r}
      BY <1>1 DEF Listeners, Listening
    <2>4. r \in Listeners(h) <=> e = h /\ r \notin detached
      BY DEF Listeners, Listening
    <2>5. Cardinality(Listeners(h)') = IF r \in Listeners(h) THEN Cardinality(Listeners(h)) - 1
                                       ELSE Cardinality(Listeners(h))
      BY <2>3, ListenersAreFinite, FS_RemoveElement
    <2>6. r \in Listeners(h) => Contains(handlers, e)
      <3> SUFFICES ASSUME r \in Listeners(h), ~Contains(handlers, e) PROVE FALSE
        OBVIOUS
      <3>1. e = h /\ Places(handlers, h) = {}
        BY <2>4 DEF Places, Contains
      <3>2. Count(handlers, h) = 0
        BY <3>1, FS_EmptySet DEF Count
      <3>3. Listeners(h) = {}
        BY <2>2, <3>2, ListenersAreFinite, FS_EmptySet
      <3> QED
        BY <3>3
    <2> QED
      BY <2>1, <2>2, <2>4, <2>5, <2>6
  <1> QED
    BY <1>1, <1>4, <1>5

\* What a handler, or an application, may do to the registrations.
LEMMA ChangesKeepEntries ==
  ASSUME ListTypes, RegistrationsAreEntered, Changes
  PROVE  ListTypes' /\ RegistrationsAreEntered' /\ (robbed => robbed')
  <1>1. CASE UNCHANGED <<handlers, attached, detached, robbed>>
    BY <1>1 DEF ListTypes, RegistrationsAreEntered, Listeners, Listening
  <1>2. CASE \E h \in Functions : Attach(h)
    <2>1. PICK h \in Functions : Attach(h)
      BY <1>2
    <2>2. robbed' = robbed
      BY <2>1 DEF Attach
    <2> QED
      BY <2>1, <2>2, AttachEnters
  <1>3. CASE \E r \in DOMAIN attached : Detach(r)
    BY <1>3, DetachRemoves
  <1> QED
    BY <1>1, <1>2, <1>3 DEF Changes

\* Outside the loop of _on_frame().
LEMMA HInvChanges ==
  ASSUME HInv, Changes, UNCHANGED <<pending, events, calls, due>>
  PROVE  HInv'
  <1>1. ListTypes' /\ RegistrationsAreEntered' /\ (robbed => robbed')
    BY ChangesKeepEntries DEF HInv
  <1>2. CallTypes'
    BY DEF HInv, CallTypes
  <1>3. CallsAreDue'
    BY <1>1 DEF HInv, CallsAreDue, Count, Places
  <1> QED
    BY <1>1, <1>2, <1>3 DEF HInv

\* The snapshot is the list, which holds each registration once.
LEMMA HInvEvent ==
  ASSUME HInv, Event
  PROVE  HInv'
  <1>1. /\ pending = <<>> /\ pending' = handlers /\ events < MaxEvents /\ events' = events + 1
        /\ due' = [h \in Functions |-> due[h] + Cardinality(Listeners(h))]
        /\ UNCHANGED <<handlers, attached, detached, robbed, calls>>
    BY DEF Event, Idle, Listeners
  <1>2. ListTypes' /\ RegistrationsAreEntered'
    BY <1>1 DEF HInv, ListTypes, RegistrationsAreEntered, Listeners, Listening
  <1>3. CallTypes'
    <2>1. \A h \in Functions : Cardinality(Listeners(h)) \in Nat
      BY ListenersAreFinite DEF HInv
    <2>2. due' \in [Functions -> Nat]
      BY <1>1, <2>1 DEF HInv, CallTypes
    <2>3. events' \in 0..MaxEvents
      BY <1>1, DispatchAssumption DEF HInv, CallTypes
    <2>4. pending' \in Seq(Functions) /\ calls' \in [Functions -> Nat]
      BY <1>1 DEF HInv, CallTypes, ListTypes
    <2> QED
      BY <2>2, <2>3, <2>4 DEF CallTypes
  <1>4. CallsAreDue'
    <2> SUFFICES ASSUME ~robbed, NEW h \in Functions
                 PROVE  calls[h] + Count(handlers, h) = due'[h]
      BY <1>1 DEF CallsAreDue, Count, Places
    <2>1. calls[h] + Count(pending, h) = due[h]
      BY DEF HInv, CallsAreDue
    <2>2. Count(pending, h) = 0
      <3>1. Places(pending, h) = {}
        BY <1>1, EmptySeq DEF Places
      <3> QED
        BY <3>1, FS_EmptySet DEF Count
    <2>3. Count(handlers, h) = Cardinality(Listeners(h)) /\ Cardinality(Listeners(h)) \in Nat
      BY ListenersAreFinite DEF HInv, RegistrationsAreEntered
    <2>4. calls[h] \in Nat /\ due[h] \in Nat
      BY DEF HInv, CallTypes
    <2> QED
      BY <1>1, <2>1, <2>2, <2>3, <2>4
  <1> QED
    BY <1>2, <1>3, <1>4 DEF HInv

\* Each turn of the loop moves one call from the snapshot to its function.
LEMMA HInvCall ==
  ASSUME HInv, CallHandler
  PROVE  HInv'
  <1>1. /\ pending # <<>> /\ pending' = Tail(pending) /\ Changes
        /\ calls' = [calls EXCEPT ![Head(pending)] = @ + 1]
        /\ UNCHANGED <<events, due>>
    BY DEF CallHandler, Idle
  <1>2. ListTypes' /\ RegistrationsAreEntered' /\ (robbed => robbed')
    BY <1>1, ChangesKeepEntries DEF HInv
  <1>3. pending \in Seq(Functions) /\ calls \in [Functions -> Nat] /\ due \in [Functions -> Nat]
    BY DEF HInv, CallTypes
  <1>4. Head(pending) \in Functions /\ Tail(pending) \in Seq(Functions)
    BY <1>1, <1>3, HeadTailProperties
  <1>5. CallTypes'
    BY <1>1, <1>3, <1>4 DEF HInv, CallTypes
  <1>6. CallsAreDue'
    <2> SUFFICES ASSUME ~robbed, NEW h \in Functions
                 PROVE  calls'[h] + Count(Tail(pending), h) = due[h]
      BY <1>1, <1>2 DEF CallsAreDue, Count, Places
    <2>1. calls[h] + Count(pending, h) = due[h]
      BY DEF HInv, CallsAreDue
    <2>2. Count(Tail(pending), h) = Count(pending, h) - (IF Head(pending) = h THEN 1 ELSE 0)
      BY <1>1, <1>3, CountTail
    <2>3. Count(pending, h) \in Nat /\ calls[h] \in Nat
      BY <1>3, CountType
    <2>4. calls'[h] = calls[h] + (IF Head(pending) = h THEN 1 ELSE 0)
      BY <1>1, <1>3, <1>4
    <2> QED
      BY <2>1, <2>2, <2>3, <2>4
  <1> QED
    BY <1>2, <1>5, <1>6 DEF HInv

\* Between two events, each function has been called once per registration and event.
LEMMA HInvHears == HInv => (Idle /\ ~robbed => calls = due)
  <1> SUFFICES ASSUME HInv, Idle, ~robbed PROVE calls = due
    OBVIOUS
  <1>1. calls \in [Functions -> Nat] /\ due \in [Functions -> Nat]
    BY DEF HInv, CallTypes
  <1>2. \A h \in Functions : calls[h] = due[h]
    <2> SUFFICES ASSUME NEW h \in Functions PROVE calls[h] = due[h]
      OBVIOUS
    <2>1. Count(pending, h) = 0
      <3>1. Places(pending, h) = {}
        BY EmptySeq DEF Places, Idle
      <3> QED
        BY <3>1, FS_EmptySet DEF Count
    <2>2. calls[h] + Count(pending, h) = due[h]
      BY DEF HInv, CallsAreDue
    <2> QED
      BY <1>1, <2>1, <2>2
  <1> QED
    BY <1>1, <1>2

-----------------------------------------------------------------------------
\* The "async with" is entered once its __aenter__ has returned, and only then.
EnteredOnce == pc \in {"start", "entering"} => ~entered

LInv == LinkTypeOK /\ EnteredOnce /\ LinkIsReleased

\* Nothing is entered and no link is up.
LEMMA LInvInit == Init => LInv
  BY MonitorAssumption
     DEF Init, LinkInit, LInv, LinkTypeOK, Steps, EnteredOnce, LinkIsReleased

\* Leaving the body: with the link down the command is over, else it disconnects.
LEMMA LeavingReleases ==
  ASSUME LInv, NEW how0, Leave(how0), UNCHANGED <<entered>>, pc = "body"
  PROVE  LInv'
  BY MonitorAssumption
     DEF LInv, Leave, Moves, DisconnectNoop, linkVars, LinkTypeOK, Steps, EnteredOnce,
         LinkIsReleased

\* A step that stays on this side of the end leaves only the types to look at.
LEMMA QuietReleases ==
  ASSUME LInv, LinkTypeOK', UNCHANGED <<pc, entered, spoilt>>,
         up'[Link] => up[Link] \/ pc # "ended"
  PROVE  LInv'
  BY DEF LInv, EnteredOnce, LinkIsReleased

\* Each step keeps it.
LEMMA LInvNext == LInv /\ [Next]_vars => LInv'
  <1> SUFFICES ASSUME LInv, [Next]_vars PROVE LInv'
    OBVIOUS
  <1> USE MonitorAssumption
  <1>1. CASE Connecting
    <2>1. CASE Enters
      BY <2>1 DEF Enters, ConnectCall, Moves, LInv, LinkTypeOK, Steps, EnteredOnce, LinkIsReleased
    <2>2. CASE Established
      BY <2>2
         DEF Established, ConnectEstablished, Moves, commandVars, LInv, LinkTypeOK, Steps,
             EnteredOnce, LinkIsReleased
    <2>3. CASE Entered
      BY <2>3
         DEF Entered, SubscribeDone, Moves, LInv, LinkTypeOK, Steps, EnteredOnce, LinkIsReleased
    <2>4. CASE EnterRaises
      BY <2>4
         DEF EnterRaises, ConnectFailed, SubscribeFailed, Moves, LInv, LinkTypeOK, Steps,
             EnteredOnce, LinkIsReleased
    <2> QED
      BY <1>1, <2>1, <2>2, <2>3, <2>4 DEF Connecting
  <1>2. CASE Body
    <2>1. CASE CallReturns
      BY <2>1, QuietReleases DEF CallReturns, LInv, LinkTypeOK
    <2>2. CASE TryRaises \/ HasTargets \/ AttachesHandler \/ SetsSignalHandler
      BY <2>2, QuietReleases
         DEF TryRaises, HasTargets, AttachesHandler, SetsSignalHandler, linkVars, LInv, LinkTypeOK
    <2>3. CASE CallRaises \/ NoTargets \/ Finishes
      BY <2>3, LeavingReleases DEF CallRaises, NoTargets, Finishes, At
    <2> QED
      BY <1>2, <2>1, <2>2, <2>3 DEF Body
  <1>3. CASE Disconnecting
    <2>1. CASE StopNotifyEnds
      BY <2>1, QuietReleases
         DEF StopNotifyEnds, Unsubscribed, Moves, commandVars, LInv, LinkTypeOK, Steps
    <2>2. CASE Leaves
      BY <2>2
         DEF Leaves, DisconnectDone, DisconnectFailed, Moves, LInv, LinkTypeOK, Steps,
             EnteredOnce, LinkIsReleased
    <2> QED
      BY <1>3, <2>1, <2>2 DEF Disconnecting
  <1>4. CASE UseEnds
    BY <1>4, LeavingReleases DEF UseEnds, At
  <1>5. CASE SigintCancels
    <2>1. CASE pc = "body"
      BY <1>5, <2>1, LeavingReleases DEF SigintCancels
    <2>2. CASE pc # "body"
      BY <1>5, <2>2
         DEF SigintCancels, Sigint, LInv, LinkTypeOK, Steps, EnteredOnce, LinkIsReleased
    <2> QED
      BY <2>1, <2>2
  <1>6. CASE Uses \/ SigintStops \/ Notified \/ HandlerReturns \/ Ended \/ UNCHANGED vars
    BY <1>6, QuietReleases
       DEF Uses, SigintStops, Notified, HandlerReturns, Ended, vars, linkVars, commandVars,
           LInv, LinkTypeOK
  <1>7. CASE LinkLost
    BY <1>7, QuietReleases DEF LinkLost, Drop, commandVars, LInv, LinkTypeOK
  <1> QED
    BY <1>1, <1>2, <1>3, <1>4, <1>5, <1>6, <1>7 DEF Next

\* However a command ends, its link is down by then, but for a connect that
\* never finished and a disconnect that raised or was interrupted.
THEOREM LinkIsGivenBack == Spec => []LinkIsReleased
  <1>1. LInv => LinkIsReleased
    BY DEF LInv
  <1> QED
    BY <1>1, LInvInit, LInvNext, PTL DEF Spec
-----------------------------------------------------------------------------
\* Every step of a command is a step of the handlers, or none of them.
LEMMA HInvNext == HInv /\ [Next]_vars => HInv'
  <1> SUFFICES ASSUME HInv, [Next]_vars PROVE HInv'
    OBVIOUS
  <1>1. CASE UNCHANGED dispatchVars
    <2>1. Changes /\ UNCHANGED <<pending, events, calls, due>>
      BY <1>1 DEF dispatchVars, Changes
    <2> QED
      BY <2>1, HInvChanges
  <1>2. CASE AttachesHandler
    <2>1. Changes /\ UNCHANGED <<pending, events, calls, due>>
      BY <1>2, MonitorAssumption DEF AttachesHandler, Changes
    <2> QED
      BY <2>1, HInvChanges
  <1>3. CASE Uses
    <2>1. Changes /\ UNCHANGED <<pending, events, calls, due>>
      BY <1>3 DEF Uses, Changes
    <2> QED
      BY <2>1, HInvChanges
  <1>4. CASE Notified
    BY <1>4, HInvEvent DEF Notified
  <1>5. CASE HandlerReturns
    BY <1>5, HInvCall DEF HandlerReturns
  <1>6. CASE Connecting \/ Disconnecting
    BY <1>1, <1>6
       DEF Connecting, Enters, Established, Entered, EnterRaises, Disconnecting, StopNotifyEnds,
           Leaves
  <1>7. CASE Body /\ ~AttachesHandler
    BY <1>1, <1>7
       DEF Body, CallReturns, TryRaises, CallRaises, NoTargets, HasTargets, SetsSignalHandler,
           Finishes
  <1>8. CASE UseEnds \/ SigintStops \/ SigintCancels \/ LinkLost
    BY <1>1, <1>8 DEF UseEnds, SigintStops, SigintCancels, LinkLost
  <1>9. CASE Ended \/ UNCHANGED vars
    BY <1>1, <1>9 DEF Ended, vars
  <1> QED
    BY <1>2, <1>3, <1>4, <1>5, <1>6, <1>7, <1>8, <1>9 DEF Next

\* However handlers attach and detach, also from within the loop that calls them,
\* each function is called once per event and registration, unless a detach
\* function called twice has taken the entry of another registration.
THEOREM EveryHandlerHears == Spec => []HandlersHearEveryEvent
  <1>1. Init => HInv
    BY HInvInit DEF Init
  <1>2. HInv => HandlersHearEveryEvent
    BY HInvHears DEF HandlersHearEveryEvent
  <1> QED
    BY <1>1, <1>2, HInvNext, PTL DEF Spec
-----------------------------------------------------------------------------
Ops == {"call", "try", "subscribe", "targets", "attach", "signals", "wait", "return", "use"}

\* Where a program ends.
Stops == {"wait", "return", "use"}

LastOf(s) == s[Len(s)]

\* The end of the second is the end of both.
LEMMA LastOfConcat ==
  ASSUME NEW s \in Seq(Ops), NEW t \in Seq(Ops), Len(t) > 0
  PROVE  s \o t \in Seq(Ops) /\ Len(s \o t) > 0 /\ LastOf(s \o t) = LastOf(t)
  <1>1. /\ s \o t \in Seq(Ops) /\ Len(s \o t) = Len(s) + Len(t)
        /\ \A i \in 1..Len(s) + Len(t) :
             (s \o t)[i] = IF i <= Len(s) THEN s[i] ELSE t[i - Len(s)]
    BY ConcatProperties
  <1>2. Len(s) \in Nat /\ Len(t) \in Nat
    BY LenProperties
  <1> DEFINE n == Len(s) + Len(t)
  <1>3. n \in 1..n /\ ~(n <= Len(s)) /\ n - Len(s) = Len(t)
    BY <1>2
  <1> QED
    BY <1>1, <1>2, <1>3 DEF LastOf

\* A repeated operation is a sequence.
LEMMA RepeatIsSeq ==
  ASSUME NEW op \in Ops
  PROVE  Repeat(op) \in Seq(Ops)
  <1>1. Channels \in Nat /\ Repeat(op) \in [1..Channels -> Ops]
    BY MonitorAssumption DEF Repeat
  <1> QED
    BY <1>1, SeqDef

\* Every program goes on until one of them.
LEMMA ProgramsStop ==
  \A c \in Commands : /\ Program[c] \in Seq(Ops) /\ Len(Program[c]) > 0
                      /\ LastOf(Program[c]) \in Stops
  <1>1. /\ CmdConnect \in Seq(Ops) /\ Len(CmdConnect) > 0 /\ LastOf(CmdConnect) \in Stops
    <2> DEFINE t == <<"attach", "call", "signals", "wait">>
    <2>1. <<"call">> \in Seq(Ops)
      BY DEF Ops
    <2>2. t \in Seq(Ops) /\ Len(t) > 0 /\ LastOf(t) \in Stops
      BY DEF LastOf, Stops, Ops
    <2> HIDE DEF t
    <2>3. <<"call">> \o Repeat("try") \in Seq(Ops)
      BY <2>1, RepeatIsSeq, ConcatProperties DEF Ops
    <2> QED
      BY <2>2, <2>3, LastOfConcat DEF CmdConnect, t
  <1>2. /\ CmdChannels \in Seq(Ops) /\ Len(CmdChannels) > 0 /\ LastOf(CmdChannels) \in Stops
    <2>1. <<"return">> \in Seq(Ops) /\ Len(<<"return">>) > 0 /\ LastOf(<<"return">>) \in Stops
      BY DEF LastOf, Stops, Ops
    <2> QED
      BY <2>1, RepeatIsSeq, LastOfConcat DEF Ops, CmdChannels
  <1>3. /\ CmdSniff \in Seq(Ops) /\ Len(CmdSniff) > 0 /\ LastOf(CmdSniff) \in Stops
    <2> DEFINE t == <<"signals", "wait">>
    <2>1. t \in Seq(Ops) /\ Len(t) > 0 /\ LastOf(t) \in Stops
      BY DEF LastOf, Stops, Ops
    <2> HIDE DEF t
    <2> QED
      BY <2>1, RepeatIsSeq, LastOfConcat DEF Ops, CmdSniff, t
  <1>4. /\ CmdSniffAll \in Seq(Ops) /\ Len(CmdSniffAll) > 0 /\ LastOf(CmdSniffAll) \in Stops
    <2> DEFINE t == <<"try", "signals", "wait">>
    <2>1. <<"targets">> \in Seq(Ops)
      BY DEF Ops
    <2>2. t \in Seq(Ops) /\ Len(t) > 0 /\ LastOf(t) \in Stops
      BY DEF LastOf, Stops, Ops
    <2> HIDE DEF t
    <2>3. <<"targets">> \o Repeat("subscribe") \in Seq(Ops)
      BY <2>1, RepeatIsSeq, ConcatProperties DEF Ops
    <2> QED
      BY <2>2, <2>3, LastOfConcat DEF CmdSniffAll, t
  <1> DEFINE use == <<"use">>
  <1>5. use \in Seq(Ops) /\ Len(use) > 0 /\ LastOf(use) \in Stops
    BY DEF LastOf, Stops, Ops
  <1>6. Program = [connect |-> CmdConnect, channels |-> CmdChannels, sniff |-> CmdSniff,
                   sniff_all |-> CmdSniffAll, library |-> use]
    BY DEF Program
  <1> HIDE DEF use
  <1>7. Commands = {"connect", "channels", "sniff", "sniff_all", "library"}
    BY <1>6 DEF Commands
  <1>8. /\ Program["connect"] = CmdConnect /\ Program["channels"] = CmdChannels
        /\ Program["sniff"] = CmdSniff /\ Program["sniff_all"] = CmdSniffAll
        /\ Program["library"] = use
    BY <1>6
  <1> QED
    BY <1>1, <1>2, <1>3, <1>4, <1>5, <1>7, <1>8

PlaceOK == cmd \in Commands /\ ip \in 1..Len(Program[cmd])

\* So there is a next line after any other.
LEMMA NextLine ==
  ASSUME PlaceOK, NEW op, At(op), op \notin Stops
  PROVE  ip + 1 \in 1..Len(Program[cmd])
  <1>1. Len(Program[cmd]) \in Nat /\ LastOf(Program[cmd]) \in Stops
    BY ProgramsStop, LenProperties DEF PlaceOK
  <1>2. ip # Len(Program[cmd])
    BY <1>1 DEF At, LastOf
  <1> QED
    BY <1>1, <1>2 DEF PlaceOK

CommandTypeOK ==
  /\ PlaceOK
  /\ pc \in {"start", "entering", "body", "leaving", "ended"} /\ how \in Ends
  /\ onSigint \in {"cancel", "stop"} /\ {stop, entered, spoilt} \subseteq BOOLEAN
  /\ sigints \in 0..MaxSigints

\* A command starts at its first line.
LEMMA CommandTypeInit == Init => CommandTypeOK
  <1> SUFFICES ASSUME Init PROVE CommandTypeOK
    OBVIOUS
  <1>1. PlaceOK
    <2>1. cmd \in Commands /\ ip = 1
      BY DEF Init
    <2>2. Len(Program[cmd]) \in Nat /\ Len(Program[cmd]) > 0
      BY <2>1, ProgramsStop, LenProperties
    <2> QED
      BY <2>1, <2>2 DEF PlaceOK
  <1>2. MaxSigints \in Nat
    BY MonitorAssumption
  <1>3. sigints \in 0..MaxSigints
    BY <1>2 DEF Init
  <1>4. {stop, entered, spoilt} \subseteq BOOLEAN
    BY DEF Init
  <1> QED
    BY <1>1, <1>3, <1>4 DEF Init, CommandTypeOK, Ends

\* Each step stays within the program.
LEMMA CommandTypeNext == CommandTypeOK /\ [Next]_vars => CommandTypeOK'
  <1> SUFFICES ASSUME CommandTypeOK, [Next]_vars PROVE CommandTypeOK'
    OBVIOUS
  <1>1. CASE Connecting
    BY <1>1
       DEF Connecting, Enters, Established, Entered, EnterRaises, commandVars, CommandTypeOK,
           PlaceOK, Ends
  <1>2. CASE Body
    <2>1. CASE CallReturns \/ TryRaises \/ HasTargets \/ AttachesHandler \/ SetsSignalHandler
      <3>1. PlaceOK'
        <4>1. PICK op \in {"call", "try", "subscribe", "targets", "attach", "signals"} :
                At(op) /\ ip' = ip + 1 /\ cmd' = cmd
          BY <2>1 DEF CallReturns, TryRaises, HasTargets, AttachesHandler, SetsSignalHandler
        <4>2. ip + 1 \in 1..Len(Program[cmd])
          BY <4>1, NextLine DEF CommandTypeOK, Stops
        <4> QED
          BY <4>1, <4>2 DEF PlaceOK, CommandTypeOK
      <3> QED
        BY <2>1, <3>1
           DEF CallReturns, TryRaises, HasTargets, AttachesHandler, SetsSignalHandler, CommandTypeOK
    <2>2. CASE CallRaises \/ NoTargets \/ Finishes
      BY <2>2 DEF CallRaises, NoTargets, Finishes, Leave, CommandTypeOK, PlaceOK, Ends
    <2> QED
      BY <1>2, <2>1, <2>2 DEF Body
  <1>3. CASE Disconnecting
    BY <1>3 DEF Disconnecting, StopNotifyEnds, Leaves, commandVars, CommandTypeOK, PlaceOK, Ends
  <1>4. CASE UseEnds
    BY <1>4 DEF UseEnds, Leave, CommandTypeOK, PlaceOK, Ends
  <1>5. CASE SigintStops
    BY <1>5, MonitorAssumption DEF SigintStops, Sigint, CommandTypeOK, PlaceOK
  <1>6. CASE SigintCancels
    BY <1>6, MonitorAssumption DEF SigintCancels, Sigint, Leave, CommandTypeOK, PlaceOK, Ends
  <1>7. CASE Uses \/ Notified \/ HandlerReturns \/ LinkLost \/ Ended \/ UNCHANGED vars
    BY <1>7
       DEF Uses, Notified, HandlerReturns, LinkLost, Ended, vars, commandVars, CommandTypeOK,
           PlaceOK
  <1> QED
    BY <1>1, <1>2, <1>3, <1>4, <1>5, <1>6, <1>7 DEF Next

\* No command runs past the end of its program, no link or list of handlers gets
\* a value it cannot have.
THEOREM MonitorTypes == Spec => []TypeOK
  <1> DEFINE Inv == LInv /\ HInv /\ CommandTypeOK
  <1>1. Init => Inv
    BY LInvInit, HInvInit, CommandTypeInit DEF Init
  <1>2. Inv /\ [Next]_vars => Inv'
    BY LInvNext, HInvNext, CommandTypeNext
  <1>3. Inv => TypeOK
    <2> SUFFICES ASSUME Inv PROVE TypeOK
      OBVIOUS
    <2>1. LinkTypeOK /\ DispatchTypeOK
      BY HInvTypes DEF LInv
    <2>2. DOMAIN Program[cmd] = 1..Len(Program[cmd])
      BY ProgramsStop, LenProperties DEF CommandTypeOK, PlaceOK
    <2> QED
      BY <2>1, <2>2 DEF TypeOK, CommandTypeOK, PlaceOK
  <1> HIDE DEF Inv
  <1> QED
    BY <1>1, <1>2, <1>3, PTL DEF Spec
=============================================================================

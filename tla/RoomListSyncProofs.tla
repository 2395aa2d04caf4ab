------------------------- MODULE RoomListSyncProofs -------------------------
(***************************************************************************)
(* RoomListSync implements RoomListView for any rooms, page size and delta *)
(* budget that holds two full lists.  ListInv is inductive as it stands:   *)
(* every message on its way says what the list was at the revision it      *)
(* names, so whatever the client combines by the rules of OnPage and       *)
(* OnPush is again the list, or the first pages of the list, of one        *)
(* revision.                                                               *)
(***************************************************************************)
EXTENDS RoomListSync, FiniteSetTheorems, SequenceTheorems, TLAPS

-----------------------------------------------------------------------------
(* Lists, deltas and pages *)

\* A list shows finitely many rooms, at most MaxRooms.
LEMMA ListingFacts ==
  ASSUME NEW l \in Listings
  PROVE  /\ l \in [RoomIds -> Infos \cup {NoRoom}]
         /\ IsFiniteSet(Rooms(l))
         /\ Cardinality(Rooms(l)) \in Nat
         /\ Cardinality(Rooms(l)) <= MaxRooms
  <1>1. Rooms(l) \subseteq RoomIds
    BY DEF Rooms
  <1>2. IsFiniteSet(Rooms(l))
    BY <1>1, FS_Subset, ListAssumption
  <1> QED BY <1>2, FS_CardinalityType DEF Listings

\* The list without rooms is one of the lists.
LEMMA NoRoomsListing == NoRooms \in Listings
  <1>1. Rooms(NoRooms) = {}
    BY DEF Rooms, NoRooms
  <1>2. Cardinality(Rooms(NoRooms)) = 0
    BY <1>1, FS_EmptySet
  <1>3. NoRooms \in [RoomIds -> Infos \cup {NoRoom}]
    BY DEF NoRooms
  <1>4. MaxRooms \in Nat
    BY ListAssumption
  <1> QED BY <1>2, <1>3, <1>4 DEF Listings

\* A delta between two lists fits: broadcastRoomListPush never drops one.
LEMMA DeltaFits ==
  ASSUME NEW old \in Listings, NEW new \in Listings
  PROVE  Fits(Delta(old, new))
  <1> DEFINE U == Rooms(old) \cup Rooms(new)
             D == {q \in RoomIds : old[q] # new[q]}
  <1>1. IsFiniteSet(U) /\ Cardinality(U) <= 2 * MaxRooms
    <2>1. IsFiniteSet(Rooms(old)) /\ IsFiniteSet(Rooms(new))
      BY ListingFacts
    <2>2. /\ IsFiniteSet(U)
          /\ Cardinality(U) = Cardinality(Rooms(old)) + Cardinality(Rooms(new))
                                - Cardinality(Rooms(old) \cap Rooms(new))
      BY <2>1, FS_Union
    <2>3. Cardinality(Rooms(old) \cap Rooms(new)) \in Nat
      BY <2>1, FS_Intersection, FS_CardinalityType
    <2>4. /\ Cardinality(Rooms(old)) \in Nat /\ Cardinality(Rooms(old)) <= MaxRooms
          /\ Cardinality(Rooms(new)) \in Nat /\ Cardinality(Rooms(new)) <= MaxRooms
      BY ListingFacts
    <2>5. MaxRooms \in Nat
      BY ListAssumption
    <2> HIDE DEF U
    <2> QED BY <2>2, <2>3, <2>4, <2>5
  <1>2. D \subseteq U
    BY DEF Rooms
  <1>3. Cardinality(D) \in Nat /\ Cardinality(D) <= Cardinality(U) /\ Cardinality(U) \in Nat
    BY <1>1, <1>2, FS_Subset, FS_CardinalityType
  <1>4. DOMAIN Delta(old, new) = D
    BY DEF Delta
  <1>5. MaxRooms \in Nat /\ DeltaBudget \in Nat /\ 2 * MaxRooms <= DeltaBudget
    BY ListAssumption
  <1> HIDE DEF U, D
  <1> QED BY <1>1, <1>3, <1>4, <1>5 DEF Fits

\* A delta applied to the list it was made from gives the list it was made for.
LEMMA DeltaApplies ==
  ASSUME NEW old \in Listings, NEW new \in Listings
  PROVE  Overlay(old, Delta(old, new)) = new
  <1>1. old \in [RoomIds -> Infos \cup {NoRoom}] /\ new \in [RoomIds -> Infos \cup {NoRoom}]
    BY ListingFacts
  <1> QED BY <1>1 DEF Overlay, Delta

\* The records of a delta have the type of a message.
LEMMA DeltaType ==
  ASSUME NEW old \in Listings, NEW new \in Listings
  PROVE  Delta(old, new) \in Partial(Infos \cup {NoRoom})
  <1> DEFINE D == {q \in RoomIds : old[q] # new[q]}
  <1>1. new \in [RoomIds -> Infos \cup {NoRoom}]
    BY ListingFacts
  <1>2. Delta(old, new) \in [D -> Infos \cup {NoRoom}]
    BY <1>1 DEF Delta
  <1>3. D \in SUBSET RoomIds
    OBVIOUS
  <1> QED BY <1>2, <1>3 DEF Partial

\* The records of a page have the type of a message.
LEMMA RecordsType ==
  ASSUME NEW l \in Listings, NEW k
  PROVE  PageRecords(l, k) \in Partial(Infos)
  <1> DEFINE D == {q \in Rooms(l) : PageOf(l, q) = k}
  <1>1. l \in [RoomIds -> Infos \cup {NoRoom}]
    BY ListingFacts
  <1>2. PageRecords(l, k) \in [D -> Infos]
    BY <1>1 DEF PageRecords, Rooms
  <1>3. D \in SUBSET RoomIds
    BY DEF Rooms
  <1> QED BY <1>2, <1>3 DEF Partial

\* Division by the size of a page is monotone.
LEMMA DivMonotone ==
  ASSUME NEW P \in Nat \ {0}, NEW a \in Nat, NEW b \in Nat, a <= b
  PROVE  a \div P \in Nat /\ b \div P \in Nat /\ a \div P <= b \div P
  <1>1. /\ a \div P \in Int /\ b \div P \in Int
        /\ a = P * (a \div P) + (a % P) /\ b = P * (b \div P) + (b % P)
        /\ a % P \in 0 .. (P - 1) /\ b % P \in 0 .. (P - 1)
    OBVIOUS
  <1>2. PICK x, y, r, s : /\ x = a \div P /\ y = b \div P
                          /\ r = a % P /\ s = b % P
    OBVIOUS
  <1>3. /\ x \in Int /\ y \in Int /\ r \in 0 .. (P - 1) /\ s \in 0 .. (P - 1)
        /\ a = P * x + r /\ b = P * y + s
    BY <1>1, <1>2
  <1>4. x >= 0
    <2>1. SUFFICES ASSUME x <= -1 PROVE FALSE
      BY <1>3
    <2>2. P * x <= P * (-1)
      BY <1>3, <2>1, Z3
    <2> QED BY <1>3, <2>2
  <1>5. y >= 0
    <2>1. SUFFICES ASSUME y <= -1 PROVE FALSE
      BY <1>3
    <2>2. P * y <= P * (-1)
      BY <1>3, <2>1, Z3
    <2> QED BY <1>3, <2>2
  <1>6. x <= y
    <2>1. SUFFICES ASSUME x >= y + 1 PROVE FALSE
      BY <1>3
    <2>2. P * x >= P * (y + 1)
      BY <1>3, <2>1, Z3
    <2>3. P * (y + 1) = P * y + P
      BY <1>3
    <2>4. P * x \in Int /\ P * y \in Int
      BY <1>3
    <2> QED BY <1>3, <2>2, <2>3, <2>4
  <1> QED BY <1>2, <1>3, <1>4, <1>5, <1>6

\* Pages are numbered from 0, and every room is on one of PageCount pages.
LEMMA PagesHoldAll ==
  ASSUME NEW l \in Listings
  PROVE  /\ PageCount(l) \in Nat \ {0}
         /\ \A r \in RoomIds : PageOf(l, r) \in Nat
         /\ \A r \in Rooms(l) : PageOf(l, r) < PageCount(l)
  <1>1. IsFiniteSet(Rooms(l)) /\ Cardinality(Rooms(l)) \in Nat /\ PageCap \in Nat \ {0}
    BY ListingFacts, ListAssumption
  <1>2. PageCount(l) \in Nat \ {0}
    <2>1. CASE Rooms(l) = {}
      BY <2>1 DEF PageCount
    <2>2. CASE Rooms(l) # {}
      <3>1. Cardinality(Rooms(l)) # 0
        BY <1>1, <2>2, FS_EmptySet
      <3>2. Cardinality(Rooms(l)) - 1 \in Nat
        BY <1>1, <3>1
      <3>3. (Cardinality(Rooms(l)) - 1) \div PageCap \in Nat
        BY <1>1, <3>2, DivMonotone
      <3> QED BY <2>2, <3>3 DEF PageCount
    <2> QED BY <2>1, <2>2
  <1>3. ASSUME NEW r \in RoomIds
        PROVE  /\ PageOf(l, r) \in Nat
               /\ r \in Rooms(l) => PageOf(l, r) < PageCount(l)
    <2> DEFINE B == {q \in Rooms(l) : q < r}
    <2>1. B \subseteq Rooms(l)
      OBVIOUS
    <2>2. /\ IsFiniteSet(B) /\ Cardinality(B) <= Cardinality(Rooms(l))
          /\ B # Rooms(l) => Cardinality(B) < Cardinality(Rooms(l))
          /\ Cardinality(B) \in Nat
      BY <1>1, <2>1, FS_Subset, FS_CardinalityType
    <2>3. PageOf(l, r) = Cardinality(B) \div PageCap
      BY DEF PageOf
    <2>4. PageOf(l, r) \in Nat
      BY <1>1, <2>2, <2>3, DivMonotone
    <2>5. ASSUME r \in Rooms(l) PROVE PageOf(l, r) < PageCount(l)
      <3>1. r \notin B
        BY ListAssumption
      <3>2. Cardinality(B) < Cardinality(Rooms(l))
        BY <2>2, <2>5, <3>1
      <3>3. /\ Cardinality(Rooms(l)) - 1 \in Nat
            /\ Cardinality(B) <= Cardinality(Rooms(l)) - 1
        <4> HIDE DEF B
        <4> QED BY <1>1, <2>2, <3>2
      <3>4. /\ (Cardinality(Rooms(l)) - 1) \div PageCap \in Nat
            /\ Cardinality(B) \div PageCap <= (Cardinality(Rooms(l)) - 1) \div PageCap
        <4> HIDE DEF B
        <4> QED BY <1>1, <2>2, <3>3, DivMonotone
      <3>5. PageCount(l) = (Cardinality(Rooms(l)) - 1) \div PageCap + 1
        BY <2>5 DEF PageCount
      <3> HIDE DEF B
      <3> QED BY <2>3, <2>4, <3>4, <3>5
    <2> QED BY <2>4, <2>5
  <1>4. Rooms(l) \subseteq RoomIds
    BY DEF Rooms
  <1> QED BY <1>2, <1>3, <1>4

\* The part of a list that is on its first k pages.
FirstPages(l, k) == [r \in RoomIds |-> IF PageOf(l, r) < k THEN l[r] ELSE NoRoom]

\* The next page continues it.
LEMMA PageExtends ==
  ASSUME NEW l \in Listings, NEW k \in Nat
  PROVE  Overlay(FirstPages(l, k), PageRecords(l, k)) = FirstPages(l, k + 1)
  <1>1. l \in [RoomIds -> Infos \cup {NoRoom}] /\ \A r \in RoomIds : PageOf(l, r) \in Nat
    BY ListingFacts, PagesHoldAll
  <1>2. ASSUME NEW r \in RoomIds
        PROVE  Overlay(FirstPages(l, k), PageRecords(l, k))[r] = FirstPages(l, k + 1)[r]
    <2>1. CASE l[r] = NoRoom
      BY <1>1, <2>1 DEF Overlay, FirstPages, PageRecords, Rooms
    <2>2. CASE l[r] # NoRoom /\ PageOf(l, r) = k
      BY <1>1, <2>2 DEF Overlay, FirstPages, PageRecords, Rooms
    <2>3. CASE l[r] # NoRoom /\ PageOf(l, r) # k
      <3>1. PageOf(l, r) < k <=> PageOf(l, r) < k + 1
        BY <1>1, <2>3
      <3> QED BY <1>1, <2>3, <3>1 DEF Overlay, FirstPages, PageRecords, Rooms
    <2> QED BY <2>1, <2>2, <2>3
  <1> QED BY <1>2 DEF Overlay, FirstPages

\* All pages are the list, and none the list without rooms.
LEMMA AllPages ==
  ASSUME NEW l \in Listings
  PROVE  FirstPages(l, PageCount(l)) = l /\ FirstPages(l, 0) = NoRooms
  <1>1. /\ l \in [RoomIds -> Infos \cup {NoRoom}]
        /\ \A r \in RoomIds : PageOf(l, r) \in Nat
        /\ \A r \in Rooms(l) : PageOf(l, r) < PageCount(l)
    BY ListingFacts, PagesHoldAll
  <1>2. ASSUME NEW r \in RoomIds
        PROVE  FirstPages(l, PageCount(l))[r] = l[r] /\ FirstPages(l, 0)[r] = NoRoom
    <2>1. CASE r \in Rooms(l)
      BY <1>1, <2>1 DEF FirstPages
    <2>2. CASE r \notin Rooms(l)
      BY <1>1, <2>2 DEF FirstPages, Rooms
    <2> QED BY <2>1, <2>2
  <1> QED BY <1>1, <1>2 DEF FirstPages, NoRooms

\* What overlays of records are.
LEMMA OverlayType ==
  ASSUME NEW l \in [RoomIds -> Infos \cup {NoRoom}],
         NEW recs \in Partial(Infos \cup {NoRoom})
  PROVE  Overlay(l, recs) \in [RoomIds -> Infos \cup {NoRoom}]
  <1>1. PICK T \in SUBSET RoomIds : recs \in [T -> Infos \cup {NoRoom}]
    BY DEF Partial
  <1> QED BY <1>1 DEF Overlay

\* The records of a page are records.
LEMMA PartialMonotone == Partial(Infos) \subseteq Partial(Infos \cup {NoRoom})
  <1> SUFFICES ASSUME NEW x \in Partial(Infos) PROVE x \in Partial(Infos \cup {NoRoom})
    OBVIOUS
  <1>1. PICK T \in SUBSET RoomIds : x \in [T -> Infos]
    BY DEF Partial
  <1>2. x \in [T -> Infos \cup {NoRoom}]
    BY <1>1
  <1> QED BY <1>2 DEF Partial

-----------------------------------------------------------------------------
(* The wire *)

\* The lists of all revisions are lists.
LEMMA VersionFacts ==
  ASSUME ListInv
  PROVE  /\ \A i \in 1 .. Len(versions) : versions[i] \in Listings
         /\ Len(versions) \in Nat \ {0}
         /\ server.revision = Len(versions)
         /\ server.rooms \in Listings /\ server.published = server.rooms
  BY DEF ListInv, TypeOK, NoDeltaDropped

\* More messages of the newest revision go behind those on their way.
LEMMA WireGrows ==
  ASSUME ListInv, TypeOK',
         UNCHANGED client,
         Len(versions') \in Nat, Len(versions) <= Len(versions'),
         \A i \in 1 .. Len(versions) : versions'[i] = versions[i],
         NEW more \in Seq(Messages), wire' = wire \o more,
         \A i \in 1 .. Len(more) :
            MessageOK(versions', more[i]) /\ more[i].rev = Len(versions')
  PROVE  WireOK'
  <1>1. wire \in Seq(Messages) /\ versions \in Seq(Listings)
    BY DEF ListInv, TypeOK
  <1>2. /\ Len(wire \o more) = Len(wire) + Len(more)
        /\ \A i \in 1 .. Len(wire) : (wire \o more)[i] = wire[i]
        /\ \A i \in (Len(wire) + 1) .. (Len(wire) + Len(more)) :
             (wire \o more)[i] = more[i - Len(wire)]
        /\ Len(wire) \in Nat /\ Len(more) \in Nat
    BY <1>1
  <1>3. DOMAIN wire' = 1 .. (Len(wire) + Len(more)) /\ DOMAIN wire = 1 .. Len(wire)
    BY <1>1, <1>2 DEF TypeOK
  <1>4. ASSUME NEW i \in 1 .. Len(wire)
        PROVE  MessageOK(versions', wire[i]) /\ wire[i].rev \in 1 .. Len(versions)
    <2>1. MessageOK(versions, wire[i])
      BY <1>3 DEF ListInv, WireOK
    <2> QED BY <1>1, <2>1 DEF MessageOK
  <1>5. \A i, j \in 1 .. Len(wire) : i <= j => wire[i].rev <= wire[j].rev
    BY <1>3 DEF ListInv, WireOK
  <1>6. \A i \in 1 .. Len(wire) : client.revision <= wire[i].rev
    BY <1>3 DEF ListInv, WireOK
  <1>7. client.revision \in 0 .. Len(versions)
    BY <1>1 DEF ListInv, CacheOK
  <1>8. ASSUME NEW i \in DOMAIN wire'
        PROVE  /\ MessageOK(versions', wire'[i])
               /\ client'.revision <= wire'[i].rev
               /\ i <= Len(wire) => wire'[i] = wire[i]
               /\ i > Len(wire) => wire'[i].rev = Len(versions')
               /\ wire'[i].rev \in 1 .. Len(versions')
    <2>1. CASE i <= Len(wire)
      BY <1>1, <1>2, <1>3, <1>4, <1>6, <2>1
    <2>2. CASE i > Len(wire)
      <3>1. /\ i - Len(wire) \in 1 .. Len(more)
            /\ i \in (Len(wire) + 1) .. (Len(wire) + Len(more))
        BY <1>2, <1>3, <2>2
      <3>2. wire'[i] = more[i - Len(wire)]
        BY <1>2, <3>1
      <3>3. MessageOK(versions', wire'[i]) /\ wire'[i].rev = Len(versions')
        BY <3>1, <3>2
      <3>4. wire'[i].rev \in 1 .. Len(versions')
        BY <3>3 DEF MessageOK
      <3> QED BY <1>1, <1>7, <2>2, <3>3, <3>4, <1>2
    <2> QED BY <1>2, <1>3, <2>1, <2>2
  <1>9. ASSUME NEW i \in DOMAIN wire', NEW j \in DOMAIN wire', i <= j
        PROVE  wire'[i].rev <= wire'[j].rev
    <2>1. CASE j <= Len(wire)
      BY <1>2, <1>3, <1>5, <1>8, <1>9, <2>1
    <2>2. CASE j > Len(wire)
      BY <1>8, <2>2
    <2> QED BY <1>2, <1>3, <2>1, <2>2
  <1> QED BY <1>8, <1>9 DEF WireOK

\* What the client holds stays true when the versions grow.
LEMMA CopiesStay ==
  ASSUME ListInv,
         UNCHANGED client,
         Len(versions') \in Nat, Len(versions) <= Len(versions'),
         \A i \in 1 .. Len(versions) : versions'[i] = versions[i]
  PROVE  CacheOK' /\ SnapOK'
  <1>1. Len(versions) \in Nat
    BY VersionFacts
  <1>2. CacheOK'
    <2>1. CacheOK
      BY DEF ListInv
    <2> QED BY <1>1, <2>1 DEF CacheOK
  <1>3. SnapOK'
    <2>1. SnapOK
      BY DEF ListInv
    <2>2. CASE client.snapRev = 0
      BY <2>2 DEF SnapOK
    <2>3. CASE client.snapRev # 0
      <3>1. /\ client.snapRev \in 1 .. Len(versions)
            /\ versions'[client.snapRev] = versions[client.snapRev]
        BY <2>1, <2>3 DEF SnapOK
      <3> QED BY <1>1, <2>1, <2>3, <3>1 DEF SnapOK
    <2> QED BY <2>2, <2>3
  <1> QED BY <1>2, <1>3

\* broadcastRoomListPush: the revision, the list and the delta agree.
LEMMA PublishFacts ==
  ASSUME ListInv, NEW l \in Listings
  PROVE  LET s == Published(server, l)
             vs == Recorded(server, l)
         IN /\ s \in [rooms : Listings, published : Listings, revision : Nat \ {0}]
            /\ s.rooms = l /\ s.published = l
            /\ vs \in Seq(Listings)
            /\ Len(vs) = s.revision /\ vs[s.revision] = l
            /\ Len(versions) <= Len(vs)
            /\ \A i \in 1 .. Len(versions) : vs[i] = versions[i]
            /\ vs = versions \/ vs = Append(versions, l)
            /\ Push(server, l) \in Seq(Messages)
            /\ \A i \in 1 .. Len(Push(server, l)) :
                 /\ MessageOK(vs, Push(server, l)[i])
                 /\ Push(server, l)[i].rev = Len(vs)
  <1> DEFINE s == Published(server, l)
             vs == Recorded(server, l)
  <1>1. /\ server \in [rooms : Listings, published : Listings, revision : Nat \ {0}]
        /\ versions \in Seq(Listings)
        /\ Len(versions) = server.revision
        /\ versions[server.revision] = server.rooms
        /\ server.published = server.rooms
    BY DEF ListInv, TypeOK, NoDeltaDropped
  <1>2. CASE l = server.published
    <2>1. s = [server EXCEPT !.rooms = l] /\ vs = versions /\ Push(server, l) = <<>>
      BY <1>2 DEF Published, Recorded, Push
    <2>2. <<>> \in Seq(Messages) /\ Len(<<>>) = 0
      OBVIOUS
    <2>3. \A i \in 1 .. Len(Push(server, l)) : FALSE
      BY <2>1, <2>2
    <2> HIDE DEF s, vs
    <2>4. /\ s \in [rooms : Listings, published : Listings, revision : Nat \ {0}]
          /\ s.rooms = l /\ s.published = l /\ s.revision = server.revision
      BY <1>1, <1>2, <2>1
    <2>5. vs \in Seq(Listings) /\ Len(vs) = s.revision /\ vs[s.revision] = l
      BY <1>1, <1>2, <2>1, <2>4
    <2> QED BY <1>1, <2>1, <2>2, <2>3, <2>4, <2>5 DEF s, vs
  <1>3. CASE l # server.published
    <2> DEFINE m == [type |-> "push", base |-> server.revision,
                     rev |-> server.revision + 1, ops |-> Delta(server.published, l)]
    <2>1. Fits(Delta(server.published, l))
      BY <1>1, DeltaFits
    <2>2. /\ s = [rooms |-> l, published |-> l, revision |-> server.revision + 1]
          /\ vs = Append(versions, l)
          /\ Push(server, l) = <<m>>
      BY <1>3, <2>1 DEF Published, Recorded, Push
    <2>3. m \in Messages
      <3>1. Delta(server.published, l) \in Partial(Infos \cup {NoRoom})
        BY <1>1, DeltaType
      <3> QED BY <1>1, <3>1 DEF Messages
    <2> HIDE DEF s, vs
    <2>4. /\ vs \in Seq(Listings)
          /\ Len(vs) = server.revision + 1
          /\ vs[server.revision + 1] = l
          /\ \A i \in 1 .. Len(versions) : vs[i] = versions[i]
      BY <1>1, <2>2
    <2>5. vs[server.revision] = server.published
      BY <1>1, <2>4
    <2>6. MessageOK(vs, m)
      BY <1>1, <2>4, <2>5 DEF MessageOK
    <2>7. m.rev = Len(vs)
      BY <2>4
    <2> HIDE DEF m
    <2>8. /\ Push(server, l) \in Seq(Messages)
          /\ \A i \in 1 .. Len(Push(server, l)) : Push(server, l)[i] = m
      BY <2>2, <2>3
    <2> QED BY <1>1, <2>2, <2>4, <2>6, <2>7, <2>8 DEF s, vs
  <1> QED BY <1>2, <1>3

\* buildRoomListPages: the pages say what the list is.
LEMMA PagesFacts ==
  ASSUME NEW l \in Listings, NEW vs \in Seq(Listings),
         NEW s \in [rooms : Listings, published : Listings, revision : Nat \ {0}],
         s.rooms = l, Len(vs) = s.revision, vs[s.revision] = l
  PROVE  /\ Pages(s) \in Seq(Messages)
         /\ \A i \in 1 .. Len(Pages(s)) :
              MessageOK(vs, Pages(s)[i]) /\ Pages(s)[i].rev = Len(vs)
  <1>1. PageCount(l) \in Nat \ {0}
    BY PagesHoldAll
  <1>2. ASSUME NEW k \in 1 .. PageCount(l)
        PROVE  /\ Pages(s)[k] \in Messages
               /\ MessageOK(vs, Pages(s)[k]) /\ Pages(s)[k].rev = Len(vs)
    <2> DEFINE m == [type |-> "page", rev |-> s.revision, index |-> k - 1,
                     count |-> PageCount(l), recs |-> PageRecords(l, k - 1)]
    <2>1. Pages(s)[k] = m
      BY DEF Pages
    <2>2. PageRecords(l, k - 1) \in Partial(Infos)
      BY RecordsType
    <2>3. k - 1 \in Nat /\ s.revision \in Nat \ {0}
      BY <1>1
    <2>4. m \in Messages
      BY <1>1, <2>2, <2>3 DEF Messages
    <2>5. MessageOK(vs, m)
      BY <2>3 DEF MessageOK
    <2> QED BY <2>1, <2>4, <2>5
  <1>3. Pages(s) \in [1 .. PageCount(l) -> Messages]
    BY <1>2 DEF Pages
  <1>4. Pages(s) \in Seq(Messages) /\ Len(Pages(s)) = PageCount(l)
    BY <1>1, <1>3, SeqDef
  <1> QED BY <1>2, <1>4

-----------------------------------------------------------------------------
(* The steps of the server *)

\* A list is published and some messages about it are sent.
LEMMA PublishStep ==
  ASSUME ListInv, NEW l \in Listings,
         server' = Published(server, l), versions' = Recorded(server, l),
         NEW more \in Seq(Messages), wire' = wire \o more,
         \A i \in 1 .. Len(more) :
            MessageOK(versions', more[i]) /\ more[i].rev = Len(versions'),
         requests' \in Nat, UNCHANGED <<up, client, refused>>
  PROVE  ListInv'
  <1> DEFINE s == Published(server, l)
             vs == Recorded(server, l)
  <1>1. /\ s \in [rooms : Listings, published : Listings, revision : Nat \ {0}]
        /\ s.rooms = l /\ s.published = l
        /\ vs \in Seq(Listings)
        /\ Len(vs) = s.revision /\ vs[s.revision] = l
        /\ Len(versions) <= Len(vs)
        /\ \A i \in 1 .. Len(versions) : vs[i] = versions[i]
    BY PublishFacts
  <1>2. server' = s /\ versions' = vs
    OBVIOUS
  <1> HIDE DEF s, vs
  <1>3. TypeOK'
    <2>1. TypeOK
      BY DEF ListInv
    <2>2. wire' \in Seq(Messages)
      BY <2>1 DEF TypeOK
    <2> QED BY <1>1, <1>2, <2>1, <2>2 DEF TypeOK
  <1>4. Len(versions') \in Nat
    BY <1>1, <1>2
  <1>5. WireOK'
    <2>1. /\ UNCHANGED client
          /\ Len(versions) <= Len(versions')
          /\ \A i \in 1 .. Len(versions) : versions'[i] = versions[i]
      BY <1>1, <1>2
    <2> QED BY <1>3, <1>4, <2>1, WireGrows, Zenon
  <1>6. CacheOK' /\ SnapOK'
    BY <1>1, <1>2, <1>4, CopiesStay
  <1> QED BY <1>1, <1>2, <1>3, <1>5, <1>6 DEF ListInv, NoDeltaDropped

\* A change of the rooms, with the delta for a client that is logged in.
LEMMA RoomsChangeStep ==
  ASSUME ListInv, RoomsChange
  PROVE  ListInv'
  <1>1. PICK l \in Successors(server.rooms) :
          /\ server' = Published(server, l)
          /\ versions' = Recorded(server, l)
          /\ wire' = IF up THEN wire \o Push(server, l) ELSE wire
    BY DEF RoomsChange
  <1>2. l \in Listings
    BY DEF Successors
  <1>3. /\ Push(server, l) \in Seq(Messages)
        /\ \A i \in 1 .. Len(Push(server, l)) :
             /\ MessageOK(versions', Push(server, l)[i])
             /\ Push(server, l)[i].rev = Len(versions')
    BY <1>1, <1>2, PublishFacts
  <1>4. wire \in Seq(Messages) /\ requests \in Nat
    BY DEF ListInv, TypeOK
  <1>5. requests' \in Nat /\ UNCHANGED <<up, client, refused>>
    BY <1>4 DEF RoomsChange
  <1>6. CASE up
    BY <1>1, <1>2, <1>3, <1>5, <1>6, PublishStep
  <1>7. CASE ~up
    <2>1. wire' = wire \o <<>>
      BY <1>1, <1>4, <1>7, ConcatEmptySeq
    <2>2. <<>> \in Seq(Messages) /\ \A i \in 1 .. Len(<<>>) : FALSE
      OBVIOUS
    <2> QED BY <1>1, <1>2, <1>5, <2>1, <2>2, PublishStep
  <1> QED BY <1>6, <1>7

\* The answer to MSG_LIST_ROOMS: the delta of the cleanup and the pages.
LEMMA ListRoomsStep ==
  ASSUME ListInv, ListRooms
  PROVE  ListInv'
  <1>1. PICK l \in Expired(server.rooms) :
          /\ server' = Published(server, l)
          /\ versions' = Recorded(server, l)
          /\ wire' = wire \o Push(server, l) \o Pages(Published(server, l))
    BY DEF ListRooms
  <1>2. l \in Listings
    BY DEF Expired
  <1> DEFINE p == Push(server, l)
             q == Pages(server')
             more == p \o q
  <1>3. /\ p \in Seq(Messages)
        /\ \A i \in 1 .. Len(p) : MessageOK(versions', p[i]) /\ p[i].rev = Len(versions')
    BY <1>1, <1>2, PublishFacts
  <1>4. /\ q \in Seq(Messages)
        /\ \A i \in 1 .. Len(q) : MessageOK(versions', q[i]) /\ q[i].rev = Len(versions')
    <2>1. /\ server' \in [rooms : Listings, published : Listings, revision : Nat \ {0}]
          /\ server'.rooms = l /\ versions' \in Seq(Listings)
          /\ Len(versions') = server'.revision /\ versions'[server'.revision] = l
      BY <1>1, <1>2, PublishFacts
    <2> QED BY <1>2, <2>1, PagesFacts
  <1>5. wire \in Seq(Messages) /\ requests \in Nat
    BY DEF ListInv, TypeOK
  <1>6. wire' = (wire \o p) \o q
    BY <1>1
  <1> HIDE DEF p, q
  <1>7. wire' = wire \o more /\ more \in Seq(Messages)
    <2>1. p \in Seq(Messages) /\ q \in Seq(Messages)
      BY <1>3, <1>4
    <2>2. (wire \o p) \o q = wire \o more
      BY <1>5, <2>1, ConcatAssociative, Z3
    <2>3. more \in Seq(Messages)
      BY <2>1, ConcatProperties
    <2> QED BY <1>6, <2>2, <2>3
  <1>8. ASSUME NEW i \in 1 .. Len(more)
        PROVE  MessageOK(versions', more[i]) /\ more[i].rev = Len(versions')
    <2>1. /\ Len(more) = Len(p) + Len(q) /\ Len(p) \in Nat /\ Len(q) \in Nat
          /\ more[i] = IF i <= Len(p) THEN p[i] ELSE q[i - Len(p)]
      BY <1>3, <1>4
    <2>2. i <= Len(p) \/ i - Len(p) \in 1 .. Len(q)
      BY <2>1
    <2> QED BY <1>3, <1>4, <2>1, <2>2
  <1>9. requests' \in Nat /\ UNCHANGED <<up, client, refused>>
    BY <1>5 DEF ListRooms
  <1> HIDE DEF more
  <1> QED BY <1>1, <1>2, <1>7, <1>8, <1>9, PublishStep

-----------------------------------------------------------------------------
(* The steps of the client *)

\* The first message on its way.
LEMMA HeadFacts ==
  ASSUME ListInv, wire # <<>>
  PROVE  /\ Head(wire) \in Messages
         /\ MessageOK(versions, Head(wire))
         /\ client.revision <= Head(wire).rev
  <1>1. wire \in Seq(Messages)
    BY DEF ListInv, TypeOK
  <1>2. Head(wire) = wire[1] /\ 1 \in DOMAIN wire /\ Head(wire) \in Messages
    BY <1>1
  <1> QED BY <1>2 DEF ListInv, WireOK

\* It leaves the wire, and the client shows at most its revision.
LEMMA WireShrinks ==
  ASSUME ListInv, wire # <<>>, wire' = Tail(wire), UNCHANGED versions,
         client'.revision = client.revision \/ client'.revision = Head(wire).rev
  PROVE  wire' \in Seq(Messages) /\ WireOK'
  <1>1. wire \in Seq(Messages)
    BY DEF ListInv, TypeOK
  <1>2. /\ wire' \in Seq(Messages)
        /\ Len(wire) \in Nat \ {0} /\ Len(wire') = Len(wire) - 1
        /\ DOMAIN wire' = 1 .. (Len(wire) - 1) /\ DOMAIN wire = 1 .. Len(wire)
        /\ \A i \in 1 .. (Len(wire) - 1) : wire'[i] = wire[i + 1]
        /\ Head(wire) = wire[1]
    BY <1>1, HeadTailProperties
  <1>3. WireOK
    BY DEF ListInv
  <1>4. ASSUME NEW i \in DOMAIN wire'
        PROVE  /\ MessageOK(versions', wire'[i])
               /\ client'.revision <= wire'[i].rev
    <2>1. wire'[i] = wire[i + 1] /\ i + 1 \in DOMAIN wire /\ 1 \in DOMAIN wire /\ 1 <= i + 1
      BY <1>2
    <2>2. wire[1].rev <= wire[i + 1].rev
      BY <1>3, <2>1 DEF WireOK
    <2> QED BY <1>2, <1>3, <2>1, <2>2 DEF WireOK
  <1>5. ASSUME NEW i \in DOMAIN wire', NEW j \in DOMAIN wire', i <= j
        PROVE  wire'[i].rev <= wire'[j].rev
    <2>1. /\ wire'[i] = wire[i + 1] /\ wire'[j] = wire[j + 1]
          /\ i + 1 \in DOMAIN wire /\ j + 1 \in DOMAIN wire /\ i + 1 <= j + 1
      BY <1>2, <1>5
    <2> QED BY <1>3, <2>1 DEF WireOK
  <1> QED BY <1>2, <1>4, <1>5 DEF WireOK

\* What a message does to the client: what it shows stays, or becomes the
\* list of the message's revision.
Shows(m) ==
  \/ client'.revision = client.revision /\ client'.cache = client.cache
  \/ client'.revision = m.rev /\ client'.cache = versions[m.rev]

\* The states of the client, for any set of lists.
LEMMA ClientType ==
  ASSUME NEW c \in ClientStates, NEW x \in [RoomIds -> Infos \cup {NoRoom}],
         NEW rev \in Nat, NEW count \in Nat, NEW k \in Nat
  PROVE  /\ [c EXCEPT !.snap = x, !.snapRev = rev, !.snapCount = count, !.snapNext = k]
              \in ClientStates
         /\ [c EXCEPT !.snap = x, !.snapNext = k] \in ClientStates
  <1>1. PICK L : L = [RoomIds -> Infos \cup {NoRoom}]
    OBVIOUS
  <1>2. ClientStates = [cache : L, revision : Nat, snap : L,
                        snapRev : Nat, snapCount : Nat, snapNext : Nat]
    BY <1>1 DEF ClientStates
  <1>3. x \in L
    BY <1>1
  <1> QED BY <1>2, <1>3

\* Clearing the snapshot touches nothing else.
LEMMA ClearedFacts ==
  ASSUME NEW c \in ClientStates
  PROVE  /\ Cleared(c) \in ClientStates
         /\ Cleared(c).revision = c.revision /\ Cleared(c).cache = c.cache
         /\ Cleared(c).snapRev = 0
  <1>1. NoRooms \in [RoomIds -> Infos \cup {NoRoom}]
    BY DEF NoRooms
  <1> QED BY <1>1 DEF Cleared, ClientStates

\* The snapshot of c is the first pages of the list of its revision.
Pending(c) ==
  /\ c.snapRev \in 1 .. Len(versions)
  /\ c.snapCount = PageCount(versions[c.snapRev])
  /\ c.snap = FirstPages(versions[c.snapRev], c.snapNext)

\* Page 0 begins with no page.
LEMMA BegunFacts ==
  ASSUME ListInv, NEW m \in Messages, m.type = "page", MessageOK(versions, m)
  PROVE  LET c == Begun(client, m)
         IN /\ c \in ClientStates
            /\ c.revision = client.revision /\ c.cache = client.cache
            /\ c.snapRev = 0 \/ Pending(c)
  <1> DEFINE c == Begun(client, m)
  <1>1. client \in ClientStates
    BY DEF ListInv, TypeOK
  <1>2. /\ m.rev \in 1 .. Len(versions) /\ m.index \in Nat
        /\ m.count = PageCount(versions[m.rev])
    BY DEF MessageOK
  <1>3. versions[m.rev] \in Listings
    BY <1>2, VersionFacts
  <1>4. m.count \in Nat /\ FirstPages(versions[m.rev], 0) = NoRooms
    BY <1>2, <1>3, PagesHoldAll, AllPages
  <1>5. CASE m.index = 0
    <2>1. c = [client EXCEPT !.snap = NoRooms, !.snapRev = m.rev,
                             !.snapCount = m.count, !.snapNext = 0]
      BY <1>5 DEF Begun
    <2>2. NoRooms \in [RoomIds -> Infos \cup {NoRoom}]
      BY DEF NoRooms
    <2>3. /\ c.snap = NoRooms /\ c.snapRev = m.rev /\ c.snapCount = m.count
          /\ c.snapNext = 0 /\ c.revision = client.revision /\ c.cache = client.cache
      BY <1>1, <2>1 DEF ClientStates
    <2>4. m.rev \in Nat
      BY <1>2, VersionFacts
    <2>5. c \in ClientStates
      <3>1. [client EXCEPT !.snap = NoRooms, !.snapRev = m.rev,
                           !.snapCount = m.count, !.snapNext = 0] \in ClientStates
        <4>1. PICK x, rev, count, k :
                 x = NoRooms /\ rev = m.rev /\ count = m.count /\ k = 0
          OBVIOUS
        <4>2. k \in Nat
          BY <4>1
        <4>3. [client EXCEPT !.snap = x, !.snapRev = rev, !.snapCount = count,
                             !.snapNext = k] \in ClientStates
          BY <1>1, <1>4, <2>2, <2>4, <4>1, <4>2, ClientType
        <4> QED BY <4>1, <4>3
      <3> QED BY <2>1, <3>1
    <2> HIDE DEF c
    <2>6. Pending(c)
      BY <1>2, <1>4, <2>3 DEF Pending
    <2> QED BY <2>3, <2>5, <2>6 DEF c
  <1>6. CASE m.index # 0
    <2>1. c = client
      BY <1>6 DEF Begun
    <2>2. client.snapRev = 0 \/ Pending(client)
      BY DEF ListInv, SnapOK, Pending, FirstPages
    <2> QED BY <1>1, <2>1, <2>2
  <1> QED BY <1>5, <1>6

\* A page that continues the snapshot.
LEMMA AddedFacts ==
  ASSUME ListInv, NEW m \in Messages, m.type = "page", MessageOK(versions, m),
         NEW c \in ClientStates, c.snapRev = 0 \/ Pending(c), PageContinues(c, m)
  PROVE  LET d == Added(c, m)
         IN /\ d \in ClientStates
            /\ \/ d.revision = c.revision /\ d.cache = c.cache
               \/ d.revision = m.rev /\ d.cache = versions[m.rev]
            /\ d.snapRev = 0 \/ Pending(d)
  <1> DEFINE l == versions[m.rev]
             s == [c EXCEPT !.snap = Overlay(c.snap, m.recs), !.snapNext = c.snapNext + 1]
  <1>1. /\ m.rev \in 1 .. Len(versions) /\ m.rev = c.snapRev /\ m.index = c.snapNext
        /\ m.recs = PageRecords(l, m.index) /\ m.count = PageCount(l)
    BY DEF MessageOK, PageContinues
  <1>2. l \in Listings /\ m.rev \in Nat \ {0}
    BY <1>1, VersionFacts
  <1>3. Pending(c)
    BY <1>1, <1>2
  <1>4. c.snap = FirstPages(l, c.snapNext) /\ c.snapNext \in Nat /\ c.snapCount = PageCount(l)
    BY <1>1, <1>3 DEF Pending, ClientStates
  <1>5. Overlay(c.snap, m.recs) = FirstPages(l, c.snapNext + 1)
    BY <1>1, <1>2, <1>4, PageExtends
  <1>6. Overlay(c.snap, m.recs) \in [RoomIds -> Infos \cup {NoRoom}]
    <2>1. m.recs \in Partial(Infos \cup {NoRoom})
      BY <1>1, <1>2, RecordsType, PartialMonotone
    <2> QED BY <2>1, OverlayType DEF ClientStates
  <1>7. s \in ClientStates
    <2>1. c.snapNext + 1 \in Nat
      BY <1>4
    <2>2. PICK x, k : x = Overlay(c.snap, m.recs) /\ k = c.snapNext + 1
      OBVIOUS
    <2>3. [c EXCEPT !.snap = x, !.snapNext = k] \in ClientStates
      BY <1>2, <1>6, <2>1, <2>2, ClientType
    <2> QED BY <2>2, <2>3
  <1>8. /\ s.snap = FirstPages(l, s.snapNext) /\ s.snapNext = c.snapNext + 1
        /\ s.snapRev = m.rev /\ s.snapCount = PageCount(l)
        /\ s.revision = c.revision /\ s.cache = c.cache
    BY <1>1, <1>4, <1>5 DEF ClientStates
  <1>9. Added(c, m) = IF s.snapNext = s.snapCount
                      THEN [Cleared(s) EXCEPT !.cache = s.snap, !.revision = s.snapRev]
                      ELSE s
    BY DEF Added
  <1> HIDE DEF s
  <1>10. CASE s.snapNext = s.snapCount
    <2> DEFINE d == Added(c, m)
    <2>1. s.snap = l
      BY <1>2, <1>8, <1>10, AllPages
    <2>2. Cleared(s) \in ClientStates /\ Cleared(s).snapRev = 0
      BY <1>7, ClearedFacts
    <2>3. d = [Cleared(s) EXCEPT !.cache = s.snap, !.revision = s.snapRev]
      BY <1>9, <1>10
    <2>4. d \in ClientStates /\ d.revision = m.rev /\ d.cache = l /\ d.snapRev = 0
      <3>1. s.snap \in [RoomIds -> Infos \cup {NoRoom}]
        BY <1>7 DEF ClientStates
      <3> HIDE DEF d, l
      <3> QED BY <1>2, <1>8, <2>1, <2>2, <2>3, <3>1 DEF ClientStates
    <2> QED BY <2>4
  <1>11. CASE s.snapNext # s.snapCount
    <2>1. Added(c, m) = s
      BY <1>9, <1>11
    <2>2. Pending(s)
      BY <1>1, <1>8 DEF Pending
    <2> QED BY <1>7, <1>8, <2>1, <2>2
  <1> QED BY <1>10, <1>11

\* The handler of MSG_ROOM_LIST.
LEMMA OnPageFacts ==
  ASSUME ListInv, NEW m \in Messages, m.type = "page", MessageOK(versions, m),
         OnPage(m)
  PROVE  /\ client' \in ClientStates /\ requests' \in Nat
         /\ Shows(m)
         /\ client'.snapRev = 0 \/ Pending(client')
  <1> DEFINE c == Begun(client, m)
  <1>1. /\ c \in ClientStates
        /\ c.revision = client.revision /\ c.cache = client.cache
        /\ c.snapRev = 0 \/ Pending(c)
    BY BegunFacts
  <1>2. /\ client' = IF PageContinues(c, m) THEN Added(c, m) ELSE Cleared(c)
        /\ requests' = IF PageContinues(c, m) THEN requests ELSE requests + 1
    BY DEF OnPage
  <1>3. requests \in Nat
    BY DEF ListInv, TypeOK
  <1> HIDE DEF c
  <1>4. CASE PageContinues(c, m)
    <2> DEFINE d == Added(c, m)
    <2>1. /\ d \in ClientStates
          /\ \/ d.revision = c.revision /\ d.cache = c.cache
             \/ d.revision = m.rev /\ d.cache = versions[m.rev]
          /\ d.snapRev = 0 \/ Pending(d)
      BY <1>1, <1>4, AddedFacts
    <2>2. client' = d /\ requests' = requests
      BY <1>2, <1>4
    <2> HIDE DEF d
    <2> QED BY <1>1, <1>3, <2>1, <2>2 DEF Shows
  <1>5. CASE ~PageContinues(c, m)
    <2>1. client' = Cleared(c) /\ requests' = requests + 1
      BY <1>2, <1>5
    <2> QED BY <1>1, <1>3, <2>1, ClearedFacts DEF Shows
  <1> QED BY <1>4, <1>5

\* The handler of MSG_ROOM_LIST_PUSH.
LEMMA OnPushFacts ==
  ASSUME ListInv, NEW m \in Messages, m.type = "push", MessageOK(versions, m),
         OnPush(m)
  PROVE  /\ client' \in ClientStates /\ requests' \in Nat
         /\ Shows(m)
         /\ client'.snapRev = 0 \/ Pending(client')
  <1>1. client \in ClientStates /\ requests \in Nat
    BY DEF ListInv, TypeOK
  <1>2. /\ m.base \in 1 .. Len(versions) /\ m.rev \in 1 .. Len(versions)
        /\ m.ops = Delta(versions[m.base], versions[m.rev])
    BY DEF MessageOK
  <1>3. versions[m.base] \in Listings /\ versions[m.rev] \in Listings /\ m.rev \in Nat
    BY <1>2, VersionFacts
  <1>4. CASE m.base = client.revision
    <2>1. client' = [client EXCEPT !.cache = Overlay(client.cache, m.ops), !.revision = m.rev]
          /\ requests' = requests
      BY <1>4 DEF OnPush
    <2>2. client.cache = versions[m.base]
      BY <1>2, <1>4, VersionFacts DEF ListInv, CacheOK
    <2>3. Overlay(client.cache, m.ops) = versions[m.rev]
      BY <1>2, <1>3, <2>2, DeltaApplies
    <2>4. versions[m.rev] \in [RoomIds -> Infos \cup {NoRoom}]
      BY <1>3, ListingFacts
    <2>5. client' = [client EXCEPT !.cache = versions[m.rev], !.revision = m.rev]
      BY <2>1, <2>3
    <2>6. /\ client' \in ClientStates
          /\ client'.revision = m.rev /\ client'.cache = versions[m.rev]
          /\ client'.snapRev = client.snapRev /\ client'.snapCount = client.snapCount
          /\ client'.snap = client.snap /\ client'.snapNext = client.snapNext
      BY <1>1, <1>3, <2>4, <2>5 DEF ClientStates
    <2>7. client.snapRev = 0 \/ Pending(client)
      BY DEF ListInv, SnapOK, Pending, FirstPages
    <2> QED BY <1>1, <2>1, <2>6, <2>7 DEF Shows, Pending
  <1>5. CASE m.base # client.revision
    <2>1. client' = Cleared(client) /\ requests' = requests + 1
      BY <1>5 DEF OnPush
    <2> QED BY <1>1, <2>1, ClearedFacts DEF Shows
  <1> QED BY <1>4, <1>5

\* A message arrives.
LEMMA DeliverStep ==
  ASSUME ListInv, Deliver
  PROVE  ListInv' /\ Shows(Head(wire))
  <1> DEFINE m == Head(wire)
  <1>1. wire # <<>> /\ wire' = Tail(wire) /\ UNCHANGED <<server, versions, up, refused>>
    BY DEF Deliver
  <1>2. m \in Messages /\ MessageOK(versions, m)
    BY <1>1, HeadFacts
  <1>3. \/ m.type = "page" /\ OnPage(m)
        \/ m.type = "push" /\ OnPush(m)
    BY DEF Deliver
  <1> HIDE DEF m
  <1>4. /\ client' \in ClientStates /\ requests' \in Nat
        /\ Shows(m)
        /\ client'.snapRev = 0 \/ Pending(client')
    BY <1>2, <1>3, OnPageFacts, OnPushFacts
  <1>5. wire' \in Seq(Messages) /\ WireOK'
    BY <1>1, <1>4, WireShrinks DEF Shows, m
  <1>6. m.rev \in 1 .. Len(versions)
    BY <1>2 DEF MessageOK
  <1>7. CacheOK'
    <2>1. CacheOK
      BY DEF ListInv
    <2> QED BY <1>1, <1>4, <1>6, <2>1 DEF CacheOK, Shows
  <1>8. SnapOK'
    BY <1>1, <1>4 DEF SnapOK, Pending, FirstPages
  <1>9. TypeOK'
    BY <1>1, <1>4, <1>5 DEF ListInv, TypeOK
  <1> QED BY <1>1, <1>4, <1>5, <1>7, <1>8, <1>9 DEF ListInv, NoDeltaDropped, m

\* The connection ends, and messages are refused, asked for or counted.
LEMMA OtherSteps ==
  ASSUME ListInv, Refuse \/ Refresh \/ Login \/ Disconnect
  PROVE  ListInv'
  <1>1. TypeOK
    BY DEF ListInv
  <1>2. CASE Refuse
    <2>1. /\ wire # <<>> /\ wire' = Tail(wire) /\ refused' = refused + 1
          /\ UNCHANGED <<server, versions, up, requests, client>>
      BY <1>2 DEF Refuse
    <2>2. wire' \in Seq(Messages) /\ WireOK'
      BY <2>1, WireShrinks
    <2> QED BY <1>1, <2>1, <2>2 DEF ListInv, TypeOK, NoDeltaDropped, CacheOK, SnapOK
  <1>3. CASE Refresh
    BY <1>1, <1>3 DEF Refresh, ListInv, TypeOK, NoDeltaDropped, WireOK, CacheOK, SnapOK
  <1>4. CASE Login
    BY <1>1, <1>4 DEF Login, ListInv, TypeOK, NoDeltaDropped, WireOK, CacheOK, SnapOK
  <1>5. CASE Disconnect
    <2>1. /\ up' = FALSE /\ requests' = 0 /\ wire' = <<>> /\ client' = Fresh
          /\ UNCHANGED <<server, versions, refused>>
      BY <1>5 DEF Disconnect
    <2>2. Fresh \in ClientStates
      BY DEF Fresh, ClientStates, NoRooms
    <2>3. client'.revision = 0 /\ client'.cache = NoRooms /\ client'.snapRev = 0
      BY <2>1 DEF Fresh
    <2>4. TypeOK'
      <3>1. up' \in BOOLEAN
        BY <2>1, Zenon
      <3>2. wire' \in Seq(Messages) /\ requests' \in Nat /\ client' \in ClientStates
        BY <2>1, <2>2
      <3>3. /\ server' \in [rooms : Listings, published : Listings, revision : Nat \ {0}]
            /\ versions' \in Seq(Listings) /\ refused' \in Nat
        BY <1>1, <2>1 DEF TypeOK
      <3> QED BY <3>1, <3>2, <3>3, Zenon DEF TypeOK
    <2>5. DOMAIN wire' = {}
      BY <2>1
    <2>6. WireOK' /\ CacheOK' /\ SnapOK'
      BY <2>3, <2>5 DEF WireOK, CacheOK, SnapOK
    <2> QED BY <2>1, <2>4, <2>6 DEF ListInv, NoDeltaDropped
  <1> QED BY <1>2, <1>3, <1>4, <1>5

\* The server starts with revision 1 and no rooms.
LEMMA InitInv == Init => ListInv
  <1> SUFFICES ASSUME Init PROVE ListInv
    OBVIOUS
  <1>1. NoRooms \in Listings
    BY NoRoomsListing
  <1>2. Fresh \in ClientStates
    BY DEF Fresh, ClientStates, NoRooms
  <1>3. TypeOK
    <2>1. up \in BOOLEAN
      BY Zenon DEF Init
    <2>2. server \in [rooms : Listings, published : Listings, revision : Nat \ {0}]
      BY <1>1 DEF Init
    <2>3. versions \in Seq(Listings) /\ wire \in Seq(Messages)
      BY <1>1 DEF Init
    <2>4. requests \in Nat /\ refused \in Nat /\ client \in ClientStates
      BY <1>2 DEF Init
    <2> QED BY <2>1, <2>2, <2>3, <2>4, Zenon DEF TypeOK
  <1>4. /\ Len(versions) = server.revision
        /\ versions[server.revision] = server.rooms
        /\ server.published = server.rooms
    BY DEF Init
  <1>5. client.revision = 0 /\ client.cache = NoRooms /\ client.snapRev = 0
    BY DEF Init, Fresh
  <1>6. DOMAIN wire = {}
    BY DEF Init
  <1>7. WireOK /\ CacheOK /\ SnapOK
    BY <1>5, <1>6 DEF WireOK, CacheOK, SnapOK
  <1> QED BY <1>3, <1>4, <1>7 DEF ListInv, NoDeltaDropped

\* Every step keeps the invariant.
LEMMA NextStep == ListInv /\ [Next]_vars => ListInv'
  <1> SUFFICES ASSUME ListInv, [Next]_vars PROVE ListInv'
    OBVIOUS
  <1>1. CASE RoomsChange
    BY <1>1, RoomsChangeStep
  <1>2. CASE ListRooms
    BY <1>2, ListRoomsStep
  <1>3. CASE Deliver
    BY <1>3, DeliverStep
  <1>4. CASE Refuse \/ Refresh \/ Login \/ Disconnect
    BY <1>4, OtherSteps
  <1>5. CASE UNCHANGED vars
    BY <1>5 DEF vars, ListInv, TypeOK, NoDeltaDropped, WireOK, CacheOK, SnapOK
  <1> QED BY <1>1, <1>2, <1>3, <1>4, <1>5 DEF Next

-----------------------------------------------------------------------------
(* The theorems *)

\* Every message under way, the cache and the snapshot that is being received
\* agree with the server's list at the revision they name, for any rooms,
\* any size of pages and any number of lost messages.
THEOREM ListSafe == Spec => []ListInv
  <1> QED BY InitInv, NextStep, PTL DEF Spec

\* broadcastRoomListPush never takes the early return that drops a delta after
\* the revision was counted, as long as the payload holds two full lists.
THEOREM DeltasSent == Spec => []NoDeltaDropped
  <1>1. ListInv => NoDeltaDropped
    BY DEF ListInv
  <1> QED BY <1>1, ListSafe, PTL

\* A step of RoomListSync is a step of the view that the client shows.
LEMMA ViewStep == ListInv /\ [Next]_vars => [View!Next]_View!vars
  <1> SUFFICES ASSUME ListInv, [Next]_vars PROVE [View!Next]_View!vars
    OBVIOUS
  <1>1. ASSUME NEW l \in Listings, versions' = Recorded(server, l), UNCHANGED client
        PROVE  [View!Next]_View!vars
    <2>1. versions' = versions \/ versions' = Append(versions, l)
      BY <1>1, PublishFacts
    <2>2. CASE versions' = versions
      BY <1>1, <2>2 DEF View!vars
    <2>3. CASE versions' = Append(versions, l)
      BY <1>1, <2>3 DEF View!Next, View!Change
    <2> QED BY <2>1, <2>2, <2>3
  <1>2. CASE RoomsChange
    <2>1. PICK l \in Successors(server.rooms) : versions' = Recorded(server, l)
      BY <1>2 DEF RoomsChange
    <2>2. l \in Listings /\ UNCHANGED client
      BY <1>2 DEF Successors, RoomsChange
    <2> QED BY <1>1, <2>1, <2>2
  <1>3. CASE ListRooms
    <2>1. PICK l \in Expired(server.rooms) : versions' = Recorded(server, l)
      BY <1>3 DEF ListRooms
    <2>2. l \in Listings /\ UNCHANGED client
      BY <1>3 DEF Expired, ListRooms
    <2> QED BY <1>1, <2>1, <2>2
  <1>4. CASE Deliver
    <2>1. Shows(Head(wire)) /\ UNCHANGED versions /\ wire # <<>>
      BY <1>4, DeliverStep DEF Deliver
    <2>2. /\ Head(wire).rev \in 1 .. Len(versions)
          /\ client.revision <= Head(wire).rev
      BY <2>1, HeadFacts DEF MessageOK
    <2>3. client.revision \in Nat /\ Len(versions) \in Nat
      BY VersionFacts DEF ListInv, TypeOK, ClientStates
    <2>4. CASE client'.revision = client.revision /\ client'.cache = client.cache
      BY <2>1, <2>4 DEF View!vars
    <2>5. CASE client'.revision = Head(wire).rev /\ client'.cache = versions[Head(wire).rev]
      BY <2>1, <2>2, <2>3, <2>5 DEF View!Next, View!Show
    <2> QED BY <2>1, <2>4, <2>5 DEF Shows
  <1>5. CASE Disconnect
    <2>1. client'.revision = 0 /\ client'.cache = NoRooms /\ UNCHANGED versions
      BY <1>5 DEF Disconnect, Fresh
    <2> QED BY <2>1 DEF View!Next, View!Forget
  <1>6. CASE Refuse \/ Refresh \/ Login
    BY <1>6 DEF Refuse, Refresh, Login, View!vars
  <1>7. CASE UNCHANGED vars
    BY <1>7 DEF vars, View!vars
  <1> QED BY <1>2, <1>3, <1>4, <1>5, <1>6, <1>7 DEF Next

\* The client implements RoomListView: it shows one whole version of the
\* server's list, and while it stays connected never an earlier one again.
THEOREM ListRefines == Spec => ViewSpec
  <1>1. Init => View!Init
    BY DEF Init, Fresh, View!Init
  <1> QED BY <1>1, ViewStep, ListSafe, PTL DEF Spec, ViewSpec, View!Spec
=============================================================================

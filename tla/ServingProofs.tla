---------------------------- MODULE ServingProofs ----------------------------
(* What readers get: theorems about Browse, for any number of items and any    *)
(* page size, about Delivery, for any visitors and settings, and about         *)
(* Stripping, for images of any length: what is served is what was stored.     *)
EXTENDS Browse, Delivery, Stripping, FiniteSetTheorems, WellFoundedInduction,
        SequenceTheorems, TLAPS

-----------------------------------------------------------------------------
(* The order of the listings. *)

\* Older is a strict total order on the keys.
LEMMA OlderOrders ==
    ASSUME NEW k \in ItemKey, NEW m \in ItemKey, NEW n \in ItemKey
    PROVE  /\ ~Older(k, k) /\ (Older(k, m) => ~Older(m, k))
           /\ Older(k, m) /\ Older(m, n) => Older(k, n)
           /\ k = m \/ Older(k, m) \/ Older(m, k)
  <1>1. \A x \in ItemKey : x = <<x[1], x[2]>> /\ x[1] \in Nat /\ x[2] \in Nat
    <2>1. \A t \in 1..LastSecond : t \in Nat
      BY BrowseAssumption
    <2>2. \A i \in Ids : i \in Nat
      BY BrowseAssumption
    <2> QED  BY <2>1, <2>2 DEF ItemKey
  <1>2. k[1] = m[1] /\ k[2] = m[2] => k = m
    BY <1>1
  <1> QED  BY <1>1, <1>2 DEF Older

\* Finitely many items have a newest and an oldest one.
LEMMA NewestAndOldest ==
    ASSUME NEW S \in SUBSET ItemKey, IsFiniteSet(S), S # {}
    PROVE  /\ \E k \in S : \A m \in S : m = k \/ Older(m, k)
           /\ \E k \in S : \A m \in S : m = k \/ Older(k, m)
  <1> DEFINE Bounded(B) == /\ \E k \in B : \A m \in B : m = k \/ Older(m, k)
                           /\ \E k \in B : \A m \in B : m = k \/ Older(k, m)
             Bad == {B \in SUBSET S : B # {} /\ ~Bounded(B)}
  <1>1. ASSUME Bad # {} PROVE FALSE
    <2>1. PICK B \in Bad : \A C \in Bad : <<C, B>> \notin StrictSubsetOrdering(S)
      <3>1. Bad \subseteq FiniteSubsetsOf(S)
        BY FS_FiniteSubsetsOfFinite
      <3> HIDE DEF Bad
      <3> QED  BY <1>1, <3>1, FS_StrictSubsetOrderingWellFounded, WFMin
    <2>2. B \in SUBSET S /\ B # {} /\ ~Bounded(B)
      BY <2>1
    <2>3. PICK x \in B : TRUE
      BY <2>2
    <2> DEFINE C == B \ {x}
    <2>4. C \in SUBSET S /\ C \notin Bad
      BY <2>1, <2>2, <2>3 DEF StrictSubsetOrdering
    <2> HIDE DEF Bad
    <2>5. \A y \in B : y \in ItemKey
      BY <2>2
    <2>6. CASE C = {}
      <3>1. \A y \in B : y = x
        BY <2>6
      <3> QED  BY <2>2, <2>3, <3>1
    <2>7. CASE C # {}
      <3>1. Bounded(C)
        BY <2>4, <2>7 DEF Bad
      <3>2. PICK new \in C : \A m \in C : m = new \/ Older(m, new)
        BY <3>1
      <3>3. PICK old \in C : \A m \in C : m = old \/ Older(old, m)
        BY <3>1
      <3>4. (\A y \in B : y = x \/ y \in C) /\ new \in B /\ old \in B
        OBVIOUS
      <3> HIDE DEF C
      <3>5. \E k \in B : \A m \in B : m = k \/ Older(m, k)
        <4>1. CASE Older(x, new)
          BY <3>2, <3>4, <4>1
        <4>2. CASE x = new \/ Older(new, x)
          <5>1. \A m \in C : Older(m, new) /\ Older(new, x) => Older(m, x)
            BY <2>3, <2>5, <3>4, OlderOrders DEF C
          <5> QED  BY <2>3, <3>2, <3>4, <4>2, <5>1
        <4> QED  BY <2>3, <2>5, <3>4, <4>1, <4>2, OlderOrders
      <3>6. \E k \in B : \A m \in B : m = k \/ Older(k, m)
        <4>1. CASE Older(old, x)
          BY <3>3, <3>4, <4>1
        <4>2. CASE x = old \/ Older(x, old)
          <5>1. \A m \in C : Older(x, old) /\ Older(old, m) => Older(x, m)
            BY <2>3, <2>5, <3>4, OlderOrders DEF C
          <5> QED  BY <2>3, <3>3, <3>4, <4>2, <5>1
        <4> QED  BY <2>3, <2>5, <3>4, <4>1, <4>2, OlderOrders
      <3> QED  BY <2>2, <3>5, <3>6
    <2> QED  BY <2>6, <2>7
  <1>2. S \notin Bad
    BY <1>1
  <1> QED  BY <1>2

\* A page is the newest part of what it is taken from, and all of it if it is not full.
LEMMA PageFacts ==
    ASSUME NEW S \in SUBSET ItemKey, IsFiniteSet(S), NEW rows, rows = FirstRows(S)
    PROVE  /\ rows \subseteq S /\ IsFiniteSet(rows) /\ Cardinality(rows) \in Nat
           /\ \A k \in rows, m \in S : Older(k, m) => m \in rows
           /\ Cardinality(rows) < PageSize => rows = S
           /\ S # {} => rows # {}
  <1> DEFINE Newer(k) == {m \in S : Older(k, m)}
  <1>1. rows \subseteq S /\ \A k \in S : k \in rows <=> Cardinality(Newer(k)) < PageSize
    BY DEF FirstRows
  <1>2. IsFiniteSet(rows) /\ Cardinality(rows) \in Nat
    BY <1>1, FS_Subset, FS_CardinalityType
  <1>3. \A k \in S : IsFiniteSet(Newer(k)) /\ Cardinality(Newer(k)) \in Nat
    BY FS_Subset, FS_CardinalityType
  <1>4. PageSize \in Nat /\ PageSize > 0
    BY BrowseAssumption
  <1>5. ASSUME NEW k \in rows, NEW m \in S, Older(k, m) PROVE m \in rows
    <2>1. Newer(m) \subseteq Newer(k)
      <3>1. ASSUME NEW n \in S, Older(m, n) PROVE Older(k, n)
        BY <1>1, <1>5, <3>1, OlderOrders
      <3> QED  BY <3>1
    <2>2. Cardinality(Newer(m)) <= Cardinality(Newer(k))
      BY <1>1, <1>3, <2>1, FS_Subset
    <2> HIDE DEF Newer
    <2> QED  BY <1>1, <1>3, <1>4, <2>2
  <1>6. ASSUME Cardinality(rows) < PageSize PROVE rows = S
    <2> SUFFICES ASSUME S \ rows # {} PROVE FALSE
      BY <1>1
    <2>1. IsFiniteSet(S \ rows) /\ S \ rows \in SUBSET ItemKey
      BY FS_Subset
    <2>2. PICK k \in S \ rows : \A m \in S \ rows : m = k \/ Older(m, k)
      <3> DEFINE rest == S \ rows
      <3>1. rest \in SUBSET ItemKey /\ IsFiniteSet(rest) /\ rest # {}
        BY <2>1
      <3> HIDE DEF rest
      <3>2. \E k \in rest : \A m \in rest : m = k \/ Older(m, k)
        BY <3>1, NewestAndOldest
      <3> QED  BY <3>2 DEF rest
    <2>3. Newer(k) \subseteq rows
      <3>1. ASSUME NEW m \in S, Older(k, m), m \notin rows PROVE FALSE
        BY <2>2, <3>1, OlderOrders
      <3> QED  BY <3>1
    <2>4. Cardinality(Newer(k)) <= Cardinality(rows)
      BY <1>2, <2>3, FS_Subset
    <2> HIDE DEF Newer
    <2> QED  BY <1>1, <1>2, <1>3, <1>4, <1>6, <2>2, <2>4
  <1>7. S # {} => rows # {}
    <2>1. Cardinality({}) = 0
      BY FS_EmptySet
    <2> QED  BY <1>4, <1>6, <2>1
  <1> QED  BY <1>1, <1>2, <1>5, <1>6, <1>7

-----------------------------------------------------------------------------
(* BrowseInvariant *)

LEMMA BrowseStart == BrowseInit => BrowseInvariant
  <1> SUFFICES ASSUME BrowseInit PROVE BrowseInvariant
    OBVIOUS
  <1>1. IsFiniteSet({})
    BY FS_EmptySet
  <1>2. BrowseTypeOK
    <2>1. second \in 1..LastSecond
      BY BrowseAssumption DEF BrowseInit
    <2>2. /\ listed = Both({}) /\ public = Both({}) /\ shown = Both({}) /\ whole = Both({})
          /\ cursor = Both(NoCursor) /\ page = Both(0) /\ walk = "top" /\ again = FALSE
      BY DEF BrowseInit
    <2>3. Both({}) \in [Listing -> SUBSET ItemKey] /\ \A l \in Listing : Both({})[l] = {}
      BY DEF Both
    <2>4. cursor \in [Listing -> ItemKey \cup {NoCursor}] /\ page \in [Listing -> Nat]
      BY <2>2 DEF Both
    <2> QED  BY <1>1, <2>1, <2>2, <2>3, <2>4 DEF BrowseTypeOK
  <1> QED
    BY <1>2, BrowseAssumption DEF BrowseInit, BrowseInvariant, WalksDown, LastPage, Both

\* What others do to the items does not disturb a walk.
LEMMA OthersStep ==
    ASSUME BrowseInvariant, BrowseTypeOK', UNCHANGED <<walk, cursor, page, shown, again>>,
           \A l \in Listing : whole'[l] \subseteq whole[l] /\ whole'[l] \subseteq public'[l]
    PROVE  BrowseInvariant'
  <1>1. ASSUME NEW l \in Listing PROVE WalksDown(l)'
    <2>1. WalksDown(l)
      BY <1>1 DEF BrowseInvariant
    <2>2. whole'[l] \ shown'[l] \subseteq Before(l)'
      BY <1>1, <2>1 DEF WalksDown, Before
    <2>3. LastPage(l)' <=> LastPage(l)
      BY DEF LastPage
    <2> QED  BY <1>1, <2>1, <2>2, <2>3 DEF WalksDown
  <1> QED  BY <1>1 DEF BrowseInvariant

LEMMA BrowseEnvironment ==
    ASSUME BrowseInvariant, Tick \/ \E l \in Listing : PublishItem(l) \/ HideItem(l) \/ ShowItem(l)
    PROVE  BrowseInvariant'
  <1>1. BrowseTypeOK /\ \A l \in Listing : whole[l] \subseteq public[l]
    BY DEF BrowseInvariant, WalksDown
  <1>2. CASE Tick
    <2>1. BrowseTypeOK'
      BY <1>1, <1>2, BrowseAssumption DEF Tick, BrowseTypeOK
    <2> QED  BY <1>1, <1>2, <2>1, OthersStep DEF Tick
  <1>3. ASSUME NEW l \in Listing, PublishItem(l) PROVE BrowseInvariant'
    <2>1. PICK i \in Ids :
              /\ listed' = [listed EXCEPT ![l] = @ \cup {<<second, i>>}]
              /\ public' = [public EXCEPT ![l] = @ \cup {<<second, i>>}]
              /\ UNCHANGED <<second, walk, cursor, page, shown, again, whole>>
      BY <1>3 DEF PublishItem
    <2>2. <<second, i>> \in ItemKey
      BY <1>1 DEF BrowseTypeOK, ItemKey
    <2>3. IsFiniteSet(listed[l] \cup {<<second, i>>})
      BY <1>1, FS_AddElement DEF BrowseTypeOK
    <2>4. BrowseTypeOK'
      BY <1>1, <2>1, <2>2, <2>3 DEF BrowseTypeOK
    <2>5. \A m \in Listing : whole'[m] \subseteq whole[m] /\ whole'[m] \subseteq public'[m]
      BY <1>1, <2>1 DEF BrowseTypeOK
    <2> QED  BY <2>1, <2>4, <2>5, OthersStep
  <1>4. ASSUME NEW l \in Listing, HideItem(l) PROVE BrowseInvariant'
    <2>1. PICK k \in public[l] :
              /\ public' = [public EXCEPT ![l] = @ \ {k}]
              /\ whole' = [whole EXCEPT ![l] = @ \ {k}]
              /\ UNCHANGED <<second, listed, walk, cursor, page, shown, again>>
      BY <1>4 DEF HideItem
    <2>2. BrowseTypeOK'
      BY <1>1, <2>1 DEF BrowseTypeOK
    <2>3. \A m \in Listing : whole'[m] \subseteq whole[m] /\ whole'[m] \subseteq public'[m]
      BY <1>1, <2>1 DEF BrowseTypeOK
    <2> QED  BY <2>1, <2>2, <2>3, OthersStep
  <1>5. ASSUME NEW l \in Listing, ShowItem(l) PROVE BrowseInvariant'
    <2>1. PICK k \in listed[l] \ public[l] :
              /\ public' = [public EXCEPT ![l] = @ \cup {k}]
              /\ UNCHANGED <<second, listed, walk, cursor, page, shown, again, whole>>
      BY <1>5 DEF ShowItem
    <2>2. BrowseTypeOK'
      BY <1>1, <2>1 DEF BrowseTypeOK
    <2>3. \A m \in Listing : whole'[m] \subseteq whole[m] /\ whole'[m] \subseteq public'[m]
      BY <1>1, <2>1 DEF BrowseTypeOK
    <2> QED  BY <2>1, <2>2, <2>3, OthersStep
  <1> QED  BY <1>2, <1>3, <1>4, <1>5

\* The next page of a listing repeats nothing and leaves nothing behind.
LEMMA ReadStep ==
    ASSUME BrowseTypeOK, NEW l \in Listing, WalksDown(l), ReadListing(l), UNCHANGED whole
    PROVE  /\ cursor' \in [Listing -> ItemKey \cup {NoCursor}] /\ page' \in [Listing -> Nat]
           /\ shown' \in [Listing -> SUBSET ItemKey] /\ again' = again
           /\ \A k \in shown'[l] : /\ cursor'[l] # NoCursor
                                   /\ k = cursor'[l] \/ Older(cursor'[l], k)
           /\ whole'[l] \ shown'[l] \subseteq Before(l)'
           /\ page'[l] < PageSize => whole'[l] \subseteq shown'[l]
           /\ \A m \in Listing \ {l} : /\ cursor'[m] = cursor[m] /\ page'[m] = page[m]
                                       /\ shown'[m] = shown[m]
  <1> DEFINE S    == Before(l)
             rows == FirstRows(S)
             last == CHOOSE k \in rows : \A m \in rows \ {k} : Older(k, m)
  <1>1. /\ cursor' = [cursor EXCEPT ![l] = IF rows = {} THEN @ ELSE last]
        /\ page'  = [page EXCEPT ![l] = Cardinality(rows)]
        /\ again' = (again \/ rows \cap shown[l] # {})
        /\ shown' = [shown EXCEPT ![l] = @ \cup rows]
        /\ UNCHANGED <<second, listed, public>>
    BY DEF ReadListing
  <1>2. S \in SUBSET ItemKey /\ IsFiniteSet(S)
    <2>1. S \subseteq listed[l] /\ listed[l] \in SUBSET ItemKey /\ IsFiniteSet(listed[l])
      BY DEF Before, BrowseTypeOK
    <2> QED  BY <2>1, FS_Subset
  <1>3. \A k \in S : cursor[l] = NoCursor \/ Older(k, cursor[l])
    BY DEF Before
  <1>4. whole[l] \ shown[l] \subseteq S
    BY DEF WalksDown
  <1> HIDE DEF S
  <1>5. /\ rows \subseteq S /\ IsFiniteSet(rows) /\ Cardinality(rows) \in Nat
        /\ \A k \in rows, m \in S : Older(k, m) => m \in rows
        /\ Cardinality(rows) < PageSize => rows = S
        /\ S # {} => rows # {}
    BY <1>2, PageFacts
  <1>6. rows # {} => last \in rows /\ \A m \in rows \ {last} : Older(last, m)
    <2> HIDE DEF rows
    <2>1. rows # {} => \E k \in rows : \A m \in rows \ {k} : Older(k, m)
      BY <1>2, <1>5, NewestAndOldest
    <2> QED  BY <2>1
  <1> HIDE DEF rows, last
  <1>7. /\ cursor'[l] = IF rows = {} THEN cursor[l] ELSE last
        /\ page'[l] = Cardinality(rows) /\ shown'[l] = shown[l] \cup rows
        /\ \A m \in Listing \ {l} : /\ cursor'[m] = cursor[m] /\ page'[m] = page[m]
                                    /\ shown'[m] = shown[m]
    BY <1>1 DEF BrowseTypeOK
  <1>8. cursor[l] \in ItemKey \cup {NoCursor} /\ shown[l] \subseteq ItemKey
    BY DEF BrowseTypeOK
  <1>9. rows \subseteq ItemKey
    BY <1>2, <1>5
  <1>10. /\ cursor' \in [Listing -> ItemKey \cup {NoCursor}] /\ page' \in [Listing -> Nat]
         /\ shown' \in [Listing -> SUBSET ItemKey]
    BY <1>1, <1>5, <1>6, <1>9 DEF BrowseTypeOK
  <1>11. \A k \in shown[l] : cursor[l] # NoCursor /\ (k = cursor[l] \/ Older(cursor[l], k))
    BY DEF WalksDown
  <1>12. rows \cap shown[l] = {}
    BY <1>3, <1>5, <1>8, <1>9, <1>11, OlderOrders
  <1>13. again' = again
    BY <1>1, <1>12 DEF BrowseTypeOK
  <1>14. ASSUME NEW k \in shown'[l]
         PROVE  cursor'[l] # NoCursor /\ (k = cursor'[l] \/ Older(cursor'[l], k))
    <2>1. CASE rows = {}
      BY <1>7, <1>11, <1>14, <2>1
    <2>2. CASE rows # {}
      <3>1. last \in rows /\ last \in ItemKey /\ cursor'[l] = last /\ last # NoCursor
        BY <1>6, <1>7, <1>9, <2>2, BrowseAssumption
      <3>2. CASE k \in rows
        BY <1>6, <3>1, <3>2
      <3>3. CASE k \in shown[l]
        <4>1. cursor[l] \in ItemKey /\ Older(last, cursor[l])
          BY <1>3, <1>5, <1>8, <1>11, <3>1, <3>3
        <4> QED  BY <1>8, <1>11, <3>1, <3>3, <4>1, OlderOrders
      <3> QED  BY <1>7, <1>14, <3>2, <3>3
    <2> QED  BY <2>1, <2>2
  <1>15. ASSUME NEW k \in whole'[l] \ shown'[l] PROVE k \in Before(l)'
    <2>1. k \in S /\ k \notin rows /\ k \in ItemKey
      BY <1>2, <1>4, <1>7, <1>15
    <2>2. rows # {} /\ last \in rows /\ cursor'[l] = last /\ last \in ItemKey
      BY <1>5, <1>6, <1>7, <1>9, <2>1
    <2>3. Older(k, last)
      BY <1>5, <2>1, <2>2, OlderOrders
    <2>4. k \in public'[l]
      BY <1>1, <2>1 DEF S, Before
    <2> QED  BY <2>2, <2>3, <2>4 DEF Before
  <1>16. page'[l] < PageSize => whole'[l] \subseteq shown'[l]
    BY <1>4, <1>5, <1>7
  <1> QED  BY <1>7, <1>10, <1>13, <1>14, <1>15, <1>16

LEMMA WalkStep ==
    ASSUME BrowseInvariant, StartWalk \/ ReadFiles \/ ReadPastes \/ Leave
    PROVE  BrowseInvariant'
  <1>1. BrowseTypeOK /\ (\A l \in Listing : WalksDown(l)) /\ ~again
    BY DEF BrowseInvariant
  <1>2. CASE StartWalk
    <2>1. BrowseTypeOK'
      BY <1>1, <1>2 DEF StartWalk, BrowseTypeOK
    <2>2. ASSUME NEW l \in Listing PROVE WalksDown(l)'
      BY <1>1, <1>2, <2>2 DEF StartWalk, WalksDown, LastPage, Before
    <2> QED  BY <1>1, <1>2, <2>1, <2>2 DEF StartWalk, BrowseInvariant
  <1>3. CASE Leave
    <2>1. BrowseTypeOK'
      BY <1>1, <1>3 DEF Leave, BrowseTypeOK, Both
    <2>2. ASSUME NEW l \in Listing PROVE WalksDown(l)'
      BY <1>1, <1>3, <2>2 DEF Leave, WalksDown, LastPage, Before, Both
    <2> QED  BY <1>1, <1>3, <2>1, <2>2 DEF Leave, BrowseInvariant
  <1>4. CASE ReadFiles
    <2>1. /\ walk = "files" /\ walk' = "pastes" /\ ReadListing("files") /\ UNCHANGED whole
          /\ UNCHANGED <<second, listed, public>>
      BY <1>4 DEF ReadFiles, ReadListing
    <2>2. /\ cursor' \in [Listing -> ItemKey \cup {NoCursor}] /\ page' \in [Listing -> Nat]
          /\ shown' \in [Listing -> SUBSET ItemKey] /\ again' = again
          /\ \A k \in shown'["files"] : /\ cursor'["files"] # NoCursor
                                        /\ k = cursor'["files"] \/ Older(cursor'["files"], k)
          /\ whole'["files"] \ shown'["files"] \subseteq Before("files")'
          /\ page'["files"] < PageSize => whole'["files"] \subseteq shown'["files"]
          /\ \A m \in Listing \ {"files"} : /\ cursor'[m] = cursor[m] /\ page'[m] = page[m]
                                            /\ shown'[m] = shown[m]
      BY <1>1, <2>1, ReadStep DEF Listing
    <2>3. BrowseTypeOK'
      BY <1>1, <2>1, <2>2 DEF BrowseTypeOK
    <2>4. WalksDown("files")'
      BY <1>1, <2>1, <2>2 DEF WalksDown, LastPage, Listing
    <2>5. WalksDown("pastes")'
      <3>1. Before("pastes")' = Before("pastes")
        BY <2>1, <2>2 DEF Before, Listing
      <3> QED  BY <1>1, <2>1, <2>2, <3>1 DEF WalksDown, LastPage, Listing
    <2> QED  BY <1>1, <2>1, <2>2, <2>3, <2>4, <2>5 DEF BrowseInvariant, Listing
  <1>5. CASE ReadPastes
    <2>1. /\ walk = "pastes" /\ ReadListing("pastes") /\ UNCHANGED whole
          /\ walk' = IF \E l \in Listing : page'[l] >= PageSize THEN "files" ELSE "end"
          /\ UNCHANGED <<second, listed, public>>
      BY <1>5 DEF ReadPastes, ReadListing
    <2>2. /\ cursor' \in [Listing -> ItemKey \cup {NoCursor}] /\ page' \in [Listing -> Nat]
          /\ shown' \in [Listing -> SUBSET ItemKey] /\ again' = again
          /\ \A k \in shown'["pastes"] : /\ cursor'["pastes"] # NoCursor
                                         /\ k = cursor'["pastes"] \/ Older(cursor'["pastes"], k)
          /\ whole'["pastes"] \ shown'["pastes"] \subseteq Before("pastes")'
          /\ page'["pastes"] < PageSize => whole'["pastes"] \subseteq shown'["pastes"]
          /\ \A m \in Listing \ {"pastes"} : /\ cursor'[m] = cursor[m] /\ page'[m] = page[m]
                                             /\ shown'[m] = shown[m]
      BY <1>1, <2>1, ReadStep DEF Listing
    <2>3. walk' \in {"files", "end"} /\ (walk' = "end" => \A l \in Listing : page'[l] < PageSize)
      BY <2>1, <2>2, BrowseAssumption
    <2>4. BrowseTypeOK'
      BY <1>1, <2>1, <2>2, <2>3 DEF BrowseTypeOK
    <2>5. WalksDown("pastes")'
      BY <1>1, <2>1, <2>2, <2>3 DEF WalksDown, LastPage, Listing
    <2>6. WalksDown("files")'
      <3>1. Before("files")' = Before("files")
        BY <2>1, <2>2 DEF Before, Listing
      <3> QED  BY <1>1, <2>1, <2>2, <2>3, <3>1 DEF WalksDown, LastPage, Listing
    <2>7. walk' = "end" => \A l \in Listing : whole'[l] \subseteq shown'[l]
      BY <2>3, <2>5, <2>6 DEF WalksDown, LastPage, Listing
    <2> QED  BY <1>1, <2>2, <2>4, <2>5, <2>6, <2>7 DEF BrowseInvariant, Listing
  <1> QED  BY <1>2, <1>3, <1>4, <1>5

(* A reader who follows the links to older items is shown nothing twice, and at the *)
(* end has been shown whatever stayed public all the while (web/browse.rs:22).      *)
THEOREM WalksAreWhole == BrowseSpec => []BrowseInvariant
  <1>1. ASSUME BrowseInvariant, [BrowseNext]_browseVars PROVE BrowseInvariant'
    <2>1. CASE UNCHANGED browseVars
      BY <1>1, <2>1 DEF browseVars, BrowseInvariant, BrowseTypeOK, WalksDown, LastPage, Before
    <2> QED  BY <1>1, <2>1, BrowseEnvironment, WalkStep DEF BrowseNext
  <1> QED  BY <1>1, BrowseStart, PTL DEF BrowseSpec

-----------------------------------------------------------------------------
(* DeliveryInvariant *)

LEMMA RolesRank ==
    /\ Roles = {"anonymous", "user", "moderator", "admin"} /\ "disabled" \notin Roles
    /\ \A role \in Roles : Permits("anonymous", role)
    /\ \A v \in Visitor, h \in Host : UserAt(v, h) \in Roles /\ RoleOf[v] \in Roles
    /\ \A rule \in Rules : Permits(rule, "anonymous") => rule = "anonymous"
  <1>1. Roles = {"anonymous", "user", "moderator", "admin"} /\ "disabled" \notin Roles
    BY DEF Roles, Rank
  <1>2. \A role \in Roles : Permits("anonymous", role)
    BY <1>1 DEF Permits, Rank
  <1>3. \A v \in Visitor, h \in Host : UserAt(v, h) \in Roles /\ RoleOf[v] \in Roles
    BY <1>1, DeliveryAssumption DEF UserAt
  <1>4. \A rule \in Rules : Permits(rule, "anonymous") => rule = "anonymous"
    BY <1>1 DEF Permits, Rank, Rules
  <1> QED  BY <1>1, <1>2, <1>3, <1>4

\* Where the file needs no session, everybody may view it, on either origin.
LEMMA OpenToAll ==
    ASSUME ~NeedsApp, NEW v \in Visitor, NEW role \in Roles
    PROVE  MayView(v, role)
  BY RolesRank DEF NeedsApp, MayView

\* The settings and the file decide; what links say and what is answered agree.
LEMMA LinksAgree ==
    ASSUME DeliveryTypeOK
    PROVE  LinksLead
  <1>1. /\ mode \in ModeRow /\ (mode.isolated => mode.base)
    BY DeliveryAssumption DEF DeliveryTypeOK
  <1> SUFFICES ASSUME entry.active, NEW v \in Visitor, NEW l \in Links, MayView(v, RoleOf[v])
               PROVE  \/ Bytes(v, l.route, l.host)
                      \/ l.route = "slug" /\ Preview(v, l.host)
    BY DEF LinksLead
  <1>2. PICK r \in {"slug", "raw", "thumbnail"} : l = LinkTo(r)
    BY DEF Links, Route
  <1>3. Origin \in Host /\ l.route = r
        /\ l.host = (IF r = "slug" /\ mode.previews THEN "app" ELSE Origin)
    BY <1>2 DEF Origin, LinkTo, Host
  <1>4. MayView(v, UserAt(v, "app"))
    BY DEF UserAt
  <1>5. CASE r = "slug" /\ mode.previews
    BY <1>3, <1>4, <1>5 DEF Preview, IsolatedHost
  <1>6. CASE ~(r = "slug" /\ mode.previews)
    <2>1. l.host = Origin
      BY <1>3, <1>6
    <2>2. MayView(v, UserAt(v, Origin))
      <3>1. CASE NeedsApp
        BY <1>4, <3>1 DEF Origin
      <3>2. CASE ~NeedsApp
        BY <1>3, <3>2, OpenToAll, RolesRank
      <3> QED  BY <3>1, <3>2
    <2>3. FromOrigin(Origin)
      BY <1>1 DEF FromOrigin, Origin, IsolatedHost
    <2>4. Raw(v, l.host)
      BY <2>1, <2>2, <2>3 DEF Raw
    <2>5. RouteThere(r, l.host)
      BY <1>2 DEF RouteThere
    <2> QED  BY <1>2, <1>3, <1>6, <2>4, <2>5 DEF Bytes, Thumbnail, Slug
  <1> QED  BY <1>5, <1>6

LEMMA OnlyViewers ==
    ASSUME DeliveryTypeOK
    PROVE  BytesForViewers
  <1> SUFFICES ASSUME NEW v \in Visitor, NEW r \in Route, NEW h \in Host, Bytes(v, r, h),
                      r # "internal"
               PROVE  /\ MayView(v, RoleOf[v])
                      /\ mode.isolated /\ h = "app" => NeedsApp
    BY DEF BytesForViewers
  <1>1. Raw(v, h)
    BY DEF Bytes, Thumbnail, Slug
  <1>2. FromOrigin(h) /\ MayView(v, UserAt(v, h))
    BY <1>1 DEF Raw
  <1>3. MayView(v, RoleOf[v])
    <2>1. CASE h = "app"
      BY <1>2, <2>1 DEF UserAt
    <2>2. CASE h = "file"
      <3>1. MayView(v, "anonymous")
        BY <1>2, <2>2 DEF UserAt
      <3>2. entry.visibility # "private" /\ Permits(mode.view, "anonymous")
        BY <3>1 DEF MayView
      <3>3. mode.view \in Rules
        BY DeliveryAssumption DEF DeliveryTypeOK, ModeRow
      <3>4. ~NeedsApp
        BY <3>2, <3>3, RolesRank DEF NeedsApp
      <3> QED  BY <3>4, OpenToAll, RolesRank
    <2> QED  BY <2>1, <2>2 DEF Host
  <1>4. mode.isolated /\ h = "app" => NeedsApp
    BY <1>2 DEF FromOrigin, IsolatedHost
  <1> QED  BY <1>3, <1>4

LEMMA RangesWithin == PartsWithin
  <1> SUFFICES ASSUME NEW total \in 0..MaxSize, NEW b \in Served(total)
               PROVE  b.end <= total /\ (b.start < b.end \/ total = 0)
    BY DEF PartsWithin
  <1>1. total \in Nat
    BY DeliveryAssumption
  <1>2. CASE b = [start |-> 0, end |-> total]
    BY <1>1, <1>2
  <1>3. ASSUME NEW range, b \in RangeOf(range, total)
        PROVE  b.end <= total /\ b.start < b.end
    <2>1. b \in [start : 0..total, end : 0..total] /\ b.start < b.end
      BY <1>3 DEF RangeOf
    <2>2. b.end \in 0..total
      BY <2>1
    <2> QED  BY <1>1, <2>1, <2>2
  <1>4. \/ b = [start |-> 0, end |-> total]
        \/ \E f, t \in {Open} \cup 0..(total + 1) :
               b \in RangeOf([from |-> f, to |-> t], total)
    <2> DEFINE asked == {Open} \cup 0..(total + 1)
               Part(f, t) == RangeOf([from |-> f, to |-> t], total)
    <2>1. b \in {[start |-> 0, end |-> total]} \cup UNION {Part(f, t) : f, t \in asked}
      BY SMTT(30) DEF Served
    <2> HIDE DEF asked, Part
    <2>2. \/ b = [start |-> 0, end |-> total]
          \/ \E f, t \in asked : b \in Part(f, t)
      BY <2>1
    <2> QED  BY <2>2 DEF asked, Part
  <1> QED  BY <1>2, <1>3, <1>4

(* Links lead whoever may view a file to it, nobody else is given its bytes, a shared *)
(* cache keeps only what anyone was entitled to, and a part lies within the object    *)
(* (file_url, web/support.rs:79; enforce_file_origin and file_cache_scope,            *)
(* web/files.rs:227 and 519): for any settings and any change of them.                *)
THEOREM FilesForViewers == DeliverySpec => []DeliveryInvariant
  <1>1. DeliveryInit => DeliveryInvariant
    <2> SUFFICES ASSUME DeliveryInit PROVE DeliveryInvariant
      OBVIOUS
    <2>1. DeliveryTypeOK
      BY DEF DeliveryInit, DeliveryTypeOK
    <2> QED  BY <2>1, LinksAgree, OnlyViewers, RangesWithin
             DEF DeliveryInit, DeliveryInvariant, CachedForAnyone
  <1>2. ASSUME DeliveryTypeOK, CachedForAnyone, [DeliveryNext]_deliveryVars
        PROVE  DeliveryTypeOK' /\ CachedForAnyone'
    <2>1. CASE ChangeMode \/ ChangeEntry \/ \E v \in Visitor : GiveSigned(v) \/ EndSigned(v)
      BY <1>2, <2>1
         DEF ChangeMode, ChangeEntry, GiveSigned, EndSigned, DeliveryTypeOK, CachedForAnyone
    <2>2. ASSUME NEW c \in cached, ExpireCached(c) PROVE DeliveryTypeOK' /\ CachedForAnyone'
      BY <1>2, <2>2 DEF ExpireCached, DeliveryTypeOK, CachedForAnyone
    <2>3. ASSUME NEW v \in Visitor, NEW r \in Route, NEW h \in Host, Fetch(v, r, h)
          PROVE  DeliveryTypeOK' /\ CachedForAnyone'
      <3> DEFINE c == [route |-> r, host |-> h,
                       anyone |-> \A w \in Visitor : MayView(w, UserAt(w, h))]
      <3>1. c.route = r /\ (r = "internal" \/ c.anyone)
        BY <2>3, OpenToAll, RolesRank DEF Fetch, SharedScope
      <3>2. c \in [route : Route, host : Host, anyone : BOOLEAN]
        OBVIOUS
      <3>3. cached' = cached \cup {c} /\ UNCHANGED <<mode, entry, signed>>
        BY <2>3 DEF Fetch
      <3> HIDE DEF c
      <3> QED  BY <1>2, <3>1, <3>2, <3>3 DEF DeliveryTypeOK, CachedForAnyone
    <2>4. CASE UNCHANGED deliveryVars
      BY <1>2, <2>4 DEF deliveryVars, DeliveryTypeOK, CachedForAnyone
    <2> QED  BY <1>2, <2>1, <2>2, <2>3, <2>4 DEF DeliveryNext
  <1>3. DeliveryTypeOK /\ CachedForAnyone => DeliveryInvariant
    BY LinksAgree, OnlyViewers, RangesWithin DEF DeliveryInvariant
  <1>4. DeliveryInvariant => DeliveryTypeOK /\ CachedForAnyone
    BY DEF DeliveryInvariant
  <1> QED  BY <1>1, <1>2, <1>3, <1>4, PTL DEF DeliverySpec

-----------------------------------------------------------------------------
(* Where a marker is. *)

\* The first byte after the fill is the marker.
LEMMA MarkerIs ==
    ASSUME NEW b \in Seq(Nat), NEW i \in Nat, NEW m \in i..Len(b), b[m] # 255,
           \A k \in i..(m - 1) : b[k] = 255
    PROVE  MarkerFrom(b, i) = m
  <1> DEFINE S == {k \in i..Len(b) : b[k] # 255} \cup {Len(b) + 1}
  <1>1. Len(b) \in Nat /\ m \in S /\ S \subseteq Int
    OBVIOUS
  <1>2. \A k \in S : m <= k
    BY <1>1
  <1>3. Min(S) = m
    <2> HIDE DEF S
    <2>1. \E k \in S : \A l \in S : k <= l
      BY <1>1, <1>2
    <2>2. Min(S) \in S /\ \A l \in S : Min(S) <= l
      BY <2>1 DEF Min
    <2>3. \A v \in S : (\A l \in S : v <= l) => v = m
      BY <1>1, <1>2
    <2> QED BY <2>2, <2>3
  <1> QED BY <1>3 DEF MarkerFrom

\* Where only fill is left there is no marker.
LEMMA NoMarkerLeft ==
    ASSUME NEW b \in Seq(Nat), NEW i \in 1..(Len(b) + 1), \A k \in i..Len(b) : b[k] = 255
    PROVE  MarkerFrom(b, i) = Len(b) + 1
  <1> DEFINE S == {k \in i..Len(b) : b[k] # 255} \cup {Len(b) + 1}
  <1>1. S = {Len(b) + 1}
    OBVIOUS
  <1>2. Len(b) + 1 \in Int
    OBVIOUS
  <1>3. Min({Len(b) + 1}) = Len(b) + 1
    BY <1>2 DEF Min
  <1> QED BY <1>1, <1>3 DEF MarkerFrom

\* A marker is behind the position it is looked for from, and only fill before it.
LEMMA MarkerFacts ==
    ASSUME NEW b \in Seq(Nat), NEW i \in 1..(Len(b) + 1)
    PROVE  /\ MarkerFrom(b, i) \in i..(Len(b) + 1)
           /\ \A k \in i..(MarkerFrom(b, i) - 1) : b[k] = 255
           /\ MarkerFrom(b, i) <= Len(b) => b[MarkerFrom(b, i)] # 255
  <1> DEFINE S == {k \in i..Len(b) : b[k] # 255} \cup {Len(b) + 1}
  <1>1. Len(b) \in Nat /\ S \subseteq Nat /\ S # {}
    OBVIOUS
  <1>2. PICK m \in S : \A k \in S : m <= k
    <2> HIDE DEF S
    <2>1. PICK m \in S : \A k \in S : <<k, m>> \notin OpToRel(<, Nat)
      BY <1>1, NatLessThanWellFounded, WFMin
    <2>2. \A k \in S : ~(k < m)
      BY <1>1, <2>1 DEF OpToRel
    <2> QED BY <1>1, <2>2
  <1>3. Min(S) \in S /\ \A k \in S : Min(S) <= k
    <2> HIDE DEF S
    <2> QED BY <1>2 DEF Min
  <1>4. MarkerFrom(b, i) = Min(S)
    BY DEF MarkerFrom
  <1>5. Min(S) \in i..(Len(b) + 1) /\ (Min(S) <= Len(b) => b[Min(S)] # 255)
    <2> HIDE DEF MarkerFrom
    <2> DEFINE v == Min(S)
    <2>1. v \in S
      BY <1>3
    <2> HIDE DEF v
    <2>2. v \in i..(Len(b) + 1) /\ (v <= Len(b) => b[v] # 255)
      BY <1>1, <2>1
    <2> QED BY <2>2 DEF v
  <1>6. \A k \in i..(Min(S) - 1) : b[k] = 255
    <2> DEFINE v == Min(S)
    <2>1. v \in S /\ \A k \in S : v <= k
      BY <1>3
    <2> HIDE DEF v
    <2>2. \A k \in i..(v - 1) : b[k] = 255
      BY <1>1, <2>1
    <2> QED BY <2>2 DEF v
  <1> QED BY <1>4, <1>5, <1>6

-----------------------------------------------------------------------------
(* One turn, of the image and of one that begins with the same bytes. *)

\* Two files that agree from i to j have the same bytes there.
LEMMA SameSubSeq ==
    ASSUME NEW b \in Seq(Nat), NEW c \in Seq(Nat), NEW i \in Nat \ {0}, NEW j \in Nat,
           j <= Len(b), j <= Len(c), \A k \in i..j : b[k] = c[k]
    PROVE  SubSeq(b, i, j) = SubSeq(c, i, j)
  <1>1. \A k \in i..j : b[k] \in Nat /\ c[k] \in Nat
    OBVIOUS
  <1>2. /\ SubSeq(b, i, j) \in Seq(Nat) /\ Len(SubSeq(b, i, j)) = IF i <= j THEN j - i + 1 ELSE 0
        /\ \A k \in 1..(j - i + 1) : SubSeq(b, i, j)[k] = b[i + k - 1]
    BY <1>1, SubSeqProperties
  <1>3. /\ SubSeq(c, i, j) \in Seq(Nat) /\ Len(SubSeq(c, i, j)) = IF i <= j THEN j - i + 1 ELSE 0
        /\ \A k \in 1..(j - i + 1) : SubSeq(c, i, j)[k] = c[i + k - 1]
    BY <1>1, SubSeqProperties
  <1>4. \A k \in 1..Len(SubSeq(b, i, j)) : SubSeq(b, i, j)[k] = SubSeq(c, i, j)[k]
    <2> SUFFICES ASSUME NEW k \in 1..(j - i + 1) PROVE SubSeq(b, i, j)[k] = SubSeq(c, i, j)[k]
      BY <1>2
    <2>1. i + k - 1 \in i..j
      OBVIOUS
    <2> QED BY <1>2, <1>3, <2>1
  <1> QED BY <1>2, <1>3, <1>4, SeqEqual

\* A segment begins at p and the next one at q; and what is written of it after o.
JpegPiece(b, p, q) ==
    LET m == MarkerFrom(b, p + 1)
    IN  /\ p <= Len(b) /\ b[p] = 255 /\ m <= Len(b)
        /\ \/ b[m] \in Bare \ {EOI} /\ q = m + 1
           \/ b[m] \notin Bare \cup {SOS} /\ WholeSegment(b, m) /\ q = SegmentEnd(b, m) + 1
JpegOut(b, p, o) ==
    LET m == MarkerFrom(b, p + 1)
    IN  IF b[m] \in Bare THEN o \o <<255, b[m]>>
        ELSE IF b[m] \in Metadata THEN o
        ELSE o \o <<255>> \o SubSeq(b, m, SegmentEnd(b, m))

\* A position in the file is told by where it reads and what it has written.
LEMMA WalkingFields ==
    ASSUME NEW x \in Walking
    PROVE  /\ x.at \in Nat \ {0} /\ x.out \in Seq(Nat) /\ x.phase = "loop"
           /\ \A n, o : x = Continued(x, n, o) <=> x.at = n /\ x.out = o
           /\ \A n, o : Continued(x, n, o) = [phase |-> "loop", at |-> n, out |-> o]
           /\ \A o : Finished(x, o) = [phase |-> "done", at |-> x.at, out |-> o]
  BY DEF Walking, Continued, Finished

\* A turn over a JPEG that does not finish passes one segment.
LEMMA JpegGoesOn ==
    ASSUME NEW b, NEW x \in Walking, NEW y \in Walking
    PROVE  JpegTurn(b, x, y) <=> JpegPiece(b, x.at, y.at) /\ y.out = JpegOut(b, x.at, x.out)
  <1>1. \A out : y # Finished(x, out)
    BY WalkingFields
  <1>2. \A n, o : y = Continued(x, n, o) <=> y.at = n /\ y.out = o
    BY DEF Walking, Continued
  <1>3. SOS \notin Metadata
    BY DEF SOS, Metadata, COM
  <1> QED BY <1>1, <1>2, <1>3 DEF JpegTurn, JpegPiece, JpegOut

\* Two files that begin with the same n bytes.
Alike(b, c, n) == n <= Len(b) /\ n <= Len(c) /\ \A k \in 1..n : b[k] = c[k]

\* Files that begin alike have the same byte at each position of their beginning,
LEMMA AlikeAt ==
    ASSUME NEW b \in Seq(Nat), NEW c \in Seq(Nat), NEW n \in Nat, Alike(b, c, n),
           NEW k \in Nat \ {0}, k <= n
    PROVE  b[k] = c[k] /\ b[k] \in Nat
  <1>1. k \in 1..n /\ k \in 1..Len(b)
    BY DEF Alike
  <1> QED BY <1>1 DEF Alike

\* and the same bytes between any two.
LEMMA AlikeBetween ==
    ASSUME NEW b \in Seq(Nat), NEW c \in Seq(Nat), NEW j \in Nat, Alike(b, c, j),
           NEW i \in Nat \ {0}
    PROVE  SubSeq(b, i, j) = SubSeq(c, i, j)
  <1>1. \A k \in i..j : b[k] = c[k]
    <2> SUFFICES ASSUME NEW k \in i..j PROVE b[k] = c[k]
      OBVIOUS
    <2>1. k \in Nat \ {0} /\ k <= j
      OBVIOUS
    <2> QED BY <2>1, AlikeAt
  <1>2. j <= Len(b) /\ j <= Len(c)
    BY DEF Alike
  <1> QED BY <1>1, <1>2, SameSubSeq

\* The same, for any positions at once.
LEMMA AlikeParts ==
    ASSUME NEW b \in Seq(Nat), NEW c \in Seq(Nat)
    PROVE  \A i \in Nat \ {0}, j \in Nat : Alike(b, c, j) => SubSeq(b, i, j) = SubSeq(c, i, j)
  <1>1. ASSUME NEW i \in Nat \ {0}, NEW j \in Nat, Alike(b, c, j)
        PROVE  SubSeq(b, i, j) = SubSeq(c, i, j)
    BY <1>1, AlikeBetween, Zenon
  <1> QED BY <1>1

\* Lengths are numbers, and two files that agree on the two bytes agree on the length.
LEMMA SegmentEnds ==
    ASSUME NEW b \in Seq(Nat), NEW c \in Seq(Nat), NEW n \in Nat, Alike(b, c, n),
           NEW m \in Nat \ {0}, m + 2 <= n
    PROVE  SegmentEnd(b, m) \in Nat /\ SegmentEnd(b, m) = SegmentEnd(c, m)
  <1>1. m + 1 \in Nat \ {0} /\ m + 1 <= n /\ m + 2 \in Nat \ {0} /\ m + 2 <= n
    OBVIOUS
  <1>2. b[m + 1] = c[m + 1] /\ b[m + 2] = c[m + 2] /\ b[m + 1] \in Nat /\ b[m + 2] \in Nat
    BY <1>1, AlikeAt
  <1>3. SegmentEnd(b, m) = m + 256 * b[m + 1] + b[m + 2] /\ SegmentEnd(c, m) = m + 256 * c[m + 1] + c[m + 2]
    BY DEF SegmentEnd
  <1>4. \A u, v \in Nat : m + 256 * u + v \in Nat
    OBVIOUS
  <1>5. SegmentEnd(b, m) = SegmentEnd(c, m)
    BY <1>2, <1>3
  <1>6. SegmentEnd(b, m) \in Nat
    BY <1>2, <1>4 DEF SegmentEnd
  <1> QED BY <1>5, <1>6

\* The segment from p to before q has its marker at m.
JpegPlace(b, p, q, m) ==
    /\ m = MarkerFrom(b, p + 1) /\ b[m] # 255 /\ \A k \in (p + 1)..(m - 1) : b[k] = 255
    /\ b[p] = 255
    /\ \/ b[m] \in Bare \ {EOI} /\ q = m + 1
       \/ b[m] \notin Bare \cup {SOS} /\ m + 2 < q /\ q = SegmentEnd(b, m) + 1

\* A segment of a JPEG ends behind its marker, and within the file.
LEMMA PieceFacts ==
    ASSUME NEW b \in Seq(Nat), NEW p \in Nat \ {0}, NEW q, JpegPiece(b, p, q)
    PROVE  q \in Nat /\ \E m \in Nat : p < m /\ m < q /\ q <= Len(b) + 1 /\ JpegPlace(b, p, q, m)
  <1> DEFINE m == MarkerFrom(b, p + 1)
  <1>1. p <= Len(b) /\ m <= Len(b) /\ p + 1 \in 1..(Len(b) + 1) /\ Len(b) \in Nat /\ b[p] = 255
    BY DEF JpegPiece
  <1>2. /\ m \in (p + 1)..(Len(b) + 1) /\ \A k \in (p + 1)..(m - 1) : b[k] = 255
        /\ m <= Len(b) => b[m] # 255
    BY <1>1, MarkerFacts
  <1>3. \/ b[m] \in Bare \ {EOI} /\ q = m + 1
        \/ /\ b[m] \notin Bare \cup {SOS}
           /\ SegmentEnd(b, m) \in (m + 2)..Len(b)
           /\ q = SegmentEnd(b, m) + 1
    BY DEF JpegPiece, WholeSegment
  <1> HIDE DEF m
  <1>4. m \in Nat /\ m \in (p + 1)..Len(b)
    BY <1>1, <1>2
  <1>5. CASE b[m] \in Bare \ {EOI} /\ q = m + 1
    <2>1. q \in Nat /\ p < m /\ m < q /\ q <= Len(b) + 1
      BY <1>1, <1>4, <1>5
    <2>2. JpegPlace(b, p, q, m)
      BY <1>1, <1>2, <1>4, <1>5 DEF m, JpegPlace
    <2> QED BY <1>4, <2>1, <2>2
  <1>6. CASE b[m] \notin Bare \cup {SOS} /\ SegmentEnd(b, m) \in (m + 2)..Len(b) /\ q = SegmentEnd(b, m) + 1
    <2> DEFINE e == SegmentEnd(b, m)
    <2>1. e \in (m + 2)..Len(b) /\ q = e + 1
      BY <1>6
    <2> HIDE DEF e
    <2>2. q \in Nat /\ p < m /\ m < q /\ q <= Len(b) + 1 /\ m + 2 < q
      BY <1>1, <1>4, <2>1
    <2>3. JpegPlace(b, p, q, m)
      BY <1>1, <1>2, <1>4, <1>6, <2>2 DEF m, JpegPlace
    <2> QED BY <1>4, <2>2, <2>3
  <1> QED BY <1>3, <1>5, <1>6

\* A turn looks at nothing behind the segment it is about.
LEMMA PiecesAlike ==
    ASSUME NEW b \in Seq(Nat), NEW c \in Seq(Nat), NEW p \in Nat \ {0}, NEW q \in Nat \ {0},
           JpegPiece(b, p, q), Alike(b, c, q - 1), NEW o
    PROVE  JpegPiece(c, p, q) /\ JpegOut(c, p, o) = JpegOut(b, p, o)
  <1>1. PICK m \in Nat : p < m /\ m < q /\ q <= Len(b) + 1 /\ JpegPlace(b, p, q, m)
    BY PieceFacts
  <1>2. Len(b) \in Nat /\ Len(c) \in Nat /\ q - 1 \in Nat
    OBVIOUS
  <1>3. q - 1 <= Len(c)
    BY DEF Alike
  <1>4. c[m] = b[m] /\ c[p] = 255 /\ c[m] # 255
    <2>1. m \in Nat \ {0} /\ m <= q - 1 /\ p <= q - 1
      BY <1>1
    <2>2. c[m] = b[m] /\ c[p] = b[p]
      BY <1>2, <2>1, AlikeAt
    <2> QED BY <1>1, <2>2 DEF JpegPlace
  <1>5. \A k \in (p + 1)..(m - 1) : c[k] = 255
    <2> SUFFICES ASSUME NEW k \in (p + 1)..(m - 1) PROVE c[k] = 255
      OBVIOUS
    <2>1. k \in Nat \ {0} /\ k <= q - 1
      BY <1>1
    <2>2. c[k] = b[k]
      BY <1>2, <2>1, AlikeAt
    <2> QED BY <1>1, <2>2 DEF JpegPlace
  <1>6. p <= Len(c) /\ m <= Len(c) /\ m \in (p + 1)..Len(c)
    <2> DEFINE z == Len(c)
    <2>1. z \in Nat /\ q - 1 <= z /\ p < m /\ m < q
      BY <1>1, <1>2, <1>3
    <2> HIDE DEF z
    <2>2. p <= z /\ m <= z /\ m \in (p + 1)..z
      BY <2>1
    <2> QED BY <2>2 DEF z
  <1>7. MarkerFrom(c, p + 1) = m
    <2>1. m \in (p + 1)..Len(c) /\ p + 1 \in Nat /\ c[m] # 255
      BY <1>4, <1>6
    <2> QED BY <1>5, <2>1, MarkerIs, SMTT(30)
  <1>0. m = MarkerFrom(b, p + 1)
    BY <1>1 DEF JpegPlace
  <1>8. CASE b[m] \in Bare \ {EOI} /\ q = m + 1
    <2>1. JpegPiece(c, p, q)
      BY <1>4, <1>6, <1>7, <1>8 DEF JpegPiece
    <2>2. JpegOut(b, p, o) = o \o <<255, b[m]>>
      BY <1>0, <1>8 DEF JpegOut
    <2>3. JpegOut(c, p, o) = o \o <<255, c[m]>>
      <3>1. c[m] \in Bare
        BY <1>4, <1>8
      <3> QED BY <1>7, <3>1 DEF JpegOut
    <2> QED BY <1>4, <2>1, <2>2, <2>3
  <1>9. CASE b[m] \notin Bare \cup {SOS} /\ m + 2 < q /\ q = SegmentEnd(b, m) + 1
    <2>0. m + 2 < q
      BY <1>9
    <2>1. m \in Nat \ {0} /\ m + 2 <= q - 1 /\ m + 2 <= Len(c)
      <3> DEFINE z == Len(c)
      <3>1. z \in Nat /\ q - 1 <= z /\ p < m
        BY <1>1, <1>2, <1>3
      <3> HIDE DEF z
      <3>2. m \in Nat \ {0} /\ m + 2 <= q - 1 /\ m + 2 <= z
        BY <2>0, <3>1
      <3> QED BY <3>2 DEF z
    <2>2. SegmentEnd(c, m) = SegmentEnd(b, m) /\ SegmentEnd(b, m) \in Nat
      BY <1>2, <2>1, SegmentEnds
    <2>3. SegmentEnd(c, m) = q - 1 /\ SegmentEnd(b, m) = q - 1 /\ q = SegmentEnd(c, m) + 1
      BY <2>2, <1>9
    <2>4. q - 1 \in (m + 2)..Len(c)
      BY <1>2, <1>3, <2>1
    <2>5. WholeSegment(c, m)
      BY <2>1, <2>3, <2>4 DEF WholeSegment
    <2>6. SubSeq(c, m, q - 1) = SubSeq(b, m, q - 1)
      <3>1. m \in Nat \ {0}
        BY <2>1
      <3>2. \A i \in Nat \ {0}, j \in Nat : Alike(b, c, j) => SubSeq(b, i, j) = SubSeq(c, i, j)
        BY AlikeParts, Zenon
      <3>3. SubSeq(b, m, q - 1) = SubSeq(c, m, q - 1)
        BY <1>2, <3>1, <3>2, Zenon
      <3> QED BY <3>3, Zenon
    <2>7. JpegPiece(c, p, q)
      BY <1>4, <1>6, <1>7, <1>9, <2>3, <2>5 DEF JpegPiece
    <2>8. JpegOut(c, p, o) = JpegOut(b, p, o)
      <3>1. JpegOut(b, p, o) = IF b[m] \in Metadata THEN o ELSE o \o <<255>> \o SubSeq(b, m, q - 1)
        BY <1>0, <1>9, <2>3 DEF JpegOut
      <3>2. c[m] \notin Bare
        BY <1>4, <1>9
      <3>3. JpegOut(c, p, o) = IF c[m] \in Metadata THEN o ELSE o \o <<255>> \o SubSeq(c, m, q - 1)
        BY <1>7, <2>3, <3>2 DEF JpegOut
      <3>4. c[m] = b[m]
        BY <1>4
      <3> QED
        <4> HIDE DEF JpegOut
        <4>1. CASE b[m] \in Metadata
          BY <3>1, <3>3, <3>4, <4>1
        <4>2. CASE b[m] \notin Metadata
          BY <2>6, <3>1, <3>3, <3>4, <4>2
        <4> QED BY <4>1, <4>2
    <2> QED BY <2>7, <2>8
  <1> QED BY <1>1, <1>8, <1>9 DEF JpegPlace

\* An image that ends inside a segment stays as it is.
LEMMA JpegTorn ==
    ASSUME NEW b \in Seq(Nat), NEW c \in Seq(Nat), NEW x \in Walking, NEW q \in Nat,
           JpegPiece(b, x.at, q), x.at <= Len(c), Len(c) < q - 1, Alike(b, c, Len(c))
    PROVE  JpegTurn(c, x, Finished(x, c))
  <1> DEFINE p == x.at
  <1>0. p \in Nat \ {0} /\ p <= Len(c) /\ Len(c) \in Nat /\ Len(b) \in Nat
    BY WalkingFields
  <1>a. JpegPiece(b, p, q)
    OBVIOUS
  <1> HIDE DEF p
  <1>1. PICK m \in Nat : p < m /\ m < q /\ q <= Len(b) + 1 /\ JpegPlace(b, p, q, m)
    BY <1>0, <1>a, PieceFacts
  <1>4. c[p] = 255
    <2>1. c[p] = b[p]
      BY <1>0, AlikeAt
    <2> QED BY <1>1, <2>1 DEF JpegPlace
  <1>5. CASE Len(c) < m
    <2>1. MarkerFrom(c, p + 1) = Len(c) + 1
      <3>1. p + 1 \in 1..(Len(c) + 1)
        BY <1>0
      <3>2. \A k \in (p + 1)..Len(c) : c[k] = 255
        <4> SUFFICES ASSUME NEW k \in (p + 1)..Len(c) PROVE c[k] = 255
          OBVIOUS
        <4>1. k \in Nat \ {0} /\ k <= Len(c) /\ k \in (p + 1)..(m - 1)
          BY <1>0, <1>1, <1>5
        <4>2. c[k] = b[k]
          BY <1>0, <4>1, AlikeAt
        <4> QED BY <1>1, <4>1, <4>2 DEF JpegPlace
      <3> QED BY <3>1, <3>2, NoMarkerLeft
    <2>2. MarkerFrom(c, p + 1) > Len(c)
      BY <1>0, <2>1
    <2> QED BY <1>0, <1>4, <2>2 DEF JpegTurn, p
  <1>6. CASE m <= Len(c)
    <2>1. m \in (p + 1)..Len(c) /\ m \in Nat \ {0} /\ p + 1 \in Nat
      BY <1>0, <1>1, <1>6
    <2>2. c[m] = b[m] /\ b[m] # 255
      <3>1. c[m] = b[m]
        BY <1>0, <1>6, <2>1, AlikeAt
      <3> QED BY <1>1, <3>1 DEF JpegPlace
    <2>3. \A k \in (p + 1)..(m - 1) : c[k] = 255
      <3> SUFFICES ASSUME NEW k \in (p + 1)..(m - 1) PROVE c[k] = 255
        OBVIOUS
      <3>1. k \in Nat \ {0} /\ k <= Len(c)
        <4> DEFINE z == Len(c)
        <4>1. z \in Nat /\ m <= z /\ p \in Nat
          BY <1>0, <1>6
        <4> HIDE DEF z
        <4>2. k \in Nat \ {0} /\ k <= z
          BY <4>1
        <4> QED BY <4>2 DEF z
      <3>2. c[k] = b[k]
        BY <1>0, <3>1, AlikeAt
      <3> QED BY <1>1, <3>2 DEF JpegPlace
    <2>4. MarkerFrom(c, p + 1) = m
      BY <2>1, <2>2, <2>3, MarkerIs
    <2>5. b[m] \notin Bare \cup {SOS} /\ q = SegmentEnd(b, m) + 1
      <3>1. q # m + 1
        BY <1>0, <1>1, <1>6
      <3> QED BY <1>1, <3>1 DEF JpegPlace
    <2>6. ~WholeSegment(c, m)
      <3> SUFFICES ASSUME m + 2 <= Len(c) PROVE SegmentEnd(c, m) \notin (m + 2)..Len(c)
        BY DEF WholeSegment
      <3>2. SegmentEnd(b, m) \in Nat /\ SegmentEnd(b, m) = SegmentEnd(c, m)
        BY <1>0, <2>1, SegmentEnds
      <3>3. SegmentEnd(c, m) = q - 1
        BY <2>5, <3>2
      <3> QED BY <1>0, <3>3
    <2> QED BY <1>0, <1>4, <1>6, <2>2, <2>4, <2>5, <2>6 DEF JpegTurn, p
  <1> QED BY <1>0, <1>1, <1>5, <1>6

-----------------------------------------------------------------------------
(* The same of PNG. *)

PngPiece(b, p, q) ==
    p + 7 <= Len(b) /\ ChunkEnd(b, p) <= Len(b) /\ ChunkType(b, p) # IEND /\ q = ChunkEnd(b, p) + 1
PngOut(b, p, o) == IF Critical(ChunkType(b, p)) THEN o \o SubSeq(b, p, ChunkEnd(b, p)) ELSE o

\* A turn over a PNG that does not finish passes one chunk.
LEMMA PngGoesOn ==
    ASSUME NEW b, NEW x \in Walking, NEW y \in Walking
    PROVE  PngTurn(b, x, y) <=> PngPiece(b, x.at, y.at) /\ y.out = PngOut(b, x.at, x.out)
  <1>1. \A out : y # Finished(x, out)
    BY WalkingFields
  <1>2. \A n, o : y = Continued(x, n, o) <=> y.at = n /\ y.out = o
    BY DEF Walking, Continued
  <1> QED BY <1>1, <1>2 DEF PngTurn, PngPiece, PngOut

\* The end and the type of a chunk are read off its first eight bytes.
LEMMA ChunkEnds ==
    ASSUME NEW b \in Seq(Nat), NEW c \in Seq(Nat), NEW n \in Nat, Alike(b, c, n),
           NEW p \in Nat \ {0}, p + 7 <= n
    PROVE  /\ ChunkEnd(b, p) \in Nat /\ ChunkEnd(b, p) = ChunkEnd(c, p) /\ ChunkEnd(b, p) >= p + 11
           /\ ChunkType(b, p) = ChunkType(c, p)
  <1>1. p + 3 \in Nat \ {0} /\ p + 3 <= n
    OBVIOUS
  <1>2. b[p + 3] = c[p + 3] /\ b[p + 3] \in Nat
    BY <1>1, AlikeAt
  <1>3. \A v \in Nat : p + 11 + v \in Nat /\ p + 11 + v >= p + 11
    OBVIOUS
  <1>4. ChunkEnd(b, p) = ChunkEnd(c, p) /\ ChunkEnd(b, p) \in Nat /\ ChunkEnd(b, p) >= p + 11
    BY <1>2, <1>3 DEF ChunkEnd
  <1>5. ChunkType(b, p) = ChunkType(c, p)
    <2>1. p + 4 \in Nat \ {0} /\ p + 7 \in Nat
      OBVIOUS
    <2>2. Alike(b, c, p + 7)
      <3>1. \A k \in 1..(p + 7) : k \in 1..n
        OBVIOUS
      <3>2. Len(b) \in Nat /\ Len(c) \in Nat
        OBVIOUS
      <3>3. p + 7 <= Len(b) /\ p + 7 <= Len(c)
        BY <3>2 DEF Alike
      <3> QED BY <3>1, <3>3 DEF Alike
    <2>3. SubSeq(b, p + 4, p + 7) = SubSeq(c, p + 4, p + 7)
      <3>1. \A i \in Nat \ {0}, j \in Nat : Alike(b, c, j) => SubSeq(b, i, j) = SubSeq(c, i, j)
        BY AlikeParts, Zenon
      <3> QED BY <2>1, <2>2, <3>1, Zenon
    <2> QED BY <2>3 DEF ChunkType
  <1> QED BY <1>4, <1>5

\* A file begins as it does.
LEMMA AlikeSelf ==
    ASSUME NEW b \in Seq(Nat)
    PROVE Alike(b, b, Len(b)) /\ Len(b) \in Nat
  BY DEF Alike

\* A chunk has twelve bytes at least, and ends within the file.
LEMMA PngPieceFacts ==
    ASSUME NEW b \in Seq(Nat), NEW p \in Nat \ {0}, NEW q, PngPiece(b, p, q)
    PROVE  q \in Nat /\ p < q /\ p + 11 < q /\ q <= Len(b) + 1
  <1>1. p + 7 <= Len(b) /\ ChunkEnd(b, p) <= Len(b) /\ q = ChunkEnd(b, p) + 1 /\ Len(b) \in Nat
    BY DEF PngPiece
  <1>2. ChunkEnd(b, p) \in Nat /\ ChunkEnd(b, p) >= p + 11
    BY <1>1, AlikeSelf, ChunkEnds
  <1> QED BY <1>1, <1>2

\* A turn looks at nothing behind the chunk it is about.
LEMMA PngPiecesAlike ==
    ASSUME NEW b \in Seq(Nat), NEW c \in Seq(Nat), NEW p \in Nat \ {0}, NEW q \in Nat \ {0},
           PngPiece(b, p, q), Alike(b, c, q - 1), NEW o
    PROVE  PngPiece(c, p, q) /\ PngOut(c, p, o) = PngOut(b, p, o)
  <1>1. p + 11 < q /\ q - 1 \in Nat /\ p + 7 <= q - 1
    BY PngPieceFacts
  <1>2. /\ ChunkEnd(b, p) = ChunkEnd(c, p) /\ ChunkType(b, p) = ChunkType(c, p)
    BY <1>1, ChunkEnds
  <1>3. q = ChunkEnd(b, p) + 1 /\ ChunkType(b, p) # IEND /\ ChunkEnd(b, p) \in Nat
    <2>1. p + 7 <= Len(b) /\ ChunkType(b, p) # IEND /\ q = ChunkEnd(b, p) + 1
      BY DEF PngPiece
    <2> QED BY <2>1, AlikeSelf, ChunkEnds
  <1>4. q - 1 <= Len(c) /\ Len(c) \in Nat /\ ChunkEnd(b, p) = q - 1
    BY <1>3 DEF Alike
  <1>5. PngPiece(c, p, q)
    <2>1. p + 7 <= Len(c) /\ ChunkEnd(c, p) <= Len(c)
      BY <1>1, <1>2, <1>4
    <2> QED BY <1>2, <1>3, <2>1 DEF PngPiece
  <1>6. SubSeq(b, p, q - 1) = SubSeq(c, p, q - 1)
    <2>1. \A i \in Nat \ {0}, j \in Nat : Alike(b, c, j) => SubSeq(b, i, j) = SubSeq(c, i, j)
      BY AlikeParts, Zenon
    <2> QED BY <1>1, <2>1
  <1>7. PngOut(c, p, o) = PngOut(b, p, o)
    <2>1. SubSeq(b, p, ChunkEnd(b, p)) = SubSeq(c, p, ChunkEnd(c, p))
      BY <1>2, <1>4, <1>6
    <2> QED BY <1>2, <2>1 DEF PngOut
  <1> QED BY <1>5, <1>7

\* A PNG that ends inside a chunk stays as it is, or ends before a header that is not whole.
LEMMA PngTorn ==
    ASSUME NEW b \in Seq(Nat), NEW c \in Seq(Nat), NEW x \in Walking, NEW q \in Nat,
           PngPiece(b, x.at, q), Len(c) < q - 1, Alike(b, c, Len(c))
    PROVE  /\ x.at + 7 <= Len(c) => PngTurn(c, x, Finished(x, c))
           /\ x.at + 7 > Len(c) => PngTurn(c, x, Finished(x, x.out))
  <1>1. x.at \in Nat \ {0} /\ Len(c) \in Nat
    BY WalkingFields
  <1>2. ASSUME x.at + 7 <= Len(c) PROVE ChunkEnd(c, x.at) > Len(c)
    <2>1. ChunkEnd(b, x.at) \in Nat /\ ChunkEnd(b, x.at) = ChunkEnd(c, x.at)
      BY <1>1, <1>2, ChunkEnds
    <2>2. q = ChunkEnd(b, x.at) + 1
      BY DEF PngPiece
    <2> QED BY <1>1, <2>1, <2>2
  <1> QED BY <1>2 DEF PngTurn

-----------------------------------------------------------------------------
(* The same of both. *)

\* A turn reads on, and looks at nothing behind what it has read.
LEMMA TurnReads ==
    ASSUME NEW format, NEW b \in Seq(Nat), NEW x \in Walking, NEW y \in Walking, Turn(format, b, x, y)
    PROVE  /\ x.at < y.at /\ y.at <= Len(b) + 1
           /\ \A c \in Seq(Nat) : Alike(b, c, y.at - 1) => Turn(format, c, x, y)
  <1>1. x.at \in Nat \ {0} /\ y.at \in Nat \ {0}
    BY WalkingFields
  <1>2. CASE format = "png"
    <2>1. PngPiece(b, x.at, y.at) /\ y.out = PngOut(b, x.at, x.out)
      BY <1>2, PngGoesOn DEF Turn
    <2>2. x.at < y.at /\ y.at <= Len(b) + 1
      BY <1>1, <2>1, PngPieceFacts
    <2>3. ASSUME NEW c \in Seq(Nat), Alike(b, c, y.at - 1) PROVE Turn(format, c, x, y)
      <3>0. \A o : \A p, q \in Nat \ {0} : PngPiece(b, p, q) /\ Alike(b, c, q - 1) =>
                PngPiece(c, p, q) /\ PngOut(c, p, o) = PngOut(b, p, o)
        BY <2>3, PngPiecesAlike
      <3>1. PngPiece(c, x.at, y.at) /\ PngOut(c, x.at, x.out) = PngOut(b, x.at, x.out)
        BY <1>1, <2>1, <2>3, <3>0, Zenon
      <3> QED BY <1>2, <2>1, <3>1, PngGoesOn DEF Turn
    <2> QED BY <2>2, <2>3
  <1>3. CASE format # "png"
    <2>1. JpegPiece(b, x.at, y.at) /\ y.out = JpegOut(b, x.at, x.out)
      BY <1>3, JpegGoesOn DEF Turn
    <2>2. x.at < y.at /\ y.at <= Len(b) + 1
      <3>1. PICK m \in Nat : x.at < m /\ m < y.at /\ y.at <= Len(b) + 1
        BY <1>1, <2>1, PieceFacts
      <3> QED BY <1>1, <3>1
    <2>3. ASSUME NEW c \in Seq(Nat), Alike(b, c, y.at - 1) PROVE Turn(format, c, x, y)
      <3>0. \A o : \A p, q \in Nat \ {0} : JpegPiece(b, p, q) /\ Alike(b, c, q - 1) =>
                JpegPiece(c, p, q) /\ JpegOut(c, p, o) = JpegOut(b, p, o)
        BY <2>3, PiecesAlike
      <3>1. JpegPiece(c, x.at, y.at) /\ JpegOut(c, x.at, x.out) = JpegOut(b, x.at, x.out)
        BY <1>1, <2>1, <2>3, <3>0, Zenon
      <3> QED BY <1>3, <2>1, <3>1, JpegGoesOn DEF Turn
    <2> QED BY <2>2, <2>3
  <1> QED BY <1>2, <1>3

\* At the end of the bytes the rewriting is done.
LEMMA TurnEnds ==
    ASSUME NEW format, NEW b \in Seq(Nat), NEW x \in Walking, x.at = Len(b) + 1
    PROVE  Turn(format, b, x, Finished(x, x.out))
  <1>1. Len(b) \in Nat /\ x.at > Len(b) /\ x.at + 7 > Len(b)
    OBVIOUS
  <1> QED BY <1>1 DEF Turn, PngTurn, JpegTurn

\* A file that ends inside a segment stays as it is; but for a PNG of which not even a
\* header is left.
LEMMA TurnTorn ==
    ASSUME NEW format, NEW b \in Seq(Nat), NEW c \in Seq(Nat), NEW x \in Walking, NEW y \in Walking,
           Turn(format, b, x, y), x.at <= Len(c), Len(c) < y.at - 1, Alike(b, c, Len(c))
    PROVE  Turn(format, c, x, Finished(x, IF format # "png" \/ Len(c) >= x.at + 7 THEN c ELSE x.out))
  <1>1. x.at \in Nat \ {0} /\ y.at \in Nat \ {0} /\ Len(c) \in Nat
    BY WalkingFields
  <1>2. CASE format = "png"
    <2>1. PngPiece(b, x.at, y.at)
      BY <1>2, PngGoesOn DEF Turn
    <2>2. /\ x.at + 7 <= Len(c) => PngTurn(c, x, Finished(x, c))
          /\ x.at + 7 > Len(c) => PngTurn(c, x, Finished(x, x.out))
      BY <1>1, <2>1, PngTorn
    <2>3. CASE Len(c) >= x.at + 7
      BY <1>1, <1>2, <2>2, <2>3 DEF Turn
    <2>4. CASE ~(Len(c) >= x.at + 7)
      BY <1>1, <1>2, <2>2, <2>4 DEF Turn
    <2> QED BY <2>3, <2>4
  <1>3. CASE format # "png"
    <2>1. JpegPiece(b, x.at, y.at)
      BY <1>3, JpegGoesOn DEF Turn
    <2>2. JpegTurn(c, x, Finished(x, c))
      BY <1>1, <2>1, JpegTorn
    <2> QED BY <1>3, <2>2 DEF Turn
  <1> QED BY <1>2, <1>3

\* A turn leads to one place.
LEMMA TurnIsOne ==
    ASSUME NEW format, NEW b \in Seq(Nat), NEW x \in Walking, NEW y, NEW z,
           Turn(format, b, x, y), Turn(format, b, x, z)
    PROVE  y = z
  <1>1. x.at \in Nat \ {0} /\ Len(b) \in Nat
    BY WalkingFields
  <1>2. CASE format = "png"
    <2> DEFINE end == ChunkEnd(b, x.at)
    <2>1. PngTurn(b, x, y) /\ PngTurn(b, x, z)
      BY <1>2 DEF Turn
    <2>2. CASE x.at + 7 > Len(b)
      BY <1>1, <2>1, <2>2 DEF PngTurn
    <2>3. CASE x.at + 7 <= Len(b)
      <3>1. end \in Nat
        BY <1>1, <2>3, AlikeSelf, ChunkEnds
      <3>2. ~(x.at + 7 > Len(b))
        BY <1>1, <2>3
      <3>3. CASE end > Len(b)
        <4>1. ~(end <= Len(b))
          BY <1>1, <3>1, <3>3
        <4> QED BY <2>1, <3>2, <4>1 DEF PngTurn
      <3>4. CASE ~(end > Len(b))
        BY <2>1, <3>2, <3>4 DEF PngTurn
      <3> QED BY <3>3, <3>4
    <2> QED BY <1>1, <2>2, <2>3
  <1>3. CASE format # "png"
    <2> DEFINE m == MarkerFrom(b, x.at + 1)
    <2>1. JpegTurn(b, x, y) /\ JpegTurn(b, x, z)
      BY <1>3 DEF Turn
    <2>2. CASE x.at > Len(b)
      <3>1. ~(x.at <= Len(b))
        BY <1>1, <2>2
      <3> QED BY <2>1, <3>1 DEF JpegTurn
    <2>3. CASE x.at <= Len(b)
      <3>1. ~(x.at > Len(b))
        BY <1>1, <2>3
      <3>2. m \in Nat
        <4>1. x.at + 1 \in 1..(Len(b) + 1)
          BY <1>1, <2>3
        <4>2. m \in (x.at + 1)..(Len(b) + 1)
          BY <4>1, MarkerFacts
        <4> QED BY <1>1, <4>2
      <3>3. m > Len(b) <=> ~(m <= Len(b))
        BY <1>1, <3>2
      <3>4. SOS \notin Metadata
        BY DEF SOS, Metadata, COM
      <3> HIDE DEF m
      <3>5. ASSUME NEW w, JpegTurn(b, x, w)
            PROVE  w = IF b[x.at] # 255 THEN Finished(x, x.out \o SubSeq(b, x.at, Len(b)))
                       ELSE IF ~(m <= Len(b)) THEN Finished(x, b)
                       ELSE IF b[m] \in Bare
                            THEN IF b[m] = EOI THEN Finished(x, x.out \o <<255, EOI>>)
                                 ELSE Continued(x, m + 1, x.out \o <<255, b[m]>>)
                       ELSE IF ~WholeSegment(b, m) THEN Finished(x, b)
                       ELSE IF b[m] \in Metadata THEN Continued(x, SegmentEnd(b, m) + 1, x.out)
                       ELSE IF b[m] = SOS THEN Finished(x, x.out \o <<255>> \o SubSeq(b, m, Len(b)))
                       ELSE Continued(x, SegmentEnd(b, m) + 1,
                                      x.out \o <<255>> \o SubSeq(b, m, SegmentEnd(b, m)))
        BY <3>1, <3>3, <3>4, <3>5, Zenon DEF JpegTurn, m
      <3> QED BY <2>1, <3>5
    <2> QED BY <1>1, <2>2, <2>3
  <1> QED BY <1>2, <1>3

-----------------------------------------------------------------------------
(* What is written is read. *)

\* The k-th byte of what follows a.
LEMMA After ==
    ASSUME NEW a \in Seq(Nat), NEW t \in Seq(Nat)
    PROVE  /\ a \o t \in Seq(Nat) /\ Len(a \o t) = Len(a) + Len(t) /\ Len(a) \in Nat /\ Len(t) \in Nat
           /\ Alike(a, a \o t, Len(a))
           /\ \A k \in 1..Len(t) : (a \o t)[Len(a) + k] = t[k]
           /\ \A i, j \in 1..Len(t) : SubSeq(a \o t, Len(a) + i, Len(a) + j) = SubSeq(t, i, j)
  <1>1. /\ a \o t \in Seq(Nat) /\ Len(a \o t) = Len(a) + Len(t)
        /\ \A i \in 1..(Len(a) + Len(t)) : (a \o t)[i] = IF i <= Len(a) THEN a[i] ELSE t[i - Len(a)]
    BY ConcatProperties
  <1>2. Len(a) \in Nat /\ Len(t) \in Nat
    OBVIOUS
  <1>3. Alike(a, a \o t, Len(a))
    <2>1. \A k \in 1..Len(a) : k \in 1..(Len(a) + Len(t)) /\ k <= Len(a)
      BY <1>2
    <2>2. \A k \in 1..Len(a) : a[k] = (a \o t)[k]
      BY <1>1, <2>1
    <2>3. Len(a) <= Len(a) /\ Len(a) <= Len(a \o t)
      BY <1>1, <1>2
    <2> QED BY <2>2, <2>3 DEF Alike
  <1>4. ASSUME NEW k \in 1..Len(t) PROVE (a \o t)[Len(a) + k] = t[k]
    <2>1. /\ Len(a) + k \in 1..(Len(a) + Len(t)) /\ ~(Len(a) + k <= Len(a))
          /\ Len(a) + k - Len(a) = k
      BY <1>2
    <2> QED BY <1>1, <2>1
  <1>5. ASSUME NEW i \in 1..Len(t), NEW j \in 1..Len(t)
        PROVE  SubSeq(a \o t, Len(a) + i, Len(a) + j) = SubSeq(t, i, j)
    <2>1. /\ Len(a) + i \in (Len(a) + 1)..(Len(a) + Len(t)) /\ Len(a) + i - Len(a) = i
          /\ Len(a) + j \in (Len(a) + 1)..(Len(a) + Len(t)) /\ Len(a) + j - Len(a) = j
      BY <1>2
    <2>2. \A m, n \in (Len(a) + 1)..(Len(a) + Len(t)) :
              SubSeq(a \o t, m, n) = SubSeq(t, m - Len(a), n - Len(a))
      BY SubSeqOfConcat2
    <2> QED BY <2>1, <2>2
  <1> QED BY <1>1, <1>2, <1>3, <1>4, <1>5

\* b has t behind its first n bytes.
Holds(b, n, t) == n + Len(t) <= Len(b) /\ \A k \in 1..Len(t) : b[n + k] = t[k]

\* A file that holds t behind n has each of its bytes there,
LEMMA HoldsAt ==
    ASSUME NEW b, NEW t \in Seq(Nat), NEW n \in Nat, Holds(b, n, t)
    PROVE  \A k \in Nat \ {0} : k <= Len(t) => b[n + k] = t[k]
  <1> SUFFICES ASSUME NEW k \in Nat \ {0}, k <= Len(t) PROVE b[n + k] = t[k]
    OBVIOUS
  <1>1. k \in 1..Len(t)
    OBVIOUS
  <1> QED BY <1>1 DEF Holds

\* and all of them together.
LEMMA HoldsBetween ==
    ASSUME NEW b \in Seq(Nat), NEW t \in Seq(Nat), NEW n \in Nat, Holds(b, n, t)
    PROVE  SubSeq(b, n + 1, n + Len(t)) = t
  <1> DEFINE l == Len(t)  p == n + 1  q == n + l  s == SubSeq(b, p, q)
  <1>1. l \in Nat /\ Len(b) \in Nat /\ n + l <= Len(b)
    BY DEF Holds
  <1>2. \A k \in 1..l : b[n + k] = t[k]
    BY DEF Holds
  <1> HIDE DEF l
  <1>3. p \in Int /\ q \in Int /\ \A i \in p..q : b[i] \in Nat
    <2>1. \A i \in p..q : i \in 1..Len(b)
      BY <1>1
    <2> QED BY <1>1, <2>1
  <1>4. /\ (IF p <= q THEN q - p + 1 ELSE 0) = l /\ q - p + 1 = l /\ \A i \in 1..l : p + i - 1 = n + i
    BY <1>1
  <1> HIDE DEF p, q
  <1>5. /\ s \in Seq(Nat) /\ Len(s) = (IF p <= q THEN q - p + 1 ELSE 0)
        /\ \A i \in 1..(q - p + 1) : s[i] = b[p + i - 1]
    BY <1>3, SubSeqProperties
  <1>6. s \in Seq(Nat) /\ Len(s) = l /\ \A i \in 1..l : s[i] = b[n + i]
    BY <1>4, <1>5
  <1>7. \A i \in 1..l : s[i] = t[i]
    BY <1>2, <1>6
  <1> HIDE DEF s
  <1>8. Len(s) = Len(t) /\ \A i \in 1..Len(s) : s[i] = t[i]
    BY <1>6, <1>7 DEF l
  <1>9. s = t
    BY <1>6, <1>8, SeqEqual
  <1> QED BY <1>9 DEF s, p, q, l

\* What is appended is held behind what was there.
LEMMA HoldsAfter ==
    ASSUME NEW a \in Seq(Nat), NEW t \in Seq(Nat) PROVE Holds(a \o t, Len(a), t)
  <1>1. /\ Len(a \o t) = Len(a) + Len(t) /\ Len(a) \in Nat /\ Len(t) \in Nat
        /\ \A k \in 1..Len(t) : (a \o t)[Len(a) + k] = t[k]
    BY After
  <1>2. Len(a) + Len(t) <= Len(a \o t)
    BY <1>1
  <1> QED BY <1>1, <1>2 DEF Holds

\* A file that holds two pieces joined holds the one behind the other.
LEMMA HoldsParts ==
    ASSUME NEW b \in Seq(Nat), NEW s \in Seq(Nat), NEW t \in Seq(Nat), NEW n \in Nat,
           Holds(b, n, s \o t)
    PROVE  Holds(b, n, s) /\ Holds(b, n + Len(s), t)
  <1> DEFINE l == Len(s)  m == Len(t)
  <1>1. /\ Len(s \o t) = l + m /\ l \in Nat /\ m \in Nat
        /\ \A k \in 1..m : (s \o t)[l + k] = t[k]
        /\ Alike(s, s \o t, l)
    BY After
  <1>2. \A k \in 1..l : s[k] = (s \o t)[k]
    BY <1>1 DEF Alike
  <1>3. Len(b) \in Nat /\ n + Len(s \o t) <= Len(b) /\ \A k \in 1..Len(s \o t) : b[n + k] = (s \o t)[k]
    BY DEF Holds
  <1> HIDE DEF l, m
  <1>4. n + (l + m) <= Len(b) /\ \A k \in 1..(l + m) : b[n + k] = (s \o t)[k]
    BY <1>1, <1>3
  <1>5. \A k \in 1..l : b[n + k] = s[k]
    <2> SUFFICES ASSUME NEW k \in 1..l PROVE b[n + k] = s[k]
      OBVIOUS
    <2>1. k \in 1..(l + m)
      BY <1>1
    <2> QED BY <1>2, <1>4, <2>1
  <1>6. \A k \in 1..m : b[n + l + k] = t[k]
    <2> SUFFICES ASSUME NEW k \in 1..m PROVE b[n + l + k] = t[k]
      OBVIOUS
    <2>1. l + k \in 1..(l + m) /\ n + l + k = n + (l + k)
      BY <1>1
    <2> QED BY <1>1, <1>4, <2>1
  <1>7. n + l <= Len(b) /\ n + l + m <= Len(b)
    BY <1>1, <1>3, <1>4
  <1> QED BY <1>5, <1>6, <1>7 DEF Holds, l, m

\* The bytes before a marker, all 255.
Fills == {<<255>>, <<255, 255>>}
\* Behind a byte of fill or two, the first other byte is the marker.
LEMMA MarkerFound ==
    ASSUME NEW b \in Seq(Nat), NEW n \in Nat, NEW g \in Fills, Holds(b, n, g),
           NEW m \in Nat, m = n + Len(g) + 1, m <= Len(b), b[m] # 255
    PROVE  n + 1 < m /\ b[n + 1] = 255 /\ MarkerFrom(b, n + 1 + 1) = m
  <1>1. g \in Seq(Nat) /\ Len(g) \in 1..2 /\ \A k \in 1..Len(g) : g[k] = 255
    <2>1. CASE g = <<255>>
      BY <2>1
    <2>2. CASE g = <<255, 255>>
      BY <2>2
    <2> QED BY <2>1, <2>2 DEF Fills
  <1>2. \A k \in Nat \ {0} : k <= Len(g) => b[n + k] = 255
    <2> SUFFICES ASSUME NEW k \in Nat \ {0}, k <= Len(g) PROVE b[n + k] = 255
      OBVIOUS
    <2>1. b[n + k] = g[k]
      BY <1>1, HoldsAt
    <2>2. k \in 1..Len(g)
      BY <1>1
    <2> QED BY <1>1, <2>1, <2>2
  <1> DEFINE l == Len(g)
  <1>3. l \in 1..2 /\ m = n + l + 1 /\ \A k \in Nat \ {0} : k <= l => b[n + k] = 255
    BY <1>1, <1>2
  <1> HIDE DEF l
  <1>4. b[n + 1] = 255
    BY <1>3
  <1>5. m \in (n + 1 + 1)..Len(b) /\ n + 1 + 1 \in Nat /\ n + 1 < m
    BY <1>3
  <1>6. \A k \in (n + 1 + 1)..(m - 1) : b[k] = 255
    <2> SUFFICES ASSUME NEW k \in (n + 1 + 1)..(m - 1) PROVE b[k] = 255
      OBVIOUS
    <2>1. PICK d \in Nat \ {0} : d <= l /\ n + d = k
      <3>1. k - n \in Nat \ {0} /\ k - n <= l /\ n + (k - n) = k
        BY <1>3
      <3> QED BY <3>1
    <2>2. b[n + d] = 255
      BY <1>3, <2>1
    <2> QED BY <2>1, <2>2
  <1>7. MarkerFrom(b, n + 1 + 1) = m
    BY <1>5, <1>6, MarkerIs
  <1> QED BY <1>4, <1>5, <1>7

\* What follows a marker that has a length: the length, and so much.
Counted(u) == u \in Seq(Nat) /\ Len(u) > 2 /\ u[1] # 255 /\ u[2] = 0 /\ u[3] = Len(u) - 1
\* The length of a segment leads from its marker to its end.
LEMMA SegmentFound ==
    ASSUME NEW b \in Seq(Nat), NEW m \in Nat \ {0}, NEW u, Counted(u), Holds(b, m - 1, u)
    PROVE  /\ m <= Len(b) /\ b[m] = u[1] /\ WholeSegment(b, m)
           /\ SegmentEnd(b, m) = m - 1 + Len(u) /\ SubSeq(b, m, SegmentEnd(b, m)) = u
  <1> DEFINE l == Len(u)
  <1>1. u \in Seq(Nat) /\ l > 2 /\ l \in Nat /\ u[1] # 255 /\ u[2] = 0 /\ u[3] = l - 1
    BY DEF Counted
  <1>2. m - 1 \in Nat
    OBVIOUS
  <1>3. \A k \in Nat \ {0} : k <= l => b[m - 1 + k] = u[k]
    BY <1>1, <1>2, HoldsAt
  <1>4. Len(b) \in Nat /\ m - 1 + l <= Len(b)
    BY DEF Holds
  <1> HIDE DEF l
  <1>5. b[m] = u[1] /\ b[m + 1] = 0 /\ b[m + 2] = l - 1
    <2>1. /\ m - 1 + 1 = m /\ m - 1 + 2 = m + 1 /\ m - 1 + 3 = m + 2
          /\ 1 <= l /\ 2 <= l /\ 3 <= l /\ 1 \in Nat \ {0} /\ 2 \in Nat \ {0} /\ 3 \in Nat \ {0}
      BY <1>1
    <2>2. b[m - 1 + 1] = u[1] /\ b[m - 1 + 2] = u[2] /\ b[m - 1 + 3] = u[3]
      BY <1>3, <2>1
    <2> QED BY <1>1, <2>1, <2>2
  <1>6. SegmentEnd(b, m) = m - 1 + l
    <2>1. SegmentEnd(b, m) = m + 256 * 0 + (l - 1)
      BY <1>5 DEF SegmentEnd
    <2>2. m + 256 * 0 + (l - 1) = m - 1 + l
      BY <1>1
    <2> QED BY <2>1, <2>2
  <1>7. m <= Len(b) /\ m + 2 <= Len(b) /\ m - 1 + l \in (m + 2)..Len(b)
    <2> DEFINE z == Len(b)
    <2>1. z \in Nat /\ m - 1 + l <= z /\ l > 2 /\ l \in Nat
      BY <1>1, <1>4
    <2> HIDE DEF z
    <2>2. m <= z /\ m + 2 <= z /\ m - 1 + l \in (m + 2)..z
      BY <2>1
    <2> QED BY <2>2 DEF z
  <1>8. WholeSegment(b, m)
    BY <1>6, <1>7 DEF WholeSegment
  <1>9. SubSeq(b, m, m - 1 + l) = u
    <2>1. SubSeq(b, m - 1 + 1, m - 1 + Len(u)) = u
      BY <1>1, <1>2, HoldsBetween
    <2>2. m - 1 + 1 = m
      OBVIOUS
    <2> QED BY <2>1, <2>2 DEF l
  <1> QED BY <1>5, <1>6, <1>7, <1>8, <1>9 DEF l

\* The position behind some bytes.
LEMMA PastIs ==
    ASSUME NEW a \in Seq(Nat), NEW k \in Seq(Nat)
    PROVE  /\ Past(a, k) \in Walking /\ Past(a, k).at = Len(a) + 1 /\ Past(a, k).out = k
           /\ Len(a) \in Nat /\ Past(a, k).at \in Nat \ {0}
  <1>1. Len(a) \in Nat /\ Len(a) + 1 \in Nat \ {0}
    OBVIOUS
  <1> QED BY <1>1 DEF Past, Walking

\* Joining sequences is associative, and the empty one is neutral.
LEMMA Joined ==
    ASSUME NEW k \in Seq(Nat), NEW s \in Seq(Nat), NEW t \in Seq(Nat)
    PROVE  k \o s \in Seq(Nat) /\ (k \o s) \o t = k \o (s \o t)
  <1>1. k \o s \in Seq(Nat)
    BY ConcatProperties
  <1>2. (k \o s) \o t = k \o (s \o t)
    <2> DEFINE x == (k \o s) \o t  y == k \o (s \o t)
    <2>1. /\ k \o s \in Seq(Nat) /\ s \o t \in Seq(Nat)
          /\ Len(k \o s) = Len(k) + Len(s) /\ Len(s \o t) = Len(s) + Len(t)
      BY ConcatProperties
    <2>2. x \in Seq(Nat) /\ y \in Seq(Nat) /\ Len(x) = Len(y)
      BY <2>1, ConcatProperties
    <2>3. \A i \in 1..Len(x) : x[i] = y[i]
      OBVIOUS
    <2> HIDE DEF x, y
    <2> QED BY <2>2, <2>3, SeqEqual DEF x, y
  <1> QED BY <1>1, <1>2

\* The same, for any three at once.
Associates(k, s, t) == (k \o s) \o t = k \o (s \o t)
\* Joining associates.
LEMMA Joining == \A k, s, t \in Seq(Nat) : Associates(k, s, t)
  BY Joined DEF Associates

\* Fill is bytes,
LEMMA Bytes255 == << 255 >> \in Seq(Nat) /\ << 255 >> \in Fills /\ <<255, 255>> \in Fills /\ Len(<< 255 >>) = 1
  /\ Len(<<255, 255>>) = 2
  BY DEF Fills

\* of some length.
LEMMA FillsAre ==
    ASSUME NEW g \in Fills
    PROVE g \in Seq(Nat) /\ Len(g) \in Nat
  <1>1. CASE g = <<255>>
    BY <1>1
  <1>2. CASE g = <<255, 255>>
    BY <1>2
  <1> QED BY <1>1, <1>2 DEF Fills

\* A byte of fill before another makes two.
LEMMA Behind255 ==
    ASSUME NEW k \in Seq(Nat), NEW u \in Seq(Nat)
    PROVE  (k \o << 255 >>) \o u = k \o (<< 255 >> \o u) /\ k \o (<< 255 >> \o u) \in Seq(Nat)
  <1> DEFINE f == <<255>>
  <1>1. f \in Seq(Nat)
    OBVIOUS
  <1> HIDE DEF f
  <1>2. (k \o f) \o u = k \o (f \o u) /\ f \o u \in Seq(Nat)
    <2>1. Associates(k, f, u)
      BY <1>1, Joining
    <2>2. f \o u \in Seq(Nat)
      BY <1>1, Joined
    <2> QED BY <2>1, <2>2, Zenon DEF Associates
  <1>3. k \o (f \o u) \in Seq(Nat)
    BY <1>2, Joined
  <1> QED BY <1>2, <1>3 DEF f

\* What a segment of a JPEG is: what counts its own length, behind 255.
Body(marker, payload) == <<marker, 0, Len(payload) + 2>> \o payload
\* A segment is a byte of fill and what its length counts.
LEMMA SegmentIs ==
    ASSUME NEW marker \in Nat, marker # 255, NEW payload \in Seq(Nat)
    PROVE  /\ Segment(marker, payload) = << 255 >> \o Body(marker, payload)
           /\ Counted(Body(marker, payload)) /\ Body(marker, payload)[1] = marker
           /\ Body(marker, payload) \in Seq(Nat) /\ Segment(marker, payload) \in Seq(Nat)
  <1> DEFINE l == Len(payload) + 2  h == <<marker, 0, l>>  u == h \o payload
  <1>1. l \in Nat /\ Len(payload) \in Nat /\ l = Len(payload) + 2
    OBVIOUS
  <1> HIDE DEF l
  <1>2. h \in Seq(Nat) /\ Len(h) = 3 /\ h[1] = marker /\ h[2] = 0 /\ h[3] = l
    BY <1>1
  <1>3. <<255, marker, 0, l>> = <<255>> \o h /\ <<255>> \in Seq(Nat)
    BY <1>1
  <1> HIDE DEF h
  <1>4. u \in Seq(Nat) /\ Len(u) = 3 + Len(payload) /\ Alike(h, u, 3)
    <2>0. h \in Seq(Nat)
      BY <1>2
    <2>1. u \in Seq(Nat) /\ Len(u) = Len(h) + Len(payload) /\ Alike(h, u, Len(h))
      BY <2>0, After
    <2> HIDE DEF u
    <2> QED BY <1>2, <2>1
  <1>5. u[1] = marker /\ u[2] = 0 /\ u[3] = l
    <2>1. h[1] = u[1] /\ h[2] = u[2] /\ h[3] = u[3]
      BY <1>4 DEF Alike
    <2> QED BY <1>2, <2>1
  <1>6. Counted(u)
    <2>1. Len(u) > 2 /\ l = Len(u) - 1
      BY <1>1, <1>4
    <2> QED BY <1>4, <1>5, <2>1 DEF Counted
  <1>7. Segment(marker, payload) = (<<255>> \o h) \o payload
    BY <1>3 DEF Segment, l, h
  <1>8. (<<255>> \o h) \o payload = <<255>> \o u /\ <<255>> \o u \in Seq(Nat)
    <2> DEFINE f == <<255>>
    <2>1. f \in Seq(Nat) /\ h \in Seq(Nat) /\ u \in Seq(Nat)
      BY <1>2, <1>3, <1>4
    <2> HIDE DEF f
    <2>2. Associates(f, h, payload)
      BY <2>1, Joining
    <2>3. f \o (h \o payload) \in Seq(Nat)
      BY <2>1, Joined
    <2> QED BY <2>2, <2>3, Zenon DEF Associates, f
  <1>9. u = Body(marker, payload)
    BY DEF Body, h, l
  <1> HIDE DEF u
  <1>10. Segment(marker, payload) = <<255>> \o u /\ Segment(marker, payload) \in Seq(Nat)
    BY <1>7, <1>8, Zenon
  <1>11. Counted(u) /\ u[1] = marker /\ u \in Seq(Nat)
    BY <1>4, <1>5, <1>6
  <1> QED BY <1>9, <1>10, <1>11

\* A segment is gone over, and kept unless it is metadata.
LEMMA JpegSegment ==
    ASSUME NEW a \in Seq(Nat), NEW k \in Seq(Nat), NEW g \in Fills,
           NEW u, Counted(u), u[1] \notin Bare \cup {SOS}
    PROVE  Turn("jpeg", a \o (g \o u), Past(a, k),
                Past(a \o (g \o u), IF u[1] \in Metadata THEN k ELSE k \o (<< 255 >> \o u)))
  <1> DEFINE b == a \o (g \o u)  n == Len(a)  x == Past(a, k)  m == n + Len(g) + 1
             out == IF u[1] \in Metadata THEN k ELSE k \o (<<255>> \o u)
  <1>1. g \in Seq(Nat) /\ u \in Seq(Nat) /\ u[1] # 255 /\ Len(u) \in Nat /\ Len(u) > 2
        /\ n \in Nat /\ Len(g) \in Nat
    BY FillsAre DEF Counted
  <1>2. /\ b \in Seq(Nat) /\ Holds(b, n, g) /\ Holds(b, n + Len(g), u)
        /\ Len(b) = n + (Len(g) + Len(u))
    <2>1. g \o u \in Seq(Nat) /\ Len(g \o u) = Len(g) + Len(u)
      BY <1>1, After
    <2>2. b \in Seq(Nat) /\ Holds(b, n, g \o u) /\ Len(b) = n + Len(g \o u)
      BY <2>1, HoldsAfter, After
    <2> HIDE DEF b, n
    <2> QED BY <1>1, <2>1, <2>2, HoldsParts
  <1>3. x \in Walking /\ x.at = n + 1 /\ x.out = k
    BY PastIs
  <1> HIDE DEF b, n, x
  <1>4. m \in Nat \ {0} /\ m - 1 = n + Len(g)
    BY <1>1
  <1>5. /\ m <= Len(b) /\ b[m] = u[1] /\ WholeSegment(b, m)
        /\ SegmentEnd(b, m) = m - 1 + Len(u) /\ SubSeq(b, m, SegmentEnd(b, m)) = u
    <2>1. Holds(b, m - 1, u) /\ b \in Seq(Nat) /\ m \in Nat \ {0} /\ Counted(u)
      BY <1>2, <1>4, Zenon
    <2> HIDE DEF m
    <2> QED BY <2>1, SegmentFound, Zenon
  <1>6. n + 1 < m /\ b[n + 1] = 255 /\ MarkerFrom(b, n + 1 + 1) = m
    <2>1. b[m] # 255 /\ m <= Len(b)
      BY <1>1, <1>5
    <2>2. m \in Nat /\ m = n + Len(g) + 1
      BY <1>4
    <2> HIDE DEF m
    <2>3. b \in Seq(Nat) /\ n \in Nat /\ Holds(b, n, g)
      BY <1>1, <1>2
    <2> QED BY <2>1, <2>2, <2>3, MarkerFound
  <1>7. SegmentEnd(b, m) = Len(b) /\ Len(b) \in Nat /\ n + 1 <= Len(b)
    BY <1>1, <1>2, <1>4, <1>5, <1>6
  <1> HIDE DEF m
  <1>8. JpegPiece(b, x.at, Len(b) + 1)
    BY <1>3, <1>5, <1>6, <1>7 DEF JpegPiece
  <1>9. JpegOut(b, x.at, x.out) = out
    <2>1. u[1] \notin Bare
      OBVIOUS
    <2>2. (k \o <<255>>) \o u = k \o (<<255>> \o u)
      <3> DEFINE f == <<255>>
      <3>1. u \in Seq(Nat) /\ f \in Seq(Nat)
        BY <1>1
      <3> HIDE DEF f
      <3>2. (k \o f) \o u = k \o (f \o u)
        <4>1. Associates(k, f, u)
          BY <3>1, Joining
        <4> QED BY <4>1 DEF Associates
      <3> QED BY <3>2 DEF f
    <2>3. JpegOut(b, x.at, x.out) = IF u[1] \in Metadata THEN k ELSE (k \o <<255>>) \o u
      <3>1. x.at + 1 = n + 1 + 1 /\ SubSeq(b, m, SegmentEnd(b, m)) = u /\ b[m] = u[1] /\ b[m] \notin Bare
        BY <1>3, <1>5, <2>1
      <3>2. MarkerFrom(b, x.at + 1) = m
        BY <1>6, <3>1
      <3> QED BY <1>3, <3>1, <3>2, Zenon DEF JpegOut
    <2> QED BY <2>2, <2>3
  <1>10. out \in Seq(Nat)
    BY <1>1, Behind255
  <1> HIDE DEF out
  <1>11. Past(b, out) \in Walking /\ Past(b, out).at = Len(b) + 1 /\ Past(b, out).out = out
    BY <1>2, <1>10, PastIs
  <1>12. JpegTurn(b, x, Past(b, out))
    BY <1>3, <1>8, <1>9, <1>11, JpegGoesOn
  <1> QED BY <1>12 DEF Turn, b, x, out

\* A turn over a marker that stands alone leaves one byte of fill and the marker.
LEMMA JpegBare ==
    ASSUME NEW a \in Seq(Nat), NEW k \in Seq(Nat), NEW g \in Fills, NEW marker \in Bare \ {EOI}
    PROVE  Turn("jpeg", a \o (g \o <<marker>>), Past(a, k),
                Past(a \o (g \o <<marker>>), k \o <<255, marker>>))
  <1> DEFINE u == <<marker>>  b == a \o (g \o u)  n == Len(a)  x == Past(a, k)  m == n + Len(g) + 1
             out == k \o <<255, marker>>
  <1>0. marker \in Nat /\ marker # 255
    BY DEF Bare, TEM, EOI
  <1>1. g \in Seq(Nat) /\ u \in Seq(Nat) /\ u[1] = marker /\ Len(u) = 1 /\ n \in Nat /\ Len(g) \in Nat
    BY <1>0, FillsAre
  <1>2. /\ b \in Seq(Nat) /\ Holds(b, n, g) /\ Holds(b, n + Len(g), u)
        /\ Len(b) = n + (Len(g) + 1)
    <2>1. g \o u \in Seq(Nat) /\ Len(g \o u) = Len(g) + 1
      BY <1>1, After
    <2>2. b \in Seq(Nat) /\ Holds(b, n, g \o u) /\ Len(b) = n + Len(g \o u)
      BY <2>1, HoldsAfter, After
    <2> HIDE DEF b, n, u
    <2> QED BY <1>1, <2>1, <2>2, HoldsParts
  <1>3. x \in Walking /\ x.at = n + 1 /\ x.out = k
    BY PastIs
  <1> HIDE DEF b, n, x
  <1>4. m \in Nat /\ m = n + Len(g) + 1 /\ m = Len(b)
    BY <1>1, <1>2
  <1>5. b[m] = marker
    <2> DEFINE w == n + Len(g)
    <2>1. 1 \in Nat \ {0} /\ 1 <= Len(u) /\ w \in Nat /\ Holds(b, w, u) /\ m = w + 1
      BY <1>1, <1>2
    <2> HIDE DEF u, w, m
    <2>2. b[w + 1] = u[1]
      <3>1. u \in Seq(Nat)
        BY <1>1
      <3>2. \A i \in Nat \ {0} : i <= Len(u) => b[w + i] = u[i]
        BY <2>1, <3>1, HoldsAt
      <3> QED BY <2>1, <3>2, Zenon
    <2> QED BY <1>1, <2>1, <2>2
  <1> HIDE DEF m
  <1>6. n + 1 < m /\ b[n + 1] = 255 /\ MarkerFrom(b, n + 1 + 1) = m
    <2>1. m <= Len(b) /\ Len(b) \in Nat /\ b[m] # 255
      BY <1>0, <1>4, <1>5
    <2>2. m \in Nat /\ m = n + Len(g) + 1 /\ b \in Seq(Nat) /\ n \in Nat /\ Holds(b, n, g)
      BY <1>1, <1>2, <1>4
    <2> QED BY <2>1, <2>2, MarkerFound
  <1>7. n + 1 <= Len(b) /\ m <= Len(b)
    BY <1>1, <1>4, <1>6
  <1>8. JpegPiece(b, x.at, Len(b) + 1)
    BY <1>3, <1>4, <1>5, <1>6, <1>7 DEF JpegPiece
  <1>9. JpegOut(b, x.at, x.out) = out
    BY <1>3, <1>5, <1>6 DEF JpegOut
  <1>10. out \in Seq(Nat)
    BY <1>0
  <1> HIDE DEF out
  <1>11. Past(b, out) \in Walking /\ Past(b, out).at = Len(b) + 1 /\ Past(b, out).out = out
    BY <1>2, <1>10, PastIs
  <1>12. JpegTurn(b, x, Past(b, out))
    BY <1>3, <1>8, <1>9, <1>11, JpegGoesOn
  <1> QED BY <1>12 DEF Turn, b, x, out, u

\* A chunk is as long as it says, and of its type.
LEMMA ChunkIs ==
    ASSUME NEW type \in Seq(Nat), Len(type) = 4, NEW payload \in Seq(Nat)
    PROVE  /\ Chunk(type, payload) \in Seq(Nat)
           /\ Len(Chunk(type, payload)) = 12 + Len(payload) /\ Len(payload) \in Nat
           /\ \A b \in Seq(Nat), n \in Nat : Holds(b, n, Chunk(type, payload)) =>
                  b[n + 4] = Len(payload) /\ Holds(b, n + 4, type)
  <1> DEFINE l == Len(payload)  h == <<0, 0, 0, l>>  z == <<0, 0, 0, 0>>
             ht == h \o type  htp == ht \o payload
  <1>1. h \in Seq(Nat) /\ Len(h) = 4 /\ h[4] = l /\ z \in Seq(Nat) /\ Len(z) = 4 /\ l \in Nat
    OBVIOUS
  <1>2. Chunk(type, payload) = htp \o z
    BY DEF Chunk
  <1> HIDE DEF h, z, l
  <1>3. ht \in Seq(Nat) /\ Len(ht) = 8
    <2>1. h \in Seq(Nat)
      BY <1>1
    <2>2. ht \in Seq(Nat) /\ Len(ht) = Len(h) + Len(type)
      BY <2>1, After
    <2> QED BY <1>1, <2>2
  <1>4. htp \in Seq(Nat) /\ Len(htp) = 8 + l
    <2> HIDE DEF ht
    <2>1. htp \in Seq(Nat) /\ Len(htp) = Len(ht) + Len(payload)
      BY <1>3, After
    <2> QED BY <1>3, <2>1 DEF l
  <1>5. htp \o z \in Seq(Nat) /\ Len(htp \o z) = 12 + l
    <2> HIDE DEF htp
    <2>1. htp \o z \in Seq(Nat) /\ Len(htp \o z) = Len(htp) + Len(z)
      BY <1>1, <1>4, After
    <2> QED BY <1>1, <1>4, <2>1
  <1>6. ASSUME NEW b \in Seq(Nat), NEW n \in Nat, Holds(b, n, htp \o z)
        PROVE  b[n + 4] = l /\ Holds(b, n + 4, type)
    <2>1. Holds(b, n, htp)
      <3> HIDE DEF htp
      <3> QED BY <1>1, <1>4, <1>6, HoldsParts
    <2>2. Holds(b, n, ht)
      <3> HIDE DEF ht
      <3> QED BY <1>3, <2>1, HoldsParts
    <2>3. Holds(b, n, h) /\ Holds(b, n + Len(h), type)
      BY <1>1, <2>2, HoldsParts
    <2>4. b[n + 4] = h[4]
      <3>0. h \in Seq(Nat) /\ Holds(b, n, h)
        BY <1>1, <2>3
      <3>1. \A i \in Nat \ {0} : i <= Len(h) => b[n + i] = h[i]
        BY <3>0, HoldsAt
      <3> QED BY <1>1, <3>1
    <2> QED BY <1>1, <2>3, <2>4
  <1>7. Chunk(type, payload) \in Seq(Nat) /\ Len(Chunk(type, payload)) = 12 + l
    BY <1>2, <1>5
  <1> HIDE DEF htp
  <1> QED BY <1>1, <1>2, <1>6, <1>7 DEF l

\* The length of a chunk leads to its end.
LEMMA ChunkFound ==
    ASSUME NEW type \in Seq(Nat), Len(type) = 4, NEW payload \in Seq(Nat),
           NEW b \in Seq(Nat), NEW n \in Nat, Holds(b, n, Chunk(type, payload))
    PROVE  /\ ChunkEnd(b, n + 1) = n + Len(Chunk(type, payload)) /\ ChunkType(b, n + 1) = type
           /\ n + 1 + 7 <= Len(b) /\ ChunkEnd(b, n + 1) <= Len(b) /\ ChunkEnd(b, n + 1) \in Nat
           /\ SubSeq(b, n + 1, ChunkEnd(b, n + 1)) = Chunk(type, payload)
  <1> DEFINE s == Chunk(type, payload)  l == Len(s)
  <1>1. /\ s \in Seq(Nat) /\ l = 12 + Len(payload) /\ Len(payload) \in Nat
        /\ b[n + 4] = Len(payload) /\ Holds(b, n + 4, type)
    BY ChunkIs
  <1>2. l \in Nat /\ Len(b) \in Nat /\ n + l <= Len(b) /\ Holds(b, n, s)
    BY <1>1 DEF Holds
  <1> HIDE DEF s
  <1>3. ChunkEnd(b, n + 1) = n + l
    <2>1. n + 1 + 3 = n + 4
      OBVIOUS
    <2>2. ChunkEnd(b, n + 1) = n + 1 + 11 + Len(payload)
      BY <1>1, <2>1 DEF ChunkEnd
    <2> HIDE DEF l
    <2> QED BY <1>1, <2>2
  <1>4. ChunkType(b, n + 1) = type
    <2>1. n + 4 \in Nat
      OBVIOUS
    <2>2. SubSeq(b, n + 4 + 1, n + 4 + Len(type)) = type
      BY <1>1, <2>1, HoldsBetween
    <2>3. n + 4 + 1 = n + 1 + 4 /\ n + 4 + Len(type) = n + 1 + 7
      OBVIOUS
    <2> QED BY <2>2, <2>3 DEF ChunkType
  <1>5. SubSeq(b, n + 1, n + l) = s
    BY <1>1, <1>2, HoldsBetween
  <1>6. n + 1 + 7 <= Len(b) /\ n + l \in Nat
    <2> HIDE DEF l
    <2> QED BY <1>1, <1>2
  <1> QED BY <1>2, <1>3, <1>4, <1>5, <1>6 DEF s

\* A chunk is gone over, and kept if it is critical.
LEMMA PngChunk ==
    ASSUME NEW a \in Seq(Nat), NEW k \in Seq(Nat), NEW type \in Seq(Nat), Len(type) = 4, type # IEND,
           NEW payload \in Seq(Nat)
    PROVE  Turn("png", a \o Chunk(type, payload), Past(a, k),
                Past(a \o Chunk(type, payload),
                     IF Critical(type) THEN k \o Chunk(type, payload) ELSE k))
  <1> DEFINE s == Chunk(type, payload)  b == a \o s  n == Len(a)  x == Past(a, k)
             out == IF Critical(type) THEN k \o s ELSE k
  <1>1. s \in Seq(Nat) /\ n \in Nat /\ Len(s) \in Nat
    BY ChunkIs
  <1>2. b \in Seq(Nat) /\ Holds(b, n, s) /\ Len(b) = n + Len(s)
    <2> HIDE DEF s
    <2> QED BY <1>1, HoldsAfter, After
  <1>3. x \in Walking /\ x.at = n + 1 /\ x.out = k
    BY PastIs
  <1> HIDE DEF b, n, x
  <1>4. /\ ChunkEnd(b, n + 1) = Len(b) /\ ChunkType(b, n + 1) = type
        /\ n + 1 + 7 <= Len(b) /\ ChunkEnd(b, n + 1) <= Len(b)
        /\ SubSeq(b, n + 1, ChunkEnd(b, n + 1)) = s
    <2>1. b \in Seq(Nat) /\ n \in Nat /\ Holds(b, n, s)
      BY <1>1, <1>2
    <2>2. ChunkEnd(b, n + 1) = n + Len(s)
      BY <2>1, ChunkFound
    <2>3. /\ ChunkType(b, n + 1) = type /\ n + 1 + 7 <= Len(b) /\ ChunkEnd(b, n + 1) <= Len(b)
          /\ SubSeq(b, n + 1, ChunkEnd(b, n + 1)) = s
      BY <2>1, ChunkFound
    <2> QED BY <1>2, <2>2, <2>3
  <1>5. PngPiece(b, x.at, Len(b) + 1) /\ PngOut(b, x.at, x.out) = out
    BY <1>3, <1>4 DEF PngPiece, PngOut
  <1> HIDE DEF s
  <1>6. out \in Seq(Nat)
    BY <1>1, Joined
  <1> HIDE DEF out
  <1>7. Past(b, out) \in Walking /\ Past(b, out).at = Len(b) + 1 /\ Past(b, out).out = out
    BY <1>2, <1>6, PastIs
  <1>8. PngTurn(b, x, Past(b, out))
    BY <1>3, <1>5, <1>7, PngGoesOn
  <1> QED BY <1>8 DEF Turn, b, x, out, s

\* The last chunk ends the rewriting, whatever follows it.
LEMMA PngEnds ==
    ASSUME NEW a \in Seq(Nat), NEW k \in Seq(Nat), NEW more \in Seq(Nat)
    PROVE  Turn("png", (a \o Chunk(IEND, <<>>)) \o more, Past(a, k),
                Finished(Past(a, k), k \o Chunk(IEND, <<>>)))
  <1> DEFINE s == Chunk(IEND, <<>>)  b == (a \o s) \o more  n == Len(a)  x == Past(a, k)
  <1>1. IEND \in Seq(Nat) /\ Len(IEND) = 4 /\ <<>> \in Seq(Nat)
    BY DEF IEND
  <1>2. s \in Seq(Nat) /\ n \in Nat
    BY <1>1, ChunkIs
  <1>3. b \in Seq(Nat) /\ Holds(b, n, s)
    <2> HIDE DEF s, n
    <2>0. s \in Seq(Nat)
      BY <1>2
    <2>1. b = a \o (s \o more) /\ s \o more \in Seq(Nat)
      <3>1. (a \o s) \o more = a \o (s \o more)
        <4>1. Associates(a, s, more)
          BY <2>0, Joining
        <4> QED BY <4>1 DEF Associates
      <3>2. s \o more \in Seq(Nat)
        BY <2>0, Joined
      <3> QED BY <1>2, <3>1, <3>2
    <2>2. b \in Seq(Nat) /\ Holds(b, n, s \o more)
      BY <2>1, HoldsAfter, After DEF n
    <2> HIDE DEF b
    <2> QED BY <1>2, <2>2, HoldsParts
  <1>4. x \in Walking /\ x.at = n + 1 /\ x.out = k
    BY PastIs
  <1> HIDE DEF b, n, x
  <1>5. /\ ChunkType(b, n + 1) = IEND /\ n + 1 + 7 <= Len(b) /\ ChunkEnd(b, n + 1) <= Len(b)
        /\ SubSeq(b, n + 1, ChunkEnd(b, n + 1)) = s
    <2>1. b \in Seq(Nat) /\ n \in Nat /\ Holds(b, n, s)
      BY <1>2, <1>3
    <2>2. IEND \in Seq(Nat) /\ Len(IEND) = 4 /\ <<>> \in Seq(Nat)
      BY <1>1
    <2>3. /\ ChunkType(b, n + 1) = IEND /\ n + 1 + 7 <= Len(b) /\ ChunkEnd(b, n + 1) <= Len(b)
          /\ SubSeq(b, n + 1, ChunkEnd(b, n + 1)) = Chunk(IEND, <<>>)
      <3> DEFINE e == <<>>
      <3>1. e \in Seq(Nat) /\ Holds(b, n, Chunk(IEND, e))
        BY <2>1, <2>2 DEF s
      <3> HIDE DEF e
      <3>2. /\ ChunkType(b, n + 1) = IEND /\ n + 1 + 7 <= Len(b) /\ ChunkEnd(b, n + 1) <= Len(b)
            /\ SubSeq(b, n + 1, ChunkEnd(b, n + 1)) = Chunk(IEND, e)
        BY <2>1, <2>2, <3>1, ChunkFound
      <3> QED BY <3>2 DEF e
    <2> QED BY <2>3 DEF s
  <1>6. PngTurn(b, x, Finished(x, k \o s))
    BY <1>4, <1>5 DEF PngTurn
  <1> QED BY <1>6 DEF Turn, b, x, s

\* So do the end of a JPEG, a scan and what is no marker, and what follows the last two stays.
LEMMA JpegEnds ==
    ASSUME NEW a \in Seq(Nat), NEW k \in Seq(Nat), NEW more \in Seq(Nat)
    PROVE  /\ Turn("jpeg", (a \o <<255, EOI>>) \o more, Past(a, k),
                   Finished(Past(a, k), k \o <<255, EOI>>))
           /\ Turn("jpeg", (a \o Segment(SOS, << 0 >>)) \o more, Past(a, k),
                   Finished(Past(a, k), (k \o Segment(SOS, << 0 >>)) \o more))
           /\ Turn("jpeg", (a \o << 0 >>) \o more, Past(a, k),
                   Finished(Past(a, k), (k \o << 0 >>) \o more))
  <1> DEFINE n == Len(a)  x == Past(a, k)
  <1>1. x \in Walking /\ x.at = n + 1 /\ x.out = k /\ n \in Nat
    BY PastIs
  <1>2. ASSUME NEW s \in Seq(Nat), NEW b, b = (a \o s) \o more
        PROVE  /\ s \o more \in Seq(Nat) /\ b \in Seq(Nat) /\ Len(b) \in Nat
               /\ Holds(b, n, s \o more) /\ Holds(b, n, s)
               /\ Len(b) = n + Len(s \o more)
    <2>0. s \in Seq(Nat)
      BY <1>2
    <2>1. b = a \o (s \o more) /\ s \o more \in Seq(Nat)
      <3>1. (a \o s) \o more = a \o (s \o more)
        <4>1. Associates(a, s, more)
          BY <2>0, Joining
        <4> QED BY <4>1 DEF Associates
      <3>2. s \o more \in Seq(Nat)
        BY <2>0, Joined
      <3> QED BY <1>2, <3>1, <3>2
    <2>2. b \in Seq(Nat) /\ Holds(b, n, s \o more) /\ Len(b) = n + Len(s \o more)
      BY <2>1, HoldsAfter, After
    <2>3. Holds(b, n, s)
      BY <1>1, <2>2, HoldsParts
    <2> QED BY <2>1, <2>2, <2>3
  <1> HIDE DEF n, x
  <1>3. ASSUME NEW b, b = (a \o <<255, EOI>>) \o more
        PROVE  JpegTurn(b, x, Finished(x, k \o <<255, EOI>>))
    <2> DEFINE s == <<255, EOI>>
    <2>1. s \in Seq(Nat) /\ Len(s) = 2 /\ s[1] = 255 /\ s[2] = EOI /\ EOI # 255 /\ EOI \in Bare
      BY DEF EOI, Bare
    <2> HIDE DEF s
    <2>2. b \in Seq(Nat) /\ Holds(b, n, s) /\ Len(b) \in Nat
      <3>1. s \in Seq(Nat) /\ b = (a \o s) \o more
        BY <1>3, <2>1 DEF s
      <3> QED BY <1>2, <3>1
    <2>3. b[n + 1] = 255 /\ b[n + 2] = EOI /\ n + 2 <= Len(b)
      <3>0. s \in Seq(Nat) /\ n \in Nat /\ Holds(b, n, s)
        BY <1>1, <2>1, <2>2
      <3>1. \A i \in Nat \ {0} : i <= Len(s) => b[n + i] = s[i]
        BY <3>0, HoldsAt
      <3>2. n + Len(s) <= Len(b)
        BY <2>2 DEF Holds
      <3> QED BY <2>1, <3>1, <3>2
    <2>4. MarkerFrom(b, n + 1 + 1) = n + 2
      <3> DEFINE m == n + 2
      <3>1. m \in (n + 1 + 1)..Len(b) /\ n + 1 + 1 \in Nat /\ b[m] # 255
        BY <1>1, <2>1, <2>2, <2>3
      <3>2. \A i \in (n + 1 + 1)..(m - 1) : b[i] = 255
        BY <1>1
      <3> HIDE DEF m
      <3>3. MarkerFrom(b, n + 1 + 1) = m
        BY <2>2, <3>1, <3>2, MarkerIs
      <3> QED BY <3>3 DEF m
    <2>5. n + 1 <= Len(b)
      BY <1>1, <2>2, <2>3
    <2> QED BY <1>1, <2>1, <2>3, <2>4, <2>5 DEF JpegTurn, s
  <1>4. ASSUME NEW b, b = (a \o Segment(SOS, << 0 >>)) \o more
        PROVE  JpegTurn(b, x, Finished(x, (k \o Segment(SOS, <<0>>)) \o more))
    <2> DEFINE s == Segment(SOS, <<0>>)  u == Body(SOS, <<0>>)  f == <<255>>  m == n + 2
    <2>1. SOS \in Nat /\ SOS # 255 /\ SOS \notin Bare /\ SOS \notin Metadata /\ <<0>> \in Seq(Nat)
      BY DEF SOS, Bare, Metadata, TEM, EOI, COM
    <2>2. s = f \o u /\ Counted(u) /\ u[1] = SOS /\ u \in Seq(Nat) /\ s \in Seq(Nat)
      <3>1. \A p \in Seq(Nat) : /\ Segment(SOS, p) = << 255 >> \o Body(SOS, p) /\ Counted(Body(SOS, p))
                               /\ Body(SOS, p)[1] = SOS /\ Body(SOS, p) \in Seq(Nat)
                               /\ Segment(SOS, p) \in Seq(Nat)
        BY <2>1, SegmentIs
      <3> QED BY <2>1, <3>1, Zenon
    <2>3. f \in Fills /\ f \in Seq(Nat) /\ Len(f) = 1
      BY Bytes255
    <2> HIDE DEF s, u, f
    <2>4. b \in Seq(Nat) /\ Holds(b, n, s \o more) /\ Len(b) = n + Len(s \o more) /\ Len(b) \in Nat
      BY <1>2, <1>4, <2>2 DEF s
    <2>5. s \o more = f \o (u \o more) /\ u \o more \in Seq(Nat)
      <3>1. f \in Seq(Nat) /\ u \in Seq(Nat)
        BY <2>2, <2>3
      <3>2. (f \o u) \o more = f \o (u \o more)
        <4>1. Associates(f, u, more)
          BY <3>1, Joining
        <4> QED BY <4>1 DEF Associates
      <3>3. u \o more \in Seq(Nat)
        BY <3>1, Joined
      <3> QED BY <2>2, <3>2, <3>3
    <2>6. Holds(b, n, f) /\ Holds(b, n + 1, u \o more)
      <3>1. Holds(b, n, f \o (u \o more))
        BY <2>4, <2>5
      <3> DEFINE v == u \o more
      <3> HIDE DEF v
      <3>2. Holds(b, n, f) /\ Holds(b, n + Len(f), v)
        BY <1>1, <2>3, <2>4, <2>5, <3>1, HoldsParts DEF v
      <3> QED BY <2>3, <3>2 DEF v
    <2>7. m \in Nat \ {0} /\ m - 1 = n + 1 /\ n + 1 \in Nat
      BY <1>1
    <2> HIDE DEF m
    <2>8. Holds(b, m - 1, u)
      BY <2>2, <2>4, <2>6, <2>7, HoldsParts
    <2>9. m <= Len(b) /\ b[m] = SOS /\ WholeSegment(b, m)
      <3>1. b \in Seq(Nat) /\ m \in Nat \ {0} /\ Counted(u) /\ Holds(b, m - 1, u)
        BY <2>2, <2>4, <2>7, <2>8
      <3>2. m <= Len(b) /\ b[m] = u[1] /\ WholeSegment(b, m)
        BY <3>1, SegmentFound
      <3> QED BY <2>2, <3>2
    <2>10. n + 1 < m /\ b[n + 1] = 255 /\ MarkerFrom(b, n + 1 + 1) = m
      <3>1. m \in Nat /\ m = n + Len(f) + 1
        BY <1>1, <2>3 DEF m
      <3>2. m <= Len(b) /\ b[m] # 255
        BY <2>1, <2>9
      <3>3. b \in Seq(Nat) /\ n \in Nat /\ f \in Fills /\ Holds(b, n, f)
        BY <1>1, <2>3, <2>4, <2>6
      <3> QED BY <3>1, <3>2, <3>3, MarkerFound
    <2>11. SubSeq(b, m, Len(b)) = u \o more
      <3> DEFINE v == u \o more
      <3>1. v \in Seq(Nat) /\ Holds(b, n + 1, v) /\ s \o more = f \o v
        BY <2>5, <2>6
      <3> HIDE DEF v
      <3>2. SubSeq(b, n + 1 + 1, n + 1 + Len(v)) = v
        BY <2>4, <2>7, <3>1, HoldsBetween
      <3>3. Len(f \o v) = Len(f) + Len(v) /\ Len(v) \in Nat
        BY <2>3, <3>1, After
      <3>4. n + 1 + 1 = m /\ n + 1 + Len(v) = Len(b)
        BY <1>1, <2>3, <2>4, <3>1, <3>3 DEF m
      <3> QED BY <3>2, <3>4 DEF v
    <2>12. (k \o f) \o (u \o more) = (k \o s) \o more
      <3> DEFINE v == u \o more
      <3>1. v \in Seq(Nat) /\ s \o more = f \o v
        BY <2>5
      <3> HIDE DEF v
      <3>0. f \in Seq(Nat) /\ v \in Seq(Nat)
        BY <2>3, <3>1
      <3>2. (k \o f) \o v = k \o (f \o v)
        <4>1. Associates(k, f, v)
          BY <3>0, Joining
        <4> QED BY <4>1 DEF Associates
      <3>3. (k \o s) \o more = k \o (s \o more)
        <4>1. Associates(k, s, more)
          BY <2>2, Joining
        <4> QED BY <4>1 DEF Associates
      <3> QED BY <3>1, <3>2, <3>3 DEF v
    <2>13. n + 1 <= Len(b) /\ x.at <= Len(b)
      BY <1>1, <2>4, <2>7, <2>9, <2>10
    <2>14. JpegTurn(b, x, Finished(x, (k \o f) \o SubSeq(b, m, Len(b))))
      BY <1>1, <2>1, <2>9, <2>10, <2>13 DEF JpegTurn, f
    <2> QED BY <2>11, <2>12, <2>14 DEF s
  <1>5. ASSUME NEW b, b = (a \o << 0 >>) \o more
        PROVE  JpegTurn(b, x, Finished(x, (k \o <<0>>) \o more))
    <2> DEFINE s == <<0>>  v == s \o more
    <2>1. s \in Seq(Nat) /\ Len(s) = 1 /\ s[1] = 0
      OBVIOUS
    <2> HIDE DEF s
    <2>2. b \in Seq(Nat) /\ v \in Seq(Nat) /\ Holds(b, n, v) /\ Len(b) = n + Len(v) /\ Holds(b, n, s)
          /\ Len(b) \in Nat
      BY <1>2, <1>5, <2>1 DEF s
    <2>3. b[n + 1] = 0 /\ n + 1 <= Len(b)
      <3>0. s \in Seq(Nat) /\ n \in Nat /\ Holds(b, n, s)
        BY <1>1, <2>1, <2>2
      <3>1. \A i \in Nat \ {0} : i <= Len(s) => b[n + i] = s[i]
        BY <3>0, HoldsAt
      <3>2. n + Len(s) <= Len(b)
        BY <2>2 DEF Holds
      <3> QED BY <2>1, <3>1, <3>2
    <2>4. SubSeq(b, n + 1, Len(b)) = v
      <3> HIDE DEF v
      <3>1. b \in Seq(Nat) /\ v \in Seq(Nat) /\ n \in Nat /\ Holds(b, n, v)
        BY <1>1, <2>2
      <3>2. SubSeq(b, n + 1, n + Len(v)) = v
        BY <3>1, HoldsBetween
      <3> QED BY <2>2, <3>2
    <2>5. (k \o s) \o more = k \o v
      <3>1. s \in Seq(Nat)
        BY <2>1
      <3>2. (k \o s) \o more = k \o (s \o more)
        <4>1. Associates(k, s, more)
          BY <3>1, Joining
        <4> QED BY <4>1 DEF Associates
      <3> QED BY <3>2
    <2>6. JpegTurn(b, x, Finished(x, k \o SubSeq(b, n + 1, Len(b))))
      BY <1>1, <2>3 DEF JpegTurn
    <2> QED BY <2>4, <2>5, <2>6 DEF s
  <1>6. /\ JpegTurn((a \o <<255, EOI>>) \o more, x, Finished(x, k \o <<255, EOI>>))
        /\ JpegTurn((a \o Segment(SOS, << 0 >>)) \o more, x, Finished(x, (k \o Segment(SOS, << 0 >>)) \o more))
    BY <1>3, <1>4, Zenon
  <1>7. JpegTurn((a \o << 0 >>) \o more, x, Finished(x, (k \o << 0 >>) \o more))
    BY <1>5, Zenon
  <1> QED BY <1>6, <1>7, Zenon DEF Turn, x

-----------------------------------------------------------------------------
(* Trails. *)

\* A trail has a last position, and a position is a position of the file.
LEMMA LastOfTrail ==
    ASSUME NEW trail \in Seq(Walking), trail # <<>>
    PROVE  /\ Len(trail) \in Nat \ {0} /\ LastOf(trail) \in Walking /\ LastOf(trail).at \in Nat \ {0}
           /\ \A n \in 1..Len(trail) : trail[n] \in Walking /\ trail[n].at \in Nat \ {0}
  <1>1. Len(trail) \in Nat \ {0} /\ \A n \in 1..Len(trail) : trail[n] \in Walking
    OBVIOUS
  <1>2. \A x \in Walking : x.at \in Nat \ {0}
    BY WalkingFields
  <1> QED BY <1>1, <1>2 DEF LastOf

\* What is behind the last segment of a trail does not matter to it.
LEMMA ChainedAlike ==
    ASSUME NEW format, NEW b \in Seq(Nat), NEW c \in Seq(Nat), NEW trail \in Seq(Walking),
           Chained(format, b, trail), Alike(b, c, LastOf(trail).at - 1)
    PROVE  Chained(format, c, trail)
  <1> DEFINE l == Len(trail)  last == LastOf(trail)
  <1>1. /\ trail # <<>> /\ trail[1] = Past(Signature[format], Signature[format])
        /\ \A n \in 1..(l - 1) : Turn(format, b, trail[n], trail[n + 1])
        /\ \A n, m \in 1..l : n <= m => trail[n].at <= trail[m].at
    BY DEF Chained
  <1>2. l \in Nat \ {0} /\ last \in Walking /\ last.at \in Nat \ {0} /\ last = trail[l]
        /\ \A n \in 1..l : trail[n] \in Walking /\ trail[n].at \in Nat \ {0}
    BY <1>1, LastOfTrail DEF LastOf
  <1>3. Alike(b, c, last.at - 1)
    OBVIOUS
  <1> HIDE DEF l, last
  <1>4. ASSUME NEW n \in 1..(l - 1) PROVE Turn(format, c, trail[n], trail[n + 1])
    <2>1. n \in 1..l /\ n + 1 \in 1..l /\ n + 1 <= l /\ l \in 1..l
      BY <1>2
    <2>2. trail[n + 1].at <= last.at /\ trail[n + 1].at \in Nat \ {0}
      BY <1>1, <1>2, <2>1
    <2>3. Alike(b, c, trail[n + 1].at - 1)
      <3> DEFINE q == trail[n + 1].at - 1  r == last.at - 1
      <3>1. q \in Nat /\ r \in Nat /\ q <= r /\ Alike(b, c, r)
        BY <1>2, <1>3, <2>2, SMTT(30)
      <3> HIDE DEF q, r
      <3>2. \A k \in 1..q : k \in 1..r
        BY <3>1
      <3>3. Len(b) \in Nat /\ Len(c) \in Nat
        OBVIOUS
      <3>4. r <= Len(b) /\ r <= Len(c)
        BY <3>1 DEF Alike
      <3>5. q <= Len(b) /\ q <= Len(c)
        BY <3>1, <3>3, <3>4
      <3>6. \A k \in 1..q : b[k] = c[k]
        BY <3>1, <3>2 DEF Alike
      <3> QED BY <3>5, <3>6 DEF Alike, q
    <2>4. trail[n] \in Walking /\ trail[n + 1] \in Walking /\ Turn(format, b, trail[n], trail[n + 1])
      BY <1>1, <1>2, <2>1
    <2>5. \A d \in Seq(Nat) : Alike(b, d, trail[n + 1].at - 1) => Turn(format, d, trail[n], trail[n + 1])
      BY <2>4, TurnReads
    <2> QED BY <2>3, <2>5
  <1>5. last.at <= Len(c) + 1
    <2>1. last.at - 1 <= Len(c) /\ Len(c) \in Nat
      BY <1>3 DEF Alike
    <2> QED BY <1>2, <2>1
  <1> QED BY <1>1, <1>4, <1>5 DEF Chained, l, last

\* A trail goes on where a turn leads from its last segment.
LEMMA ChainedOn ==
    ASSUME NEW format, NEW b \in Seq(Nat), NEW trail \in Seq(Walking), NEW y \in Walking,
           Chained(format, b, trail), Turn(format, b, LastOf(trail), y)
    PROVE  /\ Chained(format, b, Append(trail, y)) /\ LastOf(Append(trail, y)) = y
           /\ Append(trail, y) \in Seq(Walking)
  <1> DEFINE l == Len(trail)  last == LastOf(trail)  new == Append(trail, y)
  <1>1. /\ trail # <<>> /\ trail[1] = Past(Signature[format], Signature[format])
        /\ \A n \in 1..(l - 1) : Turn(format, b, trail[n], trail[n + 1])
        /\ \A n, m \in 1..l : n <= m => trail[n].at <= trail[m].at
    BY DEF Chained
  <1>2. l \in Nat \ {0} /\ last \in Walking /\ last.at \in Nat \ {0} /\ last = trail[l]
        /\ \A n \in 1..l : trail[n] \in Walking /\ trail[n].at \in Nat \ {0}
    BY <1>1, LastOfTrail DEF LastOf
  <1>3. /\ new \in Seq(Walking) /\ new # <<>> /\ Len(new) = l + 1
        /\ \A i \in 1..l : new[i] = trail[i]
        /\ new[l + 1] = y
    BY AppendProperties
  <1>4. last.at < y.at /\ y.at <= Len(b) + 1 /\ y.at \in Nat \ {0} /\ Turn(format, b, last, y)
    <2>1. last.at < y.at /\ y.at <= Len(b) + 1
      BY <1>2, TurnReads
    <2> QED BY <2>1, WalkingFields
  <1> HIDE DEF l, last, new
  <1>5. new[1] = Past(Signature[format], Signature[format])
    <2>1. 1 \in 1..l
      BY <1>2
    <2> QED BY <1>1, <1>3, <2>1
  <1>6. ASSUME NEW n \in 1..(Len(new) - 1) PROVE Turn(format, b, new[n], new[n + 1])
    <2>1. CASE n = l
      <3>1. l \in 1..l
        BY <1>2
      <3>2. new[n] = last /\ new[n + 1] = y
        BY <1>2, <1>3, <2>1, <3>1
      <3> QED BY <1>4, <3>2
    <2>2. CASE n # l
      <3>1. n \in 1..(l - 1) /\ n \in 1..l /\ n + 1 \in 1..l
        BY <1>2, <1>3, <2>2
      <3> QED BY <1>1, <1>3, <3>1
    <2> QED BY <2>1, <2>2
  <1>7. ASSUME NEW n \in 1..Len(new), NEW m \in 1..Len(new), n <= m PROVE new[n].at <= new[m].at
    <2>1. CASE m \in 1..l
      <3>1. n \in 1..l
        BY <1>2, <1>7, <2>1
      <3> QED BY <1>1, <1>3, <1>7, <2>1, <3>1
    <2>2. CASE m = l + 1
      <3>1. CASE n = l + 1
        <4>1. new[n].at \in Nat /\ new[m] = new[n]
          BY <1>3, <1>4, <2>2, <3>1
        <4> QED BY <4>1
      <3>2. CASE n # l + 1
        <4>1. n \in 1..l /\ l \in 1..l /\ n <= l
          BY <1>2, <1>3, <3>2
        <4>2. trail[n].at <= last.at /\ trail[n].at \in Nat /\ new[n] = trail[n] /\ new[m] = y
          BY <1>1, <1>2, <1>3, <2>2, <4>1
        <4> QED BY <1>2, <1>4, <4>2
      <3> QED BY <3>1, <3>2
    <2>3. m \in 1..l \/ m = l + 1
      BY <1>2, <1>3
    <2> QED BY <2>1, <2>2, <2>3
  <1>8. LastOf(new) = y
    BY <1>3 DEF LastOf
  <1>9. Chained(format, b, new)
    BY <1>3, <1>4, <1>5, <1>6, <1>7, <1>8 DEF Chained
  <1> QED BY <1>3, <1>8, <1>9 DEF new

\* A trail without its last segment is one, and a turn leads from it to what is left off.
LEMMA ChainedLess ==
    ASSUME NEW format, NEW b \in Seq(Nat), NEW trail \in Seq(Walking),
           Chained(format, b, trail), Len(trail) - 1 > 0
    PROVE  LET less == SubSeq(trail, 1, Len(trail) - 1)
           IN  /\ Chained(format, b, less) /\ less \in Seq(Walking)
               /\ LastOf(less) = trail[Len(trail) - 1]
               /\ Turn(format, b, LastOf(less), LastOf(trail))
  <1> DEFINE l == Len(trail) - 1  less == SubSeq(trail, 1, l)
  <1>1. /\ trail # <<>> /\ trail[1] = Past(Signature[format], Signature[format])
        /\ \A n \in 1..l : Turn(format, b, trail[n], trail[n + 1])
        /\ \A n, m \in 1..Len(trail) : n <= m => trail[n].at <= trail[m].at
        /\ LastOf(trail).at <= Len(b) + 1
    BY DEF Chained
  <1>2. /\ Len(trail) \in Nat \ {0} /\ LastOf(trail) \in Walking /\ LastOf(trail).at \in Nat \ {0}
        /\ \A n \in 1..Len(trail) : trail[n] \in Walking /\ trail[n].at \in Nat \ {0}
    BY <1>1, LastOfTrail
  <1>3. l \in Nat \ {0} /\ Len(trail) = l + 1 /\ LastOf(trail) = trail[l + 1]
    BY <1>2 DEF LastOf
  <1>4. \A i \in 1..l : trail[i] \in Walking
    BY <1>2, <1>3
  <1> HIDE DEF l
  <1>5. /\ less \in Seq(Walking) /\ Len(less) = IF 1 <= l THEN l - 1 + 1 ELSE 0
        /\ \A i \in 1..(l - 1 + 1) : less[i] = trail[1 + i - 1]
    <2>1. 1 \in Int /\ l \in Int
      BY <1>3
    <2> QED BY <1>4, <2>1, SubSeqProperties
  <1> HIDE DEF less
  <1>6. Len(less) = l /\ \A i \in 1..l : less[i] = trail[i]
    <2>1. (IF 1 <= l THEN l - 1 + 1 ELSE 0) = l /\ l - 1 + 1 = l /\ \A i \in 1..l : 1 + i - 1 = i
      BY <1>3
    <2> QED BY <1>5, <2>1
  <1>7. /\ 1 \in 1..l /\ l \in 1..l /\ l + 1 \in 1..Len(trail) /\ l <= l + 1
        /\ \A n \in 1..l : n \in 1..Len(trail)
        /\ \A n \in 1..(l - 1) : n \in 1..l /\ n + 1 \in 1..l
    BY <1>3
  <1>8. less # <<>>
    <2>1. Len(less) # 0
      BY <1>3, <1>6
    <2> QED BY <2>1
  <1>9. LastOf(less) = trail[l]
    BY <1>6, <1>7 DEF LastOf
  <1>10. trail[l].at <= Len(b) + 1
    <2>1. trail[l].at <= LastOf(trail).at /\ trail[l].at \in Nat /\ Len(b) \in Nat
      BY <1>1, <1>2, <1>3, <1>7
    <2> QED BY <1>1, <1>2, <2>1
  <1>11. Chained(format, b, less)
    <2>1. less[1] = Past(Signature[format], Signature[format])
      BY <1>1, <1>6, <1>7
    <2>2. \A n \in 1..(l - 1) : Turn(format, b, less[n], less[n + 1])
      BY <1>1, <1>6, <1>7
    <2>3. \A n, m \in 1..l : n <= m => less[n].at <= less[m].at
      BY <1>1, <1>6, <1>7
    <2> QED BY <1>6, <1>8, <1>9, <1>10, <2>1, <2>2, <2>3 DEF Chained
  <1>12. Turn(format, b, LastOf(less), LastOf(trail))
    BY <1>1, <1>3, <1>7, <1>9
  <1> QED BY <1>5, <1>9, <1>11, <1>12 DEF less, l

-----------------------------------------------------------------------------
(* Every step. *)

\* The signatures are bytes.
LEMMA Signatures ==
    ASSUME NEW format \in DOMAIN Signature
    PROVE  Signature[format] \in Seq(Nat) /\ format \in {"jpeg", "png"}
  <1>1. DOMAIN Signature = {"jpeg", "png"}
    BY DEF Signature
  <1>2. Signature["jpeg"] = <<255, 216>> /\ Signature["png"] = <<137, 80, 78, 71, 13, 10, 26, 10>>
    BY DEF Signature
  <1>3. Signature["jpeg"] \in Seq(Nat)
    BY <1>2
  <1>4. Signature["png"] \in Seq(Nat)
    BY <1>2
  <1> QED BY <1>1, <1>3, <1>4

\* What the types say of the upload and of the rewriting.
LEMMA ImageTypes ==
    ASSUME StrippingTypeOK
    PROVE  /\ image.format \in {"jpeg", "png"} /\ image.bytes \in Seq(Nat) /\ image.kept \in Seq(Nat)
           /\ image.trail \in Seq(Walking) /\ Len(image.trail) \in Nat
           /\ rewritten.at \in Nat \ {0} /\ rewritten.out \in Seq(Nat)
           /\ rewritten.phase \in {"waiting", "begin", "loop", "done"}
  <1>1. image.trail \in Seq(Walking)
    BY DEF StrippingTypeOK
  <1> QED BY <1>1 DEF StrippingTypeOK

\* A signature alone is a trail that ends where it begins.
LEMMA StrippingInitFollowed == StrippingInit => Followed
  <1> SUFFICES ASSUME StrippingInit PROVE Followed
    OBVIOUS
  <1>1. PICK format \in DOMAIN Signature :
             image = [format |-> format, bytes |-> Signature[format], kept |-> Signature[format],
                      trail |-> <<Past(Signature[format], Signature[format])>>,
                      whole |-> TRUE, size |-> NoSize, sizeAt |-> 0]
    BY DEF StrippingInit
  <1> DEFINE s == Signature[format]  x == Past(s, s)
  <1>2. s \in Seq(Nat) /\ format \in {"jpeg", "png"}
    BY Signatures
  <1>3. x \in Walking /\ x.at = Len(s) + 1 /\ x.out = s /\ Len(s) \in Nat
    <2> HIDE DEF s
    <2> QED BY <1>2, PastIs
  <1>4. rewritten = [phase |-> "waiting", at |-> 1, out |-> <<>>]
    BY DEF StrippingInit
  <1>5. /\ image.format = format /\ image.bytes = s /\ image.kept = s /\ image.trail = <<x>>
        /\ image.whole = TRUE
    BY <1>1
  <1>6. Len(<<x>>) = 1 /\ <<x>>[1] = x /\ <<x>> # <<>> /\ <<x>> \in Seq(Walking)
    BY <1>3
  <1>7. StrippingTypeOK
    BY <1>1, <1>2, <1>4, <1>6 DEF StrippingTypeOK, NoSize
  <1>8. Turn(format, s, x, Finished(x, s))
    <2> HIDE DEF s, x
    <2> QED BY <1>2, <1>3, TurnEnds
  <1>9. TrailLeads
    <2>1. LastOf(image.trail) = x
      BY <1>5, <1>6 DEF LastOf
    <2>2. Chained(format, s, <<x>>)
      <3>1. x.at <= Len(s) + 1 /\ x.at <= x.at
        BY <1>3
      <3>2. \A n \in 1..Len(<<x>>) : n = 1
        BY <1>6
      <3>3. \A n \in 1..(Len(<<x>>) - 1) : FALSE
        BY <1>6
      <3> QED BY <1>5, <1>6, <2>1, <3>1, <3>2, <3>3 DEF Chained
    <2> QED BY <1>5, <1>8, <2>1, <2>2 DEF TrailLeads
  <1>10. OnTrail /\ StrippedExactly
    BY <1>4 DEF OnTrail, StrippedExactly
  <1> QED BY <1>7, <1>9, <1>10 DEF Followed

\* One more segment that a turn goes over.
LEMMA WithSizeFollowed ==
    ASSUME Followed, NEW bytes \in Seq(Nat), NEW kept \in Seq(Nat),
           NEW size \in Nat \X Nat, NEW sizeAt \in Nat, WithSize(bytes, kept, size, sizeAt),
           Turn(image.format, image.bytes \o bytes, Past(image.bytes, image.kept),
                Past(image.bytes \o bytes, image.kept \o kept))
    PROVE  Followed'
  <1> DEFINE a == image.bytes  k == image.kept  f == image.format  t == image.trail
             b == a \o bytes  k2 == k \o kept  y == Past(b, k2)
  <1>1. StrippingTypeOK /\ TrailLeads
    BY DEF Followed
  <1>2. f \in {"jpeg", "png"} /\ a \in Seq(Nat) /\ k \in Seq(Nat) /\ t \in Seq(Walking)
    BY <1>1, ImageTypes
  <1>3. rewritten.phase = "waiting" /\ rewritten' = rewritten
    BY DEF WithSize
  <1>4. /\ Chained(f, a, t) /\ LastOf(t) = Past(a, k)
    BY <1>1, <1>3 DEF TrailLeads
  <1>5. Turn(f, b, Past(a, k), y)
    OBVIOUS
  <1>6. b \in Seq(Nat) /\ k2 \in Seq(Nat)
    <2> HIDE DEF a, k
    <2> QED BY <1>2, Joined
  <1>7. image' = [image EXCEPT !.bytes = b, !.kept = k2, !.trail = Append(t, y),
                               !.size = size, !.sizeAt = sizeAt]
    BY DEF WithSize
  <1>8. /\ image'.format = f /\ image'.bytes = b /\ image'.kept = k2 /\ image'.trail = Append(t, y)
        /\ image'.whole = image.whole
    BY <1>1, <1>7 DEF StrippingTypeOK
  <1> HIDE DEF a, k, f, t, b, k2, y
  <1>9. y \in Walking /\ y.at = Len(b) + 1 /\ y.out = k2
    BY <1>6, PastIs DEF y
  <1>10. Chained(f, b, t)
    <2>1. Past(a, k).at = Len(a) + 1 /\ Len(a) \in Nat
      BY <1>2, PastIs
    <2>2. Alike(a, b, Len(a))
      BY <1>2, After DEF b
    <2>3. LastOf(t).at - 1 = Len(a)
      BY <1>4, <2>1
    <2>4. Alike(a, b, LastOf(t).at - 1)
      BY <2>2, <2>3
    <2> QED BY <1>2, <1>4, <1>6, <2>4, ChainedAlike
  <1>11. /\ Chained(f, b, Append(t, y)) /\ LastOf(Append(t, y)) = y /\ Append(t, y) \in Seq(Walking)
    BY <1>2, <1>4, <1>5, <1>6, <1>9, <1>10, ChainedOn
  <1>12. Turn(f, b, y, Finished(y, k2))
    BY <1>6, <1>9, TurnEnds
  <1>13. StrippingTypeOK'
    <2>1. image' \in [format : {"jpeg", "png"}, bytes : Seq(Nat), kept : Seq(Nat), trail : Seq(Walking),
                      whole : BOOLEAN, size : Nat \X Nat, sizeAt : Nat]
      <3> DEFINE w == Append(t, y)  Q == Seq(Nat)  W == Seq(Walking)
      <3>1. w \in W /\ b \in Q /\ k2 \in Q
        BY <1>6, <1>11
      <3>2. image' = [image EXCEPT !.bytes = b, !.kept = k2, !.trail = w, !.size = size, !.sizeAt = sizeAt]
        BY <1>7
      <3>3. image \in [format : {"jpeg", "png"}, bytes : Q, kept : Q, trail : W,
                       whole : BOOLEAN, size : Nat \X Nat, sizeAt : Nat]
        BY <1>1 DEF StrippingTypeOK
      <3> HIDE DEF w, Q, W
      <3>4. image' \in [format : {"jpeg", "png"}, bytes : Q, kept : Q, trail : W,
                        whole : BOOLEAN, size : Nat \X Nat, sizeAt : Nat]
        BY <3>1, <3>2, <3>3
      <3> QED BY <3>4 DEF Q, W
    <2> QED BY <1>1, <1>3, <2>1 DEF StrippingTypeOK
  <1>14. TrailLeads'
    BY <1>1, <1>3, <1>8, <1>9, <1>11, <1>12 DEF TrailLeads, y
  <1>15. OnTrail' /\ StrippedExactly'
    BY <1>3 DEF OnTrail, StrippedExactly
  <1> QED BY <1>13, <1>14, <1>15 DEF Followed

\* Payloads are bytes.
LEMMA PayloadsAre ==
    ASSUME NEW p \in Payloads
    PROVE p \in Seq(Nat)
  <1>1. CASE p = <<>>
    BY <1>1
  <1>2. CASE p = <<255, EOI>>
    BY <1>2 DEF EOI
  <1>3. CASE p = [i \in 1..PreviewBytes |-> 0]
    <2>1. PreviewBytes \in Nat
      BY StrippingAssumption
    <2> QED BY <1>3, <2>1
  <1> QED BY <1>1, <1>2, <1>3 DEF Payloads

\* The types that are written have four letters, and only tEXt is not critical.
LEMMA Types ==
    /\ IHDR \in Seq(Nat) /\ Len(IHDR) = 4 /\ IHDR # IEND /\ Critical(IHDR)
    /\ IDAT \in Seq(Nat) /\ Len(IDAT) = 4 /\ IDAT # IEND /\ Critical(IDAT)
    /\ tEXt \in Seq(Nat) /\ Len(tEXt) = 4 /\ tEXt # IEND /\ ~Critical(tEXt)
  <1>1. IHDR \in Seq(Nat) /\ Len(IHDR) = 4 /\ IHDR[1] = 73 /\ IHDR[2] = 72
    BY DEF IHDR
  <1>2. IDAT \in Seq(Nat) /\ Len(IDAT) = 4 /\ IDAT[1] = 73 /\ IDAT[2] = 68
    BY DEF IDAT
  <1>3. tEXt \in Seq(Nat) /\ Len(tEXt) = 4 /\ tEXt[1] = 116
    BY DEF tEXt
  <1>4. IEND[1] = 73 /\ IEND[2] = 69
    BY DEF IEND
  <1>5. IHDR # IEND /\ IDAT # IEND /\ tEXt # IEND
    BY <1>1, <1>2, <1>3, <1>4, SMTT(30)
  <1>6. Critical(IHDR) /\ Critical(IDAT) /\ ~Critical(tEXt)
    BY <1>1, <1>2, <1>3 DEF Critical
  <1> QED BY <1>1, <1>2, <1>3, <1>5, <1>6

\* The markers that are written are no fill, and APP1 and COM are metadata.
LEMMA Markers ==
    /\ APP1 \in Nat /\ APP1 # 255 /\ APP1 \notin Bare \cup {SOS} /\ APP1 \in Metadata
    /\ COM \in Nat /\ COM # 255 /\ COM \notin Bare \cup {SOS} /\ COM \in Metadata
    /\ DQT \in Nat /\ DQT # 255 /\ DQT \notin Bare \cup {SOS} /\ DQT \notin Metadata
    /\ 192 \notin Bare \cup {SOS} /\ 192 \notin Metadata
    /\ TEM \in Bare \ {EOI}
  BY DEF APP1, COM, DQT, TEM, EOI, SOS, Bare, Metadata

\* One byte joined to itself.
LEMMA Twice ==
    ASSUME NEW f \in Seq(Nat), NEW g \in Seq(Nat), Len(f) = 1, Len(g) = 2, g[1] = f[1], g[2] = f[1]
    PROVE  f \o f = g
  <1>1. /\ f \o f \in Seq(Nat) /\ Len(f \o f) = Len(f) + Len(f)
        /\ \A i \in 1..(Len(f) + Len(f)) : (f \o f)[i] = IF i <= Len(f) THEN f[i] ELSE f[i - Len(f)]
    BY ConcatProperties
  <1>2. Len(f \o f) = Len(g) /\ (f \o f)[1] = g[1] /\ (f \o f)[2] = g[2]
    BY <1>1
  <1>3. \A i \in 1..Len(f \o f) : i = 1 \/ i = 2
    BY <1>2
  <1>4. \A i \in 1..Len(f \o f) : (f \o f)[i] = g[i]
    BY <1>2, <1>3, Zenon
  <1> QED BY <1>1, <1>2, <1>4, SeqEqual

\* A segment, after a byte of fill or not, and a chunk.
LEMMA SegmentTurns ==
    ASSUME NEW a \in Seq(Nat), NEW k \in Seq(Nat), NEW marker \in Nat, marker # 255,
           marker \notin Bare \cup {SOS}, NEW p \in Seq(Nat)
    PROVE  LET s == Segment(marker, p)
           IN  /\ s \in Seq(Nat) /\ << 255 >> \o s \in Seq(Nat)
               /\ marker \in Metadata => Turn("jpeg", a \o s, Past(a, k), Past(a \o s, k \o <<>>))
               /\ marker \in Metadata =>
                      Turn("jpeg", a \o (<< 255 >> \o s), Past(a, k), Past(a \o (<< 255 >> \o s), k \o <<>>))
               /\ marker \notin Metadata => Turn("jpeg", a \o s, Past(a, k), Past(a \o s, k \o s))
  <1> DEFINE s == Segment(marker, p)  u == Body(marker, p)  f == <<255>>  ff == <<255, 255>>
  <1>1. s = f \o u /\ Counted(u) /\ u[1] = marker /\ u \in Seq(Nat) /\ s \in Seq(Nat)
    BY SegmentIs
  <1>2. f \in Fills /\ ff \in Fills /\ f \in Seq(Nat)
    BY Bytes255
  <1>3. f \o f = ff
    <2>1. ff \in Seq(Nat) /\ Len(ff) = 2 /\ ff[1] = f[1] /\ ff[2] = f[1] /\ Len(f) = 1
      OBVIOUS
    <2> HIDE DEF f, ff
    <2> QED BY <1>2, <2>1, Twice
  <1>4. k \o <<>> = k
    OBVIOUS
  <1> HIDE DEF s, u
  <1>5. \A g \in Fills : Turn("jpeg", a \o (g \o u), Past(a, k),
                              Past(a \o (g \o u), IF u[1] \in Metadata THEN k ELSE k \o (f \o u)))
    BY <1>1, JpegSegment
  <1> HIDE DEF f, ff
  <1>6. f \o s = ff \o u /\ f \o s \in Seq(Nat)
    <2>1. (f \o f) \o u = f \o (f \o u)
      <3>1. f \in Seq(Nat) /\ u \in Seq(Nat)
        BY <1>1, <1>2
      <3>2. Associates(f, f, u)
        BY <3>1, Joining
      <3> QED BY <3>2 DEF Associates
    <2>2. f \o s \in Seq(Nat)
      BY <1>1, <1>2, Joined
    <2> QED BY <1>1, <1>3, <2>1, <2>2
  <1>7. /\ Turn("jpeg", a \o s, Past(a, k), Past(a \o s, IF marker \in Metadata THEN k ELSE k \o s))
        /\ Turn("jpeg", a \o (f \o s), Past(a, k),
                Past(a \o (f \o s), IF marker \in Metadata THEN k ELSE k \o s))
    BY <1>1, <1>2, <1>5, <1>6
  <1>8. ASSUME marker \in Metadata
        PROVE  /\ Turn("jpeg", a \o s, Past(a, k), Past(a \o s, k \o <<>>))
               /\ Turn("jpeg", a \o (f \o s), Past(a, k), Past(a \o (f \o s), k \o <<>>))
    BY <1>4, <1>7, <1>8
  <1>9. ASSUME marker \notin Metadata PROVE Turn("jpeg", a \o s, Past(a, k), Past(a \o s, k \o s))
    BY <1>7, <1>9
  <1> QED BY <1>1, <1>6, <1>8, <1>9 DEF s, f

\* A chunk is passed, and kept if it is critical.
LEMMA ChunkTurns ==
    ASSUME NEW a \in Seq(Nat), NEW k \in Seq(Nat), NEW type \in Seq(Nat), Len(type) = 4, type # IEND,
           NEW p \in Seq(Nat)
    PROVE  LET s == Chunk(type, p)
           IN  /\ s \in Seq(Nat)
               /\ Critical(type) => Turn("png", a \o s, Past(a, k), Past(a \o s, k \o s))
               /\ ~Critical(type) => Turn("png", a \o s, Past(a, k), Past(a \o s, k \o <<>>))
  <1> DEFINE s == Chunk(type, p)
  <1>1. s \in Seq(Nat)
    BY ChunkIs
  <1>2. Turn("png", a \o s, Past(a, k), Past(a \o s, IF Critical(type) THEN k \o s ELSE k))
    BY PngChunk
  <1>3. k \o <<>> = k
    OBVIOUS
  <1> HIDE DEF s
  <1>4. Critical(type) => Turn("png", a \o s, Past(a, k), Past(a \o s, k \o s))
    BY <1>2
  <1>5. ~Critical(type) => Turn("png", a \o s, Past(a, k), Past(a \o s, k \o <<>>))
    BY <1>2, <1>3
  <1> QED BY <1>1, <1>4, <1>5 DEF s

\* The same of a segment that says no size.
LEMMA WriteFollowed ==
    ASSUME Followed, NEW bytes \in Seq(Nat), NEW kept \in Seq(Nat), Write(bytes, kept),
           Turn(image.format, image.bytes \o bytes, Past(image.bytes, image.kept),
                Past(image.bytes \o bytes, image.kept \o kept))
    PROVE  Followed'
  <1>1. image.size \in Nat \X Nat /\ image.sizeAt \in Nat
    BY DEF Followed, StrippingTypeOK
  <1> QED BY <1>1, WithSizeFollowed DEF Write

\* Metadata is a segment that is left out.
LEMMA WriteMetadataFollowed ==
    ASSUME Followed, WriteMetadata
    PROVE Followed'
  <1> DEFINE a == image.bytes  k == image.kept
  <1>1. a \in Seq(Nat) /\ k \in Seq(Nat) /\ <<>> \in Seq(Nat)
    BY ImageTypes DEF Followed
  <1>2. PICK p \in Payloads :
            \/ image.format = "jpeg" /\ Write(Segment(APP1, p), <<>>)
            \/ image.format = "jpeg" /\ Write(<<255>> \o Segment(COM, p), <<>>)
            \/ image.format = "png" /\ Segments > 0 /\ Write(Chunk(tEXt, p), <<>>)
    BY DEF WriteMetadata
  <1>3. p \in Seq(Nat)
    BY PayloadsAre
  <1> HIDE DEF a, k
  <1>4. CASE image.format = "jpeg" /\ Write(Segment(APP1, p), <<>>)
    <2> DEFINE s == Segment(APP1, p)
    <2>1. s \in Seq(Nat) /\ Turn("jpeg", a \o s, Past(a, k), Past(a \o s, k \o <<>>))
      BY <1>1, <1>3, Markers, SegmentTurns
    <2> HIDE DEF s
    <2>2. Write(s, <<>>) /\ Turn(image.format, a \o s, Past(a, k), Past(a \o s, k \o <<>>))
      BY <1>4, <2>1 DEF s
    <2> QED BY <1>1, <2>1, <2>2, WriteFollowed DEF a, k
  <1>5. CASE image.format = "jpeg" /\ Write(<<255>> \o Segment(COM, p), <<>>)
    <2> DEFINE s == <<255>> \o Segment(COM, p)
    <2>1. s \in Seq(Nat) /\ Turn("jpeg", a \o s, Past(a, k), Past(a \o s, k \o <<>>))
      BY <1>1, <1>3, Markers, SegmentTurns
    <2> HIDE DEF s
    <2>2. Write(s, <<>>) /\ Turn(image.format, a \o s, Past(a, k), Past(a \o s, k \o <<>>))
      BY <1>5, <2>1 DEF s
    <2> QED BY <1>1, <2>1, <2>2, WriteFollowed DEF a, k
  <1>6. CASE image.format = "png" /\ Write(Chunk(tEXt, p), <<>>)
    <2> DEFINE s == Chunk(tEXt, p)
    <2>1. s \in Seq(Nat) /\ Turn("png", a \o s, Past(a, k), Past(a \o s, k \o <<>>))
      BY <1>1, <1>3, Types, ChunkTurns
    <2> HIDE DEF s
    <2>2. Write(s, <<>>) /\ Turn(image.format, a \o s, Past(a, k), Past(a \o s, k \o <<>>))
      BY <1>6, <2>1 DEF s
    <2> QED BY <1>1, <2>1, <2>2, WriteFollowed DEF a, k
  <1> QED BY <1>2, <1>4, <1>5, <1>6

\* Any other segment is kept, without all its fill but one byte.
LEMMA WriteOtherFollowed ==
    ASSUME Followed, WriteOther
    PROVE Followed'
  <1> DEFINE a == image.bytes  k == image.kept
  <1>1. a \in Seq(Nat) /\ k \in Seq(Nat)
    BY ImageTypes DEF Followed
  <1> HIDE DEF a, k
  <1>2. CASE image.format = "jpeg" /\ Write(<<255, 255, TEM>>, <<255, TEM>>)
    <2> DEFINE s == <<255, 255, TEM>>  r == <<255, TEM>>  ff == <<255, 255>>  t == <<TEM>>
    <2>1. s = ff \o t /\ s \in Seq(Nat) /\ r \in Seq(Nat)
      BY DEF TEM
    <2>2. Turn("jpeg", a \o (ff \o t), Past(a, k), Past(a \o (ff \o t), k \o r))
      BY <1>1, Bytes255, Markers, JpegBare
    <2>3. Write(s, r)
      BY <1>2
    <2> HIDE DEF s, r, ff, t
    <2>4. Turn(image.format, a \o s, Past(a, k), Past(a \o s, k \o r))
      BY <1>2, <2>1, <2>2
    <2> QED BY <2>1, <2>3, <2>4, WriteFollowed DEF a, k
  <1>3. ASSUME NEW p \in Payloads, image.format = "jpeg", Write(Segment(DQT, p), Segment(DQT, p))
        PROVE  Followed'
    <2> DEFINE s == Segment(DQT, p)
    <2>1. p \in Seq(Nat)
      BY PayloadsAre
    <2>2. s \in Seq(Nat) /\ Turn("jpeg", a \o s, Past(a, k), Past(a \o s, k \o s))
      BY <1>1, <2>1, Markers, SegmentTurns
    <2> HIDE DEF s
    <2>3. Write(s, s) /\ Turn(image.format, a \o s, Past(a, k), Past(a \o s, k \o s))
      BY <1>3, <2>2 DEF s
    <2> QED BY <2>2, <2>3, WriteFollowed DEF a, k
  <1>4. ASSUME NEW p \in Payloads, image.format = "png", Write(Chunk(IDAT, p), Chunk(IDAT, p))
        PROVE  Followed'
    <2> DEFINE s == Chunk(IDAT, p)
    <2>1. p \in Seq(Nat)
      BY PayloadsAre
    <2>2. s \in Seq(Nat) /\ Turn("png", a \o s, Past(a, k), Past(a \o s, k \o s))
      BY <1>1, <2>1, Types, ChunkTurns
    <2> HIDE DEF s
    <2>3. Write(s, s) /\ Turn(image.format, a \o s, Past(a, k), Past(a \o s, k \o s))
      BY <1>4, <2>2 DEF s
    <2> QED BY <2>2, <2>3, WriteFollowed DEF a, k
  <1> QED BY <1>2, <1>3, <1>4 DEF WriteOther

\* The segment that has the size is kept.
LEMMA WriteSizeFollowed ==
    ASSUME Followed, WriteSize
    PROVE Followed'
  <1> DEFINE a == image.bytes  k == image.kept
  <1>1. a \in Seq(Nat) /\ k \in Seq(Nat) /\ image.format \in {"jpeg", "png"}
    BY ImageTypes DEF Followed
  <1>2. PICK w \in {16, 32}, h \in {16, 32} :
            WithSize(SizeSegment(w, h), SizeSegment(w, h), <<w, h>>, SizeEnd)
    BY DEF WriteSize
  <1> DEFINE s == SizeSegment(w, h)
  <1>3. w \in Nat /\ h \in Nat /\ <<w, h>> \in Nat \X Nat
    OBVIOUS
  <1> HIDE DEF a, k
  <1>4. s \in Seq(Nat) /\ Turn(image.format, a \o s, Past(a, k), Past(a \o s, k \o s))
    <2>1. CASE image.format = "jpeg"
      <3> DEFINE p == <<8, 0, h, 0, w>>
      <3>1. p \in Seq(Nat)
        BY <1>3
      <3> HIDE DEF p
      <3>2. /\ Segment(192, p) \in Seq(Nat)
            /\ Turn("jpeg", a \o Segment(192, p), Past(a, k), Past(a \o Segment(192, p), k \o Segment(192, p)))
        BY <1>1, <3>1, Markers, SegmentTurns
      <3> QED BY <2>1, <3>2 DEF p, SizeSegment
    <2>2. CASE image.format = "png"
      <3> DEFINE p == <<0, 0, 0, w, 0, 0, 0, h>>
      <3>1. p \in Seq(Nat)
        BY <1>3
      <3> HIDE DEF p
      <3>2. /\ Chunk(IHDR, p) \in Seq(Nat)
            /\ Turn("png", a \o Chunk(IHDR, p), Past(a, k), Past(a \o Chunk(IHDR, p), k \o Chunk(IHDR, p)))
        BY <1>1, <3>1, Types, ChunkTurns
      <3> QED BY <2>2, <3>2 DEF p, SizeSegment
    <2> QED BY <1>1, <2>1, <2>2
  <1>5. WithSize(s, s, <<w, h>>, SizeEnd)
    BY <1>2
  <1> HIDE DEF s
  <1>6. SizeEnd \in Nat
    <2>1. image.kept \in Seq(Nat)
      BY ImageTypes DEF Followed
    <2>2. \A t \in Seq(Nat) : Len(t) \in Nat /\ Len(t) + 9 \in Nat /\ Len(t) + 16 \in Nat
      OBVIOUS
    <2>3. Len(image.kept) + 9 \in Nat /\ Len(image.kept) + 16 \in Nat
      BY <2>1, <2>2, Zenon
    <2> QED BY <2>3, Zenon DEF SizeEnd
  <1> QED BY <1>3, <1>4, <1>5, <1>6, WithSizeFollowed DEF a, k

\* What is received is chained, and its last segment leads to what is to be left.
LEMMA ReceiveFollowed ==
    ASSUME Followed, rewritten.phase = "waiting", rewritten' = [rewritten EXCEPT !.phase = "begin"],
           StrippingTypeOK', Chained(image'.format, image'.bytes, image'.trail),
           Turn(image'.format, image'.bytes, LastOf(image'.trail),
                Finished(LastOf(image'.trail), image'.kept))
    PROVE  Followed'
  <1>1. rewritten'.phase = "begin"
    BY DEF Followed, StrippingTypeOK
  <1>2. TrailLeads'
    BY <1>1 DEF TrailLeads
  <1>3. OnTrail' /\ StrippedExactly'
    BY <1>1 DEF OnTrail, StrippedExactly
  <1> QED BY <1>2, <1>3 DEF Followed

\* An image that ends behind a segment is rewritten to its end.
LEMMA ReceiveWholeFollowed ==
    ASSUME Followed, ReceiveWhole
    PROVE Followed'
  <1>1. /\ rewritten.phase = "waiting" /\ rewritten' = [rewritten EXCEPT !.phase = "begin"]
        /\ image' = image
    BY DEF ReceiveWhole
  <1>2. StrippingTypeOK'
    BY <1>1 DEF Followed, StrippingTypeOK
  <1>3. /\ Chained(image.format, image.bytes, image.trail)
        /\ Turn(image.format, image.bytes, LastOf(image.trail), Finished(LastOf(image.trail), image.kept))
    BY DEF Followed, TrailLeads
  <1> QED BY <1>1, <1>2, <1>3, ReceiveFollowed

\* What ends an image ends the rewriting of it, with what is to be kept.
LEMMA EndsAre ==
    ASSUME NEW end \in Ends, NEW a \in Seq(Nat), NEW k \in Seq(Nat), NEW more \in Seq(Nat),
           image.format \in {"jpeg", "png"}
    PROVE  /\ end.bytes \in Seq(Nat)
           /\ Turn(image.format, (a \o end.bytes) \o more, Past(a, k),
                   Finished(Past(a, k), (k \o end.bytes) \o (IF end.after = "kept" THEN more ELSE <<>>)))
  <1>1. CASE image.format = "png"
    <2> DEFINE s == Chunk(IEND, <<>>)
    <2>1. end.bytes = s /\ end.after # "kept"
      BY <1>1 DEF Ends
    <2>2. s \in Seq(Nat)
      <3>1. IEND \in Seq(Nat) /\ Len(IEND) = 4 /\ <<>> \in Seq(Nat)
        BY DEF IEND
      <3> QED BY <3>1, ChunkIs
    <2>3. Turn("png", (a \o s) \o more, Past(a, k), Finished(Past(a, k), k \o s))
      BY PngEnds
    <2> HIDE DEF s
    <2>4. (k \o s) \o <<>> = k \o s
      BY <2>2
    <2>5. Turn("png", (a \o s) \o more, Past(a, k), Finished(Past(a, k), (k \o s) \o <<>>))
      BY <2>3, <2>4
    <2> QED BY <1>1, <2>1, <2>2, <2>5
  <1>2. CASE image.format = "jpeg"
    <2>1. \/ end.bytes = <<255, EOI>> /\ end.after # "kept"
          \/ end.bytes = Segment(SOS, <<0>>) /\ end.after = "kept"
          \/ end.bytes = <<0>> /\ end.after = "kept"
      BY <1>2 DEF Ends
    <2>2. CASE end.bytes = <<255, EOI>> /\ end.after # "kept"
      <3> DEFINE s == <<255, EOI>>
      <3>1. s \in Seq(Nat)
        BY DEF EOI
      <3>2. Turn("jpeg", (a \o s) \o more, Past(a, k), Finished(Past(a, k), k \o s))
        BY JpegEnds
      <3>3. end.bytes = s
        BY <2>2
      <3> HIDE DEF s
      <3>4. (k \o s) \o <<>> = k \o s
        BY <3>1
      <3>5. Turn("jpeg", (a \o s) \o more, Past(a, k), Finished(Past(a, k), (k \o s) \o <<>>))
        BY <3>2, <3>4
      <3> QED BY <1>2, <2>2, <3>1, <3>3, <3>5
    <2>3. CASE end.bytes = Segment(SOS, <<0>>) /\ end.after = "kept"
      <3> DEFINE s == Segment(SOS, <<0>>)
      <3>1. s \in Seq(Nat)
        <4>1. SOS \in Nat /\ SOS # 255 /\ <<0>> \in Seq(Nat)
          BY DEF SOS
        <4> QED BY <4>1, SegmentIs
      <3>2. Turn("jpeg", (a \o s) \o more, Past(a, k), Finished(Past(a, k), (k \o s) \o more))
        BY JpegEnds
      <3>3. end.bytes = s
        BY <2>3
      <3> HIDE DEF s
      <3> QED BY <1>2, <2>3, <3>1, <3>2, <3>3
    <2>4. CASE end.bytes = <<0>> /\ end.after = "kept"
      <3> DEFINE s == <<0>>
      <3>1. s \in Seq(Nat)
        OBVIOUS
      <3>2. Turn("jpeg", (a \o s) \o more, Past(a, k), Finished(Past(a, k), (k \o s) \o more))
        BY JpegEnds
      <3>3. end.bytes = s
        BY <2>4
      <3> HIDE DEF s
      <3> QED BY <1>2, <2>4, <3>1, <3>2, <3>3
    <2> QED BY <2>1, <2>2, <2>3, <2>4
  <1> QED BY <1>1, <1>2

\* The segments of an image are followed whatever is behind them.
LEMMA ReceiveEndedFollowed ==
    ASSUME Followed, ReceiveEnded
    PROVE Followed'
  <1> DEFINE a == image.bytes  k == image.kept  f == image.format  t == image.trail
  <1>1. /\ a \in Seq(Nat) /\ k \in Seq(Nat) /\ f \in {"jpeg", "png"} /\ t \in Seq(Walking)
    BY ImageTypes DEF Followed
  <1>2. rewritten.phase = "waiting" /\ rewritten' = [rewritten EXCEPT !.phase = "begin"]
    BY DEF ReceiveEnded
  <1>3. Chained(f, a, t) /\ LastOf(t) = Past(a, k)
    BY <1>2 DEF Followed, TrailLeads
  <1>4. PICK end \in Ends, more \in {<<>>, Segment(APP1, <<>>)} :
            image' = [image EXCEPT !.bytes = a \o end.bytes \o more,
                                   !.kept = k \o end.bytes \o
                                            (IF end.after = "kept" THEN more ELSE <<>>)]
    BY DEF ReceiveEnded
  <1>5. more \in Seq(Nat) /\ <<>> \in Seq(Nat)
    <2>1. <<>> \in Seq(Nat)
      OBVIOUS
    <2>2. Segment(APP1, <<>>) \in Seq(Nat)
      BY <2>1, Markers, SegmentIs
    <2> QED BY <2>1, <2>2
  <1> DEFINE c == (a \o end.bytes) \o more  rest == IF end.after = "kept" THEN more ELSE <<>>
             k2 == (k \o end.bytes) \o rest
  <1>6. end.bytes \in Seq(Nat) /\ Turn(f, c, Past(a, k), Finished(Past(a, k), k2))
    BY <1>1, <1>5, EndsAre
  <1>7. rest \in Seq(Nat)
    BY <1>5
  <1>8. image' = [image EXCEPT !.bytes = c, !.kept = k2]
    BY <1>4
  <1>9. image'.format = f /\ image'.bytes = c /\ image'.kept = k2 /\ image'.trail = t
    BY <1>8 DEF Followed, StrippingTypeOK
  <1> HIDE DEF a, k, rest
  <1>10. a \o end.bytes \in Seq(Nat) /\ k \o end.bytes \in Seq(Nat)
    BY <1>1, <1>6, Joined
  <1>11. c \in Seq(Nat) /\ k2 \in Seq(Nat)
    <2> DEFINE x == a \o end.bytes  y == k \o end.bytes
    <2>1. x \in Seq(Nat) /\ y \in Seq(Nat)
      BY <1>10
    <2> HIDE DEF x, y
    <2>2. x \o more \in Seq(Nat)
      BY <1>5, <2>1, Joined
    <2>3. y \o rest \in Seq(Nat)
      BY <1>7, <2>1, Joined
    <2> QED BY <2>2, <2>3 DEF x, y
  <1>12. Alike(a, c, LastOf(t).at - 1)
    <2> DEFINE s == end.bytes
    <2>1. s \in Seq(Nat)
      BY <1>6
    <2>2. s \o more \in Seq(Nat) /\ c = a \o (s \o more)
      <3> HIDE DEF s
      <3>0. a \in Seq(Nat) /\ s \in Seq(Nat) /\ more \in Seq(Nat)
        BY <1>1, <1>5, <2>1
      <3>1. (a \o s) \o more = a \o (s \o more)
        <4>1. Associates(a, s, more)
          BY <3>0, Joining
        <4> QED BY <4>1 DEF Associates
      <3>2. s \o more \in Seq(Nat)
        BY <1>5, <2>1, Joined
      <3> QED BY <3>1, <3>2 DEF s
    <2> HIDE DEF s, c
    <2>3. Alike(a, c, Len(a)) /\ Len(a) \in Nat
      <3> DEFINE v == s \o more
      <3>1. v \in Seq(Nat) /\ c = a \o v
        BY <2>2
      <3> HIDE DEF v
      <3>2. Alike(a, a \o v, Len(a)) /\ Len(a) \in Nat
        BY <1>1, <3>1, After
      <3> QED BY <3>1, <3>2
    <2>4. LastOf(t).at - 1 = Len(a)
      <3>1. Past(a, k).at = Len(a) + 1
        BY <1>1, PastIs
      <3> QED BY <1>3, <2>3, <3>1
    <2> QED BY <2>3, <2>4
  <1> HIDE DEF f, t, c, k2
  <1>13. Chained(f, c, t)
    BY <1>1, <1>3, <1>11, <1>12, ChainedAlike
  <1>14. StrippingTypeOK'
    <2>1. image' \in [format : {"jpeg", "png"}, bytes : Seq(Nat), kept : Seq(Nat), trail : Seq(Walking),
                      whole : BOOLEAN, size : Nat \X Nat, sizeAt : Nat]
      <3> DEFINE Q == Seq(Nat)  W == Seq(Walking)
      <3>1. c \in Q /\ k2 \in Q
        BY <1>11
      <3>2. image \in [format : {"jpeg", "png"}, bytes : Q, kept : Q, trail : W,
                       whole : BOOLEAN, size : Nat \X Nat, sizeAt : Nat]
        BY DEF Followed, StrippingTypeOK
      <3> HIDE DEF Q, W
      <3>3. image' \in [format : {"jpeg", "png"}, bytes : Q, kept : Q, trail : W,
                        whole : BOOLEAN, size : Nat \X Nat, sizeAt : Nat]
        BY <1>8, <3>1, <3>2
      <3> QED BY <3>3 DEF Q, W
    <2>2. rewritten' \in [phase : {"waiting", "begin", "loop", "done"}, at : Nat \ {0}, out : Seq(Nat)]
      BY <1>2 DEF Followed, StrippingTypeOK
    <2> QED BY <2>1, <2>2 DEF StrippingTypeOK
  <1>15. Turn(f, c, LastOf(t), Finished(LastOf(t), k2))
    BY <1>3, <1>6
  <1> QED BY <1>2, <1>9, <1>13, <1>14, <1>15, ReceiveFollowed

\* An image cut off in its last segment is followed to that segment, where the turn finds it
\* torn.
LEMMA ReceiveCutFollowed ==
    ASSUME Followed, ReceiveCut
    PROVE Followed'
  <1> DEFINE a == image.bytes  f == image.format  t == image.trail  l == Len(t) - 1
             less == SubSeq(t, 1, l)
  <1>1. /\ a \in Seq(Nat) /\ f \in {"jpeg", "png"} /\ t \in Seq(Walking) /\ Len(t) \in Nat
    BY ImageTypes DEF Followed
  <1>2. /\ rewritten.phase = "waiting" /\ rewritten' = [rewritten EXCEPT !.phase = "begin"]
        /\ l > 0
    BY DEF ReceiveCut, Segments
  <1>3. Chained(f, a, t) /\ LastOf(t) = Past(a, image.kept) /\ image.kept \in Seq(Nat)
    BY <1>2, ImageTypes DEF Followed, TrailLeads
  <1>4. PICK n \in t[l].at..(Len(a) - 1) :
            image' = [image EXCEPT !.bytes = SubSeq(a, 1, n), !.whole = FALSE, !.trail = less,
                                   !.kept = IF f = "jpeg" \/ n >= t[l].at + 7
                                            THEN SubSeq(a, 1, n) ELSE t[l].out]
    BY DEF ReceiveCut, Segments
  <1>5. /\ Chained(f, a, less) /\ less \in Seq(Walking) /\ LastOf(less) = t[l]
        /\ Turn(f, a, LastOf(less), LastOf(t))
    BY <1>1, <1>2, <1>3, ChainedLess
  <1> DEFINE x == t[l]  c == SubSeq(a, 1, n)
             k2 == IF f = "jpeg" \/ n >= x.at + 7 THEN c ELSE x.out
  <1>6. image' = [image EXCEPT !.bytes = c, !.whole = FALSE, !.trail = less, !.kept = k2]
    BY <1>4
  <1>7. image'.format = f /\ image'.bytes = c /\ image'.kept = k2 /\ image'.trail = less
    BY <1>6 DEF Followed, StrippingTypeOK
  <1>8. x \in Walking /\ x.at \in Nat \ {0} /\ x.out \in Seq(Nat)
    <2>1. less # <<>>
      BY <1>5 DEF Chained
    <2>2. LastOf(less) \in Walking
      <3> HIDE DEF less
      <3> QED BY <1>5, <2>1, LastOfTrail
    <2>3. x \in Walking
      BY <1>5, <2>2
    <2> QED BY <2>3, WalkingFields
  <1>9. n \in Nat /\ x.at <= n /\ n < Len(a) /\ Len(a) \in Nat
    BY <1>1, <1>4, <1>8
  <1> HIDE DEF f, l, less, x
  <1>10. c \in Seq(Nat) /\ Len(c) = n /\ Alike(a, c, n)
    <2>1. \A i \in 1..n : a[i] \in Nat
      <3>1. \A i \in 1..n : i \in 1..Len(a)
        BY <1>9
      <3> QED BY <1>1, <3>1
    <2>2. /\ c \in Seq(Nat) /\ Len(c) = (IF 1 <= n THEN n - 1 + 1 ELSE 0)
          /\ \A i \in 1..(n - 1 + 1) : c[i] = a[1 + i - 1]
      <3>1. 1 \in Int /\ n \in Int
        BY <1>9
      <3> HIDE DEF a
      <3> QED BY <2>1, <3>1, SubSeqProperties
    <2> HIDE DEF c
    <2>3. Len(c) = n /\ \A i \in 1..n : c[i] = a[i]
      <3>1. (IF 1 <= n THEN n - 1 + 1 ELSE 0) = n /\ n - 1 + 1 = n /\ \A i \in 1..n : 1 + i - 1 = i
        BY <1>9
      <3> QED BY <2>2, <3>1
    <2>4. n <= Len(a) /\ n <= Len(c)
      BY <1>9, <2>3
    <2> QED BY <2>2, <2>3, <2>4 DEF Alike
  <1> HIDE DEF a, t, c
  <1>11. Chained(f, c, less)
    <2>1. Alike(a, c, x.at - 1)
      <3> DEFINE q == x.at - 1
      <3>1. q \in Nat /\ q <= n
        BY <1>8, <1>9
      <3> HIDE DEF q
      <3>2. \A k \in 1..q : k \in 1..n
        BY <1>9, <3>1
      <3>3. q <= Len(a) /\ q <= Len(c)
        BY <1>9, <1>10, <3>1
      <3> QED BY <1>10, <3>2, <3>3 DEF Alike, q
    <2>2. Alike(a, c, LastOf(less).at - 1)
      BY <1>5, <2>1 DEF x
    <2> QED BY <1>1, <1>5, <1>10, <2>2, ChainedAlike
  <1>12. Turn(f, c, x, Finished(x, k2))
    <2> DEFINE y == LastOf(t)
    <2>1. y \in Walking /\ y.at = Len(a) + 1
      BY <1>1, <1>3, PastIs DEF a
    <2>2. Turn(f, a, x, y)
      BY <1>5 DEF x
    <2> HIDE DEF y
    <2>3. x.at <= Len(c) /\ Len(c) < y.at - 1 /\ Alike(a, c, Len(c))
      BY <1>9, <1>10, <2>1
    <2>4. Turn(f, c, x, Finished(x, IF f # "png" \/ Len(c) >= x.at + 7 THEN c ELSE x.out))
      BY <1>1, <1>8, <1>10, <2>1, <2>2, <2>3, TurnTorn
    <2>5. (IF f # "png" \/ Len(c) >= x.at + 7 THEN c ELSE x.out) = k2
      <3>1. f # "png" <=> f = "jpeg"
        BY <1>1 DEF f
      <3> QED BY <1>10, <3>1
    <2> QED BY <2>4, <2>5
  <1>13. k2 \in Seq(Nat)
    BY <1>8, <1>10
  <1> HIDE DEF k2
  <1>14. StrippingTypeOK'
    <2>1. image' \in [format : {"jpeg", "png"}, bytes : Seq(Nat), kept : Seq(Nat), trail : Seq(Walking),
                      whole : BOOLEAN, size : Nat \X Nat, sizeAt : Nat]
      <3> DEFINE Q == Seq(Nat)  W == Seq(Walking)
      <3>1. c \in Q /\ k2 \in Q /\ less \in W
        BY <1>5, <1>10, <1>13
      <3>2. image \in [format : {"jpeg", "png"}, bytes : Q, kept : Q, trail : W,
                       whole : BOOLEAN, size : Nat \X Nat, sizeAt : Nat]
        BY DEF Followed, StrippingTypeOK
      <3> HIDE DEF Q, W
      <3>3. image' \in [format : {"jpeg", "png"}, bytes : Q, kept : Q, trail : W,
                        whole : BOOLEAN, size : Nat \X Nat, sizeAt : Nat]
        BY <1>6, <3>1, <3>2
      <3> QED BY <3>3 DEF Q, W
    <2>2. rewritten' \in [phase : {"waiting", "begin", "loop", "done"}, at : Nat \ {0}, out : Seq(Nat)]
      BY <1>2 DEF Followed, StrippingTypeOK
    <2> QED BY <2>1, <2>2 DEF StrippingTypeOK
  <1>15. Turn(f, c, LastOf(less), Finished(LastOf(less), k2))
    BY <1>5, <1>12 DEF x
  <1> QED BY <1>2, <1>7, <1>11, <1>14, <1>15, ReceiveFollowed

-----------------------------------------------------------------------------
(* The rewriting. *)

\* The rewriting begins at the first segment.
LEMMA StripBeginFollowed ==
    ASSUME Followed, StripBegin
    PROVE Followed'
  <1> DEFINE s == Signature[image.format]
  <1>1. image' = image /\ rewritten' = Past(s, s)
    BY DEF StripBegin
  <1>2. Chained(image.format, image.bytes, image.trail) /\ image.trail \in Seq(Walking)
    BY ImageTypes DEF Followed, TrailLeads
  <1>3. image.trail # <<>> /\ image.trail[1] = Past(s, s)
    BY <1>2 DEF Chained
  <1>4. 1 \in 1..Len(image.trail) /\ DOMAIN image.trail = 1..Len(image.trail)
    BY <1>2, <1>3, LastOfTrail
  <1>5. Past(s, s) \in Walking
    BY <1>2, <1>3, <1>4, LastOfTrail
  <1>6. rewritten' \in Walking /\ rewritten'.phase = "loop"
    BY <1>1, <1>5, WalkingFields
  <1>7. StrippingTypeOK'
    BY <1>1, <1>6 DEF Followed, StrippingTypeOK, Walking
  <1>8. TrailLeads' /\ StrippedExactly'
    BY <1>1, <1>6 DEF Followed, TrailLeads, StrippedExactly
  <1>9. OnTrail'
    BY <1>1, <1>3, <1>4 DEF OnTrail
  <1> QED BY <1>7, <1>8, <1>9 DEF Followed

\* A turn leads to the next segment, or from the last one to the end: it leads to one place.
LEMMA StripFollowed ==
    ASSUME Followed, rewritten.phase = "loop", image' = image,
           Turn(image.format, image.bytes, rewritten, rewritten')
    PROVE  Followed'
  <1> DEFINE f == image.format  b == image.bytes  t == image.trail  k == image.kept
  <1>1. /\ b \in Seq(Nat) /\ t \in Seq(Walking) /\ k \in Seq(Nat)
    BY ImageTypes DEF Followed
  <1>2. Chained(f, b, t) /\ Turn(f, b, LastOf(t), Finished(LastOf(t), k))
    BY DEF Followed, TrailLeads
  <1>3. t # <<>> /\ \A n \in 1..(Len(t) - 1) : Turn(f, b, t[n], t[n + 1])
    BY <1>2 DEF Chained
  <1>4. /\ Len(t) \in Nat \ {0} /\ LastOf(t) \in Walking /\ LastOf(t).at \in Nat \ {0}
        /\ DOMAIN t = 1..Len(t) /\ LastOf(t) = t[Len(t)]
        /\ \A n \in 1..Len(t) : t[n] \in Walking
    BY <1>1, <1>3, LastOfTrail DEF LastOf
  <1>5. PICK n \in 1..Len(t) : rewritten = t[n]
    BY <1>4 DEF Followed, OnTrail
  <1>6. Turn(f, b, rewritten, rewritten') /\ rewritten \in Walking
    BY <1>4, <1>5
  <1>0. image \in [format : {"jpeg", "png"}, bytes : Seq(Nat), kept : Seq(Nat), trail : Seq(Walking),
                   whole : BOOLEAN, size : Nat \X Nat, sizeAt : Nat]
    BY DEF Followed, StrippingTypeOK
  <1>7. CASE n = Len(t)
    <2>1. rewritten' = Finished(rewritten, k)
      <3>1. rewritten = LastOf(t)
        BY <1>4, <1>5, <1>7
      <3>2. Turn(f, b, rewritten, Finished(rewritten, k))
        BY <1>2, <3>1
      <3> HIDE DEF f, b, k
      <3> QED BY <1>1, <1>6, <3>2, TurnIsOne
    <2>2. rewritten' = [phase |-> "done", at |-> rewritten.at, out |-> k] /\ rewritten.at \in Nat \ {0}
      BY <1>6, <2>1, WalkingFields
    <2>3. StrippingTypeOK'
      BY <1>0, <1>1, <2>2 DEF StrippingTypeOK
    <2>4. TrailLeads' /\ StrippedExactly' /\ OnTrail'
      BY <2>2 DEF Followed, TrailLeads, StrippedExactly, OnTrail
    <2> QED BY <2>3, <2>4 DEF Followed
  <1>8. CASE n # Len(t)
    <2>1. n \in 1..(Len(t) - 1) /\ n + 1 \in 1..Len(t)
      BY <1>4, <1>8
    <2>2. rewritten' = t[n + 1]
      <3>1. Turn(f, b, rewritten, t[n + 1])
        BY <1>3, <1>5, <2>1
      <3> HIDE DEF f, b, t
      <3> QED BY <1>1, <1>6, <3>1, TurnIsOne
    <2>3. rewritten' \in Walking /\ rewritten'.phase = "loop"
      BY <1>4, <2>1, <2>2, WalkingFields
    <2>4. StrippingTypeOK'
      BY <1>0, <2>3 DEF StrippingTypeOK, Walking
    <2>5. TrailLeads' /\ StrippedExactly'
      BY <2>3 DEF Followed, TrailLeads, StrippedExactly
    <2>6. OnTrail'
      BY <1>4, <2>1, <2>2 DEF OnTrail
    <2> QED BY <2>4, <2>5, <2>6 DEF Followed
  <1> QED BY <1>7, <1>8

\* Every step keeps the trail, and the rewriting on it.
LEMMA StrippingStep == Followed /\ [StrippingNext]_strippingVars => Followed'
  <1> SUFFICES ASSUME Followed, [StrippingNext]_strippingVars PROVE Followed'
    OBVIOUS
  <1>1. CASE WriteMetadata
    BY <1>1, WriteMetadataFollowed
  <1>2. CASE WriteOther
    BY <1>2, WriteOtherFollowed
  <1>3. CASE WriteSize
    BY <1>3, WriteSizeFollowed
  <1>4. CASE ReceiveWhole
    BY <1>4, ReceiveWholeFollowed
  <1>5. CASE ReceiveEnded
    BY <1>5, ReceiveEndedFollowed
  <1>6. CASE ReceiveCut
    BY <1>6, ReceiveCutFollowed
  <1>7. CASE StripBegin
    BY <1>7, StripBeginFollowed
  <1>8. CASE StripJpeg
    <2>1. rewritten.phase = "loop" /\ image' = image /\ Turn(image.format, image.bytes, rewritten, rewritten')
      BY <1>8 DEF StripJpeg, Turn
    <2> QED BY <2>1, StripFollowed
  <1>9. CASE StripPng
    <2>1. rewritten.phase = "loop" /\ image' = image /\ Turn(image.format, image.bytes, rewritten, rewritten')
      BY <1>9 DEF StripPng, Turn
    <2> QED BY <2>1, StripFollowed
  <1>10. CASE UNCHANGED strippingVars
    BY <1>10 DEF strippingVars, Followed, StrippingTypeOK, TrailLeads, OnTrail, StrippedExactly
  <1> QED BY <1>1, <1>2, <1>3, <1>4, <1>5, <1>6, <1>7, <1>8, <1>9, <1>10 DEF StrippingNext

\* The rewriting of an image is at one of its segments until it is done, for any images and
\* any number of segments (strip_temp_file_metadata, web/upload.rs:580).
THEOREM ImagesFollowed == StrippingSpec => []Followed
  <1> QED BY StrippingInitFollowed, StrippingStep, PTL DEF StrippingSpec

\* What is stored is the image without its metadata, byte by byte: so too with payloads
\* that look like markers, fill, cuts and trailing bytes (web/upload.rs:592-739).
THEOREM MetadataStripped == StrippingSpec => []StrippedExactly
  <1>1. Followed => StrippedExactly
    BY DEF Followed
  <1> QED BY <1>1, ImagesFollowed, PTL

-----------------------------------------------------------------------------
(* The walk that measures an image reads what was written. *)

\* The walk for the size looks only at what is behind it.
LEMMA LooksBehind ==
    ASSUME NEW b \in Seq(Nat), NEW i \in 1..(Len(b) + 1), NEW f, NEW g,
           \A j \in (i + 1)..(Len(b) + 1) : f[j] = g[j]
    PROVE  SizeAt(b, i, f) = SizeAt(b, i, g)
  <1> DEFINE m == MarkerFrom(b, i)
  <1>1. m \in i..(Len(b) + 1) /\ Len(b) \in Nat
    BY MarkerFacts
  <1> HIDE DEF m
  <1>2. CASE i + 3 > Len(b) \/ m > Len(b)
    BY <1>2 DEF SizeAt, m
  <1>3. CASE ~(i + 3 > Len(b) \/ m > Len(b))
    <2>1. f[m + 1] = g[m + 1]
      <3>1. m + 1 \in (i + 1)..(Len(b) + 1)
        BY <1>1, <1>3
      <3> QED BY <3>1
    <2>2. WholeSegment(b, m) => f[SegmentEnd(b, m) + 1] = g[SegmentEnd(b, m) + 1]
      <3>1. ASSUME WholeSegment(b, m) PROVE SegmentEnd(b, m) + 1 \in (i + 1)..(Len(b) + 1)
        <4> DEFINE e == SegmentEnd(b, m)
        <4>1. e \in (m + 2)..Len(b)
          BY <3>1 DEF WholeSegment
        <4> HIDE DEF e
        <4>2. e + 1 \in (i + 1)..(Len(b) + 1)
          BY <1>1, <4>1
        <4> QED BY <4>2 DEF e
      <3> QED BY <3>1
    <2> QED BY <1>3, <2>1, <2>2, ZenonT(60) DEF SizeAt, m
  <1> QED BY <1>2, <1>3

\* The walk is defined, since it only goes on: from the end down there is such a function,
\* for at the greatest position without one, the one behind it would do.
LEMMA SizeFromIs ==
    ASSUME NEW b \in Seq(Nat)
    PROVE  \A i \in 1..(Len(b) + 1) : SizeFrom(b)[i] = SizeAt(b, i, SizeFrom(b))
  <1> DEFINE L == Len(b) + 1
             Defined(n) == \E f : f = [i \in (L - n)..L |-> SizeAt(b, i, f)]
             Bad == {n \in 0..(L - 1) : ~Defined(n)}
  <1>1. L \in Nat \ {0} /\ L = Len(b) + 1
    OBVIOUS
  <1>2. \A f, g : \A i \in 1..L : (\A j \in (i + 1)..L : f[j] = g[j]) => SizeAt(b, i, f) = SizeAt(b, i, g)
    BY LooksBehind
  <1> HIDE DEF L
  <1>3. ASSUME Bad # {} PROVE FALSE
    <2>1. PICK n \in Bad : \A k \in Bad : <<k, n>> \notin OpToRel(<, Nat)
      <3>1. Bad \subseteq Nat
        BY <1>1
      <3> HIDE DEF Bad
      <3> QED BY <1>3, <3>1, NatLessThanWellFounded, WFMin
    <2>2. n \in 0..(L - 1) /\ ~Defined(n) /\ n \in Nat
      <3> HIDE DEF Defined
      <3>1. n \in 0..(L - 1) /\ ~Defined(n)
        BY <2>1
      <3> QED BY <1>1, <3>1
    <2>3. \A k \in Bad : ~(k < n)
      <3>1. Bad \subseteq Nat
        BY <1>1
      <3> HIDE DEF Bad
      <3> QED BY <2>1, <2>2, <3>1 DEF OpToRel
    <2> DEFINE p == L - n
    <2>4. p \in 1..L /\ (n > 0 => n - 1 \in 0..(L - 1) /\ n - 1 < n /\ L - (n - 1) = p + 1)
      BY <1>1, <2>2
    <2>5. PICK g : \A i \in (p + 1)..L : g[i] = SizeAt(b, i, g)
      <3>1. CASE n = 0
        <4>1. (p + 1)..L = {}
          BY <1>1, <3>1
        <4> QED BY <4>1
      <3>2. CASE n # 0
        <4>1. Defined(n - 1)
          <5>1. n - 1 \in 0..(L - 1) /\ n - 1 < n
            BY <2>2, <2>4, <3>2
          <5> QED BY <2>3, <5>1
        <4>2. PICK g : g = [i \in (p + 1)..L |-> SizeAt(b, i, g)]
          <5>1. L - (n - 1) = p + 1
            BY <2>2, <2>4, <3>2
          <5> HIDE DEF p
          <5> QED BY <4>1, <5>1
        <4> HIDE DEF p
        <4> QED BY <4>2, Zenon
      <3> QED BY <3>1, <3>2
    <2> HIDE DEF p
    <2> DEFINE h == [i \in p..L |-> IF i = p THEN SizeAt(b, p, g) ELSE g[i]]
    <2>6. \A i \in (p + 1)..L : i \in p..L /\ i # p
      BY <1>1, <2>4
    <2>7. \A i \in (p + 1)..L : h[i] = g[i]
      BY <2>6, Zenon
    <2> HIDE DEF h
    <2>8. \A i \in p..L : SizeAt(b, i, h) = SizeAt(b, i, g)
      <3> SUFFICES ASSUME NEW i \in p..L PROVE SizeAt(b, i, h) = SizeAt(b, i, g)
        OBVIOUS
      <3>1. i \in 1..L /\ \A j \in (i + 1)..L : j \in (p + 1)..L
        BY <1>1, <2>4
      <3>2. \A j \in (i + 1)..L : h[j] = g[j]
        BY <2>7, <3>1
      <3> QED BY <1>2, <3>1, <3>2
    <2>9. \A i \in p..L : i = p \/ i \in (p + 1)..L
      BY <1>1, <2>4
    <2>10. h = [i \in p..L |-> SizeAt(b, i, h)]
      <3>1. \A i \in p..L : (IF i = p THEN SizeAt(b, p, g) ELSE g[i]) = SizeAt(b, i, h)
        BY <2>5, <2>8, <2>9, Zenon
      <3>2. h = [i \in p..L |-> IF i = p THEN SizeAt(b, p, g) ELSE g[i]]
        BY DEF h
      <3> QED BY <3>1, <3>2, Zenon
    <2>11. Defined(n)
      BY <2>10 DEF p
    <2> QED BY <2>2, <2>11
  <1>4. Defined(L - 1)
    <2>1. L - 1 \in 0..(L - 1)
      BY <1>1
    <2> QED BY <1>3, <2>1
  <1>5. \E f : f = [i \in 1..L |-> SizeAt(b, i, f)]
    <2>1. L - (L - 1) = 1
      BY <1>1
    <2> QED BY <1>4, <2>1
  <1>6. SizeFrom(b) = CHOOSE f : f = [i \in 1..L |-> SizeAt(b, i, f)]
    BY DEF SizeFrom, L
  <1>7. SizeFrom(b) = [i \in 1..L |-> SizeAt(b, i, SizeFrom(b))]
    BY <1>5, <1>6, Zenon
  <1>8. \A i \in 1..L : SizeFrom(b)[i] = SizeAt(b, i, SizeFrom(b))
    BY <1>7, Zenon
  <1> QED BY <1>8 DEF L

\* Where fewer than four bytes are left there is no size.
LEMMA NothingLeft ==
    ASSUME NEW c \in Seq(Nat), NEW i \in 1..(Len(c) + 1), i + 3 > Len(c)
    PROVE  SizeFrom(c)[i] = NoSize
  <1>1. SizeFrom(c)[i] = SizeAt(c, i, SizeFrom(c))
    BY SizeFromIs
  <1> QED BY <1>1 DEF SizeAt

\* What the walk finds before a marker behind n and 255.
Decides(c, n) ==
    LET m == n + 2  from == SizeFrom(c)
    IN  /\ c[m] \in {TEM, 216, EOI} => from[n + 1] = from[m + 1]
        /\ c[m] \notin {TEM, 216, EOI} /\ ~WholeSegment(c, m) => from[n + 1] = NoSize
        /\ c[m] \notin {TEM, 216, EOI} /\ WholeSegment(c, m) /\ c[m] \notin Frames =>
               from[n + 1] = from[SegmentEnd(c, m) + 1]
        /\ c[m] \notin {TEM, 216, EOI} /\ WholeSegment(c, m) /\ c[m] \in Frames
           /\ ~(SegmentEnd(c, m) < m + 7) =>
               from[n + 1] = ValidSize(256 * c[m + 6] + c[m + 7], 256 * c[m + 4] + c[m + 5])
\* A marker right behind 255 decides.
LEMMA MarkerNext ==
    ASSUME NEW c \in Seq(Nat), NEW n \in Nat, n + 4 <= Len(c), c[n + 1] = 255, c[n + 2] # 255
    PROVE  Decides(c, n)
  <1> DEFINE m == MarkerFrom(c, n + 1)  from == SizeFrom(c)
  <1>1. n + 1 \in Nat /\ n + 2 \in (n + 1)..Len(c) /\ n + 1 \in 1..(Len(c) + 1) /\ Len(c) \in Nat
    OBVIOUS
  <1>2. \A k \in (n + 1)..(n + 2 - 1) : c[k] = 255
    <2>1. \A k \in (n + 1)..(n + 2 - 1) : k = n + 1
      OBVIOUS
    <2> QED BY <2>1
  <1>3. m = n + 2
    BY <1>1, <1>2, MarkerIs
  <1>4. ~(n + 1 + 3 > Len(c) \/ n + 2 > Len(c))
    BY <1>1
  <1>5. from[n + 1] = SizeAt(c, n + 1, from)
    BY <1>1, SizeFromIs
  <1> HIDE DEF from
  <1>6. SizeAt(c, n + 1, from) =
            IF n + 1 + 3 > Len(c) \/ m > Len(c) THEN NoSize
            ELSE IF c[m] \in {TEM, 216, EOI} THEN from[m + 1]
            ELSE IF ~WholeSegment(c, m) THEN NoSize
            ELSE IF c[m] \notin Frames THEN from[SegmentEnd(c, m) + 1]
            ELSE IF SegmentEnd(c, m) < m + 7 THEN NoSize
            ELSE ValidSize(256 * c[m + 6] + c[m + 7], 256 * c[m + 4] + c[m + 5])
    BY DEF SizeAt
  <1> HIDE DEF m
  <1>7. ~(n + 1 + 3 > Len(c) \/ m > Len(c))
    BY <1>3, <1>4
  <1>8. /\ c[m] \in {TEM, 216, EOI} => from[n + 1] = from[m + 1]
        /\ c[m] \notin {TEM, 216, EOI} /\ ~WholeSegment(c, m) => from[n + 1] = NoSize
        /\ c[m] \notin {TEM, 216, EOI} /\ WholeSegment(c, m) /\ c[m] \notin Frames =>
               from[n + 1] = from[SegmentEnd(c, m) + 1]
        /\ c[m] \notin {TEM, 216, EOI} /\ WholeSegment(c, m) /\ c[m] \in Frames
           /\ ~(SegmentEnd(c, m) < m + 7) =>
               from[n + 1] = ValidSize(256 * c[m + 6] + c[m + 7], 256 * c[m + 4] + c[m + 5])
    BY <1>5, <1>6, <1>7, ZenonT(60)
  <1> QED BY <1>3, <1>8 DEF from, Decides

\* A marker that stands alone is passed,
LEMMA BarePassed ==
    ASSUME NEW c \in Seq(Nat), NEW n \in Nat, n + 4 <= Len(c), c[n + 1] = 255, c[n + 2] \in {TEM, EOI}
    PROVE  SizeFrom(c)[n + 1] = SizeFrom(c)[n + 3]
  <1>1. c[n + 2] # 255 /\ c[n + 2] \in {TEM, 216, EOI}
    BY DEF TEM, EOI
  <1>2. SizeFrom(c)[n + 1] = SizeFrom(c)[n + 2 + 1] /\ n + 2 + 1 = n + 3
    <2>1. Decides(c, n)
      BY <1>1, MarkerNext
    <2> QED BY <1>1, <2>1 DEF Decides
  <1> QED BY <1>2

\* Markers that the walk for the size takes for segments without one.
Others == {k \in Nat : k # 255 /\ k \notin {TEM, 216, EOI} /\ k \notin Frames}

\* and so is a segment that is no frame,
LEMMA SegmentPassed ==
    ASSUME NEW c \in Seq(Nat), NEW n \in Nat, NEW u, Counted(u), u[1] \in Others,
           Holds(c, n, << 255 >> \o u)
    PROVE  SizeFrom(c)[n + 1] = SizeFrom(c)[n + 1 + Len(u) + 1] /\ n + 1 + Len(u) <= Len(c)
  <1>1. c[n + 1] = 255 /\ Holds(c, n + 1, u) /\ u \in Seq(Nat) /\ Len(u) > 2 /\ Len(u) \in Nat
    <2> DEFINE f == <<255>>
    <2>1. f \in Seq(Nat) /\ Len(f) = 1 /\ f[1] = 255 /\ u \in Seq(Nat) /\ Len(u) > 2
      BY DEF Counted
    <2> HIDE DEF f
    <2>2. Holds(c, n, f) /\ Holds(c, n + Len(f), u)
      <3>1. Holds(c, n, f \o u)
        BY DEF f
      <3>2. \A s, t \in Seq(Nat) : Holds(c, n, s \o t) => Holds(c, n, s) /\ Holds(c, n + Len(s), t)
        BY HoldsParts
      <3>3. f \in Seq(Nat) /\ u \in Seq(Nat)
        BY <2>1
      <3> QED BY <3>1, <3>2, <3>3
    <2>3. c[n + 1] = f[1]
      <3>1. 1 \in Nat \ {0} /\ 1 <= Len(f)
        BY <2>1
      <3> QED BY <2>1, <2>2, <3>1, HoldsAt, SMTT(60)
    <2> QED BY <2>1, <2>2, <2>3
  <1>2. /\ n + 2 <= Len(c) /\ c[n + 2] = u[1] /\ WholeSegment(c, n + 2)
        /\ SegmentEnd(c, n + 2) = n + 1 + Len(u)
    <2>1. n + 2 \in Nat \ {0} /\ n + 2 - 1 = n + 1
      OBVIOUS
    <2> QED BY <1>1, <2>1, SegmentFound
  <1>3. n + 1 + Len(u) <= Len(c) /\ n + 4 <= Len(c)
    <2>1. n + 1 + Len(u) <= Len(c) /\ Len(c) \in Nat
      BY <1>1 DEF Holds
    <2> QED BY <1>1, <2>1
  <1>4. c[n + 2] # 255 /\ c[n + 2] \notin {TEM, 216, EOI} /\ c[n + 2] \notin Frames
    BY <1>2 DEF Others
  <1>5. SizeFrom(c)[n + 1] = SizeFrom(c)[SegmentEnd(c, n + 2) + 1]
    <2>0. n + 4 <= Len(c) /\ c[n + 1] = 255 /\ c[n + 2] # 255
      BY <1>1, <1>3, <1>4, Zenon
    <2>1. Decides(c, n)
      BY <2>0, MarkerNext
    <2> QED BY <1>2, <1>4, <2>1, Zenon DEF Decides
  <1> QED BY <1>2, <1>3, <1>5

\* but no segment of which the end is missing.
LEMMA TornUnread ==
    ASSUME NEW c \in Seq(Nat), NEW n \in Nat, n + 4 <= Len(c), c[n + 1] = 255,
           c[n + 2] # 255, c[n + 2] \notin {TEM, 216, EOI}, SegmentEnd(c, n + 2) > Len(c)
    PROVE  SizeFrom(c)[n + 1] = NoSize
  <1>1. ~WholeSegment(c, n + 2)
    <2>1. \A e : e > Len(c) => ~(e \in (n + 2 + 2)..Len(c))
      OBVIOUS
    <2> QED BY <2>1 DEF WholeSegment
  <1>2. Decides(c, n)
    BY MarkerNext
  <1> QED BY <1>1, <1>2 DEF Decides

\* What begins like two sequences joined begins like the first of them, and goes on like the
\* second.
LEMMA Beginnings ==
    ASSUME NEW k \in Seq(Nat), NEW s \in Seq(Nat), NEW c \in Seq(Nat)
    PROVE  /\ \A n \in Nat : Alike(k \o s, c, n) /\ n <= Len(k) => Alike(k, c, n)
           /\ Alike(k \o s, c, Len(k \o s)) => Alike(k, c, Len(k)) /\ Holds(c, Len(k), s)
           /\ Alike(c, k \o s, Len(c)) /\ Len(c) <= Len(k) => Alike(c, k, Len(c))
           /\ Alike(c, k \o s, Len(c)) /\ Len(c) > Len(k) =>
                  /\ Alike(k, c, Len(k)) /\ Len(c) <= Len(k) + Len(s)
                  /\ \A j \in 1..(Len(c) - Len(k)) : c[Len(k) + j] = s[j]
                  /\ Len(c) = Len(k) + Len(s) => Holds(c, Len(k), s)
  <1> DEFINE x == k \o s  l == Len(k)  m == Len(s)  z == Len(c)
  <1>1. x \in Seq(Nat) /\ Len(x) = l + m /\ l \in Nat /\ m \in Nat /\ z \in Nat
    BY After
  <1>2. (\A j \in 1..l : x[j] = k[j]) /\ (\A j \in 1..m : x[l + j] = s[j])
    <2>1. Alike(k, x, l) /\ \A j \in 1..m : x[l + j] = s[j]
      BY After
    <2> QED BY <2>1 DEF Alike
  <1> HIDE DEF x
  <1>3. ASSUME NEW n \in Nat, Alike(x, c, n), n <= l PROVE Alike(k, c, n)
    <2> HIDE DEF l, z
    <2>1. n <= z /\ \A j \in 1..n : x[j] = c[j]
      BY <1>3 DEF Alike, z
    <2>2. \A j \in 1..n : j \in 1..l
      BY <1>1, <1>3
    <2>3. \A j \in 1..n : k[j] = c[j]
      BY <1>2, <2>1, <2>2, Zenon
    <2> QED BY <1>3, <2>1, <2>3 DEF Alike, l, z
  <1>4. ASSUME Alike(x, c, Len(x)) PROVE Holds(c, l, s)
    <2> HIDE DEF l, m, z
    <2>1. l + m <= z /\ \A j \in 1..(l + m) : x[j] = c[j]
      BY <1>1, <1>4 DEF Alike, z
    <2>2. \A j \in 1..m : l + j \in 1..(l + m)
      BY <1>1
    <2>3. \A j \in 1..m : c[l + j] = s[j]
      BY <1>2, <2>1, <2>2, Zenon
    <2> QED BY <2>1, <2>3 DEF Holds, m, z
  <1>5. Alike(x, c, Len(x)) => Alike(k, c, l)
    <2>1. ASSUME Alike(x, c, Len(x)) PROVE Alike(x, c, l)
      <3> HIDE DEF l, m, z
      <3>1. l + m <= z /\ \A j \in 1..(l + m) : x[j] = c[j]
        BY <1>1, <2>1 DEF Alike, z
      <3>2. l <= l + m /\ l <= z /\ \A j \in 1..l : j \in 1..(l + m)
        BY <1>1, <3>1
      <3> QED BY <1>1, <3>1, <3>2 DEF Alike, z
    <2> QED BY <1>1, <1>3, <2>1
  <1>6. ASSUME Alike(c, x, z), z <= l PROVE Alike(c, k, z)
    <2> HIDE DEF l, z
    <2>1. \A j \in 1..z : c[j] = x[j] /\ j \in 1..l
      BY <1>1, <1>6 DEF Alike
    <2>2. \A j \in 1..z : c[j] = k[j]
      BY <1>2, <2>1, Zenon
    <2>3. z <= z
      BY <1>1
    <2> QED BY <1>6, <2>2, <2>3 DEF Alike, l, z
  <1>7. ASSUME Alike(c, x, z), z > l
        PROVE  /\ Alike(k, c, l) /\ z <= l + m /\ \A j \in 1..(z - l) : c[l + j] = s[j]
               /\ z = l + m => Holds(c, l, s)
    <2> HIDE DEF l, m, z
    <2>1. z <= l + m /\ \A j \in 1..z : c[j] = x[j]
      BY <1>1, <1>7 DEF Alike
    <2>2. (\A j \in 1..l : j \in 1..z) /\ l <= z /\ l <= l
      BY <1>1, <1>7
    <2>3. \A j \in 1..l : k[j] = c[j]
      BY <1>2, <2>1, <2>2, Zenon
    <2>4. Alike(k, c, l)
      BY <2>2, <2>3 DEF Alike, l, z
    <2>5. \A j \in 1..(z - l) : l + j \in 1..z /\ j \in 1..m
      BY <1>1, <1>7, <2>1
    <2>6. \A j \in 1..(z - l) : c[l + j] = s[j]
      BY <1>2, <2>1, <2>5, Zenon
    <2>7. ASSUME z = l + m PROVE Holds(c, l, s)
      <3>1. l + m <= z /\ \A j \in 1..m : j \in 1..(z - l)
        BY <1>1, <2>7
      <3> QED BY <2>6, <3>1 DEF Holds, m, z
    <2> QED BY <2>1, <2>4, <2>6, <2>7
  <1> QED BY <1>3, <1>4, <1>5, <1>6, <1>7 DEF x

\* In k is no frame: a file that k begins with has no size, and in one that begins with k
\* the walk gets behind k, or ends there.
NoFrame(k) == \A c \in Seq(Nat) : Len(c) >= 2 =>
    /\ Alike(c, k, Len(c)) => JpegSize(c) = NoSize
    /\ Alike(k, c, Len(k)) => \/ JpegSize(c) = SizeFrom(c)[Len(k) + 1]
                              \/ JpegSize(c) = NoSize /\ Len(c) < Len(k) + 3

\* So is none in k and another piece that the walk passes, or ends in if it is not whole.
LEMMA NoFrameOn ==
    ASSUME NEW k \in Seq(Nat), NEW s \in Seq(Nat), NoFrame(k), Len(k) >= 2,
           \A c \in Seq(Nat) : Holds(c, Len(k), s) =>
               \/ SizeFrom(c)[Len(k) + 1] = SizeFrom(c)[Len(k) + Len(s) + 1]
               \/ SizeFrom(c)[Len(k) + 1] = NoSize /\ Len(c) < Len(k) + Len(s) + 3,
           \A c \in Seq(Nat) :
               /\ Len(c) > Len(k) /\ Len(c) < Len(k) + Len(s)
               /\ \A j \in 1..(Len(c) - Len(k)) : c[Len(k) + j] = s[j]
               => SizeFrom(c)[Len(k) + 1] = NoSize
    PROVE  NoFrame(k \o s)
  <1> SUFFICES ASSUME NEW c \in Seq(Nat), Len(c) >= 2
               PROVE  /\ Alike(c, k \o s, Len(c)) => JpegSize(c) = NoSize
                      /\ Alike(k \o s, c, Len(k \o s)) =>
                             \/ JpegSize(c) = SizeFrom(c)[Len(k \o s) + 1]
                             \/ JpegSize(c) = NoSize /\ Len(c) < Len(k \o s) + 3
    BY DEF NoFrame
  <1> DEFINE x == k \o s  l == Len(k)  m == Len(s)  z == Len(c)
  <1>1. x \in Seq(Nat) /\ Len(x) = l + m /\ l \in Nat /\ m \in Nat /\ z \in Nat
    BY After
  <1>2. /\ Alike(c, k, z) => JpegSize(c) = NoSize
        /\ Alike(k, c, l) => \/ JpegSize(c) = SizeFrom(c)[l + 1]
                             \/ JpegSize(c) = NoSize /\ z < l + 3
    BY DEF NoFrame
  <1>3. /\ Holds(c, l, s) => \/ SizeFrom(c)[l + 1] = SizeFrom(c)[l + m + 1]
                             \/ SizeFrom(c)[l + 1] = NoSize /\ z < l + m + 3
        /\ z > l /\ z < l + m /\ (\A j \in 1..(z - l) : c[l + j] = s[j]) => SizeFrom(c)[l + 1] = NoSize
    OBVIOUS
  <1>4. /\ Alike(x, c, Len(x)) => Alike(k, c, l) /\ Holds(c, l, s)
        /\ Alike(c, x, z) /\ z <= l => Alike(c, k, z)
        /\ Alike(c, x, z) /\ z > l =>
               /\ Alike(k, c, l) /\ z <= l + m /\ \A j \in 1..(z - l) : c[l + j] = s[j]
               /\ z = l + m => Holds(c, l, s)
    BY Beginnings
  <1>5. z = l + m => SizeFrom(c)[l + m + 1] = NoSize
    <2>1. ASSUME z = l + m PROVE l + m + 1 \in 1..(z + 1) /\ l + m + 1 + 3 > z
      BY <1>1, <2>1
    <2> QED BY <2>1, NothingLeft
  <1> HIDE DEF x, l, m, z
  <1>6. ASSUME Alike(c, x, z) PROVE JpegSize(c) = NoSize
    <2>1. CASE z <= l
      BY <1>2, <1>4, <1>6, <2>1
    <2>2. CASE z > l
      <3>1. /\ Alike(k, c, l) /\ z <= l + m /\ \A j \in 1..(z - l) : c[l + j] = s[j]
            /\ z = l + m => Holds(c, l, s)
        BY <1>4, <1>6, <2>2
      <3>2. CASE z < l + m
        BY <1>2, <1>3, <2>2, <3>1, <3>2, Zenon
      <3>3. CASE z = l + m
        <4>1. Holds(c, l, s) /\ SizeFrom(c)[l + m + 1] = NoSize
          BY <1>5, <3>1, <3>3
        <4>2. SizeFrom(c)[l + 1] = NoSize
          BY <1>3, <4>1, Zenon
        <4> QED BY <1>2, <3>1, <4>2, Zenon
      <3> QED BY <1>1, <3>1, <3>2, <3>3
    <2> QED BY <1>1, <2>1, <2>2
  <1>7. ASSUME Alike(x, c, Len(x))
        PROVE  \/ JpegSize(c) = SizeFrom(c)[Len(x) + 1]
               \/ JpegSize(c) = NoSize /\ z < Len(x) + 3
    <2>1. Alike(k, c, l) /\ Holds(c, l, s)
      BY <1>4, <1>7, Zenon
    <2>2. z < l + 3 => z < l + m + 3
      BY <1>1
    <2>3. \/ JpegSize(c) = SizeFrom(c)[l + m + 1]
          \/ JpegSize(c) = NoSize /\ z < l + m + 3
      BY <1>2, <1>3, <2>1, <2>2, Zenon
    <2> QED BY <1>1, <2>3
  <1> QED BY <1>6, <1>7 DEF x, z

\* A segment that is no frame,
LEMMA NoFrameSegment ==
    ASSUME NEW k \in Seq(Nat), NoFrame(k), Len(k) >= 2, NEW u, Counted(u), u[1] \in Others
    PROVE  NoFrame(k \o (<< 255 >> \o u))
  <1> DEFINE f == <<255>>  s == f \o u  l == Len(k)
  <1>1. /\ l \in Nat /\ f \in Seq(Nat) /\ Len(f) = 1 /\ f[1] = 255
        /\ u \in Seq(Nat) /\ Len(u) > 2 /\ Len(u) \in Nat /\ u[2] = 0 /\ u[3] = Len(u) - 1
    BY SMTT(60) DEF Counted
  <1>2. s \in Seq(Nat) /\ Len(s) = 1 + Len(u) /\ s[1] = 255 /\ \A j \in 1..Len(u) : s[1 + j] = u[j]
    <2>0. f \in Seq(Nat) /\ u \in Seq(Nat)
      BY <1>1
    <2> HIDE DEF f
    <2>1. /\ s \in Seq(Nat) /\ Len(s) = Len(f) + Len(u) /\ Alike(f, s, Len(f))
          /\ \A j \in 1..Len(u) : s[Len(f) + j] = u[j]
      BY <2>0, After
    <2> HIDE DEF s
    <2>2. 1 \in 1..Len(f)
      BY <1>1
    <2>3. s[1] = f[1]
      BY <2>1, <2>2 DEF Alike
    <2> QED BY <1>1, <2>1, <2>3
  <1>3. ASSUME NEW c \in Seq(Nat), Holds(c, l, s)
        PROVE  SizeFrom(c)[l + 1] = SizeFrom(c)[l + Len(s) + 1]
    <2>1. SizeFrom(c)[l + 1] = SizeFrom(c)[l + 1 + Len(u) + 1]
      BY <1>1, <1>3, SegmentPassed, SMTT(60)
    <2> HIDE DEF f, s
    <2>2. l + 1 + Len(u) + 1 = l + Len(s) + 1
      BY <1>1, <1>2
    <2> QED BY <2>1, <2>2
  <1>4. ASSUME NEW c \in Seq(Nat), Len(c) > l, Len(c) < l + Len(s),
               \A j \in 1..(Len(c) - l) : c[l + j] = s[j]
        PROVE  SizeFrom(c)[l + 1] = NoSize
    <2> HIDE DEF f, s, l
    <2>1. Len(c) \in Nat
      OBVIOUS
    <2>2. CASE Len(c) < l + 4
      <3>1. l + 1 \in 1..(Len(c) + 1) /\ l + 1 + 3 > Len(c)
        BY <1>1, <1>4, <2>1, <2>2
      <3> QED BY <3>1, NothingLeft
    <2>3. CASE l + 4 <= Len(c)
      <3>1. 1 \in 1..(Len(c) - l) /\ 2 \in 1..(Len(c) - l) /\ 3 \in 1..(Len(c) - l) /\ 4 \in 1..(Len(c) - l)
        <4>1. Len(c) \in Nat /\ l \in Nat
          BY <1>1, <2>1
        <4> DEFINE z == Len(c)
        <4> HIDE DEF z
        <4>3. 1 \in 1..(z - l) /\ 2 \in 1..(z - l) /\ 3 \in 1..(z - l) /\ 4 \in 1..(z - l)
          BY <2>3, <4>1 DEF z
        <4> QED BY <4>3 DEF z
      <3>2. c[l + 1] = s[1] /\ c[l + 2] = s[2] /\ c[l + 3] = s[3] /\ c[l + 4] = s[4]
        BY <1>4, <3>1
      <3>3. s[1 + 1] = u[1] /\ s[1 + 2] = u[2] /\ s[1 + 3] = u[3]
        <4>1. 1 \in 1..Len(u) /\ 2 \in 1..Len(u) /\ 3 \in 1..Len(u)
          BY <1>1, SMTT(60)
        <4> QED BY <1>2, <4>1
      <3>4. c[l + 1] = 255 /\ c[l + 2] = u[1] /\ c[l + 3] = 0 /\ c[l + 4] = Len(u) - 1
        BY <1>1, <1>2, <3>2, <3>3
      <3>5. SegmentEnd(c, l + 2) > Len(c)
        <4>1. l + 2 + 1 = l + 3 /\ l + 2 + 2 = l + 4
          BY <1>1
        <4>2. SegmentEnd(c, l + 2) = l + 2 + 256 * 0 + (Len(u) - 1)
          BY <3>4, <4>1 DEF SegmentEnd
        <4>3. l + 2 + 256 * 0 + (Len(u) - 1) = l + Len(s)
          BY <1>1, <1>2
        <4> QED BY <1>4, <4>2, <4>3
      <3>6. c[l + 2] # 255 /\ c[l + 2] \notin {TEM, 216, EOI}
        BY <3>4 DEF Others
      <3>7. l \in Nat /\ c[l + 1] = 255
        BY <1>1, <3>4
      <3> QED BY <2>3, <3>5, <3>6, <3>7, TornUnread, SMTT(60)
    <2> QED BY <1>1, <2>1, <2>2, <2>3
  <1> HIDE DEF s
  <1>5. NoFrame(k \o s)
    BY <1>2, <1>3, <1>4, NoFrameOn
  <1> QED BY <1>5 DEF s

\* or a marker that stands alone.
LEMMA NoFrameBare ==
    ASSUME NEW k \in Seq(Nat), NoFrame(k), Len(k) >= 2
    PROVE  NoFrame(k \o <<255, TEM>>)
  <1> DEFINE s == <<255, TEM>>  l == Len(k)
  <1>1. l \in Nat /\ s \in Seq(Nat) /\ Len(s) = 2 /\ s[1] = 255 /\ s[2] = TEM
    BY DEF TEM
  <1> HIDE DEF s
  <1>2. ASSUME NEW c \in Seq(Nat), Holds(c, l, s)
        PROVE  \/ SizeFrom(c)[l + 1] = SizeFrom(c)[l + Len(s) + 1]
               \/ SizeFrom(c)[l + 1] = NoSize /\ Len(c) < l + Len(s) + 3
    <2>1. \A j \in Nat \ {0} : j <= Len(s) => c[l + j] = s[j]
      <3>1. s \in Seq(Nat) /\ l \in Nat
        BY <1>1
      <3> HIDE DEF l
      <3> QED BY <1>2, <3>1, HoldsAt
    <2>2. 1 <= Len(s) /\ 2 <= Len(s) /\ 1 \in Nat \ {0} /\ 2 \in Nat \ {0}
      BY <1>1
    <2>3. c[l + 1] = 255 /\ c[l + 2] = TEM
      BY <1>1, <2>1, <2>2
    <2>4. l + 2 <= Len(c) /\ Len(c) \in Nat
      BY <1>1, <1>2 DEF Holds
    <2> HIDE DEF l
    <2>5. CASE l + 4 <= Len(c)
      <3>1. SizeFrom(c)[l + 1] = SizeFrom(c)[l + 3]
        BY <1>1, <2>3, <2>5, BarePassed
      <3>2. l + Len(s) + 1 = l + 3
        BY <1>1
      <3> QED BY <3>1, <3>2
    <2>6. CASE Len(c) < l + 4
      <3>1. l + 1 \in 1..(Len(c) + 1) /\ l + 1 + 3 > Len(c) /\ Len(c) < l + Len(s) + 3
        BY <1>1, <2>4, <2>6
      <3> QED BY <3>1, NothingLeft
    <2> QED BY <1>1, <2>4, <2>5, <2>6
  <1>3. ASSUME NEW c \in Seq(Nat), Len(c) > l, Len(c) < l + Len(s)
        PROVE  SizeFrom(c)[l + 1] = NoSize
    <2>1. Len(c) \in Nat
      OBVIOUS
    <2>2. l + 1 \in 1..(Len(c) + 1) /\ l + 1 + 3 > Len(c)
      BY <1>1, <1>3, <2>1
    <2> QED BY <2>2, NothingLeft
  <1>4. NoFrame(k \o s)
    BY <1>1, <1>2, <1>3, NoFrameOn
  <1> QED BY <1>4 DEF s

\* A signature has no frame.
LEMMA NoFrameYet == NoFrame(Signature["jpeg"])
  <1> DEFINE k == <<255, 216>>
  <1>1. k \in Seq(Nat) /\ Len(k) = 2
    OBVIOUS
  <1> HIDE DEF k
  <1>2. ASSUME NEW c \in Seq(Nat), Len(c) >= 2
        PROVE  /\ Alike(c, k, Len(c)) => JpegSize(c) = NoSize
               /\ Alike(k, c, Len(k)) => JpegSize(c) = SizeFrom(c)[Len(k) + 1]
    <2>1. JpegSize(c) = SizeFrom(c)[3] /\ Len(k) + 1 = 3
      BY <1>1 DEF JpegSize
    <2>2. ASSUME Alike(c, k, Len(c)) PROVE SizeFrom(c)[3] = NoSize
      <3>1. Len(c) <= 2 /\ Len(c) \in Nat
        BY <1>1, <2>2 DEF Alike
      <3>2. 3 \in 1..(Len(c) + 1) /\ 3 + 3 > Len(c)
        BY <1>2, <3>1
      <3> QED BY <3>2, NothingLeft
    <2> QED BY <2>1, <2>2
  <1>3. NoFrame(k)
    BY <1>2 DEF NoFrame
  <1> QED BY <1>3 DEF k, Signature

\* The frame of an image so wide and so high.
Frame(w, h) == Segment(192, <<8, 0, h, 0, w>>)
\* It is read for the size it has.
LEMMA FrameRead ==
    ASSUME NEW c \in Seq(Nat), NEW n \in Nat, NEW w \in {16, 32}, NEW h \in {16, 32},
           Holds(c, n, Frame(w, h))
    PROVE  SizeFrom(c)[n + 1] = <<w, h>>
  <1> DEFINE p == <<8, 0, h, 0, w>>  m == n + 2  s == Frame(w, h)
  <1>1. /\ Len(s) = 9 /\ s \in Seq(Nat)
        /\ s[1] = 255 /\ s[2] = 192 /\ s[3] = 0 /\ s[4] = 7
        /\ s[5] = 8 /\ s[6] = 0 /\ s[7] = h /\ s[8] = 0 /\ s[9] = w
    <2> DEFINE a == <<255, 192, 0, 7>>
    <2>1. /\ a \in Seq(Nat) /\ Len(a) = 4 /\ a[1] = 255 /\ a[2] = 192 /\ a[3] = 0 /\ a[4] = 7
          /\ p \in Seq(Nat) /\ Len(p) = 5 /\ p[1] = 8 /\ p[2] = 0 /\ p[3] = h /\ p[4] = 0 /\ p[5] = w
      OBVIOUS
    <2>2. s = a \o p
      BY <2>1 DEF Segment, Frame
    <2> HIDE DEF a, p, s
    <2>0. a \in Seq(Nat) /\ p \in Seq(Nat)
      BY <2>1
    <2> DEFINE y == a \o p
    <2>3. /\ y \in Seq(Nat) /\ Len(y) = Len(a) + Len(p) /\ Alike(a, y, Len(a))
          /\ \A k \in 1..Len(p) : y[Len(a) + k] = p[k]
      BY <2>0, After
    <2> HIDE DEF y
    <2>4. y \in Seq(Nat) /\ Len(y) = 9 /\ \A j \in 1..4 : a[j] = y[j]
      <3>1. \A j \in 1..Len(a) : a[j] = y[j]
        BY <2>3 DEF Alike
      <3> QED BY <2>1, <2>3, <3>1
    <2>5. \A k \in 1..5 : y[4 + k] = p[k]
      <3> DEFINE l == Len(a)  z == Len(p)
      <3>1. l = 4 /\ z = 5 /\ \A k \in 1..z : y[l + k] = p[k]
        BY <2>1, <2>3
      <3> HIDE DEF l, z
      <3> QED BY <3>1
    <2>6. y[1] = a[1] /\ y[2] = a[2] /\ y[3] = a[3] /\ y[4] = a[4]
      BY <2>4
    <2>7. y[4 + 1] = p[1] /\ y[4 + 2] = p[2] /\ y[4 + 3] = p[3] /\ y[4 + 4] = p[4] /\ y[4 + 5] = p[5]
      <3>1. 1 \in 1..5 /\ 2 \in 1..5 /\ 3 \in 1..5 /\ 4 \in 1..5 /\ 5 \in 1..5
        OBVIOUS
      <3> QED BY <2>5, <3>1, Zenon
    <2>8. y[5] = p[1] /\ y[6] = p[2] /\ y[7] = p[3] /\ y[8] = p[4] /\ y[9] = p[5]
      BY <2>7
    <2>9. s = y
      BY <2>2 DEF y
    <2> QED BY <2>1, <2>4, <2>6, <2>8, <2>9
  <1>0. Holds(c, n, s)
    OBVIOUS
  <1> HIDE DEF s
  <1>2. \A j \in Nat \ {0} : j <= Len(s) => c[n + j] = s[j]
    <2>1. s \in Seq(Nat) /\ Holds(c, n, s)
      BY <1>0, <1>1
    <2> QED BY <2>1, HoldsAt
  <1>3. n + 9 <= Len(c) /\ Len(c) \in Nat /\ Len(s) = 9
    <2>1. n + Len(s) <= Len(c)
      BY <1>0 DEF Holds
    <2> QED BY <1>1, <2>1
  <1> HIDE DEF p
  <1>4. /\ c[n + 1] = 255 /\ c[n + 2] = 192 /\ c[n + 3] = 0 /\ c[n + 4] = 7
        /\ c[n + 6] = 0 /\ c[n + 7] = h /\ c[n + 8] = 0 /\ c[n + 9] = w
    <2>1. \A j \in {1, 2, 3, 4, 6, 7, 8, 9} : j \in Nat \ {0} /\ j <= Len(s)
      BY <1>3
    <2>2. \A j \in {1, 2, 3, 4, 6, 7, 8, 9} : c[n + j] = s[j]
      BY <1>2, <2>1, Zenon
    <2> QED BY <1>1, <2>2
  <1>5. m + 1 = n + 3 /\ m + 2 = n + 4 /\ m + 4 = n + 6 /\ m + 5 = n + 7 /\ m + 6 = n + 8 /\ m + 7 = n + 9
    OBVIOUS
  <1> HIDE DEF m
  <1>6. c[m] = 192 /\ 256 * c[m + 6] + c[m + 7] = w /\ 256 * c[m + 4] + c[m + 5] = h
    <2>1. c[m] = 192
      BY <1>4 DEF m
    <2>2. c[m + 6] = 0 /\ c[m + 7] = w /\ c[m + 4] = 0 /\ c[m + 5] = h
      BY <1>4, <1>5
    <2> QED BY <2>1, <2>2
  <1>7. SegmentEnd(c, m) = m + 7 /\ m \in Nat /\ m + 2 <= Len(c) /\ m + 7 <= Len(c)
    <2>1. m \in Nat /\ m + 2 <= Len(c) /\ m + 7 <= Len(c)
      BY <1>3 DEF m
    <2>2. SegmentEnd(c, m) = m + 256 * 0 + 7
      <3>1. c[m + 1] = 0 /\ c[m + 2] = 7
        BY <1>4, <1>5
      <3> QED BY <3>1 DEF SegmentEnd
    <2> QED BY <2>1, <2>2
  <1>8. WholeSegment(c, m) /\ ~(SegmentEnd(c, m) < m + 7)
    BY <1>3, <1>7 DEF WholeSegment
  <1>9. c[m] \notin {TEM, 216, EOI} /\ c[m] \in Frames /\ c[m] # 255
    BY <1>6 DEF TEM, EOI, Frames
  <1>10. SizeFrom(c)[n + 1] = ValidSize(256 * c[m + 6] + c[m + 7], 256 * c[m + 4] + c[m + 5])
    <2>1. n + 4 <= Len(c) /\ c[n + 1] = 255 /\ c[n + 2] # 255
      BY <1>3, <1>4
    <2>2. Decides(c, n)
      <3> HIDE DEF m, p
      <3> QED BY <2>1, MarkerNext
    <2> QED BY <1>8, <1>9, <2>2, Zenon DEF m, Decides
  <1>11. ValidSize(w, h) = <<w, h>>
    BY DEF ValidSize
  <1> QED BY <1>6, <1>10, <1>11

\* From any file that begins like k up to at, the size is read.
Readable(format, k, at, size) ==
    at <= Len(k) /\ \A c \in Seq(Nat) : Len(c) >= 2 /\ Alike(k, c, at) =>
                        (IF format = "png" THEN PngSize(c) ELSE JpegSize(c)) = size

\* What comes later does not matter.
LEMMA ReadableOn ==
    ASSUME NEW format, NEW k \in Seq(Nat), NEW s \in Seq(Nat), NEW at \in Nat, NEW size,
           Readable(format, k, at, size)
    PROVE  Readable(format, k \o s, at, size)
  <1>1. Len(k \o s) = Len(k) + Len(s) /\ Len(k) \in Nat /\ Len(s) \in Nat /\ at <= Len(k)
    BY After DEF Readable
  <1>2. at <= Len(k \o s)
    BY <1>1
  <1>3. \A c \in Seq(Nat) : Alike(k \o s, c, at) => Alike(k, c, at)
    BY <1>1, Beginnings
  <1> QED BY <1>2, <1>3, Zenon DEF Readable

\* A frame makes the size of a JPEG readable,
LEMMA FrameReadable ==
    ASSUME NEW k \in Seq(Nat), NoFrame(k), Len(k) >= 2, NEW w \in {16, 32}, NEW h \in {16, 32}
    PROVE  Readable("jpeg", k \o Frame(w, h), Len(k) + 9, <<w, h>>)
  <1> DEFINE s == Frame(w, h)  x == k \o s
  <1>1. s \in Seq(Nat) /\ Len(s) = 9
    <2> DEFINE a == <<255, 192, 0, 7>>  p == <<8, 0, h, 0, w>>
    <2>1. a \in Seq(Nat) /\ Len(a) = 4 /\ p \in Seq(Nat) /\ Len(p) = 5
      OBVIOUS
    <2>2. s = a \o p
      BY <2>1, SMTT(60) DEF Segment, Frame
    <2> HIDE DEF a, p, s
    <2>3. a \in Seq(Nat) /\ p \in Seq(Nat)
      BY <2>1
    <2>4. a \o p \in Seq(Nat) /\ Len(a \o p) = Len(a) + Len(p)
      BY <2>3, After
    <2> QED BY <2>1, <2>2, <2>4
  <1>2. ASSUME NEW c \in Seq(Nat), NEW n \in Nat, Holds(c, n, s)
        PROVE  SizeFrom(c)[n + 1] = <<w, h>>
    BY <1>2, FrameRead
  <1> HIDE DEF s
  <1>3. Len(x) = Len(k) + 9 /\ Len(k) \in Nat
    <2>1. s \in Seq(Nat)
      BY <1>1
    <2>2. Len(k \o s) = Len(k) + Len(s) /\ Len(k) \in Nat
      BY <2>1, After
    <2> QED BY <1>1, <2>2
  <1>4. ASSUME NEW c \in Seq(Nat), Len(c) >= 2, Alike(x, c, Len(x)) PROVE JpegSize(c) = <<w, h>>
    <2>1. Alike(k, c, Len(k)) /\ Holds(c, Len(k), s)
      BY <1>1, <1>4, Beginnings
    <2>2. SizeFrom(c)[Len(k) + 1] = <<w, h>>
      BY <1>2, <1>3, <2>1
    <2>3. Len(k) + 9 <= Len(c) /\ Len(c) \in Nat
      BY <1>1, <1>3, <2>1 DEF Holds
    <2>4. ~(Len(c) < Len(k) + 3)
      BY <1>3, <2>3
    <2>5. \/ JpegSize(c) = SizeFrom(c)[Len(k) + 1]
          \/ JpegSize(c) = NoSize /\ Len(c) < Len(k) + 3
      BY <1>4, <2>1 DEF NoFrame
    <2> QED BY <2>2, <2>4, <2>5
  <1>5. Len(x) <= Len(x)
    BY <1>3
  <1> HIDE DEF x
  <1>6. Readable("jpeg", x, Len(x), <<w, h>>)
    BY <1>4, <1>5 DEF Readable
  <1> QED BY <1>3, <1>6 DEF s, x

\* and a header that of a PNG.
LEMMA HeaderReadable ==
    ASSUME NEW w \in {16, 32}, NEW h \in {16, 32}
    PROVE  Readable("png", Signature["png"] \o Chunk(IHDR, <<0, 0, 0, w, 0, 0, 0, h>>), 24, <<w, h>>)
  <1> DEFINE g == Signature["png"]  p == <<0, 0, 0, w, 0, 0, 0, h>>  s == Chunk(IHDR, p)  x == g \o s
  <1>1. g \in Seq(Nat) /\ Len(g) = 8 /\ p \in Seq(Nat) /\ Len(p) = 8 /\ p[3] = 0 /\ p[4] = w /\ p[7] = 0 /\ p[8] = h
    BY DEF Signature
  <1>2. IHDR \in Seq(Nat) /\ Len(IHDR) = 4
    BY Types
  <1> HIDE DEF g, p
  <1>3. /\ s \in Seq(Nat) /\ Len(s) = 20 /\ \A b \in Seq(Nat), n \in Nat : Holds(b, n, s) => Holds(b, n + 4, IHDR)
    <2>1. /\ s \in Seq(Nat) /\ Len(s) = 12 + Len(p)
          /\ \A b \in Seq(Nat), n \in Nat : Holds(b, n, s) => Holds(b, n + 4, IHDR)
      BY <1>1, <1>2, ChunkIs
    <2> HIDE DEF s
    <2> QED BY <1>1, <2>1
  <1>4. \A b \in Seq(Nat), n \in Nat : Holds(b, n, s) => Holds(b, n + 8, p)
    <2> SUFFICES ASSUME NEW b \in Seq(Nat), NEW n \in Nat, Holds(b, n, s) PROVE Holds(b, n + 8, p)
      OBVIOUS
    <2> DEFINE o == <<0, 0, 0, Len(p)>>  z == <<0, 0, 0, 0>>
    <2>1. o \in Seq(Nat) /\ z \in Seq(Nat) /\ Len(o) = 4 /\ s = ((o \o IHDR) \o p) \o z
      BY <1>1, <1>2 DEF Chunk
    <2> HIDE DEF o, z, s
    <2>0. o \in Seq(Nat) /\ z \in Seq(Nat) /\ IHDR \in Seq(Nat) /\ p \in Seq(Nat)
      BY <1>1, <1>2, <2>1
    <2> DEFINE t == o \o IHDR
    <2>5. t \in Seq(Nat) /\ Len(t) = Len(o) + Len(IHDR)
      BY <2>0, After
    <2> HIDE DEF t
    <2>2. Len(t) = 8 /\ t \o p \in Seq(Nat)
      BY <1>2, <2>0, <2>1, <2>5, After
    <2> DEFINE v == t \o p
    <2>6. Holds(b, n, v \o z) /\ v \in Seq(Nat)
      BY <2>1, <2>2 DEF t
    <2> HIDE DEF v
    <2>3. Holds(b, n, v)
      BY <2>0, <2>6, HoldsParts
    <2>7. Holds(b, n, t \o p)
      BY <2>3 DEF v
    <2>4. Holds(b, n + Len(t), p)
      BY <2>0, <2>5, <2>7, HoldsParts
    <2> QED BY <2>2, <2>4
  <1> HIDE DEF s
  <1>5. x \in Seq(Nat) /\ Len(x) = 28 /\ Holds(x, 8, s)
    <2>1. g \in Seq(Nat) /\ s \in Seq(Nat)
      BY <1>1, <1>3
    <2>2. Holds(g \o s, Len(g), s) /\ g \o s \in Seq(Nat) /\ Len(g \o s) = Len(g) + Len(s)
      BY <2>1, After, HoldsAfter
    <2> QED BY <1>1, <1>3, <2>2
  <1> HIDE DEF x
  <1>6. Holds(x, 12, IHDR) /\ Holds(x, 16, p)
    <2>1. Holds(x, 8 + 4, IHDR) /\ Holds(x, 8 + 8, p)
      BY <1>3, <1>4, <1>5
    <2> QED BY <2>1
  <1>7. /\ SubSeq(x, 13, 16) = IHDR
        /\ x[19] = 0 /\ x[20] = w /\ x[23] = 0 /\ x[24] = h
    <2>1. SubSeq(x, 12 + 1, 12 + Len(IHDR)) = IHDR
      BY <1>2, <1>5, <1>6, HoldsBetween
    <2>2. \A j \in Nat \ {0} : j <= Len(p) => x[16 + j] = p[j]
      <3>1. p \in Seq(Nat) /\ 16 \in Nat /\ Holds(x, 16, p)
        BY <1>1, <1>6
      <3> QED BY <3>1, HoldsAt
    <2>3. x[16 + 3] = p[3] /\ x[16 + 4] = p[4] /\ x[16 + 7] = p[7] /\ x[16 + 8] = p[8]
      BY <1>1, <2>2
    <2> QED BY <1>1, <1>2, <2>1, <2>3
  <1>8. ASSUME NEW c \in Seq(Nat), Alike(x, c, 24) PROVE PngSize(c) = <<w, h>>
    <2>1. Len(c) \in Nat /\ 24 <= Len(c)
      BY <1>8 DEF Alike
    <2>2. \A j \in 1..24 : c[j] = x[j]
      BY <1>8 DEF Alike
    <2>3. SubSeq(c, 13, 16) = IHDR
      <3>0. \A k \in 13..16 : k \in 1..24
        OBVIOUS
      <3>1. \A k \in 13..16 : x[k] = c[k]
        BY <2>2, <3>0, Zenon
      <3>2. SubSeq(x, 13, 16) = SubSeq(c, 13, 16)
        BY <1>5, <2>1, <3>1, SameSubSeq
      <3> QED BY <1>7, <3>2
    <2>4. c[19] = 0 /\ c[20] = w /\ c[23] = 0 /\ c[24] = h
      <3>1. 19 \in 1..24 /\ 20 \in 1..24 /\ 23 \in 1..24 /\ 24 \in 1..24
        OBVIOUS
      <3>2. c[19] = x[19] /\ c[20] = x[20] /\ c[23] = x[23] /\ c[24] = x[24]
        BY <2>2, <3>1, Zenon
      <3> QED BY <1>7, <3>2
    <2>5. ~(Len(c) < 24) /\ 256 * c[19] + c[20] = w /\ 256 * c[23] + c[24] = h
      BY <2>1, <2>4
    <2>6. PngSize(c) = ValidSize(w, h)
      BY <2>3, <2>5 DEF PngSize
    <2> QED BY <2>6 DEF ValidSize
  <1>9. Readable("png", x, 24, <<w, h>>)
    BY <1>5, <1>8 DEF Readable
  <1> QED BY <1>9 DEF x, s, p, g

\* The first bytes of a file are a file that begins like it.
LEMMA StartIs ==
    ASSUME NEW b \in Seq(Nat), NEW n \in Nat
    PROVE  /\ Start(b, n) \in Seq(Nat) /\ Alike(Start(b, n), b, Len(Start(b, n)))
           /\ Len(Start(b, n)) = IF n < Len(b) THEN n ELSE Len(b)
           /\ \A q \in Nat : q <= n /\ q <= Len(b) => Alike(b, Start(b, n), q)
  <1> DEFINE l == Len(b)  z == IF n < l THEN n ELSE l  c == SubSeq(b, 1, z)
  <1>1. l \in Nat /\ \A i \in 1..l : b[i] \in Nat
    OBVIOUS
  <1> HIDE DEF l
  <1>2. z \in Nat /\ z <= l
    BY <1>1
  <1>3. \A q \in Nat : q <= n /\ q <= l => q <= z
    OBVIOUS
  <1> HIDE DEF z
  <1>4. c \in Seq(Nat) /\ Len(c) = z /\ \A i \in 1..z : c[i] = b[i]
    <2>1. \A i \in 1..z : b[i] \in Nat
      <3>1. \A i \in 1..z : i \in 1..l
        BY <1>1, <1>2
      <3> QED BY <1>1, <3>1
    <2>2. /\ c \in Seq(Nat) /\ Len(c) = (IF 1 <= z THEN z - 1 + 1 ELSE 0)
          /\ \A i \in 1..(z - 1 + 1) : c[i] = b[1 + i - 1]
      <3>1. 1 \in Int /\ z \in Int
        BY <1>2
      <3> QED BY <2>1, <3>1, SubSeqProperties
    <2> HIDE DEF c
    <2>3. (IF 1 <= z THEN z - 1 + 1 ELSE 0) = z /\ z - 1 + 1 = z /\ \A i \in 1..z : 1 + i - 1 = i
      BY <1>2
    <2> QED BY <2>2, <2>3
  <1>5. c = Start(b, n)
    BY DEF Start, z, l
  <1> HIDE DEF c
  <1>6. Alike(c, b, Len(c))
    <2>1. z <= Len(c) /\ z <= Len(b)
      BY <1>2, <1>4 DEF l
    <2>2. Alike(c, b, z)
      BY <1>4, <2>1 DEF Alike
    <2> QED BY <1>4, <2>2
  <1>7. ASSUME NEW q \in Nat, q <= n, q <= l PROVE Alike(b, c, q)
    <2>1. q <= z
      BY <1>3, <1>7
    <2>2. \A i \in 1..q : i \in 1..z
      BY <1>2, <2>1
    <2>3. \A i \in 1..q : b[i] = c[i]
      BY <1>4, <2>2
    <2>4. q <= Len(b) /\ q <= Len(c)
      BY <1>4, <1>7, <2>1 DEF l
    <2> QED BY <2>3, <2>4 DEF Alike
  <1> QED BY <1>4, <1>5, <1>6, <1>7 DEF z, l

\* What a JPEG ends with that has no dimensions: the end, a scan, or what is no marker, and
\* what may follow the latter two.
Endings == {<<255, EOI>>, <<0>>, <<255, SOS, 0, 3, 0>>,
            <<0, 255, APP1, 0, 2>>, <<255, SOS, 0, 3, 0, 255, APP1, 0, 2>>}

\* Endings are bytes; four of them begin with a scan, or with what is none.
LEMMA EndingsAre ==
    ASSUME NEW s \in Endings
    PROVE  /\ s \in Seq(Nat) /\ Len(s) \in 1..9
           /\ Len(s) >= 4 => \/ Len(s) = 5 /\ s[1] = 0 /\ s[2] = 255 /\ s[3] = APP1
                             \/ /\ Len(s) \in {5, 9} /\ s[1] = 255 /\ s[2] = SOS /\ s[3] = 0 /\ s[4] = 3
                                /\ Len(s) = 9 => s[6] = 255 /\ s[7] = APP1 /\ s[8] = 0 /\ s[9] = 2
  <1>0. EOI \in Nat /\ SOS \in Nat /\ APP1 \in Nat
    BY DEF EOI, SOS, APP1
  <1>1. CASE s = <<255, EOI>>
    BY <1>0, <1>1
  <1>2. CASE s = <<0>>
    BY <1>2
  <1>3. CASE s = <<255, SOS, 0, 3, 0>>
    BY <1>0, <1>3
  <1>4. CASE s = <<0, 255, APP1, 0, 2>>
    BY <1>0, <1>4
  <1>5. CASE s = <<255, SOS, 0, 3, 0, 255, APP1, 0, 2>>
    BY <1>0, <1>5
  <1> QED BY <1>1, <1>2, <1>3, <1>4, <1>5 DEF Endings

\* Behind the last segment the walk finds no size in what is kept of an ending.
LEMMA EndingUnread ==
    ASSUME NEW c \in Seq(Nat), NEW l \in Nat, NEW s \in Endings, Len(c) > l, Len(c) <= l + Len(s),
           \A j \in 1..(Len(c) - l) : c[l + j] = s[j]
    PROVE  SizeFrom(c)[l + 1] = NoSize
  <1> DEFINE z == Len(c)  m == Len(s)
  <1>1. z \in Nat /\ m \in 1..9 /\ z > l /\ z <= l + m /\ \A j \in 1..(z - l) : c[l + j] = s[j]
    BY EndingsAre
  <1>2. \A i \in Nat \ {0} : i <= z + 1 /\ i + 3 > z => SizeFrom(c)[i] = NoSize
    <2> SUFFICES ASSUME NEW i \in Nat \ {0}, i <= z + 1, i + 3 > z PROVE SizeFrom(c)[i] = NoSize
      OBVIOUS
    <2>1. i \in 1..(Len(c) + 1) /\ i + 3 > Len(c)
      BY <1>1
    <2> QED BY <2>1, NothingLeft
  <1>3. m >= 4 => \/ m = 5 /\ s[1] = 0 /\ s[2] = 255 /\ s[3] = APP1
                  \/ /\ m \in {5, 9} /\ s[1] = 255 /\ s[2] = SOS /\ s[3] = 0 /\ s[4] = 3
                     /\ m = 9 => s[6] = 255 /\ s[7] = APP1 /\ s[8] = 0 /\ s[9] = 2
    BY EndingsAre
  <1> HIDE DEF m
  <1>4. CASE z < l + 4
    <2> HIDE DEF z
    <2> QED BY <1>1, <1>2, <1>4
  <1>5. CASE z >= l + 4
    <2>1. /\ m >= 4 /\ l + 4 <= z
          /\ 1 \in 1..(z - l) /\ 2 \in 1..(z - l) /\ 3 \in 1..(z - l) /\ 4 \in 1..(z - l)
      <3> HIDE DEF z
      <3> QED BY <1>1, <1>5
    <2>2. c[l + 1] = s[1] /\ c[l + 2] = s[2] /\ c[l + 3] = s[3] /\ c[l + 4] = s[4]
      BY <1>1, <2>1
    <2>3. CASE m = 5 /\ s[1] = 0 /\ s[2] = 255 /\ s[3] = APP1
      <3>1. c[l + 1] = 0 /\ c[l + 2] = 255 /\ c[l + 3] = 225
        BY <2>2, <2>3 DEF APP1
      <3>2. MarkerFrom(c, l + 1) = l + 1
        <4>1. l + 1 \in Nat /\ l + 1 \in (l + 1)..Len(c) /\ c[l + 1] # 255
          BY <1>1, <2>1, <3>1
        <4>2. \A k \in (l + 1)..(l + 1 - 1) : c[k] = 255
          OBVIOUS
        <4> DEFINE p == l + 1
        <4>3. p \in Nat /\ p \in p..Len(c) /\ c[p] # 255 /\ \A k \in p..(p - 1) : c[k] = 255
          BY <4>1, <4>2
        <4> HIDE DEF p
        <4>4. MarkerFrom(c, p) = p
          BY <4>3, MarkerIs
        <4> QED BY <4>4 DEF p
      <3>3. ~WholeSegment(c, l + 1)
        <4>1. SegmentEnd(c, l + 1) = l + 1 + 256 * 255 + 225
          <5>1. l + 1 + 1 = l + 2 /\ l + 1 + 2 = l + 3
            OBVIOUS
          <5> QED BY <3>1, <5>1, SMTT(60) DEF SegmentEnd
        <4>2. l + 1 + 256 * 255 + 225 > z
          BY <1>1, <2>3
        <4>3. \A e : e > z => ~(e \in (l + 1 + 2)..z)
          OBVIOUS
        <4> QED BY <4>1, <4>2, <4>3 DEF WholeSegment
      <3>4. SizeFrom(c)[l + 1] = SizeAt(c, l + 1, SizeFrom(c))
        <4>1. l + 1 \in 1..(Len(c) + 1)
          BY <1>1
        <4> QED BY <4>1, SizeFromIs
      <3>5. c[l + 1] \notin {TEM, 216, EOI}
        BY <3>1 DEF TEM, EOI
      <3>6. ~(l + 1 + 3 > Len(c) \/ l + 1 > Len(c))
        BY <1>1, <2>1
      <3>7. SizeAt(c, l + 1, SizeFrom(c)) = NoSize
        BY <3>2, <3>3, <3>5, <3>6, ZenonT(60) DEF SizeAt
      <3> QED BY <3>4, <3>7
    <2>4. CASE /\ m \in {5, 9} /\ s[1] = 255 /\ s[2] = SOS /\ s[3] = 0 /\ s[4] = 3
               /\ m = 9 => s[6] = 255 /\ s[7] = APP1 /\ s[8] = 0 /\ s[9] = 2
      <3>1. c[l + 1] = 255 /\ c[l + 2] = 218 /\ c[l + 3] = 0 /\ c[l + 4] = 3
        BY <2>2, <2>4 DEF SOS
      <3>2. SegmentEnd(c, l + 2) = l + 5
        <4>1. l + 2 + 1 = l + 3 /\ l + 2 + 2 = l + 4
          OBVIOUS
        <4>2. SegmentEnd(c, l + 2) = l + 2 + 256 * 0 + 3
          BY <3>1, <4>1, SMTT(60) DEF SegmentEnd
        <4> QED BY <4>2
      <3>3. c[l + 2] # 255 /\ c[l + 2] \notin {TEM, 216, EOI} /\ c[l + 2] \notin Frames
        BY <3>1 DEF TEM, EOI, Frames
      <3>4. CASE z < l + 5
        <4>1. l + 4 <= Len(c) /\ SegmentEnd(c, l + 2) > Len(c)
          BY <1>1, <2>1, <3>2, <3>4
        <4>2. /\ c \in Seq(Nat) /\ l \in Nat /\ l + 4 <= Len(c) /\ c[l + 1] = 255 /\ c[l + 2] # 255
              /\ c[l + 2] \notin {TEM, 216, EOI} /\ SegmentEnd(c, l + 2) > Len(c)
          BY <3>1, <3>3, <4>1
        <4> HIDE DEF z
        <4> QED BY <4>2, TornUnread
      <3>5. CASE z >= l + 5
        <4>1. WholeSegment(c, l + 2) /\ l + 4 <= Len(c) /\ c[l + 1] = 255
          <5>1. l + 2 + 2 <= Len(c) /\ l + 5 \in (l + 2 + 2)..Len(c) /\ l + 2 + 2 = l + 4
            BY <1>1, <2>1, <3>5, SMTT(60)
          <5> QED BY <3>1, <3>2, <5>1 DEF WholeSegment
        <4>2. SizeFrom(c)[l + 1] = SizeFrom(c)[SegmentEnd(c, l + 2) + 1]
          <5>1. Decides(c, l)
            BY <3>3, <4>1, MarkerNext
          <5> QED BY <3>3, <4>1, <5>1, Zenon DEF Decides
        <4>3. SizeFrom(c)[l + 1] = SizeFrom(c)[l + 6]
          <5>1. l + 5 + 1 = l + 6
            OBVIOUS
          <5> QED BY <3>2, <4>2, <5>1
        <4>4. CASE z < l + 9
          <5>1. l + 6 \in Nat \ {0} /\ l + 6 <= z + 1 /\ l + 6 + 3 > z
            BY <1>1, <3>5, <4>4
          <5> QED BY <1>2, <4>3, <5>1
        <4>5. CASE z = l + 9
          <5>1. m = 9 /\ 6 \in 1..(z - l) /\ 7 \in 1..(z - l) /\ 8 \in 1..(z - l) /\ 9 \in 1..(z - l)
            <6> HIDE DEF z
            <6> QED BY <1>1, <2>4, <4>5
          <5>2. c[l + 6] = 255 /\ c[l + 7] = 225 /\ c[l + 8] = 0 /\ c[l + 9] = 2
            <6>1. c[l + 6] = s[6] /\ c[l + 7] = s[7] /\ c[l + 8] = s[8] /\ c[l + 9] = s[9]
              BY <1>1, <5>1
            <6> QED BY <2>4, <5>1, <6>1 DEF APP1
          <5> DEFINE n == l + 5
          <5>3. /\ n \in Nat /\ n + 4 <= Len(c) /\ c[n + 1] = 255 /\ c[n + 2] = 225
                /\ n + 1 = l + 6 /\ n + 2 = l + 7 /\ n + 2 + 1 = l + 8 /\ n + 2 + 2 = l + 9 /\ n + 4 = z
            BY <4>5, <5>2
          <5> HIDE DEF n
          <5>4. SegmentEnd(c, n + 2) = n + 4
            <6>1. SegmentEnd(c, n + 2) = n + 2 + 256 * 0 + 2
              BY <5>2, <5>3 DEF SegmentEnd
            <6> QED BY <5>3, <6>1
          <5>5. WholeSegment(c, n + 2)
            <6>1. n + 2 + 2 <= Len(c) /\ n + 4 \in (n + 2 + 2)..Len(c)
              BY <5>3
            <6> QED BY <5>4, <6>1 DEF WholeSegment
          <5>6. c[n + 2] # 255 /\ c[n + 2] \notin {TEM, 216, EOI} /\ c[n + 2] \notin Frames
            BY <5>3 DEF TEM, EOI, Frames
          <5>7. SizeFrom(c)[n + 1] = SizeFrom(c)[SegmentEnd(c, n + 2) + 1]
            <6>0. n \in Nat /\ n + 4 <= Len(c) /\ c[n + 1] = 255 /\ c[n + 2] # 255
              BY <5>3, <5>6, Zenon
            <6>1. Decides(c, n)
              BY <6>0, MarkerNext
            <6> QED BY <5>5, <5>6, <6>1, Zenon DEF Decides
          <5>8. SizeFrom(c)[n + 4 + 1] = NoSize
            <6>1. n + 4 + 1 \in Nat \ {0} /\ n + 4 + 1 <= z + 1 /\ n + 4 + 1 + 3 > z
              BY <5>3
            <6> QED BY <1>2, <6>1
          <5>9. SizeFrom(c)[n + 1] = NoSize
            BY <5>4, <5>7, <5>8
          <5> QED BY <4>3, <5>3, <5>9
        <4>6. m \in {5, 9} /\ (z < l + 9 \/ z = l + 9)
          <5> HIDE DEF z
          <5> QED BY <1>1, <2>4
        <4> QED BY <4>4, <4>5, <4>6
      <3>6. z < l + 5 \/ z >= l + 5
        <4> HIDE DEF z
        <4> QED BY <1>1
      <3> QED BY <3>4, <3>5, <3>6
    <2> QED BY <1>3, <2>1, <2>3, <2>4
  <1>6. z < l + 4 \/ z >= l + 4
    <2> HIDE DEF z
    <2> QED BY <1>1
  <1> QED BY <1>4, <1>5, <1>6

\* So an image without a frame has no dimensions, however it ends.
LEMMA EndedSizeless ==
    ASSUME NEW k \in Seq(Nat), NoFrame(k), Len(k) >= 2, NEW s \in Endings, NEW n \in Nat, n >= 2
    PROVE  JpegSize(Start(k \o s, n)) = NoSize
  <1> DEFINE x == k \o s  c == Start(x, n)
  <1>1. s \in Seq(Nat) /\ Len(s) \in Nat /\ Len(k) \in Nat
    BY EndingsAre
  <1>2. x \in Seq(Nat) /\ Len(x) = Len(k) + Len(s)
    BY <1>1, After
  <1>3. c \in Seq(Nat) /\ Alike(c, x, Len(c)) /\ Len(c) >= 2
    <2> HIDE DEF x
    <2>1. /\ Start(x, n) \in Seq(Nat) /\ Alike(Start(x, n), x, Len(Start(x, n)))
          /\ Len(Start(x, n)) = IF n < Len(x) THEN n ELSE Len(x)
      BY <1>2, StartIs
    <2> QED BY <1>1, <1>2, <2>1
  <1> HIDE DEF c
  <1>4. /\ Len(c) <= Len(k) => Alike(c, k, Len(c))
        /\ Len(c) > Len(k) => /\ Alike(k, c, Len(k)) /\ Len(c) <= Len(k) + Len(s)
                              /\ \A j \in 1..(Len(c) - Len(k)) : c[Len(k) + j] = s[j]
    BY <1>1, <1>3, Beginnings
  <1>5. CASE Len(c) <= Len(k)
    BY <1>3, <1>4, <1>5 DEF NoFrame, c
  <1>6. CASE Len(c) > Len(k)
    <2>1. SizeFrom(c)[Len(k) + 1] = NoSize
      BY <1>1, <1>3, <1>4, <1>6, EndingUnread
    <2>2. JpegSize(c) = SizeFrom(c)[Len(k) + 1] \/ JpegSize(c) = NoSize
      BY <1>3, <1>4, <1>6 DEF NoFrame
    <2> QED BY <2>1, <2>2 DEF c
  <1>7. Len(c) <= Len(k) \/ Len(c) > Len(k)
    <2>1. Len(c) \in Nat
      BY <1>3
    <2> QED BY <1>1, <2>1
  <1> QED BY <1>5, <1>6, <1>7

SizeIn(format, b) == IF format = "png" THEN PngSize(b) ELSE JpegSize(b)

\* What is written so far has the size that was written, or no frame and no header yet.
SizeRead(format, k, at, size) ==
    /\ Len(k) >= 2
    /\ size = NoSize /\ format = "jpeg" => NoFrame(k)
    /\ size = NoSize /\ format = "png" => k = Signature["png"]
    /\ size # NoSize => Readable(format, k, at, size)

\* While the image is written.
SizeSoFar == rewritten.phase = "waiting" =>
    /\ SizeRead(image.format, image.kept, image.sizeAt, image.size)
    /\ image.format = "png" /\ image.size = NoSize => Segments = 0

\* Once it is received, the size is that in the preview of what is to be kept.
SizeKept == rewritten.phase # "waiting" /\ image.whole /\ image.sizeAt <= PreviewBytes =>
                Dimensions(PreviewOf(image.kept)) = image.size

\* What is within the preview is read off it.
LEMMA PreviewRead ==
    ASSUME NEW format, NEW k \in Seq(Nat), Len(k) >= 2, NEW at \in Nat, NEW size,
           Readable(format, k, at, size), at <= PreviewBytes
    PROVE  SizeIn(format, Start(k, PreviewBytes)) = size
  <1> DEFINE c == Start(k, PreviewBytes)
  <1>1. PreviewBytes \in Nat /\ PreviewBytes >= 24
    BY StrippingAssumption
  <1>2. /\ c \in Seq(Nat) /\ Len(c) = (IF PreviewBytes < Len(k) THEN PreviewBytes ELSE Len(k))
        /\ \A q \in Nat : q <= PreviewBytes /\ q <= Len(k) => Alike(k, c, q)
    BY <1>1, StartIs
  <1> HIDE DEF c
  <1>3. at <= Len(k)
    BY DEF Readable
  <1>4. Len(c) >= 2 /\ Alike(k, c, at)
    BY <1>1, <1>2, <1>3
  <1>5. (IF format = "png" THEN PngSize(c) ELSE JpegSize(c)) = size
    BY <1>2, <1>4 DEF Readable
  <1> QED BY <1>5 DEF SizeIn, c

\* A size that is read stays.
LEMMA SizeReadOn ==
    ASSUME NEW format, NEW k \in Seq(Nat), NEW s \in Seq(Nat), NEW at \in Nat, NEW size,
           SizeRead(format, k, at, size), size # NoSize
    PROVE  SizeRead(format, k \o s, at, size)
  <1>1. Len(k \o s) = Len(k) + Len(s) /\ Len(k) \in Nat /\ Len(s) \in Nat
    BY After
  <1>2. Len(k \o s) >= 2
    BY <1>1 DEF SizeRead
  <1>3. Readable(format, k \o s, at, size)
    BY ReadableOn DEF SizeRead
  <1> QED BY <1>2, <1>3 DEF SizeRead

\* Another segment leaves the sizes in order.
LEMMA WithSizeRead ==
    ASSUME Followed, SizeSoFar, SizeKept, NEW bytes, NEW kept, NEW size, NEW sizeAt,
           WithSize(bytes, kept, size, sizeAt),
           SizeRead(image.format, image.kept \o kept, sizeAt, size),
           size = NoSize => image.format # "png"
    PROVE  SizeSoFar' /\ SizeKept'
  <1>1. rewritten.phase = "waiting" /\ rewritten' = rewritten
    BY DEF WithSize
  <1>2. image'.format = image.format /\ image'.kept = image.kept \o kept
        /\ image'.size = size /\ image'.sizeAt = sizeAt
    BY DEF WithSize, Followed, StrippingTypeOK
  <1> QED BY <1>1, <1>2, Zenon DEF SizeSoFar, SizeKept

\* Also one without the size.
LEMMA WriteSized ==
    ASSUME Followed, SizeSoFar, SizeKept, NEW bytes, NEW kept \in Seq(Nat), Write(bytes, kept),
           image.format = "jpeg" /\ NoFrame(image.kept) /\ Len(image.kept) >= 2 => NoFrame(image.kept \o kept),
           image.format = "png" => Segments > 0
    PROVE  SizeSoFar' /\ SizeKept'
  <1> DEFINE k == image.kept
  <1>1. WithSize(bytes, kept, image.size, image.sizeAt) /\ rewritten.phase = "waiting"
    BY DEF Write, WithSize
  <1>2. k \in Seq(Nat) /\ image.sizeAt \in Nat /\ image.format \in {"jpeg", "png"}
    BY ImageTypes DEF Followed, StrippingTypeOK
  <1>3. SizeRead(image.format, k, image.sizeAt, image.size)
    BY <1>1 DEF SizeSoFar
  <1>4. image.size = NoSize => image.format # "png"
    <2>1. ~(Segments > 0 /\ Segments = 0)
      OBVIOUS
    <2> QED BY <1>1, <2>1 DEF SizeSoFar
  <1>5. SizeRead(image.format, k \o kept, image.sizeAt, image.size)
    <2>1. CASE image.size # NoSize
      <3> HIDE DEF k
      <3> QED BY <1>2, <1>3, <2>1, SizeReadOn
    <2>2. CASE image.size = NoSize
      <3>1. image.format = "jpeg" /\ NoFrame(k) /\ Len(k) >= 2
        BY <1>2, <1>3, <1>4, <2>2 DEF SizeRead
      <3>2. NoFrame(k \o kept)
        BY <3>1
      <3>3. Len(k \o kept) >= 2
        <4> HIDE DEF k
        <4>1. Len(k \o kept) = Len(k) + Len(kept) /\ Len(k) \in Nat /\ Len(kept) \in Nat
          BY <1>2, After
        <4> QED BY <3>1, <4>1
      <3> QED BY <2>2, <3>1, <3>2, <3>3 DEF SizeRead
    <2> QED BY <2>1, <2>2
  <1> QED BY <1>1, <1>4, <1>5, WithSizeRead

\* Metadata leaves what is kept as it is,
LEMMA WriteMetadataSized ==
    ASSUME Followed, SizeSoFar, SizeKept, WriteMetadata PROVE SizeSoFar' /\ SizeKept'
  <1>1. \E bytes : Write(bytes, <<>>) /\ (image.format = "png" => Segments > 0)
    BY DEF WriteMetadata
  <1>2. PICK bytes : Write(bytes, <<>>) /\ (image.format = "png" => Segments > 0)
    BY <1>1
  <1>3. image.kept \o <<>> = image.kept /\ <<>> \in Seq(Nat)
    <2>1. image.kept \in Seq(Nat)
      BY ImageTypes DEF Followed
    <2> QED BY <2>1
  <1>4. NoFrame(image.kept) => NoFrame(image.kept \o <<>>)
    BY <1>3
  <1> QED BY <1>2, <1>3, <1>4, WriteSized

\* a segment that is no frame is passed by the walk,
LEMMA WriteOtherSized ==
    ASSUME Followed, SizeSoFar, SizeKept, WriteOther PROVE SizeSoFar' /\ SizeKept'
  <1> DEFINE k == image.kept
  <1>1. k \in Seq(Nat)
    BY ImageTypes DEF Followed
  <1>2. CASE image.format = "jpeg" /\ Write(<<255, 255, TEM>>, <<255, TEM>>)
    <2> DEFINE s == <<255, TEM>>
    <2>1. s \in Seq(Nat)
      BY DEF TEM
    <2>2. NoFrame(k) /\ Len(k) >= 2 => NoFrame(k \o s)
      <3> HIDE DEF k
      <3> QED BY <1>1, NoFrameBare
    <2>3. Write(<<255, 255, TEM>>, s) /\ image.format # "png"
      BY <1>2
    <2> HIDE DEF s
    <2> QED BY <2>1, <2>2, <2>3, WriteSized
  <1>3. ASSUME NEW p \in Payloads, image.format = "jpeg", Write(Segment(DQT, p), Segment(DQT, p))
        PROVE  SizeSoFar' /\ SizeKept'
    <2> DEFINE s == Segment(DQT, p)  u == Body(DQT, p)
    <2>1. p \in Seq(Nat)
      BY PayloadsAre
    <2>2. s = << 255 >> \o u /\ Counted(u) /\ u[1] = DQT /\ s \in Seq(Nat)
      BY <2>1, Markers, SegmentIs
    <2>3. u[1] \in Others
      <3>1. DQT \in Others
        BY DEF Others, DQT, TEM, EOI, Frames
      <3> HIDE DEF s, u
      <3> QED BY <2>2, <3>1
    <2>4. Write(s, s) /\ image.format # "png"
      BY <1>3
    <2> HIDE DEF s, u
    <2>5. NoFrame(k) /\ Len(k) >= 2 => NoFrame(k \o s)
      <3> HIDE DEF k
      <3>1. NoFrame(k) /\ Len(k) >= 2 => NoFrame(k \o (<< 255 >> \o u))
        BY <1>1, <2>2, <2>3, NoFrameSegment
      <3> QED BY <2>2, <3>1
    <2> QED BY <2>2, <2>4, <2>5, WriteSized
  <1>4. ASSUME NEW p \in Payloads, image.format = "png", Segments > 0, Write(Chunk(IDAT, p), Chunk(IDAT, p))
        PROVE  SizeSoFar' /\ SizeKept'
    <2> DEFINE s == Chunk(IDAT, p)
    <2>1. p \in Seq(Nat)
      BY PayloadsAre
    <2>2. s \in Seq(Nat)
      BY <2>1, Types, ChunkIs
    <2>3. Write(s, s) /\ image.format # "jpeg"
      BY <1>4
    <2> HIDE DEF s
    <2> QED BY <1>4, <2>2, <2>3, WriteSized
  <1> QED BY <1>2, <1>3, <1>4 DEF WriteOther

\* and the frame, or the header, is read for what was written.
LEMMA WriteSizeSized ==
    ASSUME Followed, SizeSoFar, SizeKept, WriteSize PROVE SizeSoFar' /\ SizeKept'
  <1> DEFINE k == image.kept
  <1>1. k \in Seq(Nat) /\ image.format \in {"jpeg", "png"}
    BY ImageTypes DEF Followed
  <1>2. PICK w \in {16, 32}, h \in {16, 32} :
            /\ image.size = NoSize /\ (image.format = "png" => Segments = 0)
            /\ WithSize(SizeSegment(w, h), SizeSegment(w, h), <<w, h>>, SizeEnd)
    BY DEF WriteSize
  <1> DEFINE s == SizeSegment(w, h)
  <1>3. WithSize(s, s, <<w, h>>, SizeEnd) /\ rewritten.phase = "waiting"
    BY <1>2 DEF WithSize
  <1>4. <<w, h>> # NoSize
    BY DEF NoSize
  <1>5. SizeRead(image.format, k, image.sizeAt, NoSize)
    BY <1>2, <1>3 DEF SizeSoFar
  <1>6. Readable(image.format, k \o s, SizeEnd, <<w, h>>) /\ s \in Seq(Nat) /\ Len(k) >= 2
    <2>1. CASE image.format = "jpeg"
      <3>1. s = Frame(w, h) /\ SizeEnd = Len(k) + 9
        BY <2>1 DEF SizeSegment, Frame, SizeEnd
      <3>2. NoFrame(k) /\ Len(k) >= 2
        BY <1>5, <2>1 DEF SizeRead
      <3> HIDE DEF s, k
      <3>3. Readable("jpeg", k \o Frame(w, h), Len(k) + 9, <<w, h>>)
        BY <1>1, <3>2, FrameReadable
      <3>4. Frame(w, h) \in Seq(Nat)
        <4> DEFINE p == <<8, 0, h, 0, w>>
        <4>1. p \in Seq(Nat) /\ 192 \in Nat /\ 192 # 255
          OBVIOUS
        <4> HIDE DEF p
        <4>2. Segment(192, p) \in Seq(Nat)
          BY <4>1, SegmentIs
        <4> QED BY <4>2 DEF Frame, p
      <3> QED BY <2>1, <3>1, <3>2, <3>3, <3>4
    <2>2. CASE image.format = "png"
      <3> DEFINE g == Signature["png"]  p == <<0, 0, 0, w, 0, 0, 0, h>>  t == Chunk(IHDR, p)
      <3>1. s = t /\ SizeEnd = Len(k) + 16
        BY <2>2 DEF SizeSegment, SizeEnd
      <3>2. k = g
        BY <1>5, <2>2 DEF SizeRead
      <3>3. Len(g) = 8
        BY DEF Signature
      <3>4. Readable("png", g \o t, 24, <<w, h>>)
        BY HeaderReadable
      <3>5. t \in Seq(Nat)
        <4>1. p \in Seq(Nat)
          OBVIOUS
        <4> HIDE DEF p
        <4> QED BY <4>1, Types, ChunkIs
      <3> HIDE DEF s, t, g, k
      <3>6. SizeEnd = 24 /\ Len(k) >= 2
        BY <3>1, <3>2, <3>3
      <3> QED BY <2>2, <3>1, <3>2, <3>4, <3>5, <3>6
    <2> QED BY <1>1, <2>1, <2>2
  <1> HIDE DEF s, k
  <1>7. Len(k \o s) >= 2
    <2>1. Len(k \o s) = Len(k) + Len(s) /\ Len(k) \in Nat /\ Len(s) \in Nat
      BY <1>1, <1>6, After
    <2> QED BY <1>6, <2>1
  <1>8. SizeRead(image.format, k \o s, SizeEnd, <<w, h>>)
    BY <1>4, <1>6, <1>7 DEF SizeRead
  <1> QED BY <1>3, <1>4, <1>8, WithSizeRead DEF k

\* What begins like a and goes on like b is the two of them.
LEMMA Extended ==
    ASSUME NEW a \in Seq(Nat), NEW b \in Seq(Nat), NEW x \in Seq(Nat), Len(x) = Len(a) + Len(b),
           \A i \in 1..Len(a) : x[i] = a[i], \A j \in 1..Len(b) : x[Len(a) + j] = b[j]
    PROVE  a \o b = x
  <1> DEFINE y == a \o b
  <1>1. y \in Seq(Nat) /\ Len(y) = Len(a) + Len(b) /\ Alike(a, y, Len(a))
        /\ \A j \in 1..Len(b) : y[Len(a) + j] = b[j]
    BY After
  <1> HIDE DEF y
  <1>2. Len(y) = Len(x) /\ Len(a) \in Nat /\ Len(b) \in Nat
    BY <1>1
  <1>3. ASSUME NEW i \in 1..Len(x) PROVE y[i] = x[i]
    <2>1. CASE i <= Len(a)
      BY <1>1, <1>2, <2>1 DEF Alike
    <2>2. CASE i > Len(a)
      <3> DEFINE j == i - Len(a)
      <3>1. j \in 1..Len(b) /\ i = Len(a) + j
        BY <1>2, <2>2
      <3> HIDE DEF j
      <3> QED BY <1>1, <3>1
    <2> QED BY <1>2, <2>1, <2>2
  <1>4. y = x
    BY <1>1, <1>2, <1>3
  <1> QED BY <1>4 DEF y

\* The end of a JPEG and what follows it are one of the endings.
LEMMA EndsWithout ==
    ASSUME image.format = "jpeg", NEW end \in Ends, NEW more \in {<<>>, Segment(APP1, <<>>)},
           NEW k \in Seq(Nat)
    PROVE  \E s \in Endings : (k \o end.bytes) \o (IF end.after = "kept" THEN more ELSE <<>>) = k \o s
  <1> DEFINE rest == IF end.after = "kept" THEN more ELSE <<>>
  <1>0. EOI \in Nat /\ SOS \in Nat /\ APP1 \in Nat
    BY DEF EOI, SOS, APP1
  <1>1. Segment(APP1, <<>>) = <<255, APP1, 0, 2>> /\ Segment(SOS, <<0>>) = <<255, SOS, 0, 3, 0>>
    <2>1. Segment(APP1, <<>>) = <<255, APP1, 0, 2>>
      <3> DEFINE h == <<255, APP1, 0, 2>>
      <3>1. h \in Seq(Nat) /\ Len(<<>>) + 2 = 2
        BY <1>0
      <3>2. Segment(APP1, <<>>) = h \o <<>>
        BY <3>1 DEF Segment
      <3> HIDE DEF h
      <3>3. h \o <<>> = h
        BY <3>1
      <3> QED BY <3>2, <3>3 DEF h
    <2>2. Segment(SOS, <<0>>) = <<255, SOS, 0, 3, 0>>
      <3> DEFINE h == <<255, SOS, 0, 3>>  p == <<0>>  x == <<255, SOS, 0, 3, 0>>
      <3>1. /\ h \in Seq(Nat) /\ p \in Seq(Nat) /\ x \in Seq(Nat) /\ Len(x) = Len(h) + Len(p)
            /\ Len(p) = 1 /\ \A i \in 1..Len(h) : x[i] = h[i]
            /\ \A j \in 1..Len(p) : x[Len(h) + j] = p[j]
        BY <1>0
      <3>2. Segment(SOS, <<0>>) = h \o p
        <4>1. Len(<<0>>) + 2 = 3
          OBVIOUS
        <4> QED BY <4>1 DEF Segment
      <3> HIDE DEF h, p, x
      <3>3. h \o p = x
        BY <3>1, Extended
      <3> QED BY <3>2, <3>3 DEF x
    <2> QED BY <2>1, <2>2
  <1>2. \/ end.bytes = <<255, EOI>> /\ end.after # "kept"
        \/ end.bytes = Segment(SOS, <<0>>) /\ end.after = "kept"
        \/ end.bytes = <<0>> /\ end.after = "kept"
    BY DEF Ends
  <1>3. more = <<>> \/ more = <<255, APP1, 0, 2>>
    BY <1>1
  <1>4. end.bytes \in Seq(Nat) /\ rest \in Seq(Nat)
    <2>1. EOI \in Nat /\ SOS \in Nat /\ APP1 \in Nat
      BY DEF EOI, SOS, APP1
    <2>2. <<255, EOI>> \in Seq(Nat) /\ <<255, SOS, 0, 3, 0>> \in Seq(Nat) /\ <<0>> \in Seq(Nat)
          /\ <<255, APP1, 0, 2>> \in Seq(Nat) /\ <<>> \in Seq(Nat)
      BY <2>1
    <2>3. end.bytes \in Seq(Nat)
      <3>1. Segment(SOS, <<0>>) \in Seq(Nat)
        BY <1>1, <2>2, Zenon
      <3> QED BY <1>2, <2>2, <3>1
    <2>4. more \in Seq(Nat)
      BY <1>3, <2>2, Zenon
    <2> QED BY <2>2, <2>3, <2>4, Zenon
  <1>5. end.bytes \o rest \in Endings
    <2>1. CASE end.bytes = <<255, EOI>> /\ end.after # "kept"
      <3>1. <<255, EOI>> \o <<>> = <<255, EOI>>
        OBVIOUS
      <3> QED BY <2>1, <3>1 DEF Endings
    <2>2. CASE end.bytes = Segment(SOS, <<0>>) /\ end.after = "kept"
      <3>1. <<255, SOS, 0, 3, 0>> \o <<>> = <<255, SOS, 0, 3, 0>>
        OBVIOUS
      <3>2. <<255, SOS, 0, 3, 0>> \o <<255, APP1, 0, 2>> = <<255, SOS, 0, 3, 0, 255, APP1, 0, 2>>
        <4> DEFINE a == <<255, SOS, 0, 3, 0>>  b == <<255, APP1, 0, 2>>
                   x == <<255, SOS, 0, 3, 0, 255, APP1, 0, 2>>
        <4>1. /\ a \in Seq(Nat) /\ b \in Seq(Nat) /\ x \in Seq(Nat) /\ Len(x) = Len(a) + Len(b)
              /\ \A i \in 1..Len(a) : x[i] = a[i]
              /\ \A j \in 1..Len(b) : x[Len(a) + j] = b[j]
          BY <1>0
        <4> HIDE DEF a, b, x
        <4>2. a \o b = x
          BY <4>1, Extended
        <4> QED BY <4>2 DEF a, b, x
      <3>3. end.bytes \o rest = <<255, SOS, 0, 3, 0>> \o more
        BY <1>1, <2>2
      <3>4. CASE more = <<>>
        <4>1. end.bytes \o rest = <<255, SOS, 0, 3, 0>>
          BY <3>1, <3>3, <3>4, Zenon
        <4>2. <<255, SOS, 0, 3, 0>> \in Endings
          BY DEF Endings
        <4> QED BY <4>1, <4>2, Zenon
      <3>5. CASE more = <<255, APP1, 0, 2>>
        <4>1. end.bytes \o rest = <<255, SOS, 0, 3, 0, 255, APP1, 0, 2>>
          BY <3>2, <3>3, <3>5, ZenonT(60)
        <4>2. <<255, SOS, 0, 3, 0, 255, APP1, 0, 2>> \in Endings
          BY DEF Endings
        <4> QED BY <4>1, <4>2, Zenon
      <3> QED BY <1>3, <3>4, <3>5
    <2>3. CASE end.bytes = <<0>> /\ end.after = "kept"
      <3>1. <<0>> \o <<>> = <<0>>
        OBVIOUS
      <3>2. <<0>> \o <<255, APP1, 0, 2>> = <<0, 255, APP1, 0, 2>>
        <4> DEFINE a == <<0>>  b == <<255, APP1, 0, 2>>  x == <<0, 255, APP1, 0, 2>>
        <4>1. /\ a \in Seq(Nat) /\ b \in Seq(Nat) /\ x \in Seq(Nat) /\ Len(x) = Len(a) + Len(b)
              /\ \A i \in 1..Len(a) : x[i] = a[i]
              /\ \A j \in 1..Len(b) : x[Len(a) + j] = b[j]
          BY <1>0
        <4> HIDE DEF a, b, x
        <4>2. a \o b = x
          BY <4>1, Extended
        <4> QED BY <4>2 DEF a, b, x
      <3>3. end.bytes \o rest = <<0>> \o more
        BY <2>3
      <3>4. CASE more = <<>>
        BY <3>1, <3>3, <3>4 DEF Endings
      <3>5. CASE more = <<255, APP1, 0, 2>>
        <4>1. end.bytes \o rest = <<0, 255, APP1, 0, 2>>
          BY <3>2, <3>3, <3>5, Zenon
        <4>2. <<0, 255, APP1, 0, 2>> \in Endings
          BY DEF Endings
        <4> QED BY <4>1, <4>2, Zenon
      <3> QED BY <1>3, <3>4, <3>5
    <2> QED BY <1>2, <2>1, <2>2, <2>3
  <1>6. Associates(k, end.bytes, rest)
    <2> DEFINE s == end.bytes
    <2>1. s \in Seq(Nat) /\ rest \in Seq(Nat)
      BY <1>4
    <2> HIDE DEF s, rest
    <2>2. Associates(k, s, rest)
      BY <2>1, Joining
    <2> QED BY <2>2 DEF s
  <1> QED BY <1>5, <1>6, Zenon DEF Associates

\* Received, the sizes are in order if what is to be kept has the size.
LEMMA ReceivedSized ==
    ASSUME Followed, rewritten' = [rewritten EXCEPT !.phase = "begin"],
           image'.whole /\ image'.sizeAt <= PreviewBytes =>
               SizeIn(image'.format, Start(image'.kept, PreviewBytes)) = image'.size
    PROVE  SizeSoFar' /\ SizeKept'
  <1>1. rewritten'.phase = "begin"
    BY DEF Followed, StrippingTypeOK
  <1>2. SizeSoFar'
    BY <1>1 DEF SizeSoFar
  <1>3. SizeKept'
    BY DEF SizeKept, SizeIn, Dimensions, PreviewOf
  <1> QED BY <1>2, <1>3

\* An image that ends behind a segment has the size of its frame or none,
LEMMA ReceiveWholeSized ==
    ASSUME Followed, SizeSoFar, ReceiveWhole PROVE SizeSoFar' /\ SizeKept'
  <1> DEFINE k == image.kept  c == Start(k, PreviewBytes)
  <1>1. /\ rewritten.phase = "waiting" /\ rewritten' = [rewritten EXCEPT !.phase = "begin"]
        /\ image' = image /\ Segments > 0
    BY DEF ReceiveWhole
  <1>2. k \in Seq(Nat) /\ image.sizeAt \in Nat /\ image.format \in {"jpeg", "png"}
    BY ImageTypes DEF Followed, StrippingTypeOK
  <1>3. /\ SizeRead(image.format, k, image.sizeAt, image.size)
        /\ image.format = "png" /\ image.size = NoSize => Segments = 0
    BY <1>1 DEF SizeSoFar
  <1>4. Len(k) >= 2 /\ PreviewBytes \in Nat /\ PreviewBytes >= 24
    BY <1>3, StrippingAssumption DEF SizeRead
  <1> HIDE DEF k
  <1>5. ASSUME image.sizeAt <= PreviewBytes PROVE SizeIn(image.format, c) = image.size
    <2>1. CASE image.size # NoSize
      <3>1. Readable(image.format, k, image.sizeAt, image.size)
        BY <1>3, <2>1 DEF SizeRead
      <3> QED BY <1>2, <1>4, <1>5, <3>1, PreviewRead
    <2>2. CASE image.size = NoSize
      <3>1. image.format = "jpeg"
        <4>1. ~(Segments > 0 /\ Segments = 0)
          OBVIOUS
        <4> QED BY <1>1, <1>2, <1>3, <2>2, <4>1
      <3>2. NoFrame(k)
        BY <1>3, <2>2, <3>1 DEF SizeRead
      <3>3. c \in Seq(Nat) /\ Alike(c, k, Len(c)) /\ Len(c) >= 2
        <4>1. /\ c \in Seq(Nat) /\ Alike(c, k, Len(c))
              /\ Len(c) = IF PreviewBytes < Len(k) THEN PreviewBytes ELSE Len(k)
          BY <1>2, <1>4, StartIs
        <4> HIDE DEF c
        <4> QED BY <1>4, <4>1
      <3> HIDE DEF c
      <3>4. JpegSize(c) = NoSize
        BY <3>2, <3>3 DEF NoFrame
      <3> QED BY <2>2, <3>1, <3>4 DEF SizeIn
    <2> QED BY <2>1, <2>2
  <1>6. image'.sizeAt <= PreviewBytes => SizeIn(image'.format, Start(image'.kept, PreviewBytes)) = image'.size
    BY <1>1, <1>5 DEF k
  <1> QED BY <1>1, <1>6, ReceivedSized

\* A PNG that ends at once is too short for a header.
LEMMA EndedAtOnce ==
    ASSUME NEW n \in Nat
    PROVE  PngSize(Start((Signature["png"] \o Chunk(IEND, <<>>)) \o <<>>, n)) = NoSize
  <1> DEFINE g == Signature["png"]  s == Chunk(IEND, <<>>)  x == (g \o s) \o <<>>  c == Start(x, n)
  <1>1. g \in Seq(Nat) /\ Len(g) = 8
    BY DEF Signature
  <1>2. s \in Seq(Nat) /\ Len(s) = 12
    <2>1. IEND \in Seq(Nat) /\ Len(IEND) = 4 /\ <<>> \in Seq(Nat) /\ Len(<<>>) = 0
      BY DEF IEND
    <2> DEFINE e == <<>>
    <2> HIDE DEF e
    <2>2. e \in Seq(Nat) /\ Len(e) = 0
      BY <2>1 DEF e
    <2>3. Chunk(IEND, e) \in Seq(Nat) /\ Len(Chunk(IEND, e)) = 12 + Len(e)
      BY <2>1, <2>2, ChunkIs
    <2>4. s = Chunk(IEND, e)
      BY DEF e
    <2> HIDE DEF s
    <2> QED BY <2>2, <2>3, <2>4
  <1> HIDE DEF g, s
  <1>3. x \in Seq(Nat) /\ Len(x) = 20
    <2>1. g \o s \in Seq(Nat) /\ Len(g \o s) = Len(g) + Len(s)
      BY <1>1, <1>2, After
    <2> DEFINE y == g \o s
    <2>2. y \in Seq(Nat) /\ Len(y) = 20
      BY <1>1, <1>2, <2>1
    <2> HIDE DEF y
    <2>3. y \o <<>> = y
      BY <2>2
    <2> QED BY <2>2, <2>3 DEF y
  <1> HIDE DEF x
  <1>4. Len(c) < 24
    <2>1. Len(c) = IF n < Len(x) THEN n ELSE Len(x)
      BY <1>3, StartIs
    <2> HIDE DEF c
    <2> QED BY <1>3, <2>1
  <1> HIDE DEF c
  <1>5. PngSize(c) = NoSize
    BY <1>4 DEF PngSize
  <1> QED BY <1>5 DEF c, x, g, s

\* also if it goes on to its end,
LEMMA ReceiveEndedSized ==
    ASSUME Followed, SizeSoFar, ReceiveEnded PROVE SizeSoFar' /\ SizeKept'
  <1> DEFINE k == image.kept
  <1>1. rewritten.phase = "waiting" /\ rewritten' = [rewritten EXCEPT !.phase = "begin"]
    BY DEF ReceiveEnded
  <1>2. k \in Seq(Nat) /\ image.sizeAt \in Nat /\ image.format \in {"jpeg", "png"}
    BY ImageTypes DEF Followed, StrippingTypeOK
  <1>3. SizeRead(image.format, k, image.sizeAt, image.size)
    BY <1>1 DEF SizeSoFar
  <1>4. PICK end \in Ends, more \in {<<>>, Segment(APP1, <<>>)} :
            image' = [image EXCEPT !.bytes = @ \o end.bytes \o more,
                                   !.kept = k \o end.bytes \o
                                            (IF end.after = "kept" THEN more ELSE <<>>)]
    BY DEF ReceiveEnded
  <1> DEFINE rest == IF end.after = "kept" THEN more ELSE <<>>  x == (k \o end.bytes) \o rest
  <1>5. /\ image'.kept = x /\ image'.format = image.format
        /\ image'.size = image.size /\ image'.sizeAt = image.sizeAt
    BY <1>4 DEF Followed, StrippingTypeOK
  <1>6. end.bytes \in Seq(Nat) /\ rest \in Seq(Nat)
    <2>1. <<>> \in Seq(Nat)
      OBVIOUS
    <2>2. Segment(APP1, <<>>) \in Seq(Nat)
      BY <2>1, Markers, SegmentIs
    <2>3. more \in Seq(Nat)
      BY <2>1, <2>2
    <2>4. end.bytes \in Seq(Nat)
      BY <1>2, <2>3, EndsAre
    <2> QED BY <2>1, <2>3, <2>4
  <1>7. PreviewBytes \in Nat /\ PreviewBytes >= 24
    BY StrippingAssumption
  <1>8. ASSUME image.sizeAt <= PreviewBytes
        PROVE  SizeIn(image.format, Start(x, PreviewBytes)) = image.size
    <2>1. CASE image.size # NoSize
      <3> DEFINE s == end.bytes  y == k \o s
      <3>1. s \in Seq(Nat) /\ rest \in Seq(Nat)
        BY <1>6
      <3> HIDE DEF k, s, rest
      <3>2. y \in Seq(Nat) /\ SizeRead(image.format, y, image.sizeAt, image.size)
        BY <1>2, <1>3, <2>1, <3>1, After, SizeReadOn
      <3> DEFINE z == y \o rest
      <3> HIDE DEF y
      <3>3. z \in Seq(Nat) /\ SizeRead(image.format, z, image.sizeAt, image.size)
        BY <1>2, <2>1, <3>1, <3>2, After, SizeReadOn
      <3>4. z = x
        BY DEF y, s
      <3> HIDE DEF z, x
      <3>5. Len(z) >= 2 /\ Readable(image.format, z, image.sizeAt, image.size)
        BY <2>1, <3>3 DEF SizeRead
      <3>6. SizeIn(image.format, Start(z, PreviewBytes)) = image.size
        BY <1>2, <1>8, <3>3, <3>5, PreviewRead
      <3> QED BY <3>4, <3>6
    <2>2. CASE image.size = NoSize /\ image.format = "jpeg"
      <3>1. NoFrame(k) /\ Len(k) >= 2
        BY <1>3, <2>2 DEF SizeRead
      <3> HIDE DEF k
      <3>2. PICK s \in Endings : x = k \o s
        BY <1>2, <2>2, EndsWithout
      <3>3. JpegSize(Start(k \o s, PreviewBytes)) = NoSize
        <4>1. PreviewBytes >= 2
          BY <1>7
        <4> QED BY <1>2, <1>7, <3>1, <4>1, EndedSizeless
      <3> HIDE DEF x
      <3> QED BY <2>2, <3>2, <3>3 DEF SizeIn
    <2>3. CASE image.size = NoSize /\ image.format = "png"
      <3>1. k = Signature["png"]
        BY <1>3, <2>3 DEF SizeRead
      <3>2. end.bytes = Chunk(IEND, <<>>) /\ rest = <<>>
        BY <2>3 DEF Ends
      <3>3. x = (Signature["png"] \o Chunk(IEND, <<>>)) \o <<>>
        BY <3>1, <3>2
      <3>4. PngSize(Start(x, PreviewBytes)) = NoSize
        BY <1>7, <3>3, EndedAtOnce
      <3> HIDE DEF x
      <3> QED BY <2>3, <3>4 DEF SizeIn
    <2> QED BY <1>2, <2>1, <2>2, <2>3
  <1> HIDE DEF x
  <1>9. image'.sizeAt <= PreviewBytes => SizeIn(image'.format, Start(image'.kept, PreviewBytes)) = image'.size
    BY <1>5, <1>8
  <1> QED BY <1>1, <1>9, ReceivedSized

\* and of one that is cut off nothing is said.
LEMMA ReceiveCutSized ==
    ASSUME Followed, ReceiveCut PROVE SizeSoFar' /\ SizeKept'
  <1>1. rewritten' = [rewritten EXCEPT !.phase = "begin"]
    BY DEF ReceiveCut
  <1>2. ~image'.whole
    BY DEF ReceiveCut, Followed, StrippingTypeOK
  <1> QED BY <1>1, <1>2, ReceivedSized

\* A turn leads to another or to the end.
LEMMA TurnsEnd ==
    ASSUME NEW b, NEW x, NEW y, JpegTurn(b, x, y) \/ PngTurn(b, x, y)
    PROVE  y.phase # "waiting"
  <1> DEFINE GoesOn == y.phase # "waiting"
  <1>1. \A out : y = Finished(x, out) => GoesOn
    BY DEF Finished
  <1>2. \A at, out : y = Continued(x, at, out) => GoesOn
    BY DEF Continued
  <1> HIDE DEF GoesOn
  <1>3. JpegTurn(b, x, y) => GoesOn
    BY <1>1, <1>2 DEF JpegTurn
  <1>4. PngTurn(b, x, y) => GoesOn
    BY <1>1, <1>2 DEF PngTurn
  <1> QED BY <1>3, <1>4 DEF GoesOn

\* The rewriting does not touch the image.
LEMMA SizesStay ==
    ASSUME SizeKept, image' = image, rewritten.phase # "waiting", rewritten'.phase # "waiting"
    PROVE  SizeSoFar' /\ SizeKept'
  <1>1. SizeSoFar'
    BY DEF SizeSoFar
  <1>2. SizeKept'
    BY DEF SizeKept, Dimensions, PreviewOf
  <1> QED BY <1>1, <1>2

\* The inductive invariant of the sizes.
SizesFollowed == Followed /\ SizeSoFar /\ SizeKept

\* A signature alone has no size.
LEMMA SizesStart == StrippingInit => SizesFollowed
  <1> SUFFICES ASSUME StrippingInit PROVE SizesFollowed
    OBVIOUS
  <1>1. Followed
    BY StrippingInitFollowed
  <1>2. PICK format \in DOMAIN Signature :
            image = [format |-> format, bytes |-> Signature[format], kept |-> Signature[format],
                    trail |-> <<Past(Signature[format], Signature[format])>>,
                    whole |-> TRUE, size |-> NoSize, sizeAt |-> 0]
    BY DEF StrippingInit
  <1>3. rewritten.phase = "waiting"
    BY DEF StrippingInit
  <1>4. Len(Signature[format]) >= 2
    BY SMTT(60) DEF Signature
  <1>5. SizeRead(format, Signature[format], 0, NoSize)
    BY <1>4, NoFrameYet DEF SizeRead
  <1>6. Segments = 0
    <2> DEFINE y == Past(Signature[format], Signature[format])
    <2>1. image.trail = <<y>>
      BY <1>2
    <2> HIDE DEF y
    <2> QED BY <2>1 DEF Segments
  <1>7. SizeSoFar
    BY <1>2, <1>5, <1>6 DEF SizeSoFar
  <1>8. SizeKept
    BY <1>3 DEF SizeKept
  <1> QED BY <1>1, <1>7, <1>8 DEF SizesFollowed

\* Each step keeps the sizes.
LEMMA SizesStep == SizesFollowed /\ [StrippingNext]_strippingVars => SizesFollowed'
  <1> SUFFICES ASSUME SizesFollowed, [StrippingNext]_strippingVars PROVE SizesFollowed'
    OBVIOUS
  <1>1. Followed /\ SizeSoFar /\ SizeKept
    BY DEF SizesFollowed
  <1>2. Followed'
    BY <1>1, StrippingStep
  <1>3. SizeSoFar' /\ SizeKept'
    <2>1. CASE WriteMetadata
      BY <1>1, <2>1, WriteMetadataSized
    <2>2. CASE WriteOther
      BY <1>1, <2>2, WriteOtherSized
    <2>3. CASE WriteSize
      BY <1>1, <2>3, WriteSizeSized
    <2>4. CASE ReceiveWhole
      BY <1>1, <2>4, ReceiveWholeSized
    <2>5. CASE ReceiveEnded
      BY <1>1, <2>5, ReceiveEndedSized
    <2>6. CASE ReceiveCut
      BY <1>1, <2>6, ReceiveCutSized
    <2>7. CASE StripBegin
      <3>1. /\ image' = image /\ rewritten.phase = "begin"
            /\ rewritten' = Past(Signature[image.format], Signature[image.format])
        BY <2>7 DEF StripBegin
      <3>2. rewritten'.phase = "loop"
        BY <3>1 DEF Past
      <3> QED BY <1>1, <3>1, <3>2, SizesStay
    <2>8. CASE StripJpeg
      <3>1. image' = image /\ rewritten.phase = "loop" /\ JpegTurn(image.bytes, rewritten, rewritten')
        BY <2>8 DEF StripJpeg
      <3>2. rewritten'.phase # "waiting"
        BY <3>1, TurnsEnd
      <3> QED BY <1>1, <3>1, <3>2, SizesStay
    <2>9. CASE StripPng
      <3>1. image' = image /\ rewritten.phase = "loop" /\ PngTurn(image.bytes, rewritten, rewritten')
        BY <2>9 DEF StripPng
      <3>2. rewritten'.phase # "waiting"
        BY <3>1, TurnsEnd
      <3> QED BY <1>1, <3>1, <3>2, SizesStay
    <2>10. CASE UNCHANGED strippingVars
      BY <1>1, <2>10 DEF strippingVars, SizeSoFar, SizeKept, Dimensions, PreviewOf, Segments
    <2> QED BY <2>1, <2>2, <2>3, <2>4, <2>5, <2>6, <2>7, <2>8, <2>9, <2>10 DEF StrippingNext
  <1> QED BY <1>2, <1>3 DEF SizesFollowed

\* The dimensions recorded are those of the image whenever they are within the preview:
\* the walk that strips and the walk that measures agree on where its segments are
\* (jpeg_dimensions, util.rs:165; strip_jpeg_metadata_file, web/upload.rs:648).
THEOREM DimensionsRead == StrippingSpec => []StrippingInvariant
  <1>1. SizesFollowed => StrippingInvariant
    <2> SUFFICES ASSUME SizesFollowed, rewritten.phase = "done", image.whole, image.sizeAt <= PreviewBytes
                 PROVE  Dimensions(PreviewOf(rewritten.out)) = image.size
      BY DEF SizesFollowed, StrippingInvariant, DimensionsKnown
    <2>1. rewritten.out = image.kept
      BY DEF SizesFollowed, Followed, StrippedExactly
    <2> QED BY <2>1 DEF SizesFollowed, SizeKept
  <1> QED BY <1>1, SizesStart, SizesStep, PTL DEF StrippingSpec
=============================================================================

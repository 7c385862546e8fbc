-------------------------------- MODULE Browse --------------------------------
(***************************************************************************)
(* The public listing (web/browse.rs, db/search.rs): pages of files and of *)
(* pastes, newest first, each from a cursor of its own that the link to    *)
(* the older items carries, while items come and go.                       *)
(***************************************************************************)
EXTENDS Naturals, FiniteSets, FiniteSetsExt

CONSTANTS Ids,          \* public ids, as the database orders them
          LastSecond,   \* bound: created_at is in 1..LastSecond
          MaxItems,     \* bound: items of both listings
          PageSize,     \* discovery.page_size
          NoCursor

Listing == {"files", "pastes"}
ItemKey == (1..LastSecond) \X Ids

ASSUME BrowseAssumption == /\ Ids \subseteq Nat /\ LastSecond \in Nat \ {0}
                           /\ MaxItems \in Nat /\ PageSize \in Nat \ {0}
                           /\ NoCursor \notin ItemKey

VARIABLES second,    \* the clock
          listed,    \* listed[l]: items that are there, by created_at and id
          public,    \* public[l]: those that are active, public, not expired and match
          walk,      \* what the reader does next: "files", "pastes", "top" or "end"
          cursor,    \* cursor[l], in the link
          page,      \* page[l]: how many items the page has
          shown,     \* history: shown[l], in this walk
          again,     \* history: something was shown a second time
          whole      \* history: whole[l], public ever since the walk began

browseVars == <<second, listed, public, walk, cursor, page, shown, again, whole>>

Both(x) == [l \in Listing |-> x]

BrowseInit == /\ second = 1 /\ listed = Both({}) /\ public = Both({})
              /\ walk = "top" /\ cursor = Both(NoCursor) /\ page = Both(0)
              /\ shown = Both({}) /\ again = FALSE /\ whole = Both({})

Older(k, m) == k[1] < m[1] \/ (k[1] = m[1] /\ k[2] < m[2])

-----------------------------------------------------------------------------
Tick == second < LastSecond /\ second' = second + 1
        /\ UNCHANGED <<listed, public, walk, cursor, page, shown, again, whole>>

PublishItem(l) == \E i \in Ids :
    /\ <<second, i>> \notin listed[l]
    /\ Cardinality(listed["files"]) + Cardinality(listed["pastes"]) < MaxItems
    /\ listed' = [listed EXCEPT ![l] = @ \cup {<<second, i>>}]
    /\ public' = [public EXCEPT ![l] = @ \cup {<<second, i>>}]
    /\ UNCHANGED <<second, walk, cursor, page, shown, again, whole>>

\* Withheld, made unlisted, deleted, expired...
HideItem(l) == \E k \in public[l] :
    /\ public' = [public EXCEPT ![l] = @ \ {k}]
    /\ whole' = [whole EXCEPT ![l] = @ \ {k}]
    /\ UNCHANGED <<second, listed, walk, cursor, page, shown, again>>

\* ...or released, or made public again.
ShowItem(l) == \E k \in listed[l] \ public[l] :
    /\ public' = [public EXCEPT ![l] = @ \cup {k}]
    /\ UNCHANGED <<second, listed, walk, cursor, page, shown, again, whole>>

\* Mutant: rows with the time of the cursor are left out.
BeforeByTime(l) == {k \in public[l] : cursor[l] = NoCursor \/ k[1] < cursor[l][1]}

\* cursor_binds, and the comparison in public_files and public_pastes
Before(l) == {k \in public[l] : cursor[l] = NoCursor \/ Older(k, cursor[l])}

\* ORDER BY created_at DESC, public_id DESC LIMIT ?
FirstRows(S) == {k \in S : Cardinality({m \in S : Older(k, m)}) < PageSize}

\* public_browse reads files and then pastes; the cursor of an empty page stays.
ReadListing(l) ==
    LET rows == FirstRows(Before(l)) IN
    /\ cursor' = [cursor EXCEPT ![l] = IF rows = {} THEN @ ELSE
                      CHOOSE k \in rows : \A m \in rows \ {k} : Older(k, m)]
    /\ page'  = [page EXCEPT ![l] = Cardinality(rows)]
    /\ again' = (again \/ rows \cap shown[l] # {})
    /\ shown' = [shown EXCEPT ![l] = @ \cup rows]
    /\ UNCHANGED <<second, listed, public>>

\* The first page has no cursors.
StartWalk == /\ walk = "top" /\ walk' = "files" /\ whole' = public
             /\ UNCHANGED <<second, listed, public, cursor, page, shown, again>>
ReadFiles == /\ walk = "files" /\ walk' = "pastes" /\ ReadListing("files") /\ UNCHANGED whole
\* has_more
ReadPastes == /\ walk = "pastes" /\ ReadListing("pastes") /\ UNCHANGED whole
              /\ walk' = IF \E l \in Listing : page'[l] >= PageSize THEN "files" ELSE "end"
Leave == /\ walk \in {"files", "end"} /\ walk' = "top"
         /\ cursor' = Both(NoCursor) /\ page' = Both(0) /\ shown' = Both({}) /\ whole' = Both({})
         /\ UNCHANGED <<second, listed, public, again>>

BrowseNext == \/ Tick \/ StartWalk \/ ReadFiles \/ ReadPastes \/ Leave
              \/ \E l \in Listing : PublishItem(l) \/ HideItem(l) \/ ShowItem(l)

BrowseSpec == BrowseInit /\ [][BrowseNext]_browseVars

-----------------------------------------------------------------------------
BrowseTypeOK ==
    /\ second \in 1..LastSecond /\ walk \in {"files", "pastes", "top", "end"} /\ again \in BOOLEAN
    /\ {listed, public, shown, whole} \subseteq [Listing -> SUBSET ItemKey]
    /\ \A l \in Listing : IsFiniteSet(listed[l]) /\ public[l] \subseteq listed[l]
    /\ cursor \in [Listing -> ItemKey \cup {NoCursor}] /\ page \in [Listing -> Nat]

\* The cursor is the oldest item shown: what was public all the while and is not shown
\* yet comes after it.  A page that is not full was the last of its listing.
LastPage(l) == page[l] < PageSize /\ (walk = "end" \/ (walk = "pastes" /\ l = "files"))
WalksDown(l) ==
    /\ walk = "top" => cursor[l] = NoCursor /\ shown[l] = {}
    /\ \A k \in shown[l] : /\ cursor[l] # NoCursor
                           /\ k = cursor[l] \/ Older(cursor[l], k)
    /\ whole[l] \subseteq public[l] /\ whole[l] \ shown[l] \subseteq Before(l)
    /\ LastPage(l) => whole[l] \subseteq shown[l]
    /\ walk = "end" => page[l] < PageSize

\* A reader who follows the links is shown nothing twice and, at the end, everything
\* that stayed public all the while, whatever was published or hidden in between,
\* within a second or with one listing longer than the other (PageCursor,
\* db/models.rs:343; web/browse.rs:22).
BrowseInvariant == /\ BrowseTypeOK /\ \A l \in Listing : WalksDown(l)
                   /\ ~again
                   /\ walk = "end" => \A l \in Listing : whole[l] \subseteq shown[l]
=============================================================================

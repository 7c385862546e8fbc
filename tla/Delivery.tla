------------------------------- MODULE Delivery -------------------------------
(***************************************************************************)
(* Who is given a file, from which origin, and what a shared cache keeps   *)
(* of it (web/files.rs, web/support.rs, web.rs).                           *)
(*                                                                         *)
(* Files may have an origin of their own, which browsers send no session   *)
(* to.  Links are built by one part of the code and answered by another,   *)
(* while administrators change the settings and owners the visibility.     *)
(***************************************************************************)
EXTENDS Integers, FiniteSets

CONSTANTS Visitor,     \* people
          RoleOf,      \* RoleOf[v]: a Role, on the application's origin
          OwnerOf,     \* the visitor the file belongs to
          Modes,       \* delivery settings considered, a set of ModeRow
          MaxSize,     \* bound: bytes of an object
          MaxCached    \* bound: responses the shared cache has

Host  == {"app", "file"}
Route == {"slug", "raw", "thumbnail", "internal"}

\* Role and ActionRule: "admin" stands for the owners of the instance too, and a rule is
\* the least role it allows, or "disabled".
Rank  == [anonymous |-> 0, user |-> 1, moderator |-> 2, admin |-> 3]
Roles == DOMAIN Rank
Rules == Roles \cup {"disabled"}

\* isolated_file_origin, a public_file_base_url of its own, preview_pages,
\* policy.view_item, and signed_internal_urls
ModeRow == [isolated : BOOLEAN, base : BOOLEAN, previews : BOOLEAN, view : Rules, internal : BOOLEAN]

ASSUME DeliveryAssumption ==
    /\ RoleOf \in [Visitor -> Roles]
    /\ OwnerOf \in Visitor /\ RoleOf[OwnerOf] # "anonymous"
    /\ MaxSize \in Nat /\ MaxCached \in Nat /\ Modes \subseteq ModeRow /\ \A m \in Modes : m.isolated => m.base

VARIABLES mode,      \* the settings
          entry,     \* the file: its visibility, and whether it is active
          cached,    \* what a shared cache has, by route and host
          signed     \* visitors who were given a signed URL that has not expired

deliveryVars == <<mode, entry, cached, signed>>

DeliveryInit == /\ mode \in Modes /\ cached = {} /\ signed = {}
                /\ entry = [visibility |-> "unlisted", active |-> TRUE]

-----------------------------------------------------------------------------
\* Mutant: only private files are looked at.
NeedsAppIfPrivate == entry.visibility = "private"

\* file_needs_app_origin
NeedsApp == entry.visibility = "private" \/ mode.view # "anonymous"

\* file_origin, file_url, raw_file_url, thumbnail_file_url
Origin     == IF ~NeedsApp /\ mode.base THEN "file" ELSE "app"
LinkTo(r)  == [route |-> r, host |-> IF r = "slug" /\ mode.previews THEN "app" ELSE Origin]
Links      == {LinkTo(r) : r \in Route \ {"internal"}}

\* matches_file_host; the session is the application's
IsolatedHost(h) == mode.isolated /\ h = "file"
UserAt(v, h)    == IF h = "file" THEN "anonymous" ELSE RoleOf[v]

\* policy::allowed
Permits(rule, role) == rule # "disabled" /\ Rank[role] >= Rank[rule]

\* authorize_item_view
MayView(v, role) == \/ role = "admin"
                    \/ IF entry.visibility = "private" THEN role # "anonymous" /\ v = OwnerOf
                       ELSE Permits(mode.view, role)

\* enforce_file_origin
FromOrigin(h) == mode.isolated => (NeedsApp <=> ~IsolatedHost(h))

\* file_origin_middleware
RouteThere(r, h) == IsolatedHost(h) => r # "internal"

\* What v is given for a link to r on host h: by raw_file...
Raw(v, h) == entry.active /\ FromOrigin(h) /\ MayView(v, UserAt(v, h))

\* ...by thumbnail_file, if there is one...
Thumbnail(v, h) == Raw(v, h)

\* ...by file_slug, which gives a preview if there are previews...
Slug(v, h)    == ~mode.previews /\ Raw(v, h)
Preview(v, h) == /\ mode.previews /\ ~IsolatedHost(h)
                 /\ entry.active /\ MayView(v, UserAt(v, h))

\* ...and by internal_raw_file to the bearer of a signed URL.
Internal(v, h) == mode.internal /\ v \in signed /\ entry.active

Bytes(v, r, h) == /\ RouteThere(r, h)
                  /\ \/ r = "raw" /\ Raw(v, h)
                     \/ r = "thumbnail" /\ Thumbnail(v, h)
                     \/ r = "slug" /\ Slug(v, h)
                     \/ r = "internal" /\ Internal(v, h)

\* headers::Range::satisfiable_ranges, for one range: "-n" is the last n bytes, if
\* there are as many.  Bounds are Nat or Open.
Open == 0 - 1
Satisfiable(range, total) ==
    IF range.from = Open /\ range.to # Open
    THEN IF total < range.to THEN {} ELSE {[from |-> total - range.to, to |-> Open]}
    ELSE {range}

\* first_satisfiable_range: the bytes from `start` up to, not including, `end`.
RangeOf(range, total) ==
    {b \in [start : 0..total, end : 0..total] :
        \E s \in Satisfiable(range, total) :
            /\ b.start = IF s.from = Open THEN 0 ELSE s.from
            /\ b.end   = IF s.to = Open THEN total ELSE s.to + 1
            /\ b.start < b.end}

\* serve_file: no Range header, one that is answered with a part, or one with a 416.
Served(total) == {[start |-> 0, end |-> total]} \cup
    UNION {RangeOf([from |-> f, to |-> t], total) : f, t \in {Open} \cup 0..(total + 1)}

\* file_cache_scope; CacheScope::Public for a signed URL, which only its bearers know
SharedScope(r) == r = "internal" \/ ~NeedsApp

\* A response goes through a shared cache, which keeps it if it may.
Fetch(v, r, h) ==
    /\ Bytes(v, r, h) /\ SharedScope(r) /\ Cardinality(cached) < MaxCached
    /\ cached' = cached \cup {[route |-> r, host |-> h,
                               anyone |-> \A w \in Visitor : MayView(w, UserAt(w, h))]}
    /\ UNCHANGED <<mode, entry, signed>>

\* public_cache_seconds have passed.
ExpireCached(c) == c \in cached /\ cached' = cached \ {c} /\ UNCHANGED <<mode, entry, signed>>

\* api_upload_file: the answer to an upload has a signed URL.  It expires.
GiveSigned(v) == /\ mode.internal /\ v = OwnerOf /\ signed' = signed \cup {v}
                 /\ UNCHANGED <<mode, entry, cached>>
EndSigned(v)  == v \in signed /\ signed' = signed \ {v} /\ UNCHANGED <<mode, entry, cached>>

ChangeMode == \E m \in Modes : mode' = m /\ UNCHANGED <<entry, cached, signed>>

\* requested_visibility by the owner; withheld or released.
ChangeEntry == \E visibility \in {"unlisted", "private"}, active \in BOOLEAN :
    /\ entry' = [visibility |-> visibility, active |-> active]
    /\ UNCHANGED <<mode, cached, signed>>

DeliveryNext == \/ ChangeMode \/ ChangeEntry
                \/ \E v \in Visitor : GiveSigned(v) \/ EndSigned(v)
                \/ \E v \in Visitor, r \in Route, h \in Host : Fetch(v, r, h)
                \/ \E c \in cached : ExpireCached(c)

DeliverySpec == DeliveryInit /\ [][DeliveryNext]_deliveryVars

-----------------------------------------------------------------------------
DeliveryTypeOK ==
    /\ mode \in Modes /\ entry \in [visibility : {"unlisted", "private"}, active : BOOLEAN]
    /\ cached \subseteq [route : Route, host : Host, anyone : BOOLEAN] /\ signed \subseteq {OwnerOf}

\* Every link to an active file leads whoever may view it to the file or its preview,
\* in every combination of settings (file_url, web/support.rs:79).
LinksLead == entry.active =>
    \A v \in Visitor, l \in Links :
        MayView(v, RoleOf[v]) =>
            \/ Bytes(v, l.route, l.host)
            \/ l.route = "slug" /\ Preview(v, l.host)

\* Nobody is given the bytes who may not view the file, except for a signed URL; and
\* with an isolated origin, the application's gives none that could come from there
\* (enforce_file_origin, web/files.rs:227).
BytesForViewers ==
    \A v \in Visitor, r \in Route, h \in Host : Bytes(v, r, h) =>
        /\ r = "internal" \/ MayView(v, RoleOf[v])
        /\ mode.isolated /\ h = "app" /\ r # "internal" => NeedsApp

\* A shared cache keeps only what anyone was entitled to when it was sent
\* (file_cache_scope, web/files.rs:519).
CachedForAnyone == \A c \in cached : c.route = "internal" \/ c.anyone

\* Whatever range is asked for, what is sent lies within the object and is not empty,
\* unless the object is (first_satisfiable_range, web/files.rs:492).
PartsWithin == \A total \in 0..MaxSize : \A b \in Served(total) :
                   b.end <= total /\ (b.start < b.end \/ total = 0)

DeliveryInvariant ==
    DeliveryTypeOK /\ LinksLead /\ BytesForViewers /\ CachedForAnyone /\ PartsWithin
=============================================================================

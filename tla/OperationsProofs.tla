--------------------------- MODULE OperationsProofs ---------------------------
(* Theorems about what keeps a server going: Scratch, Settings and Migrations, *)
(* for every choice of their constants.                                        *)
EXTENDS Housekeeping, Settings, Migrations, TLAPS

-----------------------------------------------------------------------------
(* ScratchInvariant *)

Slots == [at : Places, upload : Scrap \cup {NoScrap}, out : Scrap \cup {NoScrap}]

LEMMA SlotChanges ==
    ASSUME NEW r \in Slots, NEW at \in Places, NEW n \in Scrap \cup {NoScrap}
    PROVE  /\ [r EXCEPT !.at = at] = [at |-> at, upload |-> r.upload, out |-> r.out]
           /\ [r EXCEPT !.at = at, !.out = n] = [at |-> at, upload |-> r.upload, out |-> n]
  <1>1. PICK f \in Places, x \in Scrap \cup {NoScrap}, y \in Scrap \cup {NoScrap} :
            r = [at |-> f, upload |-> x, out |-> y]
    BY DEF Slots
  <1>2. [r EXCEPT !.at = at] = [at |-> at, upload |-> r.upload, out |-> r.out]
    BY <1>1
  <1>3. [r EXCEPT !.at = at, !.out = n] = [at |-> at, upload |-> r.upload, out |-> n]
    <2> DEFINE c == [r EXCEPT !.at = at, !.out = n]
    <2>1. /\ DOMAIN c = DOMAIN r /\ c["at"] = at /\ c["out"] = n
          /\ c["upload"] = r["upload"] /\ c = [i \in DOMAIN c |-> c[i]]
      BY <1>1
    <2>2. DOMAIN r = {"at", "upload", "out"}
      BY <1>1
    <2> HIDE DEF c
    <2> QED  BY <2>1, <2>2
  <1> QED  BY <1>2, <1>3

\* A name is drawn only where one is left.
LEMMA NewScrapIsUnused == Unused # {} => NewScrap \in Unused
  BY DEF NewScrap

\* Files go and come; nothing else happens to a file.
LEMMA DiskMoves ==
    ASSUME ScratchTypeOK, NEW gone, NEW added, Disk(gone, added)
    PROVE  /\ disk' \in [Scrap -> {"none", "fresh", "stale"}]
           /\ \A n \in Scrap :
                  disk'[n] # "none" <=> n \in added \/ (disk[n] # "none" /\ n \notin gone)
  BY DEF ScratchTypeOK, Disk

LEMMA AbandonMoves ==
    ASSUME ScratchTypeOK, NEW S, NEW gone, NEW why, why \in Reasons \/ S = {},
           Abandon(S, gone, why)
    PROVE  /\ left' \in [Scrap -> Reasons \cup {NoScrap}]
           /\ \A n \in Scrap : left'[n] # NoScrap <=>
                  n \notin gone /\ (left[n] # NoScrap \/ (n \in S /\ disk[n] # "none"))
  BY ScratchAssumption DEF ScratchTypeOK, Abandon

\* A request turns to `new`: it keeps names it has or draws unused ones, and what it
\* no longer names is removed, or abandoned with a reason.
LEMMA RequestMoves ==
    ASSUME ScratchInvariant, NEW u \in Upload, NEW new \in Slots,
           new.at \in {"away", "fetch"} => new.upload = NoScrap,
           new.at \notin {"form", "fetch", "strip"} => new.out = NoScrap,
           new.out = new.upload => new.out = NoScrap,
           NEW added \in SUBSET Unused, NEW gone \in SUBSET (Names(u) \cup {NoScrap}),
           NEW S \in SUBSET (Names(u) \cup {NoScrap}),
           NEW why, why \in Reasons \/ S = {},
           Go(u, new), Disk(gone, added), Abandon(S, gone, why), UNCHANGED scan,
           {new.upload, new.out} \ {NoScrap} \subseteq Names(u) \cup added,
           added \subseteq {new.upload, new.out},
           Names(u) \subseteq {new.upload, new.out} \cup gone \cup S,
           (gone \cup S) \cap {new.upload, new.out} \subseteq {NoScrap}
    PROVE  ScratchInvariant'
  <1> DEFINE M == {new.upload, new.out} \ {NoScrap}
  <1>0. ScratchTypeOK /\ NamesApart
    BY DEF ScratchInvariant
  <1>1. /\ holds' = [holds EXCEPT ![u] = new] /\ holds'[u] = new
        /\ \A v \in Upload \ {u} : holds'[v] = holds[v]
    BY <1>0 DEF Go, ScratchTypeOK
  <1>2. ScratchTypeOK'
    <2>1. holds' \in [Upload -> Slots]
      BY <1>0, <1>1 DEF ScratchTypeOK, Slots
    <2> QED  BY <1>0, <1>1, <2>1, DiskMoves, AbandonMoves DEF ScratchTypeOK, Slots
  <1>3. Names(u)' = M /\ \A v \in Upload \ {u} : Names(v)' = Names(v)
    BY <1>1 DEF Names
  <1>4. /\ M \subseteq Names(u) \cup added /\ added \subseteq M
        /\ Names(u) \subseteq M \cup gone \cup S
        /\ (gone \cup S) \cap M = {}
    BY ScratchAssumption DEF Names, Unused
  <1>5. \A n \in added : n \in Scrap /\ disk[n] = "none" /\ ~Held(n)
    BY DEF Unused, Held
  <1>6. \A n \in Scrap : Held(n) <=> n = scan \/ \E v \in Upload : n \in Names(v)
    BY ScratchAssumption DEF Held, Names
  <1>7. \A n \in Scrap : Held(n)' <=> n = scan \/ n \in M
                                      \/ \E v \in Upload \ {u} : n \in Names(v)
    <2>1. \A n \in Scrap : Held(n)' <=> n = scan' \/ \E v \in Upload : n \in Names(v)'
      BY ScratchAssumption DEF Held, Names
    <2> HIDE DEF M
    <2> QED  BY <1>3, <2>1
  <1> HIDE DEF M
  <1>8. NamesApart'
    <2>1. \A v \in Upload : scan' \notin Names(v)'
      BY <1>0, <1>3, <1>4, <1>5, <1>6 DEF NamesApart, Held
    <2>2. \A v \in Upload \ {u} : M \cap Names(v) = {}
      <3> SUFFICES ASSUME NEW v \in Upload \ {u}, NEW n \in M, n \in Names(v) PROVE FALSE
        OBVIOUS
      <3>1. n \in added
        BY <1>0, <1>4 DEF NamesApart
      <3> QED  BY <1>5, <1>6, <3>1
    <2>3. \A v, w \in Upload : v # w => Names(v)' \cap Names(w)' = {}
      BY <1>0, <1>3, <2>2 DEF NamesApart
    <2>4. \A v \in Upload : holds'[v].out = holds'[v].upload => holds'[v].out = NoScrap
      BY <1>0, <1>1 DEF NamesApart
    <2> QED  BY <2>1, <2>3, <2>4 DEF NamesApart
  <1>9. ASSUME NEW n \in Scrap
        PROVE  /\ disk'[n] # "none" => (Held(n)' <=> left'[n] = NoScrap)
               /\ left'[n] # NoScrap => disk'[n] # "none"
    <2>1. disk'[n] # "none" <=> n \in added \/ (disk[n] # "none" /\ n \notin gone)
      BY <1>0, DiskMoves
    <2>2. left'[n] # NoScrap <=>
              n \notin gone /\ (left[n] # NoScrap \/ (n \in S /\ disk[n] # "none"))
      BY <1>0, AbandonMoves
    <2>3. /\ disk[n] # "none" => (Held(n) <=> left[n] = NoScrap)
          /\ left[n] # NoScrap => disk[n] # "none"
      BY DEF ScratchInvariant
    <2>4. n \in Names(u) => n # scan /\ \A v \in Upload \ {u} : n \notin Names(v)
      BY <1>0 DEF NamesApart
    <2>5. n \in gone \cup S => n \in Names(u)
      BY ScratchAssumption
    <2> QED  BY <1>4, <1>5, <1>6, <1>7, <2>1, <2>2, <2>3, <2>4, <2>5
  <1> QED  BY <1>2, <1>8, <1>9 DEF ScratchInvariant

\* The same by the names: a request turns to `at`, with a as its upload and b as its
\* output; the files in `added` come, those in `gone` go, those in S are left behind.
Turns(u, at, a, b, added, gone, S) ==
    /\ at \in Places /\ a \in Scrap \cup {NoScrap} /\ b \in Scrap \cup {NoScrap}
    /\ at \in {"away", "fetch"} => a = NoScrap
    /\ at \notin {"form", "fetch", "strip"} => b = NoScrap
    /\ b = a => b = NoScrap
    /\ added \subseteq Unused /\ gone \cup S \subseteq {holds[u].upload, holds[u].out}
    /\ {a, b} \subseteq {holds[u].upload, holds[u].out, NoScrap} \cup added
    /\ added \subseteq {a, b}
    /\ {holds[u].upload, holds[u].out} \subseteq {a, b, NoScrap} \cup gone \cup S
    /\ (gone \cup S) \cap {a, b} \subseteq {NoScrap}

LEMMA RequestTurns ==
    ASSUME ScratchInvariant, NEW u \in Upload, NEW at, NEW a, NEW b, NEW added, NEW gone,
           NEW S, NEW why, why \in Reasons \/ S = {}, Turns(u, at, a, b, added, gone, S),
           holds' = [holds EXCEPT ![u] = [at |-> at, upload |-> a, out |-> b]],
           Disk(gone, added), Abandon(S, gone, why), UNCHANGED scan
    PROVE  ScratchInvariant'
  <1> DEFINE new == [at |-> at, upload |-> a, out |-> b]
  <1>1. new \in Slots /\ new.at = at /\ new.upload = a /\ new.out = b /\ Go(u, new)
    BY DEF Slots, Turns, Go
  <1>2. Names(u) = {holds[u].upload, holds[u].out} \ {NoScrap}
    BY DEF Names
  <1> HIDE DEF new
  <1>3. added \in SUBSET Unused /\ gone \in SUBSET (Names(u) \cup {NoScrap})
        /\ S \in SUBSET (Names(u) \cup {NoScrap})
    BY <1>2 DEF Turns
  <1>4. /\ new.at \in {"away", "fetch"} => new.upload = NoScrap
        /\ new.at \notin {"form", "fetch", "strip"} => new.out = NoScrap
        /\ new.out = new.upload => new.out = NoScrap
    BY <1>1 DEF Turns
  <1>5. /\ {new.upload, new.out} \ {NoScrap} \subseteq Names(u) \cup added
        /\ added \subseteq {new.upload, new.out}
        /\ Names(u) \subseteq {new.upload, new.out} \cup gone \cup S
        /\ (gone \cup S) \cap {new.upload, new.out} \subseteq {NoScrap}
    BY <1>1, <1>2 DEF Turns
  <1> QED  BY <1>1, <1>3, <1>4, <1>5, RequestMoves

\* The actions of a request, by what becomes of the two names it may have.
LEMMA RequestSteps ==
    ASSUME ScratchInvariant, NEW u \in Upload, UploadStep(u)
    PROVE  ScratchInvariant'
  <1> DEFINE a == holds[u].upload
             b == holds[u].out
  <1>1. /\ ScratchTypeOK /\ holds[u].at \in Places
        /\ holds[u] \in Slots
        /\ a \in Scrap \cup {NoScrap} /\ b \in Scrap \cup {NoScrap}
        /\ b = a => b = NoScrap
        /\ holds[u].at \in {"away", "fetch"} => a = NoScrap
        /\ holds[u].at \notin {"form", "fetch", "strip"} => b = NoScrap
    BY DEF ScratchInvariant, ScratchTypeOK, NamesApart, Slots
  <1>2. Unused # {} => /\ NewScrap \in Scrap /\ NewScrap \notin {a, b, NoScrap}
                       /\ {NewScrap} \subseteq Unused
    BY NewScrapIsUnused, ScratchAssumption DEF Unused
  <1> USE DEF At, Clear, Away
  \* Another place, the same names.
  <1>3. ASSUME NEW at \in Places, Go(u, [holds[u] EXCEPT !.at = at]),
               UNCHANGED <<disk, scan, left>>,
               at \in {"away", "fetch"} => a = NoScrap,
               at \notin {"form", "fetch", "strip"} => b = NoScrap
        PROVE  ScratchInvariant'
    <2>1. holds' = [holds EXCEPT ![u] = [at |-> at, upload |-> a, out |-> b]]
      BY <1>1, <1>3, SlotChanges DEF Go
    <2>2. Disk({}, {}) /\ Abandon({}, {}, "nobody")
      BY <1>1, <1>3 DEF Disk, Abandon, ScratchTypeOK
    <2>3. Turns(u, at, a, b, {}, {}, {})
      BY <1>1, <1>3 DEF Turns
    <2> QED  BY <1>3, <2>1, <2>2, <2>3, RequestTurns
  <1>4. CASE ReceiveFile(u)
    <2>1. holds' = [holds EXCEPT ![u] = [at |-> "form", upload |-> a, out |-> NewScrap]]
      BY <1>1, <1>2, <1>4, SlotChanges DEF Go, Places, ReceiveFile
    <2>2. Turns(u, "form", a, NewScrap, {NewScrap}, {}, {})
      BY <1>1, <1>2, <1>4 DEF Turns, Places, ReceiveFile
    <2> QED  BY <1>4, <2>1, <2>2, RequestTurns DEF ReceiveFile
  <1>5. CASE FieldRead(u)
    <2>1. Turns(u, "fields", b, NoScrap, {}, {a}, {})
      BY <1>1, <1>5 DEF Turns, Places, FieldRead
    <2> QED  BY <1>5, <2>1, RequestTurns DEF Go, FieldRead
  <1>6. CASE FieldRefused(u)
    <2>1. Turns(u, "away", NoScrap, NoScrap, {}, {a, b}, {})
      BY <1>1 DEF Turns, Places
    <2> QED  BY <1>6, <2>1, RequestTurns DEF Go, FieldRefused
  <1>7. CASE FieldCut(u)
    <2>1. Turns(u, "away", NoScrap, NoScrap, {}, {a}, {b})
      BY <1>1 DEF Turns, Places
    <2>2. "form" \in Reasons
      BY DEF Reasons
    <2> QED  BY <1>7, <2>1, <2>2, RequestTurns DEF Go, FieldCut
  <1>8. CASE FetchUrl(u)
    <2>1. holds' = [holds EXCEPT ![u] = [at |-> "fetch", upload |-> a, out |-> NewScrap]]
      BY <1>1, <1>2, <1>8, SlotChanges DEF Go, Places, FetchUrl
    <2>2. Turns(u, "fetch", a, NewScrap, {NewScrap}, {}, {})
      BY <1>1, <1>2, <1>8 DEF Turns, Places, FetchUrl
    <2> QED  BY <1>8, <2>1, <2>2, RequestTurns DEF FetchUrl
  <1>9. CASE Fetched(u)
    <2>1. Turns(u, "received", b, NoScrap, {}, {}, {})
      BY <1>1, <1>9 DEF Turns, Places, Fetched
    <2>2. Disk({}, {}) /\ Abandon({}, {}, "nobody")
      BY <1>1, <1>9 DEF Disk, Abandon, ScratchTypeOK, Fetched
    <2> QED  BY <1>9, <2>1, <2>2, RequestTurns DEF Go, Fetched
  <1>10. CASE FetchCut(u)
    <2>1. Turns(u, "away", NoScrap, NoScrap, {}, {b}, {})
      BY <1>1, <1>10 DEF Turns, Places, FetchCut
    <2> QED  BY <1>10, <2>1, RequestTurns DEF Go, FetchCut
  <1>11. CASE StripStart(u)
    <2>1. holds' = [holds EXCEPT ![u] = [at |-> "strip", upload |-> a, out |-> NewScrap]]
      BY <1>1, <1>2, <1>11, SlotChanges DEF Go, Places, StripStart
    <2>2. Turns(u, "strip", a, NewScrap, {NewScrap}, {}, {})
      BY <1>1, <1>2, <1>11 DEF Turns, Places, StripStart
    <2> QED  BY <1>11, <2>1, <2>2, RequestTurns DEF StripStart
  <1>12. CASE StripEnd(u)
    <2>1. Turns(u, "stripped", b, NoScrap, {}, {a}, {})
      BY <1>1, <1>12 DEF Turns, Places, StripEnd
    <2> QED  BY <1>12, <2>1, RequestTurns DEF Go, StripEnd
  <1>13. CASE StripGivenUp(u)
    <2>1. holds' = [holds EXCEPT ![u] = [at |-> "stripped", upload |-> a, out |-> NoScrap]]
      BY <1>1, <1>13, SlotChanges DEF Go, Places, StripGivenUp
    <2>2. Turns(u, "stripped", a, NoScrap, {}, {b}, {})
      BY <1>1 DEF Turns, Places
    <2> QED  BY <1>13, <2>1, <2>2, RequestTurns DEF StripGivenUp
  <1>14. CASE StripCut(u)
    <2>1. Turns(u, "away", NoScrap, NoScrap, {}, {a}, {b})
      BY <1>1 DEF Turns, Places
    <2>2. "strip" \in Reasons
      BY DEF Reasons
    <2> QED  BY <1>14, <2>1, <2>2, RequestTurns DEF Go, StripCut
  <1>15. CASE EndUpload(u)
    <2>1. Turns(u, "away", NoScrap, NoScrap, {}, {a}, {})
      BY <1>1, <1>15 DEF Turns, Places, EndUpload
    <2> QED  BY <1>15, <2>1, RequestTurns DEF Go, EndUpload
  <1>16. CASE FormRead(u) \/ NotStripped(u) \/ Hash(u)
    <2>1. b = NoScrap /\ UNCHANGED <<disk, scan, left>>
      BY <1>1, <1>16 DEF FormRead, NotStripped, Hash
    <2>2. PICK at \in {"received", "stripped", "hashed"} :
              Go(u, [holds[u] EXCEPT !.at = at])
      BY <1>16 DEF FormRead, NotStripped, Hash
    <2>3. at \in Places
      BY DEF Places
    <2> QED  BY <1>3, <2>1, <2>2, <2>3
  <1>17. CASE WriteOn(u)
    BY <1>17 DEF WriteOn, ScratchInvariant, ScratchTypeOK, NamesApart, Names, Held
  <1> QED
    BY <1>4, <1>5, <1>6, <1>7, <1>8, <1>9, <1>10, <1>11, <1>12, <1>13, <1>14, <1>15, <1>16,
       <1>17 DEF UploadStep

LEMMA ScanSteps ==
    ASSUME ScratchInvariant, ScanWrite \/ ScanRead \/ ScanTimeout
    PROVE  ScratchInvariant'
  <1>1. ScratchTypeOK /\ NamesApart
    BY DEF ScratchInvariant
  <1>2. UNCHANGED holds /\ (\A u \in Upload : Names(u)' = Names(u))
    BY DEF ScanWrite, ScanRead, ScanTimeout, Names
  <1>3. \A n \in Scrap : /\ Held(n) <=> n = scan \/ \E u \in Upload : n \in Names(u)
                         /\ Held(n)' <=> n = scan' \/ \E u \in Upload : n \in Names(u)
    BY <1>2, ScratchAssumption DEF Held, Names
  <1>4. CASE ScanWrite
    <2>1. /\ NewScrap \in Scrap /\ disk[NewScrap] = "none" /\ ~Held(NewScrap)
          /\ scan = NoScrap /\ scan' = NewScrap
      BY <1>4, NewScrapIsUnused DEF ScanWrite, Unused, Held
    <2>2. UNCHANGED left /\ disk' \in [Scrap -> {"none", "fresh", "stale"}]
          /\ \A n \in Scrap : disk'[n] # "none" <=> n = NewScrap \/ disk[n] # "none"
      BY <1>1, <1>4, DiskMoves DEF ScanWrite
    <2>3. ScratchTypeOK' /\ NamesApart'
      BY <1>1, <1>2, <1>3, <2>1, <2>2 DEF ScratchTypeOK, NamesApart
    <2> QED  BY <1>3, <2>1, <2>2, <2>3, ScratchAssumption DEF ScratchInvariant
  <1>5. CASE ScanRead
    <2>1. scan \in Scrap /\ scan' = NoScrap
      BY <1>1, <1>5 DEF ScanRead, ScratchTypeOK
    <2>2. /\ disk' \in [Scrap -> {"none", "fresh", "stale"}]
          /\ \A n \in Scrap : disk'[n] # "none" <=> disk[n] # "none" /\ n # scan
      BY <1>1, <1>5, DiskMoves DEF ScanRead
    <2>3. /\ left' \in [Scrap -> Reasons \cup {NoScrap}]
          /\ \A n \in Scrap : left'[n] # NoScrap <=> n # scan /\ left[n] # NoScrap
      BY <1>1, <1>5, AbandonMoves DEF ScanRead
    <2>4. ScratchTypeOK' /\ NamesApart'
      BY <1>1, <1>2, <2>1, <2>2, <2>3 DEF ScratchTypeOK, NamesApart, Names
    <2>5. \A u \in Upload : scan \notin Names(u)
      BY <1>1 DEF NamesApart
    <2> QED  BY <1>3, <2>1, <2>2, <2>3, <2>4, <2>5, ScratchAssumption DEF ScratchInvariant
  <1>6. CASE ScanTimeout
    <2>1. scan \in Scrap /\ scan' = NoScrap /\ UNCHANGED disk
      BY <1>1, <1>6 DEF ScanTimeout, ScratchTypeOK
    <2>2. /\ left' \in [Scrap -> Reasons \cup {NoScrap}]
          /\ \A n \in Scrap : left'[n] # NoScrap <=>
                 left[n] # NoScrap \/ (n = scan /\ disk[n] # "none")
      BY <1>1, <1>6, AbandonMoves DEF ScanTimeout, Reasons
    <2>3. ScratchTypeOK' /\ NamesApart'
      BY <1>1, <1>2, <2>1, <2>2 DEF ScratchTypeOK, NamesApart, Names
    <2>4. \A u \in Upload : scan \notin Names(u)
      BY <1>1 DEF NamesApart
    <2> QED  BY <1>3, <2>1, <2>2, <2>3, <2>4, ScratchAssumption DEF ScratchInvariant
  <1> QED  BY <1>4, <1>5, <1>6

LEMMA OtherScratchSteps ==
    ASSUME ScratchInvariant,
           KillUploads \/ SweepScratch \/ \E n \in Scrap : GetOld(n)
    PROVE  ScratchInvariant'
  <1>1. ScratchTypeOK /\ NamesApart
    BY DEF ScratchInvariant
  <1>2. CASE KillUploads
    <2>1. /\ holds' = [u \in Upload |-> Away] /\ scan' = NoScrap /\ UNCHANGED disk
          /\ left' = [n \in Scrap |-> IF disk[n] # "none" /\ left[n] = NoScrap
                                      THEN "killed" ELSE left[n]]
      BY <1>2 DEF KillUploads
    <2>2. ScratchTypeOK'
      BY <1>1, <2>1 DEF ScratchTypeOK, Away, Reasons, Places
    <2>3. NamesApart' /\ \A n \in Scrap : ~Held(n)'
      BY <2>1, ScratchAssumption DEF NamesApart, Names, Held, Away
    <2>4. \A n \in Scrap : left'[n] = NoScrap <=> disk[n] = "none"
      BY <2>1, ScratchAssumption DEF ScratchInvariant, Reasons
    <2> QED  BY <2>1, <2>2, <2>3, <2>4 DEF ScratchInvariant
  <1>3. CASE SweepScratch
    <2> DEFINE stale == {n \in Scrap : disk[n] = "stale"}
    <2>1. Disk(stale, {}) /\ Abandon({}, stale, "nobody") /\ UNCHANGED <<holds, scan>>
      BY <1>3 DEF SweepScratch
    <2> HIDE DEF stale
    <2>2. /\ disk' \in [Scrap -> {"none", "fresh", "stale"}]
          /\ \A n \in Scrap : disk'[n] # "none" <=> disk[n] # "none" /\ n \notin stale
      BY <1>1, <2>1, DiskMoves
    <2>3. /\ left' \in [Scrap -> Reasons \cup {NoScrap}]
          /\ \A n \in Scrap : left'[n] # NoScrap <=> n \notin stale /\ left[n] # NoScrap
      BY <1>1, <2>1, AbandonMoves
    <2>4. ScratchTypeOK' /\ NamesApart' /\ \A n \in Scrap : Held(n)' = Held(n)
      BY <1>1, <2>1, <2>2, <2>3 DEF ScratchTypeOK, NamesApart, Names, Held
    <2> QED  BY <2>2, <2>3, <2>4 DEF ScratchInvariant
  <1>4. CASE \E n \in Scrap : GetOld(n)
    <2>1. /\ UNCHANGED <<holds, scan, left>> /\ disk' \in [Scrap -> {"none", "fresh", "stale"}]
          /\ \A n \in Scrap : disk'[n] = "none" <=> disk[n] = "none"
      BY <1>1, <1>4 DEF GetOld, ScratchTypeOK
    <2>2. ScratchTypeOK' /\ NamesApart' /\ \A n \in Scrap : Held(n)' = Held(n)
      BY <1>1, <2>1 DEF ScratchTypeOK, NamesApart, Names, Held
    <2> QED  BY <2>1, <2>2 DEF ScratchInvariant
  <1> QED  BY <1>2, <1>3, <1>4

\* A file in the scratch directory is in use, or was left behind by one of the four
\* ways that are known to clean up nothing; and however requests, scans, sweeps and
\* crashes interleave, no two requests write to the same file.
THEOREM ScratchHeld == ScratchSpec => []ScratchInvariant
  <1>1. ScratchInit => ScratchInvariant
    BY ScratchAssumption DEF ScratchInit, ScratchInvariant, ScratchTypeOK, NamesApart,
       Names, Held, Away, Places, Reasons
  <1>2. ScratchInvariant /\ [ScratchNext \/ KillUploads \/ SweepScratch
                             \/ \E n \in Scrap : GetOld(n)]_scratchVars
            => ScratchInvariant'
    <2> SUFFICES ASSUME ScratchInvariant,
                        [ScratchNext \/ KillUploads \/ SweepScratch
                         \/ \E n \in Scrap : GetOld(n)]_scratchVars
                 PROVE  ScratchInvariant'
      OBVIOUS
    <2>1. CASE UNCHANGED scratchVars
      BY <2>1 DEF scratchVars, ScratchInvariant, ScratchTypeOK, NamesApart, Names, Held
    <2>2. CASE ScratchNext
      BY <2>2, RequestSteps, ScanSteps DEF ScratchNext
    <2> QED  BY <2>1, <2>2, OtherScratchSteps
  <1> QED  BY <1>1, <1>2, PTL DEF ScratchSpec

\* A server that takes uploads and runs the passes of the job does to its scratch
\* files nothing that Scratch does not have, so they are held or left behind as there.
THEOREM ServerHoldsScratch == HousekeepingSpec => ScratchSpec /\ []ScratchInvariant
  <1>1. HousekeepingInit => ScratchInit
    BY DEF HousekeepingInit
  <1>2. [HousekeepingNext]_housekeepingVars
            => [ScratchNext \/ KillUploads \/ SweepScratch
                \/ \E n \in Scrap : GetOld(n)]_scratchVars
    BY DEF HousekeepingNext, Passes, SweepPass, OtherPass, Kill, Run, UploadMoves,
       ScrapAges, FilesMove, housekeepingVars
  <1> QED  BY <1>1, <1>2, ScratchHeld, PTL DEF HousekeepingSpec, ScratchSpec

-----------------------------------------------------------------------------
(* SettingsInvariant *)

\* What the settings say, field by field.
LEMMA OverFields ==
    ASSUME NEW s, NEW r
    PROVE  /\ DOMAIN Over(s, r) = (DOMAIN s) \cup (DOMAIN r)
           /\ \A f \in DOMAIN s : Over(s, r)[f] = s[f]
           /\ \A f \in (DOMAIN r) \ (DOMAIN s) : Over(s, r)[f] = r[f]
  BY DEF Over

\* What is persisted when the table has st.
LEMMA PersistedFields ==
    ASSUME NEW st, DOMAIN st \subseteq Field
    PROVE  /\ DOMAIN Over(st, FileSettings) = Field
           /\ \A f \in DOMAIN st : Over(st, FileSettings)[f] = st[f]
           /\ \A f \in Field \ DOMAIN st : Over(st, FileSettings)[f] = FileSettings[f]
  <1>1. DOMAIN FileSettings = Field
    BY SettingsAssumption
  <1> DEFINE file == FileSettings
  <1>2. /\ DOMAIN Over(st, file) = (DOMAIN st) \cup (DOMAIN file)
        /\ \A f \in DOMAIN st : Over(st, file)[f] = st[f]
        /\ \A f \in (DOMAIN file) \ (DOMAIN st) : Over(st, file)[f] = file[f]
    BY OverFields
  <1> QED  BY <1>1, <1>2

LEMMA SettingsFields ==
    ASSUME SettingsTypeOK
    PROVE  /\ DOMAIN env \subseteq Field \ {"hashes"}
           /\ DOMAIN Persisted = Field
           /\ \A f \in DOMAIN stored : f \in Field /\ Persisted[f] = stored[f]
           /\ \A f \in Field \ DOMAIN stored : Persisted[f] = FileSettings[f]
           /\ DOMAIN Effective = Field
           /\ \A f \in DOMAIN env : Effective[f] = env[f]
           /\ \A f \in Field \ DOMAIN env : Effective[f] = Persisted[f]
           /\ Effective.hashes = Persisted.hashes
  <1>1. DOMAIN FileSettings = Field /\ DOMAIN stored \subseteq Field
        /\ DOMAIN env \subseteq Field \ {"hashes"} /\ "hashes" \in Field
    BY SettingsAssumption DEF SettingsTypeOK, Scanning, Field
  <1>2. /\ DOMAIN Persisted = Field
        /\ \A f \in DOMAIN stored : Persisted[f] = stored[f]
        /\ \A f \in Field \ DOMAIN stored : Persisted[f] = FileSettings[f]
    BY <1>1, OverFields, ZenonT(60) DEF Persisted
  <1>3. /\ DOMAIN Effective = Field
        /\ \A f \in DOMAIN env : Effective[f] = env[f]
        /\ \A f \in Field \ DOMAIN env : Effective[f] = Persisted[f]
    <2>1. /\ DOMAIN Effective = (DOMAIN env) \cup (DOMAIN Persisted)
          /\ \A f \in DOMAIN env : Effective[f] = env[f]
          /\ \A f \in (DOMAIN Persisted) \ (DOMAIN env) : Effective[f] = Persisted[f]
      BY OverFields DEF Effective
    <2> QED  BY <1>1, <1>2, <2>1
  <1> QED  BY <1>1, <1>2, <1>3

\* Neither the file nor what administrators type says what an environment says.
LEMMA OnlyFromEnvironment ==
    ASSUME NEW f \in Field \ {"hashes"}
    PROVE  /\ ~FromEnvironment(f, FileSettings[f])
           /\ \A v \in Typed[f] : ~FromEnvironment(f, v)
  BY SettingsAssumption DEF FromEnvironment

\* A form, as FormsInPlace has it.
FormInPlace(a) ==
    /\ {"at", "shown", "since"} \subseteq DOMAIN form[a]
    /\ Persisted.hashes \subseteq form[a].shown.hashes \cup form[a].since
    /\ form[a].at = "save" =>
           /\ "candidate" \in DOMAIN form[a] /\ DOMAIN form[a].candidate = Field
           /\ Valid(Over(env, form[a].candidate))
           /\ \A f \in Field \ {"hashes"} : FromEnvironment(f, form[a].candidate[f]) =>
                  \/ f \in leaked
                  \/ f \notin DOMAIN env /\ FromEnvironment(f, form[a].shown[f])

\* An open form is still in place when it is told what came meanwhile.
LEMMA FormStays ==
    ASSUME NEW a \in Admin, FormInPlace(a), UNCHANGED env, leaked \subseteq leaked', NEW H,
           \/ form'[a] = [form[a] EXCEPT !.since = @ \cup H]
           \/ form'[a] = form[a] /\ H = {},
           (Persisted.hashes)' \subseteq Persisted.hashes \cup H
    PROVE  FormInPlace(a)'
  <1>1. /\ DOMAIN form'[a] = DOMAIN form[a]
        /\ form'[a].at = form[a].at /\ form'[a].shown = form[a].shown
        /\ form'[a].since = form[a].since \cup H
        /\ "candidate" \in DOMAIN form[a] => form'[a].candidate = form[a].candidate
    BY DEF FormInPlace
  <1>2. \A f, v : FromEnvironment(f, v)' = FromEnvironment(f, v)
    BY DEF FromEnvironment
  <1> QED  BY <1>1, <1>2 DEF FormInPlace

LEMMA RestartStep ==
    ASSUME SettingsInvariant, NEW e \in Environments, RestartWith(e)
    PROVE  SettingsInvariant'
  <1> USE DEF SettingsInvariant
  <1>1. /\ env' = e /\ moved' = TRUE /\ UNCHANGED <<stored, leaked>>
        /\ block' = [b \in Blocker |-> Idle] /\ DOMAIN form' = Admin
        /\ \A a \in Admin : form'[a] # Idle => form[a] # Idle /\ form'[a] = form[a]
                                               /\ form[a].at # "save"
    BY DEF RestartWith
  <1>2. SettingsTypeOK' /\ BlocksInPlace'
    BY <1>1 DEF SettingsTypeOK, BlocksInPlace
  <1>3. Persisted' = Persisted /\ EnvStored' = EnvStored
    BY <1>1 DEF Persisted, EnvStored, FromEnvironment
  <1>4. FormsInPlace'
    BY <1>1, <1>3 DEF FormsInPlace
  <1> QED  BY <1>1, <1>2, <1>3, <1>4

\* What only moves forms and blocks leaves the rest of the invariant as it is.
LEMMA TableStays ==
    ASSUME SettingsInvariant, UNCHANGED <<env, stored, leaked, moved>>,
           DOMAIN form' = Admin, DOMAIN block' = Blocker
    PROVE  /\ SettingsTypeOK' /\ EnvStored' \subseteq leaked' /\ (moved' \/ Valid(Effective'))
           /\ Persisted' = Persisted /\ Effective' = Effective
  BY DEF SettingsInvariant, SettingsTypeOK, EnvStored, FromEnvironment, Effective, Persisted

LEMMA FormSteps ==
    ASSUME SettingsInvariant, NEW a \in Admin, OpenForm(a) \/ SaveRead(a) \/ CloseForm(a)
    PROVE  SettingsInvariant'
  <1>1. /\ SettingsTypeOK /\ DOMAIN form = Admin /\ DOMAIN block = Blocker
        /\ EnvStored \subseteq leaked
        /\ \A c \in Admin : form[c] # Idle => FormInPlace(c)
    BY DEF SettingsInvariant, SettingsTypeOK, FormsInPlace, FormInPlace
  <1>2. /\ UNCHANGED <<env, stored, block, leaked, moved>> /\ DOMAIN form' = Admin
        /\ \A c \in Admin \ {a} : form'[c] = form[c]
    BY <1>1 DEF OpenForm, SaveRead, CloseForm
  <1>3. /\ SettingsTypeOK' /\ EnvStored' \subseteq leaked' /\ (moved' \/ Valid(Effective'))
        /\ Persisted' = Persisted /\ Effective' = Effective
    BY <1>1, <1>2, TableStays
  <1>4. BlocksInPlace'
    BY <1>2 DEF SettingsInvariant, BlocksInPlace
  <1>5. \A c \in Admin \ {a} : form'[c] # Idle => FormInPlace(c)'
    BY <1>1, <1>2, <1>3, FormStays
  <1>6. ASSUME form'[a] # Idle PROVE FormInPlace(a)'
    <2>1. CASE OpenForm(a)
      <3>1. form'[a] = [at |-> "open", shown |-> Effective, since |-> {}]
        BY <1>1, <2>1 DEF OpenForm
      <3>2. Persisted.hashes = Effective.hashes
        BY <1>1, SettingsFields
      <3> QED  BY <1>3, <3>1, <3>2 DEF FormInPlace
    <2>2. CASE SaveRead(a)
      <3>1. PICK answer \in Answers(form[a].shown) :
                /\ Acceptable(Restore(answer, Persisted))
                /\ form'[a] = [at |-> "save", shown |-> form[a].shown,
                               since |-> form[a].since,
                               candidate |-> Restore(answer, Persisted)]
        BY <1>1, <2>2 DEF SaveRead
      <3>2. FormInPlace(a)
        BY <1>1, <2>2 DEF SaveRead
      <3>3. /\ DOMAIN answer = Field
            /\ \A f \in Field \ {"hashes"} : answer[f] \in Typed[f] \cup {form[a].shown[f]}
        BY DEF Answers, Field
      <3> DEFINE c == Restore(answer, Persisted)
      <3>4. /\ DOMAIN c = Field
            /\ \A f \in DOMAIN env : c[f] = Persisted[f]
            /\ \A f \in Field \ DOMAIN env : c[f] = answer[f]
        BY <1>1, <3>3, SettingsFields DEF Restore, Over
      <3>5. ASSUME NEW f \in Field \ {"hashes"}, FromEnvironment(f, c[f])
            PROVE  \/ f \in leaked
                   \/ f \notin DOMAIN env /\ FromEnvironment(f, form[a].shown[f])
        <4>1. CASE f \in DOMAIN env
          <5>1. FromEnvironment(f, Persisted[f])
            BY <3>4, <3>5, <4>1
          <5>2. f \in DOMAIN stored /\ Persisted[f] = stored[f]
            BY <1>1, <5>1, SettingsFields, OnlyFromEnvironment
          <5> QED  BY <1>1, <5>1, <5>2 DEF EnvStored
        <4>2. CASE f \notin DOMAIN env
          BY <3>3, <3>4, <3>5, <4>2, OnlyFromEnvironment
        <4> QED  BY <4>1, <4>2
      <3> HIDE DEF c
      <3>6. Valid(Over(env, c))
        BY <3>1 DEF Acceptable, c
      <3>7. /\ DOMAIN form'[a] = {"at", "shown", "since", "candidate"}
            /\ form'[a].shown = form[a].shown /\ form'[a].since = form[a].since
            /\ form'[a].candidate = c
        BY <3>1 DEF c
      <3>8. \A f, v : FromEnvironment(f, v)' = FromEnvironment(f, v)
        BY DEF FromEnvironment
      <3> QED  BY <1>2, <1>3, <3>2, <3>4, <3>5, <3>6, <3>7, <3>8 DEF FormInPlace
    <2>3. CASE CloseForm(a)
      BY <1>1, <1>6, <2>3 DEF CloseForm
    <2> QED  BY <2>1, <2>2, <2>3
  <1>7. FormsInPlace'
    <2>1. \A c \in Admin : form'[c] # Idle => FormInPlace(c)'
      BY <1>5, <1>6
    <2> QED  BY <2>1 DEF FormsInPlace, FormInPlace
  <1> QED  BY <1>3, <1>4, <1>7 DEF SettingsInvariant

LEMMA BlockStartStep ==
    ASSUME SettingsInvariant, NEW b \in Blocker, BlockStart(b)
    PROVE  SettingsInvariant'
  <1>1. SettingsTypeOK /\ DOMAIN form = Admin /\ DOMAIN block = Blocker
    BY DEF SettingsInvariant, SettingsTypeOK
  <1>2. /\ UNCHANGED <<env, stored, form, leaked, moved>> /\ DOMAIN block' = Blocker
        /\ block'[b] = [f \in Scanning |-> Effective[f]]
        /\ \A c \in Blocker \ {b} : block'[c] = block[c]
    BY <1>1 DEF BlockStart
  <1>3. /\ SettingsTypeOK' /\ EnvStored' \subseteq leaked' /\ (moved' \/ Valid(Effective'))
        /\ Persisted' = Persisted /\ Effective' = Effective
    BY <1>1, <1>2, TableStays
  <1>4. FormsInPlace'
    BY <1>2, <1>3 DEF SettingsInvariant, FormsInPlace, FromEnvironment
  <1>5. /\ DOMAIN block'[b] = Scanning /\ block'[b].hashes = Effective.hashes
        /\ block'[b].scan = Effective.scan
    BY <1>2 DEF Scanning
  <1>6. ASSUME DOMAIN stored = {}
        PROVE  /\ Effective.hashes = FileSettings.hashes
               /\ "scan" \in DOMAIN env \/ Effective.scan = FileSettings.scan
    BY <1>1, <1>6, SettingsFields DEF Field
  <1>7. BlocksInPlace'
    BY <1>2, <1>5, <1>6 DEF SettingsInvariant, BlocksInPlace
  <1> QED  BY <1>3, <1>4, <1>7 DEF SettingsInvariant

LEMMA SaveWriteStep ==
    ASSUME SettingsInvariant, NEW a \in Admin, SaveWrite(a)
    PROVE  SettingsInvariant'
  <1> DEFINE c == form[a].candidate
  <1>1. /\ SettingsTypeOK /\ DOMAIN form = Admin /\ DOMAIN block = Blocker
        /\ EnvStored \subseteq leaked /\ leaked \subseteq Field
        /\ \A d \in Admin : form[d] # Idle => FormInPlace(d)
    BY DEF SettingsInvariant, SettingsTypeOK, FormsInPlace, FormInPlace
  <1>2. /\ UNCHANGED <<env, block>> /\ stored' = c /\ moved' = FALSE
        /\ form[a] # Idle /\ form[a].at = "save"
        /\ leaked' = leaked \cup {f \in Field \ (DOMAIN env \cup {"hashes"}) :
                                      FromEnvironment(f, form[a].shown[f])}
    BY DEF SaveWrite
  <1>3. /\ DOMAIN form' = Admin /\ form'[a] = Idle
        /\ \A d \in Admin \ {a} :
               form'[d] = IF form[d] = Idle THEN Idle
                          ELSE [form[d] EXCEPT !.since = @ \cup c.hashes]
    BY <1>1 DEF SaveWrite, Meanwhile
  <1>4. /\ DOMAIN c = Field /\ Valid(Over(env, c))
        /\ \A f \in Field \ {"hashes"} : FromEnvironment(f, c[f]) => f \in leaked'
    BY <1>1, <1>2 DEF FormInPlace
  <1>5. SettingsTypeOK'
    BY <1>1, <1>2, <1>3, <1>4 DEF SettingsTypeOK
  <1>6. (Persisted.hashes)' = c.hashes /\ DOMAIN Persisted' = Field
        /\ \A f \in Field : Persisted'[f] = c[f]
    <2>1. Persisted' = Over(c, FileSettings) /\ "hashes" \in Field
      BY <1>2 DEF Persisted, Field
    <2> HIDE DEF c
    <2> QED  BY <1>4, <2>1, PersistedFields
  <1>7. FormsInPlace'
    <2>1. ASSUME NEW d \in Admin, form'[d] # Idle PROVE FormInPlace(d)'
      <3>1. /\ d # a /\ FormInPlace(d)
            /\ form'[d] = [form[d] EXCEPT !.since = @ \cup c.hashes]
        BY <1>1, <1>3, <2>1
      <3>2. leaked \subseteq leaked' /\ (Persisted.hashes)' \subseteq Persisted.hashes \cup c.hashes
        BY <1>2, <1>6
      <3> HIDE DEF c
      <3> QED  BY <1>2, <3>1, <3>2, FormStays
    <2> QED  BY <2>1 DEF FormsInPlace, FormInPlace
  <1>8. BlocksInPlace'
    BY <1>2, <1>4 DEF SettingsInvariant, BlocksInPlace, Field
  <1>9. EnvStored' \subseteq leaked'
    <2> SUFFICES ASSUME NEW f \in Field, FromEnvironment(f, c[f]) PROVE f \in leaked'
      BY <1>2, <1>4 DEF EnvStored, FromEnvironment
    <2>1. f # "hashes"
      BY SettingsAssumption DEF FromEnvironment
    <2> QED  BY <1>4, <2>1
  <1>10. Valid(Effective')
    <2>1. Effective' = Over(env, Persisted') /\ "default" \in Field /\ "max" \in Field
      BY <1>2 DEF Effective, Field
    <2> HIDE DEF c
    <2>2. Effective'.default = Over(env, c).default /\ Effective'.max = Over(env, c).max
      BY <1>4, <1>6, <2>1 DEF Over
    <2> QED  BY <1>4, <2>2 DEF Valid
  <1> QED  BY <1>5, <1>7, <1>8, <1>9, <1>10 DEF SettingsInvariant

LEMMA BlockWriteStep ==
    ASSUME SettingsInvariant, NEW b \in Blocker, BlockWrite(b)
    PROVE  SettingsInvariant'
  <1>1. /\ SettingsTypeOK /\ DOMAIN form = Admin /\ DOMAIN block = Blocker
        /\ EnvStored \subseteq leaked /\ leaked \subseteq Field
        /\ \A d \in Admin : form[d] # Idle => FormInPlace(d)
    BY DEF SettingsInvariant, SettingsTypeOK, FormsInPlace, FormInPlace
  <1>2. PICK h \in BlockHash : stored' = Blocked(block[b], h) /\ form' = Meanwhile({h})
    BY DEF BlockWrite
  <1>3. /\ UNCHANGED <<env, moved>> /\ block[b] # Idle
        /\ leaked' = IF "scan" \in DOMAIN stored THEN leaked
                     ELSE leaked \cup (DOMAIN env \cap Scanning)
        /\ DOMAIN block' = Blocker /\ block'[b] = Idle
        /\ \A d \in Blocker \ {b} : block'[d] = block[d]
    BY <1>1 DEF BlockWrite
  <1>4. /\ DOMAIN block[b] = Scanning
        /\ DOMAIN stored = {} => /\ block[b].hashes = FileSettings.hashes
                                 /\ "scan" \in DOMAIN env \/ block[b].scan = FileSettings.scan
    BY <1>3 DEF SettingsInvariant, BlocksInPlace
  <1>5. /\ DOMAIN stored' = DOMAIN stored \cup Scanning
        /\ stored'.hashes = Over(stored, block[b]).hashes \cup {h}
        /\ \A f \in DOMAIN stored' \ {"hashes"} : stored'[f] = Over(stored, block[b])[f]
    <2>1. DOMAIN Over(stored, block[b]) = DOMAIN stored \cup Scanning
      BY <1>4, OverFields
    <2>2. stored' = [Over(stored, block[b]) EXCEPT !.hashes = @ \cup {h}]
      BY <1>2 DEF Blocked
    <2> QED  BY <2>1, <2>2 DEF Scanning
  <1>6. DOMAIN stored = {} \/ Scanning \subseteq DOMAIN stored
    BY <1>1 DEF SettingsTypeOK, Scanning, Field
  <1>7. SettingsTypeOK'
    <2>1. DOMAIN form' = Admin
      BY <1>2 DEF Meanwhile
    <2>2. DOMAIN stored' \in {{}, Scanning, Field}
      BY <1>1, <1>5 DEF SettingsTypeOK, Scanning, Field
    <2> QED  BY <1>1, <1>3, <2>1, <2>2 DEF SettingsTypeOK, Scanning, Field
  <1>19. /\ DOMAIN Persisted' = Field
         /\ \A f \in DOMAIN stored' : Persisted'[f] = stored'[f]
         /\ \A f \in Field \ DOMAIN stored' : Persisted'[f] = FileSettings[f]
    <2> DEFINE st == stored'
    <2>1. Persisted' = Over(st, FileSettings) /\ DOMAIN st \subseteq Field
      BY <1>7 DEF Persisted, SettingsTypeOK, Scanning, Field
    <2> HIDE DEF st
    <2>2. /\ DOMAIN Persisted' = Field
          /\ \A f \in DOMAIN st : Persisted'[f] = st[f]
          /\ \A f \in Field \ DOMAIN st : Persisted'[f] = FileSettings[f]
      BY <2>1, PersistedFields
    <2> QED  BY <2>2 DEF st
  <1>20. /\ \A f \in DOMAIN stored : Over(stored, block[b])[f] = stored[f]
        /\ \A f \in Scanning \ DOMAIN stored : Over(stored, block[b])[f] = block[b][f]
    <2> DEFINE fallback == block[b]
    <2>1. DOMAIN fallback = Scanning
      BY <1>4
    <2> HIDE DEF fallback
    <2>2. /\ \A f \in DOMAIN stored : Over(stored, fallback)[f] = stored[f]
          /\ \A f \in Scanning \ DOMAIN stored : Over(stored, fallback)[f] = fallback[f]
      BY <2>1, OverFields
    <2> QED  BY <2>2 DEF fallback
  <1>8. (Persisted.hashes)' = Persisted.hashes \cup {h}
    <2>1. (Persisted.hashes)' = stored'.hashes
      BY <1>5, <1>19 DEF Scanning
    <2>2. Over(stored, block[b]).hashes = Persisted.hashes
      <3>1. CASE DOMAIN stored = {}
        <4>1. Over(stored, block[b]).hashes = FileSettings.hashes
          BY <1>4, <1>20, <3>1 DEF Scanning
        <4>2. Persisted.hashes = FileSettings.hashes
          BY <1>1, <3>1, SettingsFields DEF Field
        <4> QED  BY <4>1, <4>2
      <3>2. CASE Scanning \subseteq DOMAIN stored
        <4>1. "hashes" \in DOMAIN stored
          BY <3>2 DEF Scanning
        <4>2. Over(stored, block[b]).hashes = stored.hashes
          BY <1>20, <4>1
        <4>3. Persisted.hashes = stored.hashes
          BY <1>1, <4>1, SettingsFields
        <4> QED  BY <4>2, <4>3
      <3> QED  BY <1>6, <3>1, <3>2
    <2> QED  BY <1>5, <2>1, <2>2
  <1>9. FormsInPlace'
    <2>1. ASSUME NEW d \in Admin, form'[d] # Idle PROVE FormInPlace(d)'
      <3>1. FormInPlace(d) /\ form'[d] = [form[d] EXCEPT !.since = @ \cup {h}]
        BY <1>1, <1>2, <2>1 DEF Meanwhile
      <3>2. leaked \subseteq leaked'
        BY <1>3
      <3>3. (Persisted.hashes)' \subseteq Persisted.hashes \cup {h}
        BY <1>8
      <3> QED  BY <1>3, <3>1, <3>2, <3>3, FormStays
    <2> QED  BY <2>1 DEF FormsInPlace, FormInPlace
  <1>10. BlocksInPlace'
    BY <1>3, <1>5 DEF SettingsInvariant, BlocksInPlace, Scanning
  <1>11. EnvStored' \subseteq leaked'
    <2> SUFFICES ASSUME NEW f \in DOMAIN stored', FromEnvironment(f, stored'[f])
                 PROVE  f \in leaked'
      BY DEF EnvStored, FromEnvironment
    <2>1. f # "hashes"
      BY SettingsAssumption DEF FromEnvironment
    <2>2. stored'[f] = Over(stored, block[b])[f]
      BY <1>5, <2>1
    <2>3. CASE f \in DOMAIN stored
      <3>1. stored'[f] = stored[f]
        BY <1>20, <2>2, <2>3
      <3> QED  BY <1>1, <1>3, <2>3, <3>1 DEF EnvStored
    <2>4. CASE f \notin DOMAIN stored
      <3>1. f = "scan" /\ DOMAIN stored = {} /\ f \in DOMAIN block[b]
        BY <1>4, <1>5, <1>6, <2>1, <2>4 DEF Scanning
      <3>2. stored'[f] = block[b].scan
        BY <1>20, <2>2, <2>4, <3>1 DEF Scanning
      <3>3. "scan" \in DOMAIN env
        BY <1>4, <3>1, <3>2, OnlyFromEnvironment DEF Field
      <3> QED  BY <1>3, <3>1, <3>3 DEF Scanning
    <2> QED  BY <2>3, <2>4
  <1>12. moved' \/ Valid(Effective')
    <2>1. \A f \in {"default", "max"} : Persisted'[f] = Persisted[f]
      <3> SUFFICES ASSUME NEW f \in {"default", "max"} PROVE Persisted'[f] = Persisted[f]
        OBVIOUS
      <3>1. f \in Field /\ f \notin Scanning
        BY DEF Field, Scanning
      <3>2. CASE f \in DOMAIN stored
        <4>1. f \in DOMAIN stored' /\ stored'[f] = stored[f]
          BY <1>5, <1>20, <3>1, <3>2 DEF Scanning
        <4> QED  BY <1>1, <1>19, <3>2, <4>1, SettingsFields
      <3>3. CASE f \notin DOMAIN stored
        <4>1. f \notin DOMAIN stored'
          BY <1>5, <3>1, <3>3
        <4>2. Persisted'[f] = FileSettings[f]
          <5> DEFINE st == stored'
                     P  == Persisted'
          <5>1. f \in Field \ DOMAIN st
            BY <3>1, <4>1
          <5>2. P = Over(st, FileSettings) /\ DOMAIN st \subseteq Field
            BY <1>7 DEF Persisted, SettingsTypeOK, Scanning, Field
          <5> HIDE DEF st, P
          <5>3. P[f] = FileSettings[f]
            BY <5>1, <5>2, PersistedFields
          <5> QED  BY <5>3 DEF P
        <4>3. Persisted[f] = FileSettings[f]
          BY <1>1, <3>1, <3>3, SettingsFields
        <4> QED  BY <4>2, <4>3
      <3> QED  BY <3>2, <3>3
    <2>2. Effective'.default = Effective.default /\ Effective'.max = Effective.max
      <3>1. DOMAIN Persisted = Field
        BY <1>1, SettingsFields
      <3>2. Effective' = Over(env, Persisted') /\ Effective = Over(env, Persisted)
        BY <1>3 DEF Effective
      <3> QED  BY <1>19, <2>1, <3>1, <3>2 DEF Over, Field
    <2> QED  BY <1>3, <2>2 DEF SettingsInvariant, Valid
  <1> QED  BY <1>7, <1>9, <1>10, <1>11, <1>12 DEF SettingsInvariant

LEMMA SettingsStep ==
    ASSUME SettingsInvariant, [SettingsNext]_settingsVars
    PROVE  SettingsInvariant'
  <1>1. CASE UNCHANGED settingsVars
    BY <1>1 DEF settingsVars, SettingsInvariant, SettingsTypeOK, FormsInPlace, BlocksInPlace,
       EnvStored, FromEnvironment, Effective, Persisted
  <1> QED
    BY <1>1, RestartStep, FormSteps, SaveWriteStep, BlockStartStep, BlockWriteStep
    DEF SettingsNext

LEMMA SettingsStart == SettingsInit => SettingsInvariant
  <1> SUFFICES ASSUME SettingsInit PROVE SettingsInvariant
    OBVIOUS
  <1>1. /\ stored = <<>> /\ env \in Environments /\ leaked = {} /\ moved = FALSE
        /\ Valid(Over(env, FileSettings))
        /\ form = [a \in Admin |-> Idle] /\ block = [b \in Blocker |-> Idle]
    BY DEF SettingsInit
  <1>2. DOMAIN stored = {}
    BY <1>1
  <1>3. SettingsTypeOK /\ FormsInPlace /\ BlocksInPlace
    BY <1>1, <1>2 DEF SettingsTypeOK, FormsInPlace, BlocksInPlace
  <1>4. EnvStored = {}
    BY <1>2 DEF EnvStored
  <1>5. Valid(Effective)
    <2>1. \A f \in Field : Persisted[f] = FileSettings[f]
      BY <1>2, <1>3, SettingsFields
    <2>2. /\ Effective.default = Over(env, FileSettings).default
          /\ Effective.max = Over(env, FileSettings).max
      BY <1>3, <2>1, SettingsFields, SettingsAssumption DEF Effective, Over, Field
    <2> QED  BY <1>1, <2>2 DEF Valid
  <1> QED  BY <1>1, <1>3, <1>4, <1>5 DEF SettingsInvariant

\* Whatever forms, moderators and restarts interleave, what an environment says gets
\* into the table only by the two ways that are known, and what is in effect stays
\* valid until the environment changes under it.
THEOREM SettingsHold == SettingsSpec => []SettingsInvariant
  <1>1. SettingsInvariant /\ [SettingsNext]_settingsVars => SettingsInvariant'
    BY SettingsStep
  <1> QED  BY <1>1, SettingsStart, PTL DEF SettingsSpec

\* With any number of administrators and moderators at work, a blocked hash is lost
\* only to a form that showed it or was opened before it was blocked.
THEOREM BlockedHashesStay == SettingsSpec => HashesKept
  <1>1. SettingsInvariant /\ [SettingsNext]_settingsVars =>
            \A h \in BlockHash :
                LET gone == "hashes" \in DOMAIN stored /\ h \in stored.hashes /\ h \notin stored'.hashes
                IN gone => \E a \in Admin : /\ form[a] # Idle /\ form'[a] = Idle
                                            /\ h \in form[a].shown.hashes \cup form[a].since
    <2> SUFFICES ASSUME SettingsInvariant, [SettingsNext]_settingsVars, NEW h \in BlockHash,
                        "hashes" \in DOMAIN stored, h \in stored.hashes,
                        h \notin stored'.hashes
                 PROVE  \E a \in Admin : /\ form[a] # Idle /\ form'[a] = Idle
                                         /\ h \in form[a].shown.hashes \cup form[a].since
      OBVIOUS
    <2>1. SettingsTypeOK /\ h \in Persisted.hashes
      BY SettingsFields DEF SettingsInvariant
    <2>2. ASSUME NEW a \in Admin, SaveWrite(a)
          PROVE  /\ form[a] # Idle /\ form'[a] = Idle
                 /\ h \in form[a].shown.hashes \cup form[a].since
      BY <2>1, <2>2 DEF SaveWrite, Meanwhile, SettingsInvariant, SettingsTypeOK, FormsInPlace
    <2>3. ASSUME NEW b \in Blocker, BlockWrite(b) PROVE FALSE
      <3>1. PICK g \in BlockHash :
                stored' = [Over(stored, block[b]) EXCEPT !.hashes = @ \cup {g}]
        BY <2>3 DEF BlockWrite, Blocked
      <3>2. /\ "hashes" \in DOMAIN Over(stored, block[b])
            /\ Over(stored, block[b]).hashes = stored.hashes
        BY DEF Over
      <3> QED  BY <3>1, <3>2
    <2>4. CASE UNCHANGED stored
      BY <2>4
    <2>5. ASSUME NEW e \in Environments, RestartWith(e) PROVE UNCHANGED stored
      BY <2>5 DEF RestartWith
    <2>6. ASSUME NEW a \in Admin, OpenForm(a) \/ SaveRead(a) \/ CloseForm(a)
          PROVE  UNCHANGED stored
      BY <2>6 DEF OpenForm, SaveRead, CloseForm
    <2>7. ASSUME NEW b \in Blocker, BlockStart(b) PROVE UNCHANGED stored
      BY <2>7 DEF BlockStart
    <2>8. UNCHANGED settingsVars => UNCHANGED stored
      BY DEF settingsVars
    <2> QED  BY <2>2, <2>3, <2>4, <2>5, <2>6, <2>7, <2>8 DEF SettingsNext
  <1>2. SettingsInvariant /\ [SettingsNext]_settingsVars => SettingsInvariant'
    BY SettingsStep
  <1> QED  BY <1>1, <1>2, SettingsStart, PTL DEF SettingsSpec, HashesKept

-----------------------------------------------------------------------------
(* MigrationsInvariant *)

LEMMA VersionsAdd ==
    ASSUME NEW v \in Versions
    PROVE  Adds(v) \subseteq Additive \cup {"tables", "wide", "locks"}
  BY DEF Versions, Adds, Additive, LastPreLedger

LEMMA EarlyVersionsAdd ==
    ASSUME NEW v \in 2..LastPreLedger
    PROVE  v \in Versions /\ Adds(v) \subseteq Additive
  BY DEF Additive, Versions, LastPreLedger

LEMMA LeastVersion ==
    ASSUME NEW S \in SUBSET Versions, S # {}
    PROVE  (CHOOSE v \in S : \A w \in S : v <= w) \in S
  <1>1. \E v \in S : \A w \in S : v <= w
    <2>0. PICK n \in S : TRUE
      OBVIOUS
    <2>1. \A m \in S : m \in Nat /\ m \in 1..7
      BY DEF Versions
    <2>2. CASE \E m \in S : m <= 3
      BY <2>1, <2>2 DEF Versions
    <2>3. CASE \A m \in S : m > 3
      <3>1. \A m \in S : m \in {4, 5, 6, 7}
        BY <2>3 DEF Versions
      <3> QED  BY <2>0, <2>1, <3>1
    <2> QED  BY <2>1, <2>2, <2>3
  <1> QED  BY <1>1

LEMMA MigrationsStart == MigrationsInit => MigrationsInvariant
  <1> SUFFICES ASSUME MigrationsInit PROVE MigrationsInvariant
    OBVIOUS
  <1>1. db \in Database /\ Applied(db) /\ (db.ledger # {} => 1..LastPreLedger \subseteq db.ledger)
    <2>1. CASE db = [columns |-> {}, ledger |-> {}, misnamed |-> {}]
      BY <2>1 DEF Database, Applied
    <2>2. CASE \E C \in SUBSET Additive :
                   db = [columns |-> {"tables"} \cup C, ledger |-> {}, misnamed |-> {}]
      BY <2>2 DEF Database, Applied
    <2>3. ASSUME NEW n \in 4..7, NEW M \in {{}, {2}},
                 db = [columns |-> UNION {Adds(v) : v \in 1..n}, ledger |-> 1..n, misnamed |-> M]
          PROVE  db \in Database /\ Applied(db) /\ 1..LastPreLedger \subseteq db.ledger
      <3>1. 1..n \subseteq Versions /\ 1..LastPreLedger \subseteq 1..n
        BY DEF Versions, LastPreLedger
      <3>2. UNION {Adds(v) : v \in 1..n} \subseteq Additive \cup {"tables", "wide", "locks"}
        BY <3>1, VersionsAdd
      <3> QED  BY <2>3, <3>1, <3>2 DEF Database, Applied, Versions
    <2> QED  BY <2>1, <2>2, <2>3 DEF MigrationsInit, Deployed
  <1>2. MigrationsTypeOK
    BY <1>1 DEF MigrationsInit, MigrationsTypeOK, Nothing
  <1> QED  BY <1>1, <1>2 DEF MigrationsInit, MigrationsInvariant, TransactionInPlace

LEMMA SignUpStep ==
    ASSUME MigrationsInvariant, NEW m \in Member, SignUp(m) PROVE MigrationsInvariant'
  <1> DEFINE new == [complete |-> Complete(db), verified |-> FALSE]
  <1>1. /\ MigrationsInvariant /\ member[m] = NoMember
        /\ member' = [member EXCEPT ![m] = new] /\ UNCHANGED <<db, work, migrating, server>>
    BY DEF SignUp
  <1>2. new \in [complete : BOOLEAN, verified : BOOLEAN] /\ ~new.verified
        /\ (new.complete <=> Complete(db))
    BY DEF Complete
  <1> HIDE DEF new
  <1>3. \A k \in Member : member'[k] = IF k = m THEN new ELSE member[k]
    BY <1>1 DEF MigrationsInvariant, MigrationsTypeOK
  <1>4. MigrationsTypeOK'
    BY <1>1, <1>2 DEF MigrationsInvariant, MigrationsTypeOK
  <1>5. TransactionInPlace'
    <2> SUFFICES ASSUME migrating # NoServer
                 PROVE  TransactionInPlace'
      BY <1>1 DEF TransactionInPlace
    <2>1. \A k \in work.backfilled :
              k \in Member /\ member'[k] # NoMember /\ ~member'[k].complete
      BY <1>1, <1>3 DEF MigrationsInvariant, MigrationsTypeOK, TransactionInPlace
    <2> QED  BY <1>1, <2>1 DEF MigrationsInvariant, TransactionInPlace, Applied, Complete
  <1>6. \A k \in Member : member'[k] # NoMember =>
            ~(member'[k].complete /\ member'[k].verified)
            /\ (member'[k].complete => Complete(db))
    BY <1>1, <1>2, <1>3 DEF MigrationsInvariant
  <1> QED  BY <1>1, <1>4, <1>5, <1>6 DEF MigrationsInvariant, Applied, Complete

LEMMA StartMigrationStep ==
    ASSUME MigrationsInvariant, NEW p \in Server, StartMigration(p) PROVE MigrationsInvariant'
  <1>1. /\ MigrationsInvariant /\ MigrationsTypeOK
        /\ server[p] = "starting" /\ migrating = NoServer /\ UNCHANGED <<db, member>>
    BY DEF StartMigration, MigrationsInvariant
  <1>2. CASE Understood(p)
    <2>1. /\ migrating' = p /\ server' = server
          /\ work' = [columns |-> db.columns, ledger |-> Adopted(db), backfilled |-> {}]
      BY <1>2 DEF StartMigration
    <2>2. /\ Adopted(db) \subseteq Versions /\ db.ledger \subseteq Adopted(db)
          /\ \A v \in Adopted(db) : Adds(v) \subseteq db.columns
          /\ Complete(db) => 2 \in Adopted(db)
      <3>1. CASE db.ledger = {} /\ Complete(db)
        BY <3>1, EarlyVersionsAdd DEF Adopted, Complete, LastPreLedger
      <3>2. CASE ~(db.ledger = {} /\ Complete(db))
        <4>1. Adopted(db) = db.ledger
          BY <3>2 DEF Adopted
        <4>2. db.ledger # {} => 2 \in db.ledger
          BY <1>1 DEF MigrationsInvariant, LastPreLedger
        <4> QED
          BY <1>1, <3>2, <4>1, <4>2 DEF MigrationsInvariant, MigrationsTypeOK, Database, Applied
      <3> QED  BY <3>1, <3>2
    <2>3. MigrationsTypeOK'
      BY <1>1, <2>1, <2>2 DEF MigrationsTypeOK, Database
    <2>4. TransactionInPlace'
      BY <1>1, <2>1, <2>2 DEF TransactionInPlace, Applied, Complete
    <2> QED  BY <1>1, <2>1, <2>3, <2>4 DEF MigrationsInvariant, Applied, Complete
  <1>3. CASE ~Understood(p)
    <2>1. /\ server' = [server EXCEPT ![p] = "refused"] /\ UNCHANGED <<migrating, work>>
      BY <1>3 DEF StartMigration
    <2>2. MigrationsTypeOK' /\ TransactionInPlace'
      BY <1>1, <2>1 DEF MigrationsTypeOK, TransactionInPlace
    <2>3. \A q \in Server : server'[q] = "ready" => 1..Supports[q] \subseteq db.ledger
      BY <1>1, <2>1 DEF MigrationsInvariant, MigrationsTypeOK
    <2> QED  BY <1>1, <2>1, <2>2, <2>3 DEF MigrationsInvariant, Applied, Complete
  <1> QED  BY <1>2, <1>3

LEMMA ApplyMigrationStep ==
    ASSUME MigrationsInvariant, NEW p \in Server, ApplyMigration(p) PROVE MigrationsInvariant'
  <1>1. /\ MigrationsInvariant /\ MigrationsTypeOK /\ migrating = p /\ Remaining(p) # {}
        /\ UNCHANGED <<db, migrating, server, member>> /\ TransactionInPlace
    BY DEF ApplyMigration, MigrationsInvariant
  <1>2. migrating # NoServer
    BY <1>1, MigrationsAssumption
  <1> DEFINE v == CHOOSE v \in Remaining(p) : \A w \in Remaining(p) : v <= w
             columns == work.columns \cup Adds(v) \cup
                        (IF v = 1 /\ "tables" \notin work.columns THEN Additive ELSE {})
             backfilled == IF v = 2 THEN {m \in Member : member[m] # NoMember}
                           ELSE work.backfilled
  <1>3. work' = [columns |-> columns, ledger |-> work.ledger \cup {v}, backfilled |-> backfilled]
    BY DEF ApplyMigration
  <1>4. v \in Versions /\ v \notin work.ledger
    <2>1. Remaining(p) \in SUBSET Versions
      BY MigrationsAssumption DEF Remaining, Versions
    <2>2. v \in Remaining(p)
      BY <1>1, <2>1, LeastVersion
    <2> QED  BY <2>1, <2>2 DEF Remaining
  <1> HIDE DEF v
  <1>5. /\ columns \subseteq Additive \cup {"tables", "wide", "locks"}
        /\ work.columns \subseteq columns /\ Adds(v) \subseteq columns
    BY <1>1, <1>4, VersionsAdd DEF MigrationsTypeOK
  <1>6. /\ backfilled \subseteq Member
        /\ \A m \in backfilled : member[m] # NoMember /\ ~member[m].complete
    <2>1. CASE v = 2
      <3>1. ~Complete(db)
        BY <1>1, <1>2, <1>4, <2>1 DEF TransactionInPlace
      <3> QED  BY <1>1, <2>1, <3>1 DEF MigrationsInvariant
    <2>2. CASE v # 2
      BY <1>1, <1>2, <2>2 DEF TransactionInPlace, MigrationsTypeOK
    <2> QED  BY <2>1, <2>2
  <1> HIDE DEF columns, backfilled
  <1>7. MigrationsTypeOK'
    BY <1>1, <1>3, <1>4, <1>5, <1>6 DEF MigrationsTypeOK
  <1>8. TransactionInPlace'
    <2>1. \A w \in work.ledger \cup {v} : Adds(w) \subseteq columns
      BY <1>1, <1>2, <1>5 DEF TransactionInPlace, Applied
    <2> QED  BY <1>1, <1>2, <1>3, <1>5, <1>6, <2>1 DEF TransactionInPlace, Applied, Complete
  <1> QED  BY <1>1, <1>7, <1>8 DEF MigrationsInvariant, Applied, Complete

LEMMA CommitMigrationStep ==
    ASSUME MigrationsInvariant, NEW p \in Server, CommitMigration(p) PROVE MigrationsInvariant'
  <1>1. /\ MigrationsInvariant /\ MigrationsTypeOK /\ TransactionInPlace
        /\ migrating = p /\ Remaining(p) = {}
        /\ db' = [db EXCEPT !.columns = work.columns, !.ledger = work.ledger]
        /\ member' = [m \in Member |-> IF m \in work.backfilled
                                       THEN [member[m] EXCEPT !.verified = TRUE] ELSE member[m]]
        /\ server' = [server EXCEPT ![p] = "ready"]
        /\ migrating' = NoServer /\ work' = Nothing
    BY DEF CommitMigration, MigrationsInvariant
  <1>2. /\ db.columns \subseteq work.columns /\ db.ledger \subseteq work.ledger /\ Applied(work)
        /\ \A m \in work.backfilled : member[m] # NoMember /\ ~member[m].complete
    BY <1>1, MigrationsAssumption DEF TransactionInPlace
  <1>3. db' = [columns |-> work.columns, ledger |-> work.ledger, misnamed |-> db.misnamed]
    <2> DEFINE d == [db EXCEPT !.columns = work.columns, !.ledger = work.ledger]
    <2>1. /\ d["columns"] = work.columns /\ d["ledger"] = work.ledger
          /\ d["misnamed"] = db.misnamed /\ d = [x \in DOMAIN d |-> d[x]]
          /\ DOMAIN d = {"columns", "ledger", "misnamed"}
      BY <1>1 DEF MigrationsTypeOK, Database
    <2> HIDE DEF d
    <2>2. d = [columns |-> work.columns, ledger |-> work.ledger, misnamed |-> db.misnamed]
      BY <2>1
    <2> QED  BY <1>1, <2>2 DEF d
  <1>4. /\ 1..Supports[p] \subseteq work.ledger /\ 1..LastPreLedger \subseteq work.ledger
    BY <1>1, MigrationsAssumption DEF Remaining, LastPreLedger
  <1>5. \A m \in Member :
            \/ member'[m] = member[m]
            \/ /\ member[m] \in [complete : BOOLEAN, verified : BOOLEAN] /\ ~member[m].complete
               /\ member'[m] = [complete |-> FALSE, verified |-> TRUE]
    <2> SUFFICES ASSUME NEW m \in Member, m \in work.backfilled
                 PROVE  /\ member[m] \in [complete : BOOLEAN, verified : BOOLEAN]
                        /\ ~member[m].complete
                        /\ member'[m] = [complete |-> FALSE, verified |-> TRUE]
      BY <1>1
    <2>1. member[m] \in [complete : BOOLEAN, verified : BOOLEAN] /\ ~member[m].complete
      BY <1>1, <1>2 DEF MigrationsTypeOK
    <2>2. member'[m] = [member[m] EXCEPT !.verified = TRUE]
      BY <1>1
    <2> QED  BY <2>1, <2>2
  <1>6. MigrationsTypeOK'
    <2>1. member' \in [Member -> {NoMember} \cup [complete : BOOLEAN, verified : BOOLEAN]]
      <3>1. DOMAIN member' = Member /\ member' = [m \in Member |-> member'[m]]
        BY <1>1
      <3>2. \A m \in Member :
                member'[m] \in {NoMember} \cup [complete : BOOLEAN, verified : BOOLEAN]
        BY <1>1, <1>5 DEF MigrationsTypeOK
      <3> QED  BY <3>1, <3>2
    <2>2. db' \in Database
      BY <1>1, <1>3 DEF MigrationsTypeOK, Database
    <2> QED  BY <1>1, <2>1, <2>2 DEF MigrationsTypeOK, Nothing
  <1>7. \A q \in Server : server'[q] = "ready" => 1..Supports[q] \subseteq db'.ledger
    BY <1>1, <1>2, <1>3, <1>4 DEF MigrationsInvariant, MigrationsTypeOK
  <1>8. \A m \in Member : member'[m] # NoMember =>
            ~(member'[m].complete /\ member'[m].verified)
            /\ (member'[m].complete => Complete(db'))
    <2>1. Complete(db) => Complete(db')
      BY <1>2, <1>3 DEF Complete
    <2>2. \A m \in Member : member[m] # NoMember =>
              ~(member[m].complete /\ member[m].verified)
              /\ (member[m].complete => Complete(db))
      BY <1>1 DEF MigrationsInvariant
    <2> QED  BY <1>5, <2>1, <2>2
  <1>9. Applied(db)' /\ TransactionInPlace'
    BY <1>1, <1>2, <1>3 DEF Applied, TransactionInPlace
  <1> QED  BY <1>3, <1>4, <1>6, <1>7, <1>8, <1>9 DEF MigrationsInvariant, Complete

LEMMA CrashServerStep ==
    ASSUME MigrationsInvariant, NEW p \in Server, CrashServer(p) PROVE MigrationsInvariant'
  <1>1. /\ MigrationsInvariant /\ MigrationsTypeOK /\ TransactionInPlace
        /\ server' = [server EXCEPT ![p] = "starting"] /\ UNCHANGED <<db, member>>
        /\ (migrating' = NoServer /\ work' = Nothing) \/ UNCHANGED <<migrating, work>>
    BY DEF CrashServer, MigrationsInvariant
  <1>2. MigrationsTypeOK'
    BY <1>1 DEF MigrationsTypeOK, Nothing
  <1>3. TransactionInPlace'
    BY <1>1 DEF TransactionInPlace, Applied, Complete
  <1>4. \A q \in Server : server'[q] = "ready" => 1..Supports[q] \subseteq db.ledger
    BY <1>1 DEF MigrationsInvariant, MigrationsTypeOK
  <1> QED  BY <1>1, <1>2, <1>3, <1>4 DEF MigrationsInvariant, Applied, Complete

LEMMA MigrationsStep ==
    ASSUME MigrationsInvariant, [MigrationsNext]_migrationsVars
    PROVE  MigrationsInvariant'
  <1>1. CASE UNCHANGED migrationsVars
    BY <1>1 DEF migrationsVars, MigrationsInvariant, MigrationsTypeOK, TransactionInPlace,
       Applied, Complete
  <1> QED
    BY <1>1, SignUpStep, StartMigrationStep, ApplyMigrationStep, CommitMigrationStep,
       CrashServerStep DEF MigrationsNext

(* A process that serves has a database with every version it knows, a recorded *)
(* version has been applied, and no upgrade verifies an account that was left    *)
(* unverified on purpose: however many processes of whatever versions start and  *)
(* die, from every database there may be (Database::migrate, db/migrations.rs). *)
THEOREM MigrationsHold == MigrationsSpec => []MigrationsInvariant
  BY MigrationsStart, MigrationsStep, PTL DEF MigrationsSpec
=============================================================================

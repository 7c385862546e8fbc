------------------------------ MODULE MCContent ------------------------------
(* An instance of Pastes, Quotas, RateLimit and Stripping for TLC.  They share *)
(* no state, so nothing is lost when only one of them moves in a behaviour.    *)
EXTENDS Pastes, Quotas, RateLimit, Stripping, TLC

CONSTANTS ann, ada, p1, r1, r2, f1, f2, f3, s1, s2, login, upload

VARIABLE part
mcVars == <<part, pasteVars, quotaVars, limitVars, strippingVars>>

\* What one more file of one byte breaks: the bytes kept, uploaded in a day or in a
\* month for an account, the number of items for the anonymous.
SmallQuota == [o \in QuotasOwner |->
    IF o = Anonymous THEN [storage |-> 2, daily |-> 1, monthly |-> 1, items |-> 1]
                     ELSE [storage |-> 2, daily |-> 1, monthly |-> 2, items |-> 3]]

\* The rules of a public instance.
OpenRules == [create_paste |-> "anonymous", claim_anonymous_item |-> "authenticated",
              delete_own_item |-> "authenticated"]

\* Limits low enough to reach, one of which a window does not reach at once.
FewRequests == [a \in Action |-> IF a = login THEN 2 ELSE 1]

\* A login window shorter than the one for uploads, as in midden.example.toml, and one
\* that the job does not leave alone.
LongAndShort == [a \in Action |-> IF a = login THEN 3 ELSE 4]

\* Processes share no buckets, and keys no rows: in memory one process at a time has
\* any, and in the database one key.
SomeLimits == /\ Cardinality({p \in Process : buckets'[p] # {}}) <= 1
              /\ \A b, c \in rows' : b.key = c.key

Init == /\ part \in {"pastes", "quotas", "limits", "images"}
        /\ PastesInit /\ QuotasInit /\ LimitsInit /\ StrippingInit
        /\ (part # "limits" => ~shared) /\ (part # "images" => image.format = "png")
Next == \/ part = "pastes" /\ PastesNext
           /\ UNCHANGED <<part, quotaVars, limitVars, strippingVars>>
        \/ part = "quotas" /\ QuotasNext
           /\ UNCHANGED <<part, pasteVars, limitVars, strippingVars>>
        \/ part = "limits" /\ LimitsNext /\ SomeLimits
           /\ UNCHANGED <<part, pasteVars, quotaVars, strippingVars>>
        \/ part = "images" /\ StrippingNext
           /\ UNCHANGED <<part, pasteVars, quotaVars, limitVars>>
Spec == Init /\ [][Next]_mcVars

Symmetries == Permutations(File) \cup Permutations(Replica)
=============================================================================

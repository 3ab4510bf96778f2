---------------------------- MODULE ContentStore ----------------------------
(***************************************************************************)
(* gh.ContentStore: the read-through cache of file contents that every     *)
(* persona, tool call and validation step of a run shares.  Get holds the  *)
(* mutex for its lookup and for its commit but not for the fetch between   *)
(* them, so two members of a wave may fetch the same path@ref together.    *)
(***************************************************************************)
EXTENDS Integers, FiniteSets, FiniteSetsExt

CONSTANTS
    Reader,     \* goroutines that call Get
    Key,        \* path@ref pairs
    Size,       \* Size[k]: bytes of the file behind k
    Binary,     \* keys whose file has a NUL in its first bytes
    Absent,     \* keys with no file
    MaxFileBytes,
    MaxTotalContentBytes

ASSUME SizeAssumption ==
    /\ IsFiniteSet(Reader) /\ IsFiniteSet(Key)
    /\ Size \in [Key -> Nat]
    /\ MaxFileBytes \in Nat
    /\ MaxTotalContentBytes \in Nat

\* What a Get answers: the content, or one of its errors.
Failure == {"too large", "binary", "over total", "error"}
Answer  == {"data"} \cup Failure
None    == "none"

VARIABLES
    pc,         \* where each reader's Get is
    key,        \* the key of its current or last Get
    fetched,    \* what FileContent and the per-file checks gave it
    answer,     \* what its last Get returned
    cache,
    total

vars == <<pc, key, fetched, answer, cache, total>>

Init ==
    /\ pc = [r \in Reader |-> "idle"]
    /\ key = [r \in Reader |-> None]
    /\ fetched = [r \in Reader |-> None]
    /\ answer = [r \in Reader |-> None]
    /\ cache = [k \in Key |-> None]
    /\ total = 0

\* The lookup under the first lock.
Hit(r, k) ==
    /\ pc[r] = "idle"
    /\ cache[k] # None
    /\ key' = [key EXCEPT ![r] = k]
    /\ answer' = [answer EXCEPT ![r] = cache[k]]
    /\ UNCHANGED <<pc, fetched, cache, total>>

\* Mutants of Miss: failures are looked up again; every Get fetches.
MissUnlessData(r, k) ==
    /\ pc[r] = "idle"
    /\ cache[k] # "data"
    /\ key' = [key EXCEPT ![r] = k]
    /\ pc' = [pc EXCEPT ![r] = "fetch"]
    /\ UNCHANGED <<fetched, answer, cache, total>>

MissAlways(r, k) ==
    /\ pc[r] = "idle"
    /\ key' = [key EXCEPT ![r] = k]
    /\ pc' = [pc EXCEPT ![r] = "fetch"]
    /\ UNCHANGED <<fetched, answer, cache, total>>

Miss(r, k) ==
    /\ pc[r] = "idle"
    /\ cache[k] = None
    /\ key' = [key EXCEPT ![r] = k]
    /\ pc' = [pc EXCEPT ![r] = "fetch"]
    /\ UNCHANGED <<fetched, answer, cache, total>>

\* What a fetch that reaches the file finds.
Content(k) == IF k \in Absent              THEN "error"
              ELSE IF Size[k] > MaxFileBytes THEN "too large"
              ELSE IF k \in Binary          THEN "binary"
              ELSE "data"

\* FileContent may also fail for a reason of its own (network, rate limit).
Fetch(r) ==
    /\ pc[r] = "fetch"
    /\ \E result \in {Content(key[r]), "error"} :
          fetched' = [fetched EXCEPT ![r] = result]
    /\ pc' = [pc EXCEPT ![r] = "commit"]
    /\ UNCHANGED <<key, answer, cache, total>>

\* Mutant: the total is compared before the file at hand is added.
FitsBefore(k) == total =< MaxTotalContentBytes

Fits(k) == total + Size[k] =< MaxTotalContentBytes

\* The commit under the second lock: it does not look whether another reader
\* committed the key meanwhile.
Commit(r) ==
    LET k      == key[r]
        result == IF fetched[r] = "data" /\ ~Fits(k) THEN "over total" ELSE fetched[r]
    IN  /\ pc[r] = "commit"
        /\ total' = IF result = "data" THEN total + Size[k] ELSE total
        /\ cache' = [cache EXCEPT ![k] = result]
        /\ answer' = [answer EXCEPT ![r] = result]
        /\ pc' = [pc EXCEPT ![r] = "idle"]
        /\ fetched' = [fetched EXCEPT ![r] = None]
        /\ UNCHANGED key

Next ==
    \E r \in Reader :
        \/ \E k \in Key : Hit(r, k) \/ Miss(r, k)
        \/ Fetch(r)
        \/ Commit(r)

Spec == Init /\ [][Next]_vars

-----------------------------------------------------------------------------
TypeOK ==
    /\ pc \in [Reader -> {"idle", "fetch", "commit"}]
    /\ key \in [Reader -> Key \cup {None}]
    /\ \A r \in Reader : pc[r] # "idle" => key[r] \in Key
    /\ fetched \in [Reader -> Answer \cup {None}]
    /\ answer \in [Reader -> Answer \cup {None}]
    /\ cache \in [Key -> Answer \cup {None}]
    /\ total \in Nat

InFlight(k) == \E r \in Reader : pc[r] # "idle" /\ key[r] = k

\* Two Gets may overlap anywhere, and still the content accounted to the run
\* never exceeds the cap (MaxTotalContentBytes).
TotalBounded == total =< MaxTotalContentBytes

\* Once a key is cached and no Get of it is under way, its entry is settled:
\* no later Get fetches it again or sees another answer (the replay that the
\* comment on Get promises).
SettledForGood ==
    [][\A k \in Key :
          cache[k] # None /\ ~InFlight(k) =>
              cache'[k] = cache[k] /\ ~InFlight(k)']_vars

SizeOf(K) == MapThenSumSet(LAMBDA k : Size[k], K)

\* The cached content is paid for, and overlapping Gets pay for a key at most
\* once per reader: the over-count is bounded by the width of the wave.
PaidOncePerReader ==
    /\ SizeOf({k \in Key : cache[k] = "data"}) =< total
    /\ total =< Cardinality(Reader) *
                  SizeOf({k \in Key : cache[k] # None /\ Content(k) = "data"})
=============================================================================

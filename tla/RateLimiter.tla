----------------------------- MODULE RateLimiter -----------------------------
(***************************************************************************)
(* The sliding-window rate limiter (internal/balancer/limiter.go), shared  *)
(* by the per-key and the per-account limits.                              *)
(*                                                                         *)
(* A caller reads time.Now() and the limit first and takes the limiter's   *)
(* mutex later, so the times that Allow, Peek and Prune work with may      *)
(* arrive out of order.  They are late by less than Skew ticks (between    *)
(* the clock and the lock the request path does no I/O).  A hit is a token *)
(* from Hit; at[h] is the time it carries.                                 *)
(***************************************************************************)
EXTENDS Naturals, FiniteSets

CONSTANTS
  Bucket,   \* identifiers: a key id, or "account:" and an account id
  Caller,   \* goroutines
  Hit,      \* hits recorded over the run
  Limits,   \* limits a key or an account may have; 0 is no limit
  Window,   \* one minute
  Skew,     \* how late a caller's clock reading may be
  Horizon,  \* the clock stops here
  None

ASSUME LimiterAssumption ==
  /\ IsFiniteSet(Hit)
  /\ Limits \subseteq Nat
  /\ Window \in Nat \ {0} /\ Skew \in Nat /\ Skew <= Window
  /\ Horizon \in Nat
  /\ None \notin Hit

VARIABLES
  clock,    \* real time
  kept,     \* RateLimiter.buckets, as the set of hits per bucket
  at,       \* the time each recorded hit carries
  used,     \* hits recorded so far, with the bucket each was recorded in
  call      \* what each caller is about to ask for

vars == <<clock, kept, at, used, call>>

NoCall == [op |-> "none", bucket |-> None, limit |-> 0, now |-> 0]

TypeOK ==
  /\ clock \in Nat
  /\ used \in [Bucket -> SUBSET Hit]
  /\ kept \in [Bucket -> SUBSET Hit]
  /\ \A b \in Bucket : kept[b] \subseteq used[b]
  /\ at \in [Hit -> Nat]
  /\ call \in [Caller -> [op : {"none", "allow", "peek", "prune"},
                          bucket : Bucket \cup {None}, limit : Limits \cup {0}, now : Nat]]
  /\ \A c \in Caller : call[c].op \in {"allow", "peek"} => call[c].bucket \in Bucket

Unused == Hit \ UNION {used[b] : b \in Bucket}

\* hit.After(now.Add(-time.Minute))
Recent(hits, now) == {h \in hits : at[h] + Window > now}

----------------------------------------------------------------------------

\* A caller reads the limit and the clock.
Begin(c, op, b, limit) ==
  /\ call[c].op = "none"
  /\ call' = [call EXCEPT ![c] = [op |-> op, bucket |-> b, limit |-> limit, now |-> clock]]
  /\ UNCHANGED <<clock, kept, at, used>>

Done(c) == call' = [call EXCEPT ![c] = NoCall]

\* decide with no limit: nothing is looked at and nothing is recorded.
Unlimited(c) ==
  /\ call[c].op \in {"allow", "peek"} /\ call[c].limit = 0
  /\ Done(c)
  /\ UNCHANGED <<clock, kept, at, used>>

\* Faulty variant: the limit is exceeded by one.
GrantOneMore(c, h) ==
  LET b == call[c].bucket
      recent == Recent(kept[b], call[c].now)
  IN  /\ call[c].op = "allow" /\ call[c].limit > 0
      /\ Cardinality(recent) <= call[c].limit
      /\ h \in Unused
      /\ kept' = [kept EXCEPT ![b] = recent \cup {h}]
      /\ at' = [at EXCEPT ![h] = call[c].now]
      /\ used' = [used EXCEPT ![b] = @ \cup {h}]
      /\ Done(c)
      /\ UNCHANGED clock

\* decide, record = true, below the limit: the hit carries the caller's time.
Grant(c, h) ==
  LET b == call[c].bucket
      recent == Recent(kept[b], call[c].now)
  IN  /\ call[c].op = "allow" /\ call[c].limit > 0
      /\ Cardinality(recent) < call[c].limit
      /\ h \in Unused
      /\ kept' = [kept EXCEPT ![b] = recent \cup {h}]
      /\ at' = [at EXCEPT ![h] = call[c].now]
      /\ used' = [used EXCEPT ![b] = @ \cup {h}]
      /\ Done(c)
      /\ UNCHANGED clock

\* Faulty variant: probing an account costs it a hit.
PeekRecords(c) ==
  LET b == call[c].bucket
      recent == Recent(kept[b], call[c].now)
  IN  /\ call[c].op \in {"allow", "peek"} /\ call[c].limit > 0
      /\ call[c].op = "peek" \/ Cardinality(recent) >= call[c].limit
      /\ kept' = [kept EXCEPT ![b] = recent \cup
                    IF Cardinality(recent) < call[c].limit /\ Unused # {}
                    THEN {CHOOSE h \in Unused : TRUE} ELSE {}]
      /\ at' = [h \in Hit |-> IF h \in kept'[b] \ recent THEN call[c].now ELSE at[h]]
      /\ Done(c)
      /\ UNCHANGED <<clock, used>>

\* decide at the limit, or record = false: the bucket is only trimmed.
Trim(c) ==
  LET b == call[c].bucket
      recent == Recent(kept[b], call[c].now)
  IN  /\ call[c].op \in {"allow", "peek"} /\ call[c].limit > 0
      /\ call[c].op = "peek" \/ Cardinality(recent) >= call[c].limit
      /\ kept' = [kept EXCEPT ![b] = recent]
      /\ Done(c)
      /\ UNCHANGED <<clock, at, used>>

\* Faulty variant: whole buckets are dropped.
PruneAll(c) ==
  /\ call[c].op = "prune"
  /\ kept' = [b \in Bucket |-> {}]
  /\ Done(c)
  /\ UNCHANGED <<clock, at, used>>

\* Prune, called by the maintenance loop.
Prune(c) ==
  /\ call[c].op = "prune"
  /\ kept' = [b \in Bucket |-> Recent(kept[b], call[c].now)]
  /\ Done(c)
  /\ UNCHANGED <<clock, at, used>>

\* Time passes, but no reading of it grows older than Skew.  A tick that waits
\* in the maintenance loop's channel may.
Tick ==
  /\ clock < Horizon
  /\ \A c \in Caller : call[c].op \in {"allow", "peek"} => clock < call[c].now + Skew
  /\ clock' = clock + 1
  /\ UNCHANGED <<kept, at, used, call>>

Init ==
  /\ clock = 0
  /\ kept = [b \in Bucket |-> {}]
  /\ at = [h \in Hit |-> 0]
  /\ used = [b \in Bucket |-> {}]
  /\ call = [c \in Caller |-> NoCall]

Next ==
  \/ \E c \in Caller, op \in {"allow", "peek"}, b \in Bucket, limit \in Limits :
       Begin(c, op, b, limit)
  \/ \E c \in Caller : Begin(c, "prune", None, 0)
  \/ \E c \in Caller, h \in Hit : Grant(c, h)
  \/ \E c \in Caller : Unlimited(c) \/ Trim(c) \/ Prune(c)
  \/ Tick

Spec == Init /\ [][Next]_vars

----------------------------------------------------------------------------
(* Properties *)

(* Trimming loses nothing that still counts: whatever the order in which late
   readings of the clock reach the limiter, a hit less than a minute old is in
   its bucket (decide and Prune overwrite the bucket). *)
RecentHitsAreKept == \A b \in Bucket : Recent(used[b], clock) \subseteq kept[b]

(* A call is let through only when fewer than its limit were let through in the
   minute before it, a minute shortened by how late clock readings may be. *)
GrantJustified ==
  [][\A c \in Caller, b \in Bucket : \A h \in used'[b] \ used[b] :
       call'[c] # call[c] =>
         Cardinality({g \in used[b] : at[g] + Window > call[c].now + Skew}) < call[c].limit]_vars

(* A call is turned away only when as many calls as its limit were let through
   in its minute: probes (Peek) and other buckets cost it nothing. *)
DenialJustified ==
  [][\A c \in Caller :
       LET b == call[c].bucket
       IN  call[c].op = "allow" /\ call'[c] # call[c] /\ call[c].limit > 0 =>
             \/ used'[b] # used[b]
             \/ Cardinality(Recent(used[b], call[c].now)) >= call[c].limit]_vars
=============================================================================
